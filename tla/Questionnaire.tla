--------------------------- MODULE Questionnaire ----------------------------
(***************************************************************************)
(* What the surveys promise: the survey of an announcement comes to be     *)
(* with a whole list of questions or none, has its list replaced at once,  *)
(* and is deleted together with it, once and for all.  Requests that cross *)
(* may break this; the survey is then spoilt, and nothing is promised of   *)
(* it any more.                                                            *)
(***************************************************************************)
CONSTANTS
    Post,         \* announcements
    List,         \* lists of questions
    Place         \* the places of a list

VARIABLES
    status,       \* status[p]: whether the announcement has a survey
    sheet,        \* sheet[p]: the questions that are put
    spoilt        \* the surveys that crossing requests spoilt

qvars == <<status, sheet, spoilt>>

(* No question, or all those of a list that is put nowhere. *)
Sheets ==
    {{}} \cup {{b} \X Place :
                 b \in {a \in List : \A p \in Post : \A q \in sheet[p] : q[1] # a}}

QInit ==
    /\ status = [p \in Post |-> "absent"]
    /\ sheet = [p \in Post |-> {}]
    /\ spoilt = {}

Issue(p) ==
    /\ status[p] = "absent"
    /\ status' = [status EXCEPT ![p] = "live"]
    /\ \E s \in Sheets : sheet' = [sheet EXCEPT ![p] = s]

Replace(p) ==
    /\ status[p] = "live"
    /\ \E s \in Sheets : sheet' = [sheet EXCEPT ![p] = s]
    /\ UNCHANGED status

Withdraw(p) ==
    /\ status[p] = "live"
    /\ status' = [status EXCEPT ![p] = "deleted"]
    /\ sheet' = [sheet EXCEPT ![p] = {}]

(* A spoilt survey does what it likes, the others take no notice. *)
Spoil(p) ==
    /\ spoilt' = spoilt \cup {p}
    /\ \E s \in {"absent", "live", "deleted"} : status' = [status EXCEPT ![p] = s]
    /\ \E s \in SUBSET (List \X Place) : sheet' = [sheet EXCEPT ![p] = s]

QNext ==
    \E p \in Post :
      \/ (Issue(p) \/ Replace(p) \/ Withdraw(p)) /\ UNCHANGED spoilt
      \/ Spoil(p)

QSpec == QInit /\ [][QNext]_qvars
=============================================================================
