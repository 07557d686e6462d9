---------------------------- MODULE Announcement ----------------------------
(***************************************************************************)
(* The announcement table and the requests that write it                   *)
(* (src/src/domain/core/announcement/announcement.service.ts and           *)
(* src/src/business/announcement-business/announcement-business.service.ts).*)
(*                                                                         *)
(* Every request except the permission replacement and the batch reorder   *)
(* is read-check-write: it loads an entity, checks it, and later saves the *)
(* whole entity.  Other requests run between the two steps.  Saving writes *)
(* every column of the loaded entity that differs from the stored row, the *)
(* deletedAt column included: nothing compares the version column.         *)
(***************************************************************************)
EXTENDS Naturals, Sequences, Functions

CONSTANTS
    Item,         \* identifiers of announcements
    Dept,         \* SSO departments a permission list may name
    Text,         \* contents: title, content, attachments, mustRead
    Complete,     \* the contents 공개_전환_가능_여부를_검증한다 accepts
    Place,        \* display position: order and isFixed
    Editor,       \* requests that may be in flight at once
    MaxDepts,     \* bound: length of a permission list a request sends
    MaxNow        \* bound: last instant of the clock

ASSUME CompleteAssumption == Complete \subseteq Text
ASSUME BoundsAssumption == MaxDepts \in Nat /\ MaxNow \in Nat

VARIABLES
    row,          \* row[i]: the announcements table
    now,          \* the clock that releasedAt is compared with
    request       \* request[e]: what request e holds in memory

avars == <<row, now, request>>

(* Permission lists a request may send. *)
DeptLists == UNION {[1..n -> Dept] : n \in 0..MaxDepts}

(* releasedAt is an instant; 0 stands for null and for the past. *)
Row == [status : {"live", "deleted"}, public : BOOLEAN, releasedAt : 0..MaxNow,
        text : Text, depts : Seq(Dept), place : Place]
Absent == [status |-> "absent"]

Op == {"edit", "publish", "hide", "place", "delete"}
Idle == [op |-> "idle"]
Request == [op : Op, item : Item, copy : Row, at : 0..MaxNow]

Live == {i \in Item : row[i].status = "live"}

(* is현재_공개_상태: public, and not waiting for a release in the future. *)
Published(r, t) == r.public /\ ~ (r.releasedAt > t)

(* Faulty variant: the update forgets its check. *)
AcceptsAnyEdit(op, r, t) ==
    CASE op = "delete"  -> ~ r.public
      [] op = "publish" -> r.public \/ r.text \in Complete
      [] OTHER          -> TRUE

(* The check each operation makes, at time t, on the entity just loaded. *)
Accepts(op, r, t) ==
    CASE op = "edit"    -> ~ Published(r, t)
      [] op = "delete"  -> ~ r.public
      [] op = "publish" -> r.public \/ r.text \in Complete
      [] OTHER          -> TRUE

(***************************************************************************)
(* Replacing a department: each mapping rewrites the first position that   *)
(* holds its old identifier, in the list the previous mapping left.        *)
(***************************************************************************)
Mapping == [old : Dept, new : Dept]
Mappings == {<<m>> : m \in Mapping} \cup (Mapping \X Mapping)

First(s, d, k) == s[k] = d /\ \A j \in 1..(k - 1) : s[j] # d
MapOne(s, m) == [k \in 1..Len(s) |-> IF First(s, m.old, k) THEN m.new ELSE s[k]]
MapAll(s, ms) == IF Len(ms) = 1 THEN MapOne(s, ms[1])
                                ELSE MapOne(MapOne(s, ms[1]), ms[2])
-----------------------------------------------------------------------------
(* Rows a create request can produce: nothing is checked, even if public. *)
Created == {[status |-> "live", public |-> p, releasedAt |-> w, text |-> t,
             depts |-> d, place |-> x] :
               p \in BOOLEAN, w \in 0..MaxNow, t \in Text, d \in DeptLists, x \in Place}

(* The process starts on a database that may already hold announcements. *)
AInit ==
    /\ row \in [Item -> {Absent} \cup Created]
    /\ now = 0
    /\ request = [e \in Editor |-> Idle]

Create(i) ==
    /\ row[i] = Absent
    /\ \E r \in Created : row' = [row EXCEPT ![i] = r]
    /\ UNCHANGED <<now, request>>

(* Faulty variant: a row that was not found is not refused. *)
LoadUnfound(e, op, i) ==
    /\ request[e] = Idle
    /\ row[i].status = "live" => Accepts(op, row[i], now)
    /\ request' = [request EXCEPT ![e] = [op |-> op, item |-> i, copy |-> row[i], at |-> now]]
    /\ UNCHANGED <<row, now>>

(* Load and check; a request refused here changes nothing. *)
Load(e, op, i) ==
    /\ request[e] = Idle
    /\ i \in Live
    /\ Accepts(op, row[i], now)
    /\ request' = [request EXCEPT ![e] = [op |-> op, item |-> i, copy |-> row[i], at |-> now]]
    /\ UNCHANGED <<row, now>>

Finish(e) == request' = [request EXCEPT ![e] = Idle]

(* Repository.save of the loaded entity: the whole row, live again. *)
Store(e, r) == row' = [row EXCEPT ![request[e].item] = r]

(* A list the request does not send stays the one of the loaded copy. *)
SaveEdit(e) ==
    /\ request[e].op = "edit"
    /\ LET q == request[e] IN
       \E t \in Text, w \in 0..MaxNow, d \in DeptLists \cup {q.copy.depts} :
          Store(e, [q.copy EXCEPT !.text = t, !.releasedAt = w, !.depts = d])
    /\ Finish(e)
    /\ UNCHANGED now

SavePublic(e) ==
    /\ request[e].op \in {"publish", "hide"}
    /\ Store(e, [request[e].copy EXCEPT !.public = (request[e].op = "publish")])
    /\ Finish(e)
    /\ UNCHANGED now

SavePlace(e) ==
    /\ request[e].op = "place"
    /\ \E p \in Place : Store(e, [request[e].copy EXCEPT !.place = p])
    /\ Finish(e)
    /\ UNCHANGED now

(* softRemove writes deletedAt and leaves the other columns alone. *)
SoftRemove(e) ==
    /\ request[e].op = "delete"
    /\ row' = [row EXCEPT ![request[e].item].status = "deleted"]
    /\ Finish(e)
    /\ UNCHANGED now

(* One transaction: refuse unless every row exists, then UPDATE each order. *)
BatchPlace ==
    /\ \E S \in SUBSET Live :
         /\ S # {}
         /\ \E f \in [S -> Place] :
              row' = [i \in Item |-> IF i \in S THEN [row[i] EXCEPT !.place = f[i]] ELSE row[i]]
    /\ UNCHANGED <<now, request>>

(* One transaction under SELECT ... FOR UPDATE; no check of isPublic. *)
Replace(i, ms) ==
    /\ i \in Live
    /\ row' = [row EXCEPT ![i].depts = MapAll(@, ms)]
    /\ UNCHANGED <<now, request>>

Tick ==
    /\ now < MaxNow
    /\ now' = now + 1
    /\ UNCHANGED <<row, request>>

(* The process stops: every request in flight is lost. *)
Restart ==
    /\ request' = [e \in Editor |-> Idle]
    /\ UNCHANGED <<row, now>>

Save(e) == SaveEdit(e) \/ SavePublic(e) \/ SavePlace(e) \/ SoftRemove(e)

EditNext ==
    \/ \E i \in Item : Create(i)
    \/ \E e \in Editor, op \in Op, i \in Item : Load(e, op, i)
    \/ \E e \in Editor : Save(e)
    \/ BatchPlace
    \/ Tick

ReplaceNext == \E i \in Item, ms \in Mappings : Replace(i, ms)

ANext == EditNext \/ ReplaceNext \/ Restart

ASpec == AInit /\ [][ANext]_avars
-----------------------------------------------------------------------------
(* The shape of the table and of the entities requests hold in memory: a   *)
(* request only ever holds a row that was live when it was loaded.         *)
ATypeOK ==
    /\ row \in [Item -> Row \cup {Absent}]
    /\ now \in 0..MaxNow
    /\ request \in [Editor -> {Idle} \cup Request]

(* The row changed, or the clock moved, since request e was checked. *)
Stale(e) == request[e].copy # row[request[e].item] \/ request[e].at # now

Finishes(e) == request[e] # Idle /\ request'[e] = Idle

(***************************************************************************)
(* What the guards of the service promise about a step from r to s: a      *)
(* deleted announcement is not touched, a public one is not deleted, a     *)
(* published one keeps its contents and release date and changes its       *)
(* departments only one for one, and publishing needs complete contents.   *)
(***************************************************************************)
PolicyAllows(r, s) ==
    /\ r.status # "deleted"
    /\ r.status = "live" =>
         /\ s.status = "deleted" => ~ r.public
         /\ Published(r, now) => /\ s.text = r.text
                                 /\ s.releasedAt = r.releasedAt
                                 /\ Len(s.depts) = Len(r.depts)
         /\ s.public /\ ~ r.public => s.text \in Complete

(* A request whose row nobody else wrote between its check and its save    *)
(* keeps the publication policy: 수정_가능_여부를_검증한다,                  *)
(* 삭제_가능_여부를_검증한다 and 공개_전환_가능_여부를_검증한다 suffice      *)
(* exactly when the loaded copy is still current.                          *)
FreshSavesKeepPolicy ==
    [][\A i \in Item :
         (row'[i] # row[i] /\ \A e \in Editor : Finishes(e) => ~ Stale(e))
            => PolicyAllows(row[i], row'[i])]_avars
=============================================================================
