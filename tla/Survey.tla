------------------------------- MODULE Survey -------------------------------
(***************************************************************************)
(* Surveys and their questions                                             *)
(* (src/src/domain/sub/survey/survey.service.ts) and the requests of the   *)
(* announcements that create, edit and delete them                         *)
(* (src/src/business/announcement-business/announcement-business.service.  *)
(* ts).                                                                    *)
(*                                                                         *)
(* A survey is updated in one transaction that saves its row, deletes all  *)
(* its questions and inserts others.  PostgreSQL runs it at READ COMMITTED:*)
(* each statement sees what is committed when it starts, waits for rows    *)
(* that others have locked, and skips the ones that are gone by then.      *)
(***************************************************************************)
EXTENDS FiniteSets, Naturals

CONSTANTS
    Post,         \* announcements
    Editor,       \* requests that may be in flight at once
    List,         \* lists of questions that requests send, one each: a bound
    Place,        \* the order and title of a question in its list
    Title,        \* what else a survey says: title, description, dates, order
    MaxAnswers    \* bound on the answers that employees give

VARIABLES
    post,         \* post[p]: whether the announcement is there
    survey,       \* survey[p]: the survey of the announcement
    question,     \* the table of questions
    answer,       \* the questions employees have answered
    request,      \* request[e]: what request e holds in memory
    promised,     \* history: announcements created with a survey, no failure
    overlapping,  \* history: surveys that two updates replaced at once
    crossed,      \* history: surveys updated while being deleted
    lone          \* history: updates no other commit on their survey crossed

tables == <<post, survey, question, answer>>
history == <<promised, overlapping, crossed, lone>>
vars == <<tables, request, history>>

Status == {"live", "deleted"}
Absent == [status |-> "absent"]
SurveyRow == [status : Status, title : Title]
Question == [list : List, place : Place, post : Post, live : BOOLEAN]
Id(q) == <<q.list, q.place>>

(* asks is what the request wants: the questions kept, replaced by none or *)
(* by its own list, or the survey dropped.  at is the place of the request *)
(* in the code, changes the columns its save writes, held the questions it *)
(* has loaded or deletes.                                                  *)
Asks == {"keep", "none", "own", "drop"}
At == {"find", "insert", "loadUpdate", "save", "write", "scan", "delete",
       "commit", "loadRemove", "check", "remove"}
Idle == [at |-> "idle"]
Request == [at : At, post : Post, list : List, asks : Asks, title : Title,
            changes : SUBSET {"title", "status"}, held : SUBSET (List \X Place)]

Updating == {"save", "write", "scan", "delete", "commit"}
Removing == {"check", "remove"}
Busy(e, p, where) == request[e].at \in where /\ request[e].post = p
Live(p) == survey[p].status = "live"
QuestionsOf(p) == {q \in question : q.post = p}
LiveQuestions(p) == {q \in QuestionsOf(p) : q.live}
OwnQuestions(q) ==
    IF q.asks = "own"
    THEN {[list |-> q.list, place |-> n, post |-> q.post, live |-> TRUE] : n \in Place}
    ELSE {}
-----------------------------------------------------------------------------
Init ==
    /\ post = [p \in Post |-> "absent"]
    /\ survey = [p \in Post |-> Absent]
    /\ question = {}
    /\ answer = {}
    /\ request = [e \in Editor |-> Idle]
    /\ promised = {}
    /\ overlapping = {}
    /\ crossed = {}
    /\ lone = {}

(* A list is sent once: its questions are in no table and no request knows *)
(* them, as the ids of new questions are new.                              *)
Unsent(b) ==
    /\ \A q \in question : q.list # b
    /\ \A q \in answer : q.list # b
    /\ \A e \in Editor : request[e] # Idle =>
         request[e].list # b /\ \A n \in Place : <<b, n>> \notin request[e].held

Starts(e, p, b, asks, t, at) ==
    /\ request[e] = Idle
    /\ Unsent(b)
    /\ request' = [request EXCEPT ![e] =
         [at |-> at, post |-> p, list |-> b, asks |-> asks, title |-> t,
          changes |-> {}, held |-> {}]]

Goes(e, at) == request' = [request EXCEPT ![e].at = at]
End(e) == request' = [request EXCEPT ![e] = Idle]

(* 공지사항을_생성한다: the announcement, then the survey it came with. *)
CreatePost(p) ==
    /\ post[p] = "absent"
    /\ post' = [post EXCEPT ![p] = "live"]
    /\ UNCHANGED <<survey, question, answer, request, history>>

CreatePostWithSurvey(e, p, b, asks, t) ==
    /\ post[p] = "absent"
    /\ asks # "drop"
    /\ post' = [post EXCEPT ![p] = "live"]
    /\ Starts(e, p, b, asks, t, "insert")
    /\ promised' = promised \cup {p}
    /\ UNCHANGED <<survey, question, answer, overlapping, crossed, lone>>

(* 공지사항을_삭제한다: the survey stays. *)
RemovePost(p) ==
    /\ post[p] = "live"
    /\ post' = [post EXCEPT ![p] = "deleted"]
    /\ UNCHANGED <<survey, question, answer, request, history>>

(* 공지사항을_수정한다 has edited the announcement and turns to the survey. *)
EditPost(e, p, b, asks, t) ==
    /\ post[p] = "live"
    /\ Starts(e, p, b, asks, t, "find")
    /\ UNCHANGED <<tables, history>>

(* The endpoints of the surveys: they name a survey or an announcement. *)
EditSurvey(e, p, b, asks, t) ==
    /\ \/ /\ post[p] # "absent"
          /\ asks # "drop"
          /\ Starts(e, p, b, asks, t, "insert")
       \/ /\ survey[p] # Absent
          /\ Starts(e, p, b, asks, t,
                    IF asks = "drop" THEN "loadRemove" ELSE "loadUpdate")
    /\ UNCHANGED <<tables, history>>

(* The announcement's survey, if it has a live one, decides what follows. *)
FindSurvey(e) ==
    /\ request[e].at = "find"
    /\ LET q == request[e] IN
       IF q.asks = "drop"
       THEN IF Live(q.post) THEN Goes(e, "loadRemove") ELSE End(e)
       ELSE Goes(e, IF Live(q.post) THEN "loadUpdate" ELSE "insert")
    /\ UNCHANGED <<tables, history>>

(* Faulty variant: a survey must come with questions. *)
CreateWithQuestions(e) ==
    /\ request[e].at = "insert"
    /\ LET q == request[e] IN
       IF survey[q.post] = Absent /\ q.asks = "own"
       THEN /\ survey' = [survey EXCEPT ![q.post] = [status |-> "live", title |-> q.title]]
            /\ question' = question \cup OwnQuestions(q)
       ELSE UNCHANGED <<survey, question>>
    /\ End(e)
    /\ UNCHANGED <<post, answer, history>>

(* 설문조사를_생성한다, one transaction.  The index on announcementId      *)
(* refuses a second survey, also when the first one is deleted.            *)
Create(e) ==
    /\ request[e].at = "insert"
    /\ LET q == request[e] IN
       IF survey[q.post] = Absent
       THEN /\ survey' = [survey EXCEPT ![q.post] = [status |-> "live", title |-> q.title]]
            /\ question' = question \cup OwnQuestions(q)
       ELSE UNCHANGED <<survey, question>>
    /\ End(e)
    /\ UNCHANGED <<post, answer, history>>

(* Faulty variant: a deleted survey is found as well. *)
LoadAnyUpdate(e) ==
    /\ request[e].at = "loadUpdate"
    /\ Goes(e, "save")
    /\ UNCHANGED <<tables, history>>

(* 설문조사를_업데이트한다: only a live survey is found. *)
LoadUpdate(e) ==
    /\ request[e].at = "loadUpdate"
    /\ IF Live(request[e].post) THEN Goes(e, "save") ELSE End(e)
    /\ UNCHANGED <<tables, history>>

Replacing(q) == IF q.asks = "keep" THEN "commit" ELSE "scan"

(* Repository.save reads the row again and writes the columns that differ. *)
CompareSurvey(e) ==
    /\ request[e].at = "save"
    /\ LET q == request[e]
           changes == {c \in {"title"} : survey[q.post].title # q.title}
                        \cup {c \in {"status"} : ~ Live(q.post)}
       IN request' = [request EXCEPT
            ![e].changes = changes,
            ![e].at = IF changes = {} THEN Replacing(q) ELSE "write"]
    /\ lone' = lone \cup {e}
    /\ UNCHANGED <<tables, promised, overlapping, crossed>>

(* Whether an update in progress has the row of the survey locked. *)
Locked(p) ==
    \E f \in Editor : /\ Busy(f, p, {"scan", "delete", "commit"})
                      /\ request[f].changes # {}

WriteSurvey(e) ==
    /\ request[e].at = "write"
    /\ ~ Locked(request[e].post)
    /\ Goes(e, Replacing(request[e]))
    /\ UNCHANGED <<tables, history>>
-----------------------------------------------------------------------------
(* The deletion of all questions of the survey, seen as they are now. *)
ScanQuestions(e) ==
    /\ request[e].at = "scan"
    /\ LET p == request[e].post IN
       /\ request' = [request EXCEPT ![e].held = {Id(q) : q \in QuestionsOf(p)},
                                     ![e].at = "delete"]
       /\ overlapping' = overlapping \cup
            {r \in {p} : \E f \in Editor \ {e} :
                 /\ Busy(f, r, {"delete", "commit"})
                 /\ request[f].asks # "keep"}
    /\ UNCHANGED <<tables, promised, crossed, lone>>

(* History: the updates that a commit on the survey does not cross. *)
Uncrossed(p) == {f \in lone : request[f].post # p}

(* Whether another transaction is deleting one of the questions. *)
BeingDeleted(e) ==
    \E f \in Editor \ {e} : /\ request[f].at = "commit"
                            /\ request[f].held \cap request[e].held # {}

(* Faulty variant: nothing is deleted. *)
DeleteNoQuestion(e) ==
    /\ request[e].at = "delete"
    /\ request' = [request EXCEPT ![e].held = {}, ![e].at = "commit"]
    /\ UNCHANGED <<tables, history>>

DeleteQuestions(e) ==
    /\ request[e].at = "delete"
    /\ ~ BeingDeleted(e)
    /\ request' = [request EXCEPT ![e].held = @ \cap {Id(q) : q \in question},
                                  ![e].at = "commit"]
    /\ UNCHANGED <<tables, history>>

(* What the transaction has written becomes visible. *)
Committed(e, inserted) ==
    /\ request[e].at = "commit"
    /\ LET q == request[e] IN
       /\ survey' = [survey EXCEPT ![q.post] =
            [status |-> IF "status" \in q.changes THEN "live" ELSE @.status,
             title |-> IF "title" \in q.changes THEN q.title ELSE @.title]]
       /\ question' = {r \in question : Id(r) \notin q.held} \cup inserted
       /\ crossed' = crossed \cup
            {p \in {q.post} : \E f \in Editor : Busy(f, p, Removing)}
       /\ lone' = Uncrossed(q.post)
    /\ End(e)
    /\ UNCHANGED <<post, answer, promised, overlapping>>

(* Faulty variant: some of the insertions fail and are left out. *)
CommitSome(e) ==
    /\ request[e].at = "commit"
    /\ \E inserted \in SUBSET OwnQuestions(request[e]) : Committed(e, inserted)

(* The own questions are inserted, and the transaction is committed. *)
Commit(e) == Committed(e, OwnQuestions(request[e]))

(* 설문조사를_삭제한다: the survey is loaded with its questions. *)
LoadRemove(e) ==
    /\ request[e].at = "loadRemove"
    /\ LET p == request[e].post IN
       IF Live(p)
       THEN request' = [request EXCEPT ![e].held = {Id(q) : q \in LiveQuestions(p)},
                                       ![e].at = "check"]
       ELSE End(e)
    /\ UNCHANGED <<tables, history>>

(* Questions added since then look orphaned: their surveyId cannot be null *)
(* and the removal fails.                                                  *)
CheckRemove(e) ==
    /\ request[e].at = "check"
    /\ IF \E q \in LiveQuestions(request[e].post) : Id(q) \notin request[e].held
       THEN End(e)
       ELSE Goes(e, "remove")
    /\ UNCHANGED <<tables, history>>

(* The row of the survey and the questions after a removal. *)
Removed(e, row, questions) ==
    /\ request[e].at = "remove"
    /\ ~ Locked(request[e].post)
    /\ ~ BeingDeleted(e)
    /\ survey' = [survey EXCEPT ![request[e].post] = row]
    /\ question' = questions
    /\ crossed' = crossed \cup
         {p \in {request[e].post} : \E f \in Editor : Busy(f, p, Updating)}
    /\ lone' = Uncrossed(request[e].post)
    /\ End(e)
    /\ UNCHANGED <<post, answer, promised, overlapping>>

SoftRemoved(e) == [survey[request[e].post] EXCEPT !.status = "deleted"]

(* Faulty variant: the row of the survey is deleted, and nothing else. *)
RemoveRow(e) == Removed(e, Absent, question)

(* Faulty variant: the questions are not removed with their survey. *)
RemoveSurveyOnly(e) == Removed(e, SoftRemoved(e), question)

(* softRemove: the survey and the questions it was loaded with. *)
RemoveSurvey(e) ==
    Removed(e, SoftRemoved(e),
            {IF Id(q) \in request[e].held THEN [q EXCEPT !.live = FALSE] ELSE q :
               q \in question})

(* A request ends early and its transaction is rolled back. *)
Fail(e) ==
    /\ request[e] # Idle
    /\ promised' = promised \ {request[e].post}
    /\ lone' = lone \ {e}
    /\ End(e)
    /\ UNCHANGED <<tables, overlapping, crossed>>

(* An employee answers a question of a live survey. *)
Answer(q) ==
    /\ q.live
    /\ Live(q.post)
    /\ Cardinality(answer) < MaxAnswers
    /\ answer' = answer \cup {[list |-> q.list, place |-> q.place, post |-> q.post]}
    /\ UNCHANGED <<post, survey, question, request, history>>

(* The answers the statistics of a post go by: those to the questions of   *)
(* its live survey, by their identifiers.                                  *)
Statistics(p) ==
    {a \in answer : Live(p) /\ \E q \in LiveQuestions(p) : Id(q) = Id(a)}

Next ==
    \/ \E p \in Post : CreatePost(p) \/ RemovePost(p)
    \/ \E e \in Editor, p \in Post, b \in List, asks \in Asks, t \in Title :
         \/ CreatePostWithSurvey(e, p, b, asks, t)
         \/ EditPost(e, p, b, asks, t)
         \/ EditSurvey(e, p, b, asks, t)
    \/ \E e \in Editor :
         \/ FindSurvey(e) \/ Create(e)
         \/ LoadUpdate(e) \/ CompareSurvey(e) \/ WriteSurvey(e)
         \/ ScanQuestions(e) \/ DeleteQuestions(e) \/ Commit(e)
         \/ LoadRemove(e) \/ CheckRemove(e) \/ RemoveSurvey(e)
         \/ Fail(e)
    \/ \E q \in question : Answer(q)

Spec == Init /\ [][Next]_vars
-----------------------------------------------------------------------------
(* The shape of the tables, foreign keys included: a survey has an         *)
(* announcement, a question and an update a survey.                        *)
ShapeOK ==
    /\ post \in [Post -> {"absent"} \cup Status]
    /\ survey \in [Post -> SurveyRow \cup {Absent}]
    /\ question \subseteq Question
    /\ answer \subseteq [list : List, place : Place, post : Post]
    /\ request \in [Editor -> {Idle} \cup Request]
    /\ promised \subseteq Post /\ overlapping \subseteq Post /\ crossed \subseteq Post
    /\ \A p \in Post : survey[p] # Absent => post[p] # "absent"
    /\ \A q \in question : survey[q.post] # Absent

(* The tables and what requests hold keep their shape, and the updates     *)
(* that are not crossed are in progress.                                   *)
TypeOK ==
    /\ ShapeOK
    /\ lone \subseteq {e \in Editor : request[e].at \in Updating}

(* A list of questions is in the table as a whole or not at all, and live  *)
(* as a whole or not at all, whatever crosses: 설문조사를_업데이트한다     *)
(* replaces it in one transaction.                                         *)
WholeLists ==
    \A q \in question : \A n \in Place :
        [q EXCEPT !.place = n] \in question

(* The questions of a live survey are one list that somebody sent, unless  *)
(* two updates deleted the old questions at the same time, each without    *)
(* seeing the new ones of the other.                                       *)
OneListUnlessOverlapping ==
    \A p \in Post \ overlapping : \A q, r \in LiveQuestions(p) : q.list = r.list

(* 설문조사를_삭제한다 deletes the questions with their survey, and no     *)
(* live survey has deleted questions, unless an update and a deletion      *)
(* crossed.                                                                *)
QuestionsFollowSurvey ==
    \A p \in Post \ crossed : \A q \in QuestionsOf(p) : q.live <=> Live(p)

(* An announcement that was created with a survey has one, or is about to: *)
(* 공지사항을_생성한다 creates it in a second transaction, of which only a *)
(* failure may keep it.                                                    *)
SurveyComesWithPost ==
    \A p \in promised :
        survey[p] # Absent \/ \E e \in Editor : Busy(e, p, {"insert"})

(* The survey is what the request of a committed update asked for. *)
Wanted(q) == IF q.asks = "keep" THEN QuestionsOf(q.post) ELSE OwnQuestions(q)
HasItsWay(q) ==
    /\ survey'[q.post] = [status |-> "live", title |-> q.title]
    /\ {r \in question' : r.post = q.post} = Wanted(q)

(* An update has its way unless another one, or a deletion, is committed   *)
(* between its comparison with the row and its own commit: the survey is   *)
(* live, says what was asked, and has exactly the questions asked for,     *)
(* even if earlier requests that crossed left it with two lists, deleted,  *)
(* or live with deleted questions.                                         *)
LoneUpdateTakesEffect == [][\A e \in lone : Commit(e) => HasItsWay(request[e])]_vars

(* An answer counts as long as its survey is live and has a question of    *)
(* the same order and title: what the documentation says of the answers to *)
(* questions that were replaced.                                           *)
AnswersCount ==
    \A a \in answer :
        (Live(a.post) /\ \E q \in LiveQuestions(a.post) : q.place = a.place)
          => a \in Statistics(a.post)

(* Whatever requests are in flight, the surveys change as they would if    *)
(* each creation, update and deletion were one step on the survey and its  *)
(* whole list of questions, and a deleted survey stays deleted, until two  *)
(* updates delete the questions at the same time or an update and a        *)
(* deletion cross.                                                         *)
Q == INSTANCE Questionnaire WITH
       status <- [p \in Post |-> survey[p].status],
       sheet <- [p \in Post |-> {Id(q) : q \in LiveQuestions(p)}],
       spoilt <- overlapping \cup crossed
ImplementsQuestionnaire == Q!QSpec
=============================================================================
