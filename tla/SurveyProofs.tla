---------------------------- MODULE SurveyProofs ----------------------------
(***************************************************************************)
(* Proofs about Survey, for any sets of announcements, requests, lists and *)
(* places.                                                                 *)
(***************************************************************************)
EXTENDS Survey, TLAPS

(* What a request in flight refers to is in the database. *)
InFlight ==
    \A e \in Editor : request[e] # Idle =>
        /\ post[request[e].post] # "absent"
        /\ request[e].at \notin {"find", "insert"} => survey[request[e].post] # Absent

SInv == ShapeOK /\ InFlight

(* The row that marks its absence is no survey, and no request is idle. *)
LEMMA Distinct ==
    /\ \A r \in SurveyRow : r # Absent
    /\ \A r \in Request : r # Idle
<1>1. Absent.status = "absent" /\ Idle.at = "idle"
    BY DEF Absent, Idle
<1> QED BY <1>1 DEF SurveyRow, Status, Request, At

(* A live survey is one that is there. *)
LEMMA LiveIsThere ==
    ASSUME NEW p \in Post, Live(p) PROVE survey[p] # Absent
<1>1. Absent.status = "absent"
    BY DEF Absent
<1> QED BY <1>1 DEF Live

(* The steps that leave surveys and questions alone come in three kinds.   *)
Kept == UNCHANGED <<survey, question, overlapping, crossed>>
PostsGrow ==
    /\ post' \in [Post -> {"absent"} \cup Status]
    /\ \A p \in Post : post[p] # "absent" => post'[p] # "absent"

(* Announcements come and go, and employees answer. *)
Elsewhere ==
    /\ PostsGrow /\ Kept
    /\ UNCHANGED <<request, promised>>
    /\ answer' \subseteq [list : List, place : Place, post : Post]

(* A request starts. *)
Begins(e) ==
    /\ request[e] = Idle
    /\ PostsGrow /\ Kept /\ UNCHANGED answer
    /\ \E r \in Request :
         /\ request' = [request EXCEPT ![e] = r]
         /\ r.held = {} /\ Unsent(r.list)
         /\ r.at \in {"find", "insert", "loadUpdate", "loadRemove"}
         /\ post'[r.post] # "absent"
         /\ r.at \notin {"find", "insert"} => survey[r.post] # Absent
         /\ promised' \in {promised, promised \cup {r.post}}
         /\ promised' # promised => r.at = "insert"

(* A request goes on, having read the survey at most. *)
GoesOn(e, r) ==
    /\ request' = [request EXCEPT ![e] = r]
    /\ r.post = request[e].post /\ r.list = request[e].list
    /\ r.asks = request[e].asks /\ r.held = request[e].held
    /\ r.at \notin {"find", "delete", "check"}
    /\ r.at \notin {"find", "insert"} => survey[r.post] # Absent
    /\ r.at = "scan" => r.asks # "keep"
    /\ r.at = "commit" => r.asks = "keep"
    /\ r.at \in Updating => request[e].at \in Updating \/ Live(r.post)
    /\ r.at = "remove" => request[e].at = "check"
    /\ request[e].at \in Removing => r.at \in Removing

Moves(e) ==
    /\ request[e] # Idle
    /\ UNCHANGED tables /\ UNCHANGED <<overlapping, crossed>>
    /\ \/ /\ request' = [request EXCEPT ![e] = Idle]
          /\ promised' \subseteq promised
          /\ request[e].at = "insert" => request[e].post \notin promised'
       \/ /\ request[e].at # "insert"
          /\ UNCHANGED promised
          /\ \E r \in Request : GoesOn(e, r)

(* A request at a place in the code is not idle. *)
LEMMA AtPlace ==
    ASSUME ShapeOK, NEW e \in Editor, request[e].at \in At
    PROVE  request[e] \in Request
<1>1. Idle.at \notin At
    BY DEF Idle, At
<1> QED BY <1>1 DEF ShapeOK

(* A request that goes on is still a request. *)
LEMMA StillRequest ==
    ASSUME NEW r \in Request, NEW a \in At
    PROVE  [r EXCEPT !.at = a] \in Request
BY DEF Request

(* Changing the place of a request changes nothing else of it. *)
LEMMA GoesMoves ==
    ASSUME ShapeOK, NEW e \in Editor, NEW a \in At, request[e] \in Request,
           Goes(e, a), UNCHANGED <<tables, history>>,
           request[e].at # "insert",
           a \notin {"find", "delete", "check"},
           a # "insert" => survey[request[e].post] # Absent,
           a = "scan" => request[e].asks # "keep",
           a = "commit" => request[e].asks = "keep",
           a \in Updating => request[e].at \in Updating \/ Live(request[e].post),
           a = "remove" => request[e].at = "check",
           request[e].at \in Removing => a \in Removing
    PROVE  Moves(e)
<1> DEFINE r == [request[e] EXCEPT !.at = a]
<1>1. r \in Request /\ r.at = a /\ r.post = request[e].post
      /\ r.list = request[e].list /\ r.asks = request[e].asks
      /\ r.held = request[e].held
    BY StillRequest DEF Request
<1>2. request' = [request EXCEPT ![e] = r]
    BY DEF Goes, ShapeOK
<1> HIDE DEF r
<1>3. GoesOn(e, r)
    BY <1>1, <1>2 DEF GoesOn
<1> QED BY <1>1, <1>3, Distinct DEF Moves, history, tables

(* The steps of a request that only reads, or that fails. *)
LEMMA ReadingMoves ==
    ASSUME SInv, NEW e \in Editor,
           FindSurvey(e) \/ LoadUpdate(e) \/ CompareSurvey(e) \/ WriteSurvey(e)
             \/ CheckRemove(e) \/ Fail(e)
    PROVE  Moves(e)
<1> ShapeOK /\ InFlight
    BY DEF SInv
<1>0. /\ {"find", "insert", "loadUpdate", "loadRemove", "save", "write", "scan",
          "commit", "check", "remove"} \subseteq At
      /\ {"save", "write", "scan", "commit"} \subseteq Updating
      /\ {"find", "insert", "loadUpdate", "loadRemove", "remove"} \cap Updating = {}
      /\ {"find", "loadUpdate", "save", "write"} \cap Removing = {} /\ "remove" \in Removing
    BY DEF At, Updating, Removing
<1>1. ASSUME End(e), UNCHANGED <<tables, history>>, request[e] \in Request,
             request[e].at # "insert"
      PROVE  Moves(e)
    BY <1>1, Distinct DEF End, Moves, history, tables
<1>2. CASE FindSurvey(e)
    <2>1. request[e].at = "find" /\ request[e] \in Request /\ request[e].post \in Post
        BY <1>2, <1>0, AtPlace DEF FindSurvey, Request
    <2>2. Live(request[e].post) => survey[request[e].post] # Absent
        BY <2>1, LiveIsThere
    <2> QED BY <1>0, <1>1, <1>2, <2>1, <2>2, GoesMoves DEF FindSurvey
<1>3. CASE LoadUpdate(e)
    <2>1. request[e].at = "loadUpdate" /\ request[e] \in Request /\ request[e].post \in Post
        BY <1>3, <1>0, AtPlace DEF LoadUpdate, Request
    <2>2. Live(request[e].post) => survey[request[e].post] # Absent
        BY <2>1, LiveIsThere
    <2> QED BY <1>0, <1>1, <1>3, <2>1, <2>2, GoesMoves DEF LoadUpdate
<1>4. CASE CompareSurvey(e)
    <2>1. request[e].at = "save" /\ request[e] \in Request /\ request[e].post \in Post
        BY <1>4, <1>0, AtPlace DEF CompareSurvey, Request
    <2>2. survey[request[e].post] # Absent
        BY <2>1, Distinct DEF InFlight
    <2>3. PICK c \in SUBSET {"title", "status"} :
            request' = [request EXCEPT
                ![e].changes = c,
                ![e].at = IF c = {} THEN Replacing(request[e]) ELSE "write"]
        BY <1>4 DEF CompareSurvey
    <2> DEFINE a == IF c = {} THEN Replacing(request[e]) ELSE "write"
               r == [request[e] EXCEPT !.changes = c, !.at = a]
    <2>4. /\ a \in {"scan", "commit", "write"}
          /\ a = "scan" => request[e].asks # "keep"
          /\ a = "commit" => request[e].asks = "keep"
        BY DEF Replacing
    <2>5. a \in At
        BY <1>0, <2>4
    <2>6. request' = [request EXCEPT ![e] = r]
        BY <2>1, <2>3 DEF ShapeOK, Request
    <2> HIDE DEF a
    <2>7. r \in Request /\ r.at = a /\ r.post = request[e].post
          /\ r.list = request[e].list /\ r.asks = request[e].asks
          /\ r.held = request[e].held
        BY <2>1, <2>3, <2>5 DEF Request
    <2> HIDE DEF r
    <2>8. GoesOn(e, r)
        BY <1>0, <2>1, <2>2, <2>4, <2>6, <2>7 DEF GoesOn
    <2> QED BY <1>4, <2>1, <2>7, <2>8, Distinct
            DEF Moves, CompareSurvey, history, tables
<1>5. CASE WriteSurvey(e)
    <2>1. request[e].at = "write" /\ request[e] \in Request /\ request[e].post \in Post
        BY <1>5, <1>0, AtPlace DEF WriteSurvey, Request
    <2>2. survey[request[e].post] # Absent
        BY <2>1, Distinct DEF InFlight
    <2>3. /\ Replacing(request[e]) \in {"scan", "commit"}
          /\ Replacing(request[e]) = "scan" => request[e].asks # "keep"
          /\ Replacing(request[e]) = "commit" => request[e].asks = "keep"
        BY DEF Replacing
    <2> QED BY <1>0, <1>5, <2>1, <2>2, <2>3, GoesMoves DEF WriteSurvey
<1>6. CASE CheckRemove(e)
    <2>1. request[e].at = "check" /\ request[e] \in Request
        BY <1>6, <1>0, AtPlace DEF CheckRemove
    <2>2. survey[request[e].post] # Absent
        BY <2>1, Distinct DEF InFlight
    <2> QED BY <1>0, <1>1, <1>6, <2>1, <2>2, GoesMoves DEF CheckRemove
<1>7. CASE Fail(e)
    BY <1>7 DEF Fail, Moves, End, tables
<1> QED BY <1>2, <1>3, <1>4, <1>5, <1>6, <1>7

(* A request that starts has read nothing yet. *)
LEMMA StartType ==
    ASSUME NEW p \in Post, NEW b \in List, NEW asks \in Asks, NEW t \in Title,
           NEW a \in At
    PROVE  [at |-> a, post |-> p, list |-> b, asks |-> asks, title |-> t,
            changes |-> {}, held |-> {}] \in Request
BY DEF Request

(* A request that starts makes such a step. *)
LEMMA StartsBegins ==
    ASSUME ShapeOK, NEW e \in Editor, NEW p \in Post, NEW b \in List,
           NEW asks \in Asks, NEW t \in Title,
           NEW a \in {"find", "insert", "loadUpdate", "loadRemove"},
           Starts(e, p, b, asks, t, a), PostsGrow, Kept, UNCHANGED answer,
           post'[p] # "absent",
           a \notin {"find", "insert"} => survey[p] # Absent,
           promised' \in {promised, promised \cup {p}},
           promised' # promised => a = "insert"
    PROVE  Begins(e)
<1> DEFINE r == [at |-> a, post |-> p, list |-> b, asks |-> asks, title |-> t,
                 changes |-> {}, held |-> {}]
<1>1. a \in At
    BY DEF At
<1>2. r \in Request
    BY <1>1, StartType
<1>3. request' = [request EXCEPT ![e] = r] /\ Unsent(b) /\ request[e] = Idle
    BY DEF Starts
<1> QED BY <1>2, <1>3 DEF Begins

(* The steps that start a request. *)
LEMMA EditingBegins ==
    ASSUME SInv, NEW e \in Editor, NEW p \in Post, NEW b \in List,
           NEW asks \in Asks, NEW t \in Title,
           CreatePostWithSurvey(e, p, b, asks, t) \/ EditPost(e, p, b, asks, t)
             \/ EditSurvey(e, p, b, asks, t)
    PROVE  Begins(e)
<1> ShapeOK
    BY DEF SInv
<1>1. CASE CreatePostWithSurvey(e, p, b, asks, t)
    <2>1. PostsGrow /\ Kept /\ post'[p] # "absent"
        BY <1>1 DEF CreatePostWithSurvey, PostsGrow, Kept, ShapeOK, Status
    <2> QED BY <1>1, <2>1, StartsBegins DEF CreatePostWithSurvey
<1>2. CASE EditPost(e, p, b, asks, t)
    <2>1. PostsGrow /\ Kept /\ post'[p] # "absent" /\ UNCHANGED promised
        BY <1>2 DEF EditPost, PostsGrow, Kept, ShapeOK, tables, history
    <2> QED BY <1>2, <2>1, StartsBegins DEF EditPost, tables
<1>3. CASE EditSurvey(e, p, b, asks, t)
    <2>1. PostsGrow /\ Kept /\ UNCHANGED promised /\ UNCHANGED answer
        BY <1>3 DEF EditSurvey, PostsGrow, Kept, ShapeOK, tables, history
    <2>2. post'[p] # "absent"
        BY <1>3 DEF EditSurvey, tables, ShapeOK
    <2>3. CASE post[p] # "absent" /\ Starts(e, p, b, asks, t, "insert")
        BY <2>1, <2>2, <2>3, StartsBegins
    <2>4. CASE survey[p] # Absent /\ Starts(e, p, b, asks, t, "loadRemove")
        BY <2>1, <2>2, <2>4, StartsBegins
    <2>5. CASE survey[p] # Absent /\ Starts(e, p, b, asks, t, "loadUpdate")
        BY <2>1, <2>2, <2>5, StartsBegins
    <2> QED BY <1>3, <2>3, <2>4, <2>5 DEF EditSurvey
<1> QED BY <1>1, <1>2, <1>3

(* Every step is one of nine kinds. *)
LEMMA Steps ==
    ASSUME SInv, [Next]_vars
    PROVE  \/ Elsewhere
           \/ \E e \in Editor :
                \/ Begins(e) \/ Moves(e) \/ Create(e)
                \/ ScanQuestions(e) \/ DeleteQuestions(e) \/ Commit(e)
                \/ LoadRemove(e) \/ RemoveSurvey(e)
<1> ShapeOK
    BY DEF SInv
<1>1. ASSUME NEW p \in Post, CreatePost(p) \/ RemovePost(p) PROVE Elsewhere
    BY <1>1 DEF CreatePost, RemovePost, Elsewhere, PostsGrow, Kept, history,
                ShapeOK, Status
<1>2. ASSUME NEW q \in question, Answer(q) PROVE Elsewhere
    BY <1>2 DEF Answer, Elsewhere, PostsGrow, Kept, history, ShapeOK, Question
<1>3. CASE UNCHANGED vars
    BY <1>3 DEF vars, tables, history, Elsewhere, PostsGrow, Kept, ShapeOK
<1>4. ASSUME NEW e \in Editor,
             FindSurvey(e) \/ LoadUpdate(e) \/ CompareSurvey(e) \/ WriteSurvey(e)
               \/ CheckRemove(e) \/ Fail(e)
      PROVE  Moves(e)
    BY <1>4, ReadingMoves
<1>5. ASSUME NEW e \in Editor, NEW p \in Post, NEW b \in List, NEW asks \in Asks,
             NEW t \in Title,
             CreatePostWithSurvey(e, p, b, asks, t) \/ EditPost(e, p, b, asks, t)
               \/ EditSurvey(e, p, b, asks, t)
      PROVE  Begins(e)
    BY <1>5, EditingBegins
<1> QED BY <1>1, <1>2, <1>3, <1>4, <1>5 DEF Next
-----------------------------------------------------------------------------
(* What an action that is not a Moves knows of its request. *)
LEMMA ActorType ==
    ASSUME ShapeOK, NEW e \in Editor,
           request[e].at \in {"insert", "scan", "delete", "commit", "loadRemove", "remove"}
    PROVE  /\ request[e] \in Request /\ request[e] # Idle
           /\ request[e].post \in Post /\ request[e].list \in List
           /\ request[e].held \subseteq List \X Place
BY AtPlace, Distinct DEF At, Request

(* The questions a request sends are questions of its list and announcement. *)
LEMMA OwnType ==
    ASSUME NEW q \in Request
    PROVE  /\ OwnQuestions(q) \subseteq Question
           /\ \A r \in OwnQuestions(q) :
                r.list = q.list /\ r.post = q.post /\ r.live
<1>1. q.list \in List /\ q.post \in Post
    BY DEF Request
<1>2. ASSUME NEW n \in Place
      PROVE  [list |-> q.list, place |-> n, post |-> q.post, live |-> TRUE] \in Question
    BY <1>1 DEF Question
<1> QED BY <1>2 DEF OwnQuestions

(* The tables and the requests are well formed in the empty database. *)
THEOREM SInit_SInv == Init => SInv
BY DEF Init, SInv, ShapeOK, InFlight

(* The steps outside the requests keep the tables well formed. *)
LEMMA ElsewhereType == ASSUME SInv, Elsewhere PROVE SInv'
<1>1. ShapeOK'
    BY DEF SInv, Elsewhere, PostsGrow, Kept, ShapeOK
<1>2. InFlight'
    <2>1. ASSUME NEW e \in Editor, request[e] # Idle
          PROVE  request[e].post \in Post
        BY <2>1 DEF SInv, ShapeOK, Request
    <2> QED BY <2>1 DEF SInv, Elsewhere, PostsGrow, Kept, InFlight
<1> QED BY <1>1, <1>2 DEF SInv

(* So does the start of a request, *)
LEMMA BeginsType == ASSUME SInv, NEW e \in Editor, Begins(e) PROVE SInv'
<1>1. PICK r \in Request :
        /\ request' = [request EXCEPT ![e] = r]
        /\ post'[r.post] # "absent"
        /\ r.at \notin {"find", "insert"} => survey[r.post] # Absent
        /\ promised' \in {promised, promised \cup {r.post}}
    BY DEF Begins
<1>2. r.post \in Post
    BY DEF Request
<1>3. ShapeOK'
    BY <1>1, <1>2 DEF SInv, Begins, PostsGrow, Kept, ShapeOK
<1>4. InFlight'
    <2>1. ASSUME NEW f \in Editor, f # e, request[f] # Idle
          PROVE  request[f].post \in Post
        BY <2>1 DEF SInv, ShapeOK, Request
    <2> QED BY <1>1, <2>1 DEF SInv, Begins, PostsGrow, Kept, InFlight, ShapeOK
<1> QED BY <1>3, <1>4 DEF SInv

(* its reading, *)
LEMMA MovesType == ASSUME SInv, NEW e \in Editor, Moves(e) PROVE SInv'
<1>1. CASE request' = [request EXCEPT ![e] = Idle] /\ promised' \subseteq promised
    BY <1>1 DEF SInv, Moves, tables, ShapeOK, InFlight
<1>2. CASE UNCHANGED promised /\ \E r \in Request : GoesOn(e, r)
    <2>1. PICK r \in Request : GoesOn(e, r)
        BY <1>2
    <2> QED BY <1>2, <2>1 DEF SInv, Moves, GoesOn, tables, ShapeOK, InFlight
<1> QED BY <1>1, <1>2 DEF Moves

(* the creation of a survey, which refers to its announcement, *)
LEMMA CreateType == ASSUME SInv, NEW e \in Editor, Create(e) PROVE SInv'
<1> DEFINE q == request[e]
<1>1. q \in Request /\ q # Idle /\ q.post \in Post /\ post[q.post] # "absent"
    BY ActorType DEF SInv, Create, InFlight
<1>2. UNCHANGED <<post, answer, promised, overlapping, crossed>>
    BY DEF Create, history
<1>3. CASE UNCHANGED <<survey, question>>
    BY <1>2, <1>3 DEF SInv, Create, End, ShapeOK, InFlight
<1>4. CASE /\ survey' = [survey EXCEPT ![q.post] = [status |-> "live", title |-> q.title]]
           /\ question' = question \cup OwnQuestions(q)
    <2>1. [status |-> "live", title |-> q.title] \in SurveyRow
        BY <1>1 DEF SurveyRow, Status, Request
    <2>2. OwnQuestions(q) \subseteq Question /\ \A r \in OwnQuestions(q) : r.post = q.post
        BY <1>1, OwnType
    <2> HIDE DEF q
    <2>3. /\ survey' \in [Post -> SurveyRow \cup {Absent}]
          /\ \A p \in Post : survey[p] # Absent \/ p = q.post => survey'[p] # Absent
          /\ \A p \in Post : survey'[p] # Absent => survey[p] # Absent \/ p = q.post
        BY <1>1, <1>4, <2>1, Distinct DEF SInv, ShapeOK
    <2>4. question' \subseteq Question /\ \A r \in question' : survey'[r.post] # Absent
        BY <1>1, <1>4, <2>2, <2>3 DEF SInv, ShapeOK, Question
    <2>5. request' = [request EXCEPT ![e] = Idle]
        BY DEF Create, End
    <2>6. ShapeOK'
        BY <1>1, <1>2, <2>3, <2>4, <2>5 DEF SInv, ShapeOK
    <2>7. InFlight'
        <3>1. ASSUME NEW f \in Editor, f # e, request[f] # Idle
              PROVE  request[f].post \in Post
            BY <3>1 DEF SInv, ShapeOK, Request
        <3> QED BY <1>2, <2>3, <2>5, <3>1 DEF SInv, ShapeOK, InFlight
    <2> QED BY <2>6, <2>7 DEF SInv
<1> QED BY <1>3, <1>4 DEF Create

(* and the steps that load or lock questions. *)
LEMMA HoldsType ==
    ASSUME SInv, NEW e \in Editor,
           ScanQuestions(e) \/ DeleteQuestions(e) \/ LoadRemove(e)
    PROVE  SInv'
<1> DEFINE q == request[e]
<1>1. q \in Request /\ q # Idle /\ q.post \in Post /\ q.held \subseteq List \X Place
    BY ActorType DEF SInv, ScanQuestions, DeleteQuestions, LoadRemove
<1>2. UNCHANGED <<post, survey, question, answer, promised, crossed>>
      /\ overlapping' \subseteq Post
    BY <1>1 DEF ScanQuestions, DeleteQuestions, LoadRemove, tables, history, SInv, ShapeOK
<1>3. survey[q.post] # Absent
    BY <1>1 DEF SInv, InFlight, ScanQuestions, DeleteQuestions, LoadRemove
<1>4. \A p \in Post : {Id(r) : r \in QuestionsOf(p)} \subseteq List \X Place
                   /\ {Id(r) : r \in LiveQuestions(p)} \subseteq List \X Place
    BY DEF SInv, ShapeOK, QuestionsOf, LiveQuestions, Question, Id
<1>5. \/ request' = [request EXCEPT ![e] = Idle]
      \/ \E h \in SUBSET (List \X Place), a \in {"delete", "commit", "check"} :
           request' = [request EXCEPT ![e].held = h, ![e].at = a]
    <2>1. CASE ScanQuestions(e)
        BY <1>1, <1>4, <2>1 DEF ScanQuestions
    <2>2. CASE DeleteQuestions(e)
        <3>1. q.held \cap {Id(r) : r \in question} \in SUBSET (List \X Place)
            BY <1>1
        <3> QED BY <2>2, <3>1 DEF DeleteQuestions
    <2>3. CASE LoadRemove(e)
        BY <1>1, <1>4, <2>3 DEF LoadRemove, End
    <2> QED BY <2>1, <2>2, <2>3
<1>6. CASE request' = [request EXCEPT ![e] = Idle]
    BY <1>2, <1>6 DEF SInv, ShapeOK, InFlight
<1>7. ASSUME NEW h \in SUBSET (List \X Place), NEW a \in {"delete", "commit", "check"},
             request' = [request EXCEPT ![e].held = h, ![e].at = a]
      PROVE  SInv'
    <2> DEFINE r == [q EXCEPT !.held = h, !.at = a]
    <2>1. r \in Request /\ r.post = q.post
        BY <1>1 DEF Request, At
    <2>2. request' = [request EXCEPT ![e] = r]
        BY <1>7, <1>1 DEF SInv, ShapeOK, Request
    <2> HIDE DEF r
    <2>3. ShapeOK'
        BY <1>2, <2>1, <2>2 DEF SInv, ShapeOK
    <2>4. InFlight'
        BY <1>1, <1>2, <1>3, <2>1, <2>2 DEF SInv, ShapeOK, InFlight
    <2> QED BY <2>3, <2>4 DEF SInv
<1> QED BY <1>5, <1>6, <1>7

(* A row that is there is replaced by another, and no question appears but *)
(* those of the survey.                                                    *)
LEMMA RowStep ==
    ASSUME SInv, NEW e \in Editor, request[e] \in Request,
           survey[request[e].post] # Absent,
           NEW row \in SurveyRow,
           survey' = [survey EXCEPT ![request[e].post] = row],
           question' \subseteq Question,
           \A r \in question' : r.post = request[e].post
                                \/ \E s \in question : s.post = r.post,
           crossed' \subseteq Post,
           request' = [request EXCEPT ![e] = Idle],
           UNCHANGED <<post, answer, promised, overlapping>>
    PROVE  SInv'
<1>1. request[e].post \in Post
    BY DEF Request
<1>2. survey' \in [Post -> SurveyRow \cup {Absent}]
      /\ \A p \in Post : survey[p] # Absent <=> survey'[p] # Absent
    BY <1>1, Distinct DEF SInv, ShapeOK
<1>3. \A r \in question' : survey'[r.post] # Absent
    BY <1>1, <1>2 DEF SInv, ShapeOK, Question
<1>4. ShapeOK'
    BY <1>2, <1>3 DEF SInv, ShapeOK
<1>5. InFlight'
    <2>1. ASSUME NEW f \in Editor, f # e, request[f] # Idle
          PROVE  request[f].post \in Post
        BY <2>1 DEF SInv, ShapeOK, Request
    <2> QED BY <1>2, <2>1 DEF SInv, ShapeOK, InFlight
<1> QED BY <1>4, <1>5 DEF SInv

(* An update changes the row of its survey, *)
LEMMA CommitType == ASSUME SInv, NEW e \in Editor, Commit(e) PROVE SInv'
<1> DEFINE q == request[e]
           row == [status |-> IF "status" \in q.changes THEN "live"
                              ELSE survey[q.post].status,
                   title |-> IF "title" \in q.changes THEN q.title
                             ELSE survey[q.post].title]
<1>1. q \in Request /\ q.post \in Post /\ q # Idle
    BY ActorType DEF SInv, Commit, Committed
<1>2. survey[q.post] # Absent /\ survey[q.post] \in SurveyRow
    BY <1>1 DEF SInv, ShapeOK, InFlight, Commit, Committed
<1>3. row \in SurveyRow
    BY <1>1, <1>2 DEF SurveyRow, Status, Request
<1>4. survey' = [survey EXCEPT ![q.post] = row]
    BY <1>1 DEF Commit, Committed, SInv, ShapeOK
<1>5. question' \subseteq Question
      /\ \A r \in question' : r.post = q.post \/ \E s \in question : s.post = r.post
    BY <1>1, OwnType DEF Commit, Committed, SInv, ShapeOK
<1>6. crossed' \subseteq Post /\ request' = [request EXCEPT ![e] = Idle]
      /\ UNCHANGED <<post, answer, promised, overlapping>>
    BY <1>1 DEF Commit, Committed, End, SInv, ShapeOK
<1> HIDE DEF row
<1> QED BY <1>1, <1>2, <1>3, <1>4, <1>5, <1>6, RowStep

(* and so does a removal. *)
LEMMA RemoveType == ASSUME SInv, NEW e \in Editor, RemoveSurvey(e) PROVE SInv'
<1> DEFINE q == request[e]
<1>1. q \in Request /\ q.post \in Post /\ q # Idle
    BY ActorType DEF SInv, RemoveSurvey, Removed
<1>2. survey[q.post] # Absent /\ survey[q.post] \in SurveyRow
    BY <1>1 DEF SInv, ShapeOK, InFlight, RemoveSurvey, Removed
<1>3. SoftRemoved(e) \in SurveyRow
    BY <1>2 DEF SoftRemoved, SurveyRow, Status
<1>4. question' \subseteq Question
      /\ \A r \in question' : \E s \in question : s.post = r.post
    BY DEF RemoveSurvey, Removed, SInv, ShapeOK, Question
<1>5. crossed' \subseteq Post /\ request' = [request EXCEPT ![e] = Idle]
      /\ survey' = [survey EXCEPT ![q.post] = SoftRemoved(e)]
      /\ UNCHANGED <<post, answer, promised, overlapping>>
    BY <1>1 DEF RemoveSurvey, Removed, End, SInv, ShapeOK
<1> QED BY <1>1, <1>2, <1>3, <1>4, <1>5, RowStep

(* Every step keeps the tables and the requests well formed. *)
THEOREM SNext_SInv == SInv /\ [Next]_vars => SInv'
BY Steps, ElsewhereType, BeginsType, MovesType, CreateType, HoldsType, CommitType,
   RemoveType

(* The tables and the requests are always well formed: ShapeOK, and what a *)
(* request refers to exists.                                               *)
THEOREM Spec_SInv == Spec => []SInv
BY SInit_SInv, SNext_SInv, PTL DEF Spec
-----------------------------------------------------------------------------
(* The list a request sends is in no table and known to no other request,  *)
(* and the questions of one list have one announcement.                    *)
Fresh ==
    \A e \in Editor : request[e] # Idle =>
        /\ \A q \in question : q.list # request[e].list
        /\ \A f \in Editor : request[f] # Idle =>
             /\ f # e => request[f].list # request[e].list
             /\ \A n \in Place : <<request[e].list, n>> \notin request[f].held

OnePost == \A q, r \in question : q.list = r.list => q.post = r.post

(* A request holds questions of its own survey only. *)
HeldOwn ==
    \A e \in Editor : request[e] # Idle =>
        \A q \in question : Id(q) \in request[e].held => q.post = request[e].post

FInv == SInv /\ Fresh /\ OnePost /\ HeldOwn

(* What an ended request leaves true, when the table of questions gains    *)
(* the questions of its list at most.                                      *)
LEMMA EndFresh ==
    ASSUME FInv, NEW e \in Editor, request[e] \in Request, SInv',
           request' = [request EXCEPT ![e] = Idle],
           \A q \in question' :
              \/ q.list = request[e].list /\ q.post = request[e].post
              \/ \E r \in question : Id(r) = Id(q) /\ r.post = q.post
    PROVE  FInv'
<1>1. request[e] # Idle
    BY Distinct
<1>2. \A q \in question' : \/ q.list = request[e].list /\ q.post = request[e].post
                           \/ \E r \in question : r.list = q.list /\ r.post = q.post
    BY DEF Id
<1>3. Fresh'
    <2>1. ASSUME NEW f \in Editor, request'[f] # Idle
          PROVE  f # e /\ request'[f] = request[f] /\ request[f] # Idle
        BY <2>1 DEF FInv, SInv, ShapeOK
    <2> QED BY <1>1, <1>2, <2>1 DEF FInv, Fresh
<1>4. OnePost'
    BY <1>1, <1>2 DEF FInv, OnePost, Fresh
<1>5. HeldOwn'
    <2> SUFFICES ASSUME NEW f \in Editor, request'[f] # Idle,
                        NEW q \in question', Id(q) \in request'[f].held
                 PROVE  q.post = request'[f].post
        BY DEF HeldOwn, Id
    <2>1. f # e /\ request'[f] = request[f] /\ request[f] # Idle
        BY DEF FInv, SInv, ShapeOK
    <2>2. q \in Question
        BY DEF SInv, ShapeOK
    <2>3. CASE q.list = request[e].list
        <3>1. Id(q) = <<request[e].list, q.place>> /\ q.place \in Place
            BY <2>2, <2>3 DEF Id, Question
        <3> QED BY <1>1, <2>1, <3>1 DEF FInv, Fresh
    <2>4. CASE \E r \in question : Id(r) = Id(q) /\ r.post = q.post
        BY <2>1, <2>4 DEF FInv, HeldOwn
    <2> QED BY <2>3, <2>4
<1> QED BY <1>3, <1>4, <1>5 DEF FInv

(* What a request that goes on leaves true, when it holds questions of its *)
(* survey.                                                                 *)
LEMMA HoldFresh ==
    ASSUME FInv, NEW e \in Editor, NEW r, SInv', UNCHANGED question,
           request[e] # Idle, r # Idle,
           request' = [request EXCEPT ![e] = r],
           r.list = request[e].list, r.post = request[e].post,
           \A i \in r.held : \/ i \in request[e].held
                             \/ \E q \in question : i = Id(q) /\ q.post = r.post
    PROVE  FInv'
<1>1. \A f \in Editor : request'[f] = IF f = e THEN r ELSE request[f]
    BY DEF FInv, SInv, ShapeOK
<1>2. Fresh'
    <2>1. ASSUME NEW f \in Editor, NEW g \in Editor, request'[f] # Idle,
                 request'[g] # Idle, NEW n \in Place,
                 <<request'[f].list, n>> \in request'[g].held
          PROVE  FALSE
        <3>1. request[f] # Idle /\ request'[f].list = request[f].list /\ request[g] # Idle
            BY <1>1, <2>1
        <3>2. <<request[f].list, n>> \notin request[g].held
            BY <3>1 DEF FInv, Fresh
        <3>3. g = e /\ \E q \in question : <<request[f].list, n>> = Id(q)
            BY <1>1, <2>1, <3>1, <3>2
        <3>4. \E q \in question : q.list = request[f].list
            BY <3>3 DEF Id
        <3> QED BY <3>1, <3>4 DEF FInv, Fresh
    <2> QED BY <1>1, <2>1 DEF FInv, Fresh
<1>3. OnePost'
    BY DEF FInv, OnePost
<1>4. HeldOwn'
    <2> SUFFICES ASSUME NEW f \in Editor, request'[f] # Idle,
                        NEW q \in question, Id(q) \in request'[f].held
                 PROVE  q.post = request'[f].post
        BY DEF HeldOwn, Id
    <2>1. CASE Id(q) \in request[f].held
        BY <1>1, <2>1 DEF FInv, HeldOwn
    <2>2. CASE f = e /\ \E s \in question : Id(q) = Id(s) /\ s.post = r.post
        BY <1>1, <2>2 DEF FInv, OnePost, Id
    <2> QED BY <1>1, <2>1, <2>2
<1> QED BY <1>2, <1>3, <1>4 DEF FInv

(* A list that was unsent belongs to the request that starts with it. *)
LEMMA BeginsFresh == ASSUME FInv, NEW e \in Editor, Begins(e), SInv' PROVE FInv'
<1>1. PICK r \in Request :
        request' = [request EXCEPT ![e] = r] /\ r.held = {} /\ Unsent(r.list)
    BY DEF Begins
<1>2. UNCHANGED question /\ request[e] = Idle /\ r # Idle
    BY Distinct DEF Begins, Kept
<1>3. \A f \in Editor : request'[f] = IF f = e THEN r ELSE request[f]
    BY <1>1 DEF FInv, SInv, ShapeOK
<1>4. Fresh'
    BY <1>1, <1>2, <1>3 DEF FInv, Fresh, Unsent
<1>5. OnePost'
    BY <1>2 DEF FInv, OnePost
<1>6. HeldOwn'
    BY <1>1, <1>2, <1>3 DEF FInv, HeldOwn, Id
<1> QED BY <1>4, <1>5, <1>6 DEF FInv

(* What a request loads are questions of its survey. *)
LEMMA ReadingHolds ==
    ASSUME FInv, NEW e \in Editor,
           ScanQuestions(e) \/ DeleteQuestions(e) \/ LoadRemove(e), SInv'
    PROVE  FInv'
<1>1. request[e] \in Request /\ request[e] # Idle
    BY ActorType DEF FInv, SInv, ScanQuestions, DeleteQuestions, LoadRemove
<1>2. UNCHANGED question
    BY DEF ScanQuestions, DeleteQuestions, LoadRemove, tables
<1>3. CASE End(e)
    BY <1>1, <1>2, <1>3, EndFresh DEF End
<1>4. ASSUME NEW h, NEW a \in {"delete", "commit", "check"},
             request' = [request EXCEPT ![e].held = h, ![e].at = a],
             \A i \in h : \/ i \in request[e].held
                          \/ \E q \in question : i = Id(q) /\ q.post = request[e].post
      PROVE  FInv'
    <2> DEFINE r == [request[e] EXCEPT !.held = h, !.at = a]
    <2>1. r.list = request[e].list /\ r.post = request[e].post /\ r.held = h
          /\ r.at = a
        BY <1>1 DEF Request
    <2>2. request' = [request EXCEPT ![e] = r]
        BY <1>1, <1>4 DEF FInv, SInv, ShapeOK, Request
    <2>3. r # Idle
        BY <2>1 DEF Idle
    <2> HIDE DEF r
    <2>4. \A i \in r.held : \/ i \in request[e].held
                           \/ \E q \in question : i = Id(q) /\ q.post = r.post
        BY <1>4, <2>1
    <2> QED BY <1>1, <1>2, <2>1, <2>2, <2>3, <2>4, HoldFresh
<1>5. CASE ScanQuestions(e)
    <2>1. \A i \in {Id(q) : q \in QuestionsOf(request[e].post)} :
            \E q \in question : i = Id(q) /\ q.post = request[e].post
        BY DEF QuestionsOf
    <2> QED BY <1>4, <1>5, <2>1 DEF ScanQuestions
<1>6. CASE DeleteQuestions(e)
    BY <1>4, <1>6 DEF DeleteQuestions
<1>7. CASE LoadRemove(e)
    <2>1. \A i \in {Id(q) : q \in LiveQuestions(request[e].post)} :
            \E q \in question : i = Id(q) /\ q.post = request[e].post
        BY DEF LiveQuestions, QuestionsOf
    <2> QED BY <1>3, <1>4, <1>7, <2>1 DEF LoadRemove
<1> QED BY <1>5, <1>6, <1>7

(* The rows after a removal, and the rows they were before. *)
LEMMA RemovedRows ==
    ASSUME ShapeOK, NEW e \in Editor, RemoveSurvey(e)
    PROVE  /\ \A q \in question' : \E r \in question :
                /\ Id(r) = Id(q) /\ r.post = q.post
                /\ q = IF Id(r) \in request[e].held THEN [r EXCEPT !.live = FALSE] ELSE r
           /\ \A r \in question :
                (IF Id(r) \in request[e].held THEN [r EXCEPT !.live = FALSE] ELSE r)
                  \in question'
<1>1. question' = {IF Id(r) \in request[e].held THEN [r EXCEPT !.live = FALSE] ELSE r :
                     r \in question}
    BY DEF RemoveSurvey, Removed
<1>2. ASSUME NEW r \in question
      PROVE  Id([r EXCEPT !.live = FALSE]) = Id(r) /\ [r EXCEPT !.live = FALSE].post = r.post
    BY DEF ShapeOK, Question, Id
<1> QED BY <1>1, <1>2

(* Every step keeps what requests hold and send their own. *)
THEOREM SNext_FInv == FInv /\ [Next]_vars => FInv'
<1> SUFFICES ASSUME FInv, [Next]_vars PROVE FInv'
    OBVIOUS
<1>1. SInv /\ SInv'
    BY SNext_SInv DEF FInv
<1>2. CASE Elsewhere
    BY <1>1, <1>2 DEF Elsewhere, Kept, FInv, Fresh, OnePost, HeldOwn, Id
<1>3. ASSUME NEW e \in Editor, Moves(e) PROVE FInv'
    <2>1. request[e] \in Request /\ request[e] # Idle /\ UNCHANGED question
        BY <1>1, <1>3 DEF SInv, ShapeOK, Moves, tables
    <2>2. CASE request' = [request EXCEPT ![e] = Idle]
        BY <1>1, <2>1, <2>2, EndFresh
    <2>3. CASE \E r \in Request : GoesOn(e, r)
        BY <1>1, <2>1, <2>3, HoldFresh, Distinct DEF GoesOn
    <2> QED BY <1>3, <2>2, <2>3 DEF Moves
<1>4. ASSUME NEW e \in Editor, Create(e) PROVE FInv'
    <2>1. request[e] \in Request
        BY <1>1, <1>4, ActorType DEF SInv, Create
    <2> QED BY <1>1, <1>4, <2>1, OwnType, EndFresh DEF Create, End
<1>5. ASSUME NEW e \in Editor, Commit(e) PROVE FInv'
    <2>1. request[e] \in Request
        BY <1>1, <1>5, ActorType DEF SInv, Commit, Committed
    <2> QED BY <1>1, <1>5, <2>1, OwnType, EndFresh DEF Commit, Committed, End
<1>6. ASSUME NEW e \in Editor, RemoveSurvey(e) PROVE FInv'
    <2>1. request[e] \in Request
        BY <1>1, <1>6, ActorType DEF SInv, RemoveSurvey, Removed
    <2>2. \A q \in question' : \E r \in question : Id(r) = Id(q) /\ r.post = q.post
        BY <1>1, <1>6, RemovedRows DEF SInv
    <2> QED BY <1>1, <1>6, <2>1, <2>2, EndFresh DEF RemoveSurvey, Removed, End
<1> QED BY <1>1, <1>2, <1>3, <1>4, <1>5, <1>6, BeginsFresh, ReadingHolds, Steps

(* What requests hold and send is their own, in every state. *)
THEOREM Spec_FInv == Spec => []FInv
<1>1. Init => FInv
    BY SInit_SInv DEF Init, FInv, Fresh, OnePost, HeldOwn
<1> QED BY <1>1, SNext_FInv, PTL DEF Spec
-----------------------------------------------------------------------------
(* A set of ids of questions that has no list in part. *)
Complete(ids) == \A i \in ids : \A m \in Place : <<i[1], m>> \in ids

HeldComplete ==
    \A e \in Editor : request[e] # Idle => Complete(request[e].held)

WInv == SInv /\ WholeLists /\ HeldComplete

(* The same question at another place of its list. *)
LEMMA OtherPlace ==
    ASSUME ShapeOK, NEW q \in question, NEW n \in Place
    PROVE  LET r == [q EXCEPT !.place = n] IN
           /\ r \in Question /\ Id(r) = <<q.list, n>> /\ r.post = q.post
           /\ r.live = q.live /\ Id(q)[1] = q.list
BY DEF ShapeOK, Question, Id

(* The questions of a survey, and all questions, are complete lists. *)
LEMMA TablesComplete ==
    ASSUME WInv, NEW p \in Post
    PROVE  /\ Complete({Id(q) : q \in QuestionsOf(p)})
           /\ Complete({Id(q) : q \in LiveQuestions(p)})
           /\ Complete({Id(q) : q \in question})
<1> SUFFICES ASSUME NEW q \in question, NEW n \in Place
             PROVE  \E r \in question : /\ Id(r) = <<Id(q)[1], n>> /\ r.post = q.post
                                        /\ r.live = q.live
    BY DEF Complete, QuestionsOf, LiveQuestions
<1>1. [q EXCEPT !.place = n] \in question
    BY DEF WInv, WholeLists
<1> QED BY <1>1, OtherPlace DEF WInv, SInv

(* Lists that a request sends are complete. *)
LEMMA OwnWhole ==
    ASSUME NEW q \in Request, NEW r \in OwnQuestions(q), NEW n \in Place
    PROVE  [r EXCEPT !.place = n] \in OwnQuestions(q)
BY DEF OwnQuestions

(* Every step keeps the lists of questions complete. *)
THEOREM SNext_WInv == WInv /\ [Next]_vars => WInv'
<1> SUFFICES ASSUME WInv, [Next]_vars PROVE WInv'
    OBVIOUS
<1>1. SInv /\ SInv' /\ ShapeOK
    BY SNext_SInv DEF WInv, SInv
<1>2. ASSUME NEW e \in Editor, request' = [request EXCEPT ![e] = Idle]
      PROVE  HeldComplete'
    BY <1>1, <1>2 DEF ShapeOK, WInv, HeldComplete, Complete
<1>3. ASSUME NEW e \in Editor, NEW r, request' = [request EXCEPT ![e] = r],
             Complete(r.held)
      PROVE  HeldComplete'
    BY <1>1, <1>3 DEF ShapeOK, WInv, HeldComplete, Complete
<1>4. CASE Elsewhere
    BY <1>1, <1>4 DEF Elsewhere, Kept, WInv, WholeLists, HeldComplete, Complete
<1>5. ASSUME NEW e \in Editor, Begins(e) PROVE WInv'
    <2>1. PICK r \in Request : request' = [request EXCEPT ![e] = r] /\ r.held = {}
        BY <1>5 DEF Begins
    <2>2. Complete(r.held)
        BY <2>1 DEF Complete
    <2> QED BY <1>1, <1>3, <1>5, <2>1, <2>2 DEF Begins, Kept, WInv, WholeLists
<1>6. ASSUME NEW e \in Editor, Moves(e) PROVE WInv'
    <2>1. WholeLists'
        BY <1>6 DEF Moves, tables, WInv, WholeLists
    <2>2. CASE request' = [request EXCEPT ![e] = Idle]
        BY <1>1, <1>2, <2>1, <2>2 DEF WInv
    <2>3. ASSUME NEW r \in Request, GoesOn(e, r) PROVE WInv'
        <3>1. Complete(r.held)
            BY <1>6, <2>3 DEF Moves, GoesOn, WInv, HeldComplete
        <3> QED BY <1>1, <1>3, <2>1, <2>3, <3>1 DEF WInv, GoesOn
    <2> QED BY <1>6, <2>2, <2>3 DEF Moves
<1>7. ASSUME NEW e \in Editor, Create(e) PROVE WInv'
    <2>1. request[e] \in Request
        BY <1>1, <1>7, ActorType DEF Create
    <2>2. question' = question \/ question' = question \cup OwnQuestions(request[e])
        BY <1>7 DEF Create
    <2>3. WholeLists'
        BY <2>1, <2>2, OwnWhole DEF WInv, WholeLists
    <2> QED BY <1>1, <1>2, <1>7, <2>3 DEF WInv, Create, End
<1>8. ASSUME NEW e \in Editor, ScanQuestions(e) \/ DeleteQuestions(e) \/ LoadRemove(e)
      PROVE  WInv'
    <2>1. /\ request[e] \in Request /\ request[e] # Idle /\ request[e].post \in Post
        BY <1>1, <1>8, ActorType DEF ScanQuestions, DeleteQuestions, LoadRemove
    <2>2. WholeLists'
        BY <1>8 DEF ScanQuestions, DeleteQuestions, LoadRemove, tables, WInv, WholeLists
    <2>3. ASSUME NEW h, NEW a, request' = [request EXCEPT ![e].held = h, ![e].at = a],
                 Complete(h)
          PROVE  WInv'
        <3> DEFINE r == [request[e] EXCEPT !.held = h, !.at = a]
        <3>1. request' = [request EXCEPT ![e] = r] /\ r.held = h
            BY <1>1, <2>1, <2>3 DEF ShapeOK, Request
        <3> HIDE DEF r
        <3> QED BY <1>1, <1>3, <2>2, <2>3, <3>1 DEF WInv
    <2>4. CASE ScanQuestions(e)
        BY <2>1, <2>3, <2>4, TablesComplete DEF ScanQuestions
    <2>5. CASE DeleteQuestions(e)
        <3>1. Complete(request[e].held) /\ Complete({Id(q) : q \in question})
            BY <2>1, TablesComplete DEF WInv, HeldComplete
        <3>2. Complete(request[e].held \cap {Id(q) : q \in question})
            BY <3>1 DEF Complete
        <3> QED BY <2>3, <2>5, <3>2 DEF DeleteQuestions
    <2>6. CASE LoadRemove(e)
        BY <1>1, <1>2, <2>1, <2>2, <2>3, <2>6, TablesComplete DEF LoadRemove, End, WInv
    <2> QED BY <1>8, <2>4, <2>5, <2>6
<1>9. ASSUME NEW e \in Editor, Commit(e) PROVE WInv'
    <2> DEFINE q == request[e]
    <2>1. q \in Request /\ Complete(q.held)
        BY <1>1, <1>9, ActorType DEF Commit, Committed, WInv, HeldComplete
    <2>2. question' = {r \in question : Id(r) \notin q.held} \cup OwnQuestions(q)
        BY <1>9 DEF Commit, Committed
    <2>3. ASSUME NEW r \in question, Id(r) \notin q.held, NEW n \in Place
          PROVE  [r EXCEPT !.place = n] \in question'
        <3>1. [r EXCEPT !.place = n] \in question /\ r \in Question
            BY <1>1 DEF WInv, WholeLists, ShapeOK
        <3>2. Id(r) = <<r.list, r.place>> /\ r.place \in Place
            BY <3>1 DEF Id, Question
        <3>3. <<r.list, n>> \notin q.held
            BY <2>1, <2>3, <3>2 DEF Complete
        <3> QED BY <1>1, <2>2, <3>1, <3>3, OtherPlace
    <2>4. WholeLists'
        BY <2>1, <2>2, <2>3, OwnWhole DEF WholeLists
    <2> QED BY <1>1, <1>2, <1>9, <2>4 DEF WInv, Commit, Committed, End
<1>10. ASSUME NEW e \in Editor, RemoveSurvey(e) PROVE WInv'
    <2> DEFINE q == request[e]
               After(r) == IF Id(r) \in q.held THEN [r EXCEPT !.live = FALSE] ELSE r
    <2>1. q \in Request /\ Complete(q.held)
        BY <1>1, <1>10, ActorType DEF RemoveSurvey, Removed, WInv, HeldComplete
    <2>2. ASSUME NEW r \in question, NEW n \in Place
          PROVE  [After(r) EXCEPT !.place = n] \in question'
        <3>1. [r EXCEPT !.place = n] \in question /\ r \in Question
            BY <1>1 DEF WInv, WholeLists, ShapeOK
        <3>2. Id(r) = <<r.list, r.place>> /\ r.place \in Place
            BY <3>1 DEF Id, Question
        <3>3. Id([r EXCEPT !.place = n]) = <<r.list, n>>
            BY <1>1, OtherPlace
        <3>4. <<r.list, n>> \in q.held <=> Id(r) \in q.held
            BY <2>1, <3>2 DEF Complete
        <3>5. [After(r) EXCEPT !.place = n] = After([r EXCEPT !.place = n])
            BY <3>1, <3>3, <3>4 DEF Question
        <3> QED BY <1>1, <1>10, <3>1, <3>5, RemovedRows
    <2>3. \A s \in question' : \E r \in question : s = After(r)
        BY <1>1, <1>10, RemovedRows
    <2>4. WholeLists'
        BY <2>2, <2>3 DEF WholeLists
    <2> QED BY <1>1, <1>2, <1>10, <2>4 DEF WInv, RemoveSurvey, Removed, End
<1> QED BY <1>1, <1>4, <1>5, <1>6, <1>7, <1>8, <1>9, <1>10, Steps

(* WholeLists: 설문조사를_업데이트한다 and 설문조사를_삭제한다 never leave   *)
(* part of a list, whatever crosses.                                       *)
THEOREM ListsWhole == Spec => []WholeLists
<1>1. Init => WInv
    BY SInit_SInv DEF Init, WInv, WholeLists, HeldComplete
<1>2. WInv => WholeLists
    BY DEF WInv
<1> QED BY <1>1, <1>2, SNext_WInv, PTL DEF Spec
-----------------------------------------------------------------------------
(* Between its scan and its commit a request replaces the questions.       *)
Replaces(e, p) ==
    /\ request[e].at \in {"delete", "commit"}
    /\ request[e].asks # "keep" /\ request[e].post = p

(* Only a request that asks for other questions deletes the old ones; two   *)
(* that do so at once are remembered; and one that does so alone knows all *)
(* the questions there are.                                                *)
Chosen ==
    \A e \in Editor : request[e].at \in {"scan", "delete"} => request[e].asks # "keep"
Remembered ==
    \A p \in Post : \A e, f \in Editor :
        Replaces(e, p) /\ Replaces(f, p) /\ e # f => p \in overlapping
KnowsAll ==
    \A p \in Post \ overlapping : \A e \in Editor :
        Replaces(e, p) => \A q \in QuestionsOf(p) : Id(q) \in request[e].held

OInv == SInv /\ OneListUnlessOverlapping /\ Chosen /\ Remembered /\ KnowsAll

(* The end of a request, when the questions that appear are not of a       *)
(* survey that another one replaces alone.                                 *)
LEMMA EndKnows ==
    ASSUME OInv, NEW e \in Editor, request' = [request EXCEPT ![e] = Idle],
           UNCHANGED overlapping,
           \A q \in question' : \/ \E r \in question : Id(r) = Id(q) /\ r.post = q.post
                                \/ q.post \in overlapping
                                \/ \A f \in Editor \ {e} : ~ Replaces(f, q.post)
    PROVE  Chosen' /\ Remembered' /\ KnowsAll'
<1>1. \A f \in Editor : request'[f] = IF f = e THEN Idle ELSE request[f]
    BY DEF OInv, SInv, ShapeOK
<1>2. Idle.at \notin {"scan", "delete", "commit"}
    BY DEF Idle
<1>3. \A p \in Post : \A f \in Editor :
        Replaces(f, p)' => f # e /\ Replaces(f, p)
    BY <1>1, <1>2 DEF Replaces
<1>4. Chosen'
    BY <1>1, <1>2 DEF OInv, Chosen
<1>5. Remembered'
    BY <1>3 DEF OInv, Remembered
<1>6. KnowsAll'
    <2> SUFFICES ASSUME NEW p \in Post \ overlapping, NEW f \in Editor, Replaces(f, p)',
                        NEW q \in question', q.post = p
                 PROVE  Id(q) \in request'[f].held
        BY DEF KnowsAll, QuestionsOf, Id
    <2>1. f # e /\ Replaces(f, p) /\ request'[f] = request[f]
        BY <1>1, <1>3
    <2>2. PICK r \in question : Id(r) = Id(q) /\ r.post = q.post
        BY <2>1
    <2> QED BY <2>1, <2>2 DEF OInv, KnowsAll, QuestionsOf
<1> QED BY <1>4, <1>5, <1>6

(* A request that goes on, or starts, without replacing the questions.     *)
LEMMA OnKnows ==
    ASSUME OInv, NEW e \in Editor, NEW r, request' = [request EXCEPT ![e] = r],
           UNCHANGED <<question, overlapping>>,
           r.at \notin {"delete"}, r.at = "scan" => r.asks # "keep",
           r.at = "commit" => r.asks = "keep"
    PROVE  Chosen' /\ Remembered' /\ KnowsAll'
<1>1. \A f \in Editor : request'[f] = IF f = e THEN r ELSE request[f]
    BY DEF OInv, SInv, ShapeOK
<1>2. \A p \in Post : \A f \in Editor :
        Replaces(f, p)' => f # e /\ Replaces(f, p)
    BY <1>1 DEF Replaces
<1>3. Chosen'
    BY <1>1 DEF OInv, Chosen
<1>4. Remembered'
    BY <1>2 DEF OInv, Remembered
<1>5. KnowsAll'
    BY <1>1, <1>2 DEF OInv, KnowsAll, QuestionsOf, Id
<1> QED BY <1>3, <1>4, <1>5

(* A scan sees all questions, and the updates that are replacing them. *)
LEMMA ScanKnows == ASSUME OInv, NEW e \in Editor, ScanQuestions(e), SInv' PROVE OInv'
<1> DEFINE p == request[e].post
           h == {Id(q) : q \in QuestionsOf(p)}
           r == [request[e] EXCEPT !.held = h, !.at = "delete"]
<1>1. /\ request[e] \in Request /\ p \in Post /\ request[e].asks # "keep"
      /\ UNCHANGED <<survey, question>>
    BY ActorType DEF OInv, SInv, ScanQuestions, tables, Chosen
<1>2. request' = [request EXCEPT ![e] = r]
    BY <1>1 DEF ScanQuestions, OInv, SInv, ShapeOK, Request
<1>3. r.at = "delete" /\ r.asks = request[e].asks /\ r.post = p /\ r.held = h
    BY <1>1 DEF Request
<1> HIDE DEF r
<1>4. \A f \in Editor : request'[f] = IF f = e THEN r ELSE request[f]
    BY <1>2 DEF OInv, SInv, ShapeOK
<1>5. overlapping \subseteq overlapping'
      /\ \A f \in Editor \ {e} : Replaces(f, p) => p \in overlapping'
    BY DEF ScanQuestions, Replaces, Busy
<1>6. \A x \in Post : \A f \in Editor :
        Replaces(f, x)' => (f = e /\ x = p) \/ (f # e /\ Replaces(f, x))
    BY <1>3, <1>4 DEF Replaces
<1>7. OneListUnlessOverlapping'
    BY <1>1, <1>5 DEF OInv, OneListUnlessOverlapping, LiveQuestions, QuestionsOf
<1>8. Chosen'
    BY <1>1, <1>3, <1>4 DEF OInv, Chosen
<1>9. Remembered'
    BY <1>5, <1>6 DEF OInv, Remembered
<1>10. KnowsAll'
    <2> SUFFICES ASSUME NEW x \in Post \ overlapping', NEW f \in Editor, Replaces(f, x)',
                        NEW q \in QuestionsOf(x)
                 PROVE  Id(q) \in request'[f].held
        BY <1>1 DEF KnowsAll, QuestionsOf, Id
    <2>1. CASE f = e /\ x = p
        BY <1>3, <1>4, <2>1
    <2>2. CASE f # e /\ Replaces(f, x)
        BY <1>4, <1>5, <2>2 DEF OInv, KnowsAll
    <2> QED BY <1>6, <2>1, <2>2
<1> QED BY <1>7, <1>8, <1>9, <1>10 DEF OInv

(* A deletion skips only the questions that are gone. *)
LEMMA DeleteKnows == ASSUME OInv, NEW e \in Editor, DeleteQuestions(e), SInv' PROVE OInv'
<1> DEFINE h == request[e].held \cap {Id(q) : q \in question}
           r == [request[e] EXCEPT !.held = h, !.at = "commit"]
<1>1. /\ request[e] \in Request /\ request[e].at = "delete"
      /\ UNCHANGED <<survey, question, overlapping>>
    BY ActorType DEF OInv, SInv, DeleteQuestions, tables, history
<1>2. request' = [request EXCEPT ![e] = r]
    BY <1>1 DEF DeleteQuestions, OInv, SInv, ShapeOK, Request
<1>3. r.at = "commit" /\ r.asks = request[e].asks /\ r.post = request[e].post /\ r.held = h
    BY <1>1 DEF Request
<1> HIDE DEF r
<1>4. \A f \in Editor : request'[f] = IF f = e THEN r ELSE request[f]
    BY <1>2 DEF OInv, SInv, ShapeOK
<1>5. \A x \in Post : \A f \in Editor : Replaces(f, x)' <=> Replaces(f, x)
    BY <1>1, <1>3, <1>4 DEF Replaces
<1>6. OneListUnlessOverlapping'
    BY <1>1 DEF OInv, OneListUnlessOverlapping, LiveQuestions, QuestionsOf
<1>7. Chosen'
    BY <1>3, <1>4 DEF OInv, Chosen
<1>8. Remembered'
    BY <1>1, <1>5 DEF OInv, Remembered
<1>9. KnowsAll'
    <2> SUFFICES ASSUME NEW x \in Post \ overlapping, NEW f \in Editor, Replaces(f, x),
                        NEW q \in QuestionsOf(x)
                 PROVE  Id(q) \in request'[f].held
        BY <1>1, <1>5 DEF KnowsAll, QuestionsOf, Id
    <2>1. Id(q) \in request[f].held /\ q \in question
        BY DEF OInv, KnowsAll, QuestionsOf
    <2> QED BY <1>3, <1>4, <2>1
<1> QED BY <1>6, <1>7, <1>8, <1>9 DEF OInv

(* The questions that a commit inserts are the only ones, unless another   *)
(* update did not see them.                                                *)
LEMMA CommitKnows == ASSUME OInv, NEW e \in Editor, Commit(e), SInv' PROVE OInv'
<1> DEFINE q == request[e]
<1>1. q \in Request /\ q.at = "commit"
    BY ActorType DEF OInv, SInv, Commit, Committed
<1>2. question' = {r \in question : Id(r) \notin q.held} \cup OwnQuestions(q)
      /\ UNCHANGED overlapping
    BY DEF Commit, Committed
<1>3. \A r \in OwnQuestions(q) : r.list = q.list /\ r.post = q.post
    BY <1>1, OwnType
<1>4. OwnQuestions(q) # {} => q.asks # "keep"
    BY DEF OwnQuestions
<1>5. ASSUME NEW r \in OwnQuestions(q)
      PROVE  r.post \in overlapping \/ \A f \in Editor \ {e} : ~ Replaces(f, r.post)
    <2>1. Replaces(e, r.post) /\ r.post \in Post
        BY <1>1, <1>3, <1>4, <1>5 DEF Replaces, Request
    <2> QED BY <2>1 DEF OInv, Remembered
<1>6. request' = [request EXCEPT ![e] = Idle]
    BY DEF Commit, Committed, End
<1>7. Chosen' /\ Remembered' /\ KnowsAll'
    BY <1>2, <1>5, <1>6, EndKnows
<1>8. OneListUnlessOverlapping'
    <2> SUFFICES ASSUME NEW p \in Post \ overlapping, NEW r \in LiveQuestions(p)',
                        NEW s \in LiveQuestions(p)'
                 PROVE  r.list = s.list
        BY <1>2 DEF OneListUnlessOverlapping
    <2>1. CASE p = q.post /\ q.asks # "keep"
        <3>1. Replaces(e, p)
            BY <1>1, <2>1 DEF Replaces
        <3>2. \A x \in question : x.post = p => Id(x) \in q.held
            BY <3>1 DEF OInv, KnowsAll, QuestionsOf
        <3> QED BY <1>2, <1>3, <3>2 DEF LiveQuestions, QuestionsOf
    <2>2. CASE p # q.post \/ q.asks = "keep"
        <3>1. r \in LiveQuestions(p) /\ s \in LiveQuestions(p)
            BY <1>2, <1>3, <1>4, <2>2 DEF LiveQuestions, QuestionsOf
        <3> QED BY <3>1 DEF OInv, OneListUnlessOverlapping
    <2> QED BY <2>1, <2>2
<1> QED BY <1>7, <1>8 DEF OInv

(* A survey is created where there are no questions. *)
LEMMA CreateKnows == ASSUME OInv, NEW e \in Editor, Create(e), SInv' PROVE OInv'
<1> DEFINE q == request[e]
<1>1. q \in Request /\ q.post \in Post
    BY ActorType DEF OInv, SInv, Create
<1>2. request' = [request EXCEPT ![e] = Idle] /\ UNCHANGED overlapping
    BY DEF Create, End, history
<1>3. CASE UNCHANGED question
    BY <1>2, <1>3, EndKnows
       DEF OInv, OneListUnlessOverlapping, LiveQuestions, QuestionsOf
<1>4. CASE survey[q.post] = Absent /\ question' = question \cup OwnQuestions(q)
    <2>1. \A r \in OwnQuestions(q) : r.list = q.list /\ r.post = q.post
        BY <1>1, OwnType
    <2>2. \A r \in question : r.post # q.post
        BY <1>4 DEF OInv, SInv, ShapeOK
    <2>3. \A f \in Editor : ~ Replaces(f, q.post)
        <3> SUFFICES ASSUME NEW f \in Editor, Replaces(f, q.post) PROVE FALSE
            OBVIOUS
        <3>1. request[f].at \in {"delete", "commit"} /\ request[f].post = q.post
            BY DEF Replaces
        <3>2. request[f] # Idle
            BY <3>1, ActorType DEF OInv, SInv
        <3> QED BY <1>4, <3>1, <3>2 DEF OInv, SInv, InFlight
    <2>4. Chosen' /\ Remembered' /\ KnowsAll'
        BY <1>2, <1>4, <2>1, <2>3, EndKnows
    <2>5. OneListUnlessOverlapping'
        BY <1>2, <1>4, <2>1, <2>2
           DEF OInv, OneListUnlessOverlapping, LiveQuestions, QuestionsOf
    <2> QED BY <2>4, <2>5 DEF OInv
<1> QED BY <1>3, <1>4 DEF Create

(* A removal adds no question. *)
LEMMA RemoveKnows == ASSUME OInv, NEW e \in Editor, RemoveSurvey(e), SInv' PROVE OInv'
<1>1. request' = [request EXCEPT ![e] = Idle] /\ UNCHANGED overlapping
    BY DEF RemoveSurvey, Removed, End
<1>2. ASSUME NEW q \in question'
      PROVE  \E r \in question : /\ Id(r) = Id(q) /\ r.post = q.post
                                 /\ r.list = q.list /\ (q.live => r.live)
    <2>1. PICK r \in question :
            /\ Id(r) = Id(q) /\ r.post = q.post
            /\ q = IF Id(r) \in request[e].held THEN [r EXCEPT !.live = FALSE] ELSE r
        BY RemovedRows DEF OInv, SInv
    <2> QED BY <2>1 DEF OInv, SInv, ShapeOK, Question
<1>3. Chosen' /\ Remembered' /\ KnowsAll'
    BY <1>1, <1>2, EndKnows
<1>4. OneListUnlessOverlapping'
    <2> SUFFICES ASSUME NEW p \in Post \ overlapping, NEW r \in LiveQuestions(p)',
                        NEW s \in LiveQuestions(p)'
                 PROVE  r.list = s.list
        BY <1>1 DEF OneListUnlessOverlapping
    <2>1. \E x, y \in LiveQuestions(p) : x.list = r.list /\ y.list = s.list
        BY <1>2 DEF LiveQuestions, QuestionsOf
    <2> QED BY <2>1 DEF OInv, OneListUnlessOverlapping
<1> QED BY <1>3, <1>4 DEF OInv

(* Every step keeps to one list of questions where no updates overlap. *)
THEOREM SNext_OInv == OInv /\ [Next]_vars => OInv'
<1> SUFFICES ASSUME OInv, [Next]_vars PROVE OInv'
    OBVIOUS
<1>1. SInv /\ SInv'
    BY SNext_SInv DEF OInv
<1>2. CASE Elsewhere
    BY <1>1, <1>2 DEF Elsewhere, Kept, OInv, OneListUnlessOverlapping, LiveQuestions,
                      QuestionsOf, Chosen, Remembered, KnowsAll, Replaces, Id
<1>3. ASSUME NEW e \in Editor, Begins(e) PROVE OInv'
    <2>1. OneListUnlessOverlapping'
        BY <1>3 DEF Begins, Kept, OInv, OneListUnlessOverlapping, LiveQuestions, QuestionsOf
    <2> QED BY <1>1, <1>3, <2>1, OnKnows DEF Begins, Kept, OInv
<1>4. ASSUME NEW e \in Editor, Moves(e) PROVE OInv'
    <2>1. OneListUnlessOverlapping' /\ UNCHANGED <<question, overlapping>>
        BY <1>4 DEF Moves, tables, OInv, OneListUnlessOverlapping, LiveQuestions, QuestionsOf
    <2>2. CASE request' = [request EXCEPT ![e] = Idle]
        BY <1>1, <2>1, <2>2, EndKnows DEF OInv
    <2>3. CASE \E r \in Request : GoesOn(e, r)
        BY <1>1, <2>1, <2>3, OnKnows DEF OInv, GoesOn
    <2> QED BY <1>4, <2>2, <2>3 DEF Moves
<1>5. ASSUME NEW e \in Editor, LoadRemove(e) PROVE OInv'
    <2>1. OneListUnlessOverlapping' /\ UNCHANGED <<question, overlapping>>
        BY <1>5 DEF LoadRemove, tables, history, OInv, OneListUnlessOverlapping,
                    LiveQuestions, QuestionsOf
    <2>2. CASE End(e)
        BY <1>1, <2>1, <2>2, EndKnows DEF OInv, End
    <2>3. CASE request' = [request EXCEPT
                 ![e].held = {Id(q) : q \in LiveQuestions(request[e].post)},
                 ![e].at = "check"]
        <3> DEFINE r == [request[e] EXCEPT
                           !.held = {Id(q) : q \in LiveQuestions(request[e].post)},
                           !.at = "check"]
        <3>1. request[e] \in Request
            BY <1>1, <1>5, ActorType DEF SInv, LoadRemove
        <3>2. request' = [request EXCEPT ![e] = r] /\ r.at = "check"
            BY <1>1, <2>3, <3>1 DEF SInv, ShapeOK, Request
        <3> HIDE DEF r
        <3> QED BY <1>1, <2>1, <3>2, OnKnows DEF OInv
    <2> QED BY <1>5, <2>2, <2>3 DEF LoadRemove
<1> QED BY <1>1, <1>2, <1>3, <1>4, <1>5, ScanKnows, DeleteKnows, CommitKnows,
           CreateKnows, RemoveKnows, Steps

(* Updates that overlap are remembered, in every state. *)
THEOREM Spec_OInv == Spec => []OInv
<1>1. Init => OInv
    <2>1. Idle.at = "idle"
        BY DEF Idle
    <2> QED BY <2>1, SInit_SInv DEF Init, OInv, OneListUnlessOverlapping, LiveQuestions,
               QuestionsOf, Chosen, Remembered, KnowsAll, Replaces
<1> QED BY <1>1, SNext_OInv, PTL DEF Spec

(* OneListUnlessOverlapping: two lists of questions are in force together  *)
(* only where two updates of 설문조사를_업데이트한다 overlapped.            *)
THEOREM OneList == Spec => []OneListUnlessOverlapping
<1>1. OInv => OneListUnlessOverlapping
    BY DEF OInv
<1> QED BY <1>1, Spec_OInv, PTL
-----------------------------------------------------------------------------
(* As long as no update and deletion cross: a survey that is updated is     *)
(* live, and a deletion of a live survey holds all its questions.          *)
UpdatesLive ==
    \A p \in Post \ crossed : \A e \in Editor : Busy(e, p, Updating) => Live(p)
RemovesAll ==
    \A p \in Post \ crossed : \A e \in Editor :
        Busy(e, p, Removing) /\ Live(p)
          => \A q \in QuestionsOf(p) : Id(q) \in request[e].held

LInv == FInv /\ QuestionsFollowSurvey /\ UpdatesLive /\ RemovesAll

(* The places of an idle request are none of those. *)
LEMMA IdleNotBusy == Idle.at \notin Updating /\ Idle.at \notin Removing
BY DEF Idle, Updating, Removing

(* A request that changes its place, and no table. *)
LEMMA OnFollows ==
    ASSUME LInv, FInv', NEW e \in Editor, NEW r,
           request' = [request EXCEPT ![e] = r],
           UNCHANGED <<survey, question, crossed>>,
           r.at \in Updating => Busy(e, r.post, Updating) \/ Live(r.post),
           r.at \in Removing =>
             \/ Busy(e, r.post, Removing) /\ r.held = request[e].held
             \/ r.post \in crossed
             \/ \A q \in QuestionsOf(r.post) : Id(q) \in r.held
    PROVE  LInv'
<1>1. \A f \in Editor : request'[f] = IF f = e THEN r ELSE request[f]
    BY DEF LInv, FInv, SInv, ShapeOK
<1>2. QuestionsFollowSurvey'
    BY DEF LInv, QuestionsFollowSurvey, QuestionsOf, Live
<1>3. UpdatesLive'
    BY <1>1 DEF LInv, UpdatesLive, Busy, Live
<1>4. RemovesAll'
    <2> SUFFICES ASSUME NEW p \in Post \ crossed, NEW f \in Editor,
                        Busy(f, p, Removing)', Live(p), NEW q \in QuestionsOf(p)
                 PROVE  Id(q) \in request'[f].held
        BY DEF RemovesAll, QuestionsOf, Live, Id
    <2>1. CASE f # e
        BY <1>1, <2>1 DEF Busy, LInv, RemovesAll
    <2>2. CASE f = e
        BY <1>1, <2>2 DEF Busy, LInv, RemovesAll
    <2> QED BY <2>1, <2>2
<1> QED BY <1>2, <1>3, <1>4 DEF LInv

(* The end of a request that changes no table. *)
LEMMA EndFollows ==
    ASSUME LInv, FInv', NEW e \in Editor, request' = [request EXCEPT ![e] = Idle],
           UNCHANGED <<survey, question, crossed>>
    PROVE  LInv'
BY IdleNotBusy, OnFollows

(* A request that is somewhere in an update or a deletion is not idle. *)
LEMMA BusyIsThere ==
    ASSUME SInv, NEW e \in Editor, NEW p,
           Busy(e, p, Updating) \/ Busy(e, p, Removing)
    PROVE  survey[p] # Absent
<1>1. request[e] # Idle /\ request[e].at \notin {"find", "insert"} /\ request[e].post = p
    BY IdleNotBusy DEF Busy, Updating, Removing
<1> QED BY <1>1 DEF SInv, InFlight

(* A deletion loads all questions of its live survey. *)
LEMMA HoldFollows ==
    ASSUME LInv, FInv', NEW e \in Editor,
           ScanQuestions(e) \/ DeleteQuestions(e) \/ LoadRemove(e)
    PROVE  LInv'
<1> DEFINE q == request[e]
<1>1. q \in Request /\ q.post \in Post
    BY ActorType DEF LInv, FInv, SInv, ScanQuestions, DeleteQuestions, LoadRemove
<1>2. UNCHANGED <<survey, question, crossed>>
    BY DEF ScanQuestions, DeleteQuestions, LoadRemove, tables, history
<1>3. ASSUME NEW h, NEW a \in {"delete", "commit", "check"},
             request' = [request EXCEPT ![e].held = h, ![e].at = a],
             a # "check" => q.at \in {"scan", "delete"},
             a = "check" => \/ q.post \in crossed
                            \/ \A s \in QuestionsOf(q.post) : Id(s) \in h
      PROVE  LInv'
    <2> DEFINE r == [q EXCEPT !.held = h, !.at = a]
    <2>1. request' = [request EXCEPT ![e] = r] /\ r.at = a /\ r.post = q.post /\ r.held = h
        BY <1>1, <1>3 DEF LInv, FInv, SInv, ShapeOK, Request
    <2> HIDE DEF r
    <2>2. r.at \in Updating => Busy(e, r.post, Updating)
        BY <1>3, <2>1 DEF Busy, Updating
    <2>3. r.at \in Removing => \/ r.post \in crossed
                               \/ \A s \in QuestionsOf(r.post) : Id(s) \in r.held
        BY <1>3, <2>1 DEF Removing
    <2> QED BY <1>2, <2>1, <2>2, <2>3, OnFollows
<1>4. CASE ScanQuestions(e)
    BY <1>3, <1>4 DEF ScanQuestions
<1>5. CASE DeleteQuestions(e)
    BY <1>3, <1>5 DEF DeleteQuestions
<1>6. CASE LoadRemove(e)
    <2>1. CASE Live(q.post)
        <3>1. q.post \in crossed \/ \A s \in QuestionsOf(q.post) : s.live
            BY <1>1, <2>1 DEF LInv, QuestionsFollowSurvey
        <3>2. \/ q.post \in crossed
              \/ \A s \in QuestionsOf(q.post) : Id(s) \in {Id(x) : x \in LiveQuestions(q.post)}
            BY <3>1 DEF LiveQuestions
        <3> QED BY <1>3, <1>6, <2>1, <3>2 DEF LoadRemove
    <2>2. CASE ~ Live(q.post)
        BY <1>2, <1>6, <2>2, EndFollows DEF LoadRemove, End
    <2> QED BY <2>1, <2>2
<1> QED BY <1>4, <1>5, <1>6

(* A survey and its first questions are live together. *)
LEMMA CreateFollows == ASSUME LInv, FInv', NEW e \in Editor, Create(e) PROVE LInv'
<1> DEFINE q == request[e]
<1>1. q \in Request /\ q.post \in Post
    BY ActorType DEF LInv, FInv, SInv, Create
<1>2. request' = [request EXCEPT ![e] = Idle] /\ UNCHANGED crossed
    BY DEF Create, End, history
<1>3. CASE UNCHANGED <<survey, question>>
    BY <1>2, <1>3, EndFollows
<1>4. CASE /\ survey[q.post] = Absent
           /\ survey' = [survey EXCEPT ![q.post] = [status |-> "live", title |-> q.title]]
           /\ question' = question \cup OwnQuestions(q)
    <2>1. \A r \in OwnQuestions(q) : r.post = q.post /\ r.live
        BY <1>1, OwnType
    <2>2. \A r \in question : r.post # q.post
        BY <1>4 DEF LInv, FInv, SInv, ShapeOK
    <2>3. \A p \in Post : Live(p)' <=> (p = q.post \/ Live(p))
        BY <1>1, <1>4 DEF LInv, FInv, SInv, ShapeOK, Live
    <2>4. \A f \in Editor, p \in Post :
            /\ Busy(f, p, Updating)' => Busy(f, p, Updating) /\ f # e
            /\ Busy(f, p, Removing)' => Busy(f, p, Removing) /\ f # e /\ p # q.post
        <3>1. \A f \in Editor : ~ Busy(f, q.post, Removing)
            BY <1>4, BusyIsThere DEF LInv, FInv
        <3>2. \A f \in Editor : request'[f] = IF f = e THEN Idle ELSE request[f]
            BY <1>2 DEF LInv, FInv, SInv, ShapeOK
        <3> QED BY <3>1, <3>2, IdleNotBusy DEF Busy, Updating, Removing
    <2>5. QuestionsFollowSurvey'
        BY <1>2, <1>4, <2>1, <2>2, <2>3 DEF LInv, QuestionsFollowSurvey, QuestionsOf
    <2>6. UpdatesLive'
        BY <1>2, <2>3, <2>4 DEF LInv, UpdatesLive
    <2>7. RemovesAll'
        <3> SUFFICES ASSUME NEW p \in Post \ crossed, NEW f \in Editor,
                            Busy(f, p, Removing)', Live(p)', NEW r \in question', r.post = p
                     PROVE  Id(r) \in request'[f].held
            BY <1>2 DEF RemovesAll, QuestionsOf, Id
        <3>1. /\ Busy(f, p, Removing) /\ f # e /\ p # q.post /\ Live(p)
              /\ request'[f] = request[f] /\ r \in question
            BY <1>2, <1>4, <2>1, <2>3, <2>4 DEF LInv, FInv, SInv, ShapeOK
        <3> QED BY <3>1 DEF LInv, RemovesAll, QuestionsOf
    <2> QED BY <2>5, <2>6, <2>7 DEF LInv
<1> QED BY <1>3, <1>4 DEF Create

(* An update adds live questions to a survey that is live. *)
LEMMA CommitFollows == ASSUME LInv, FInv', NEW e \in Editor, Commit(e) PROVE LInv'
<1> DEFINE q == request[e]
<1>1. q \in Request /\ q.post \in Post /\ q.at = "commit"
    BY ActorType DEF LInv, FInv, SInv, Commit, Committed
<1>2. question' = {r \in question : Id(r) \notin q.held} \cup OwnQuestions(q)
    BY DEF Commit, Committed
<1>3. \A r \in OwnQuestions(q) : r.post = q.post /\ r.live
    BY <1>1, OwnType
<1>4. crossed \subseteq crossed'
      /\ \A f \in Editor : Busy(f, q.post, Removing) => q.post \in crossed'
    BY DEF Commit, Committed
<1>5. q.post \notin crossed => Live(q.post)
    <2>1. Busy(e, q.post, Updating)
        BY <1>1 DEF Busy, Updating
    <2> QED BY <1>1, <2>1 DEF LInv, UpdatesLive
<1>6. \A p \in Post : p # q.post \/ p \notin crossed => (Live(p)' <=> Live(p))
    <2>1. ASSUME NEW p \in Post, p # q.post PROVE survey'[p] = survey[p]
        BY <1>1, <2>1 DEF Commit, Committed, LInv, FInv, SInv, ShapeOK
    <2>2. q.post \notin crossed => survey'[q.post].status = "live"
        BY <1>1, <1>5 DEF Commit, Committed, LInv, FInv, SInv, ShapeOK, Live
    <2> QED BY <1>5, <2>1, <2>2 DEF Live
<1>7. \A f \in Editor, p \in Post :
        /\ Busy(f, p, Updating)' => Busy(f, p, Updating)
        /\ Busy(f, p, Removing)' => Busy(f, p, Removing) /\ request'[f] = request[f]
    <2>1. \A f \in Editor : request'[f] = IF f = e THEN Idle ELSE request[f]
        BY DEF Commit, Committed, End, LInv, FInv, SInv, ShapeOK
    <2> QED BY <2>1, IdleNotBusy DEF Busy, Updating, Removing
<1>8. QuestionsFollowSurvey'
    BY <1>2, <1>3, <1>4, <1>5, <1>6 DEF LInv, QuestionsFollowSurvey, QuestionsOf
<1>9. UpdatesLive'
    BY <1>4, <1>6, <1>7 DEF LInv, UpdatesLive
<1>10. RemovesAll'
    <2> SUFFICES ASSUME NEW p \in Post \ crossed', NEW f \in Editor,
                        Busy(f, p, Removing)', Live(p)', NEW r \in question', r.post = p
                 PROVE  Id(r) \in request'[f].held
        BY DEF RemovesAll, QuestionsOf, Id
    <2>1. /\ Busy(f, p, Removing) /\ request'[f] = request[f] /\ p \notin crossed
          /\ p # q.post /\ Live(p)
        BY <1>4, <1>6, <1>7
    <2>2. r \in QuestionsOf(p)
        BY <1>2, <1>3, <2>1 DEF QuestionsOf
    <2> QED BY <2>1, <2>2 DEF LInv, RemovesAll
<1> QED BY <1>8, <1>9, <1>10 DEF LInv

(* A removal takes all questions of its survey and of no other. *)
LEMMA RemoveFollows == ASSUME LInv, FInv', NEW e \in Editor, RemoveSurvey(e) PROVE LInv'
<1> DEFINE q == request[e]
<1>0. q \in Request /\ q.post \in Post /\ q.at = "remove" /\ q # Idle
    BY ActorType DEF LInv, FInv, SInv, RemoveSurvey, Removed
<1>1. PICK home \in Post : home = q.post
    BY <1>0
<1>2. survey' = [survey EXCEPT ![home] = SoftRemoved(e)] /\ ~ Live(home)'
    <2>1. survey[home] \in SurveyRow
        BY <1>0, <1>1 DEF LInv, FInv, SInv, ShapeOK, InFlight
    <2>2. SoftRemoved(e).status = "deleted"
        BY <2>1 DEF SoftRemoved, SurveyRow
    <2> QED BY <1>0, <1>1, <2>2 DEF RemoveSurvey, Removed, Live, LInv, FInv, SInv, ShapeOK
<1>3. \A p \in Post : p # home => (Live(p)' <=> Live(p))
    BY <1>0, <1>1, <1>2 DEF Live, LInv, FInv, SInv, ShapeOK
<1>4. crossed \subseteq crossed'
      /\ \A f \in Editor : Busy(f, home, Updating) => home \in crossed'
    BY <1>1 DEF RemoveSurvey, Removed
<1>5. \A f \in Editor, p \in Post :
        /\ Busy(f, p, Updating)' => Busy(f, p, Updating)
        /\ Busy(f, p, Removing)' => Busy(f, p, Removing) /\ request'[f] = request[f]
    <2>1. \A f \in Editor : request'[f] = IF f = e THEN Idle ELSE request[f]
        BY DEF RemoveSurvey, Removed, End, LInv, FInv, SInv, ShapeOK
    <2> QED BY <2>1, IdleNotBusy DEF Busy, Updating, Removing
<1>6. ASSUME NEW s \in question'
      PROVE  \E r \in question :
               /\ Id(r) = Id(s) /\ r.post = s.post
               /\ s.post # home => s = r
               /\ s.post = home /\ Id(r) \in q.held => ~ s.live
               /\ ~ r.live => ~ s.live
    <2>1. PICK r \in question :
            /\ Id(r) = Id(s) /\ r.post = s.post
            /\ s = IF Id(r) \in q.held THEN [r EXCEPT !.live = FALSE] ELSE r
        BY RemovedRows DEF LInv, FInv, SInv
    <2>2. Id(r) \in q.held => r.post = home
        BY <1>0, <1>1 DEF LInv, FInv, HeldOwn
    <2> QED BY <2>1, <2>2 DEF LInv, FInv, SInv, ShapeOK, Question
<1>7. QuestionsFollowSurvey'
    <2> SUFFICES ASSUME NEW p \in Post \ crossed', NEW s \in question', s.post = p
                 PROVE  s.live <=> Live(p)'
        BY DEF QuestionsFollowSurvey, QuestionsOf
    <2>1. PICK r \in question :
               /\ Id(r) = Id(s) /\ r.post = p
               /\ p # home => s = r
               /\ p = home /\ Id(r) \in q.held => ~ s.live
               /\ ~ r.live => ~ s.live
        BY <1>6
    <2>2. r.live <=> Live(p)
        BY <1>4, <2>1 DEF LInv, QuestionsFollowSurvey, QuestionsOf
    <2>3. CASE p # home
        BY <1>3, <2>1, <2>2, <2>3
    <2>4. CASE p = home
        <3>1. Busy(e, p, Removing)
            BY <1>0, <1>1, <2>4 DEF Busy, Removing
        <3>2. Live(p) => Id(r) \in q.held
            BY <1>4, <2>1, <3>1 DEF LInv, RemovesAll, QuestionsOf
        <3> QED BY <1>2, <2>1, <2>2, <2>4, <3>2
    <2> QED BY <2>3, <2>4
<1>8. UpdatesLive'
    BY <1>3, <1>4, <1>5 DEF LInv, UpdatesLive
<1>9. RemovesAll'
    <2> SUFFICES ASSUME NEW p \in Post \ crossed', NEW f \in Editor,
                        Busy(f, p, Removing)', Live(p)', NEW s \in question', s.post = p
                 PROVE  Id(s) \in request'[f].held
        BY DEF RemovesAll, QuestionsOf, Id
    <2>1. /\ Busy(f, p, Removing) /\ request'[f] = request[f] /\ p \notin crossed
          /\ p # home /\ Live(p)
        BY <1>2, <1>3, <1>4, <1>5
    <2>2. \E r \in QuestionsOf(p) : Id(r) = Id(s)
        BY <1>6 DEF QuestionsOf
    <2> QED BY <2>1, <2>2 DEF LInv, RemovesAll
<1> QED BY <1>7, <1>8, <1>9 DEF LInv

(* Every step keeps questions and survey together where none cross. *)
THEOREM SNext_LInv == LInv /\ [Next]_vars => LInv'
<1> SUFFICES ASSUME LInv, [Next]_vars PROVE LInv'
    OBVIOUS
<1>1. SInv /\ FInv'
    BY SNext_FInv DEF LInv, FInv
<1>2. CASE Elsewhere
    BY <1>1, <1>2 DEF Elsewhere, Kept, LInv, QuestionsFollowSurvey, UpdatesLive, RemovesAll,
                      QuestionsOf, Live, Busy, Id
<1>3. ASSUME NEW e \in Editor, Begins(e) PROVE LInv'
    <2>1. PICK r \in Request :
            /\ request' = [request EXCEPT ![e] = r]
            /\ r.at \in {"find", "insert", "loadUpdate", "loadRemove"}
        BY <1>3 DEF Begins
    <2>2. r.at \notin Updating /\ r.at \notin Removing
        BY <2>1 DEF Updating, Removing
    <2> QED BY <1>1, <1>3, <2>1, <2>2, OnFollows DEF Begins, Kept
<1>4. ASSUME NEW e \in Editor, Moves(e) PROVE LInv'
    <2>1. UNCHANGED <<survey, question, crossed>>
        BY <1>4 DEF Moves, tables
    <2>2. CASE request' = [request EXCEPT ![e] = Idle]
        BY <1>1, <2>1, <2>2, EndFollows
    <2>3. ASSUME NEW r \in Request, GoesOn(e, r) PROVE LInv'
        <3>1. r.at \in Updating => Busy(e, r.post, Updating) \/ Live(r.post)
            BY <2>3 DEF GoesOn, Busy
        <3>2. r.at \in Removing => Busy(e, r.post, Removing) /\ r.held = request[e].held
            BY <2>3 DEF GoesOn, Busy, Removing
        <3>3. request' = [request EXCEPT ![e] = r]
            BY <2>3 DEF GoesOn
        <3> QED BY <1>1, <2>1, <3>1, <3>2, <3>3, OnFollows
    <2> QED BY <1>4, <2>2, <2>3 DEF Moves
<1> QED BY <1>1, <1>2, <1>3, <1>4, HoldFollows, CreateFollows, CommitFollows,
           RemoveFollows, Steps

(* Questions and survey stay together where none cross, in every state. *)
THEOREM Spec_LInv == Spec => []LInv
<1>1. Init => LInv
    <2>1. Init => FInv
        BY SInit_SInv DEF Init, FInv, Fresh, OnePost, HeldOwn
    <2> QED BY <2>1, IdleNotBusy DEF Init, LInv, QuestionsFollowSurvey, QuestionsOf,
               UpdatesLive, RemovesAll, Busy
<1> QED BY <1>1, SNext_LInv, PTL DEF Spec

(* QuestionsFollowSurvey: questions are live where their survey is, unless *)
(* a deletion and an update of the survey crossed.                         *)
THEOREM QuestionsFollow == Spec => []QuestionsFollowSurvey
<1>1. LInv => QuestionsFollowSurvey
    BY DEF LInv
<1> QED BY <1>1, Spec_LInv, PTL
-----------------------------------------------------------------------------
(* SurveyComesWithPost: an announcement created with a survey gets one,    *)
(* though 공지사항을_생성한다 creates the survey in a second transaction   *)
(* and others may run before it.                                           *)
THEOREM ComesWithPost == Spec => []SurveyComesWithPost
<1> DEFINE PInv == SInv /\ SurveyComesWithPost
<1>1. Init => PInv
    BY SInit_SInv DEF Init, SurveyComesWithPost
<1>2. PInv /\ [Next]_vars => PInv'
    <2> SUFFICES ASSUME PInv, [Next]_vars PROVE SurveyComesWithPost'
        BY SNext_SInv
    <2> DEFINE Served(p) == survey[p] # Absent \/ \E f \in Editor : Busy(f, p, {"insert"})
    <2>1. SInv /\ ShapeOK /\ \A p \in promised : Served(p)
        BY DEF SInv, SurveyComesWithPost
    <2>2. ASSUME NEW e \in Editor, NEW r, request' = [request EXCEPT ![e] = r],
                 request[e].at # "insert", UNCHANGED survey,
                 \A p \in promised' : p \in promised \/ (r.at = "insert" /\ r.post = p)
          PROVE  SurveyComesWithPost'
        <3>1. \A f \in Editor : request'[f] = IF f = e THEN r ELSE request[f]
            BY <2>1, <2>2 DEF ShapeOK
        <3> QED BY <2>1, <2>2, <3>1 DEF SurveyComesWithPost, Busy
    <2>3. ASSUME NEW e \in Editor, request' = [request EXCEPT ![e] = Idle],
                 promised' \subseteq promised,
                 \A p \in Post : survey[p] # Absent => survey'[p] # Absent,
                 request[e].at = "insert" =>
                   \/ request[e].post \notin promised'
                   \/ survey'[request[e].post] # Absent
          PROVE  SurveyComesWithPost'
        <3>1. \A f \in Editor : request'[f] = IF f = e THEN Idle ELSE request[f]
            BY <2>1, <2>3 DEF ShapeOK
        <3> QED BY <2>1, <2>3, <3>1 DEF SurveyComesWithPost, Busy, ShapeOK
    <2>4. CASE Elsewhere
        BY <2>1, <2>4 DEF Elsewhere, Kept, SurveyComesWithPost, Busy
    <2>5. ASSUME NEW e \in Editor, Begins(e) PROVE SurveyComesWithPost'
        <3>1. request[e].at # "insert"
            BY <2>5 DEF Begins, Idle
        <3> QED BY <2>2, <2>5, <3>1 DEF Begins, Kept
    <2>6. ASSUME NEW e \in Editor, Moves(e) PROVE SurveyComesWithPost'
        BY <2>2, <2>3, <2>6 DEF Moves, GoesOn, tables
    <2>7. ASSUME NEW e \in Editor, Create(e) PROVE SurveyComesWithPost'
        <3> DEFINE q == request[e]
                   row == [status |-> "live", title |-> q.title]
        <3>1. q \in Request /\ q.post \in Post
            BY <2>1, <2>7, ActorType DEF Create
        <3>2. row # Absent
            <4>1. row \in SurveyRow
                BY <3>1 DEF SurveyRow, Status, Request
            <4> QED BY <4>1, Distinct
        <3> HIDE DEF row
        <3>3. /\ \A p \in Post : survey[p] # Absent => survey'[p] # Absent
              /\ survey'[q.post] # Absent
            BY <2>1, <2>7, <3>1, <3>2 DEF Create, ShapeOK, row
        <3> QED BY <2>3, <2>7, <3>3 DEF Create, End, history
    <2>8. ASSUME NEW e \in Editor, ScanQuestions(e) \/ DeleteQuestions(e) \/ LoadRemove(e)
          PROVE  SurveyComesWithPost'
        <3>1. request[e].at # "insert" /\ UNCHANGED <<survey, promised>>
            BY <2>8 DEF ScanQuestions, DeleteQuestions, LoadRemove, tables, history
        <3>2. \E r : request' = [request EXCEPT ![e] = r]
            BY <2>1, <2>8 DEF ScanQuestions, DeleteQuestions, LoadRemove, End, ShapeOK
        <3> QED BY <2>2, <3>1, <3>2
    <2>9. ASSUME NEW e \in Editor, Commit(e) \/ RemoveSurvey(e) PROVE SurveyComesWithPost'
        <3>1. /\ request[e].at # "insert" /\ UNCHANGED promised
              /\ request' = [request EXCEPT ![e] = Idle]
            BY <2>9 DEF Commit, Committed, RemoveSurvey, Removed, End
        <3>2. \A p \in Post : survey[p] # Absent => survey'[p] # Absent
            <4>1. SInv' /\ request[e].post \in Post /\ survey[request[e].post] # Absent
                BY <2>1, <2>9, SNext_SInv, ActorType
                   DEF SInv, InFlight, Commit, Committed, RemoveSurvey, Removed
            <4>2. \E row \in SurveyRow : survey' = [survey EXCEPT ![request[e].post] = row]
                <5>1. survey'[request[e].post].status \in Status
                    BY <2>1, <2>9, <4>1 DEF ShapeOK, SurveyRow, Status, SoftRemoved,
                       Commit, Committed, RemoveSurvey, Removed
                <5>2. survey'[request[e].post] # Absent
                    BY <5>1 DEF Absent, Status
                <5>3. survey'[request[e].post] \in SurveyRow
                    BY <4>1, <5>2 DEF SInv, ShapeOK
                <5>4. \A p \in Post : p # request[e].post => survey'[p] = survey[p]
                    BY <2>1, <2>9, <4>1 DEF ShapeOK, Commit, Committed, RemoveSurvey, Removed
                <5>5. survey' \in [Post -> SurveyRow \cup {Absent}]
                    BY <4>1 DEF SInv, ShapeOK
                <5> QED BY <2>1, <4>1, <5>3, <5>4, <5>5 DEF ShapeOK
            <4> QED BY <2>1, <4>2, Distinct DEF ShapeOK
        <3> QED BY <2>3, <3>1, <3>2
    <2> QED BY <2>1, <2>4, <2>5, <2>6, <2>7, <2>8, <2>9, Steps
<1>3. PInv => SurveyComesWithPost
    OBVIOUS
<1> QED BY <1>1, <1>2, <1>3, PTL DEF Spec
-----------------------------------------------------------------------------
(* A request that keeps the questions deletes none. *)
KeepsAll ==
    \A e \in Editor :
        request[e] # Idle /\ request[e].at \notin Removing /\ request[e].asks = "keep"
          => request[e].held = {}

KInv == OInv /\ KeepsAll

(* Every step leaves such a request without questions to delete. *)
THEOREM SNext_KInv == KInv /\ [Next]_vars => KInv'
<1> SUFFICES ASSUME KInv, [Next]_vars PROVE KeepsAll'
    BY SNext_OInv DEF KInv
<1>1. SInv /\ ShapeOK /\ KeepsAll /\ Chosen
    BY DEF KInv, OInv, SInv
<1>2. ASSUME NEW e \in Editor, request' = [request EXCEPT ![e] = Idle] PROVE KeepsAll'
    BY <1>1, <1>2 DEF KeepsAll, ShapeOK
<1>3. ASSUME NEW e \in Editor, NEW r, request' = [request EXCEPT ![e] = r],
             r.at \notin Removing /\ r.asks = "keep" => r.held = {}
      PROVE  KeepsAll'
    BY <1>1, <1>3 DEF KeepsAll, ShapeOK
<1>4. CASE Elsewhere
    BY <1>1, <1>4 DEF Elsewhere, KeepsAll
<1>5. ASSUME NEW e \in Editor, Begins(e) PROVE KeepsAll'
    BY <1>3, <1>5 DEF Begins
<1>6. ASSUME NEW e \in Editor, Moves(e) PROVE KeepsAll'
    <2>1. ASSUME NEW r \in Request, GoesOn(e, r) PROVE KeepsAll'
        BY <1>1, <1>3, <1>6, <2>1 DEF GoesOn, Moves, KeepsAll
    <2> QED BY <1>2, <1>6, <2>1 DEF Moves
<1>7. ASSUME NEW e \in Editor, Create(e) \/ Commit(e) \/ RemoveSurvey(e) PROVE KeepsAll'
    BY <1>2, <1>7 DEF Create, Commit, Committed, RemoveSurvey, Removed, End
<1>8. ASSUME NEW e \in Editor, ScanQuestions(e) \/ DeleteQuestions(e) \/ LoadRemove(e)
      PROVE  KeepsAll'
    <2>1. request[e] \in Request
        BY <1>1, <1>8, ActorType DEF ScanQuestions, DeleteQuestions, LoadRemove
    <2>2. ASSUME NEW h, NEW a, request' = [request EXCEPT ![e].held = h, ![e].at = a],
                 a = "check" \/ request[e].asks # "keep"
          PROVE  KeepsAll'
        <3> DEFINE r == [request[e] EXCEPT !.held = h, !.at = a]
        <3>1. request' = [request EXCEPT ![e] = r] /\ r.at = a /\ r.asks = request[e].asks
            BY <1>1, <2>1, <2>2 DEF ShapeOK, Request
        <3> HIDE DEF r
        <3> QED BY <1>3, <2>2, <3>1 DEF Removing
    <2> QED BY <1>1, <1>2, <1>8, <2>2
            DEF ScanQuestions, DeleteQuestions, LoadRemove, End, Chosen
<1> QED BY <1>1, <1>4, <1>5, <1>6, <1>7, <1>8, Steps

(* A request that keeps the questions deletes none, in every state. *)
THEOREM Spec_KInv == Spec => []KInv
<1>1. Init => KeepsAll
    BY DEF Init, KeepsAll
<1>2. Init => KInv
    <2>1. Idle.at = "idle"
        BY DEF Idle
    <2>2. Init => OInv
        BY <2>1, SInit_SInv DEF Init, OInv, OneListUnlessOverlapping, LiveQuestions,
               QuestionsOf, Chosen, Remembered, KnowsAll, Replaces
    <2> QED BY <1>1, <2>2 DEF KInv
<1> QED BY <1>2, SNext_KInv, PTL DEF Spec
-----------------------------------------------------------------------------
(* The questionnaire that the tables show. *)
StatusNow == [p \in Post |-> survey[p].status]
SheetOf(p) == {Id(q) : q \in LiveQuestions(p)}
SheetNow == [p \in Post |-> SheetOf(p)]
SpoiltNow == overlapping \cup crossed

LEMMA Shown ==
    /\ Q!QInit <=> /\ StatusNow = [p \in Post |-> "absent"]
                   /\ SheetNow = [p \in Post |-> {}]
                   /\ SpoiltNow = {}
    /\ StatusNow' = StatusNow /\ SheetNow' = SheetNow /\ SpoiltNow' = SpoiltNow
         => UNCHANGED Q!qvars
BY DEF Q!QInit, Q!qvars, StatusNow, SheetNow, SheetOf, SpoiltNow

(* A step changes the survey of one announcement only. *)
Only(p) ==
    /\ \A x \in Post : x # p => survey'[x] = survey[x] /\ SheetOf(x)' = SheetOf(x)
    /\ StatusNow' = [StatusNow EXCEPT ![p] = survey'[p].status]
    /\ SheetNow' = [SheetNow EXCEPT ![p] = SheetOf(p)']

LEMMA OnlyOne ==
    ASSUME NEW p \in Post,
           \A x \in Post : x # p => survey'[x] = survey[x] /\ SheetOf(x)' = SheetOf(x)
    PROVE  Only(p)
BY DEF Only, StatusNow, SheetNow

(* Questions are made of lists and places, and a survey is in one of three *)
(* states.                                                                 *)
LEMMA ShownType ==
    ASSUME ShapeOK, NEW p \in Post
    PROVE  /\ survey[p].status \in {"absent", "live", "deleted"}
           /\ SheetOf(p) \subseteq List \X Place
           /\ ShapeOK' => /\ survey'[p].status \in {"absent", "live", "deleted"}
                         /\ SheetOf(p)' \subseteq List \X Place
<1>1. survey[p].status \in {"absent", "live", "deleted"}
    BY DEF ShapeOK, SurveyRow, Status, Absent
<1>2. \A q \in question : Id(q) \in List \X Place
    BY DEF ShapeOK, Question, Id
<1>3. ShapeOK' => /\ survey'[p].status \in {"absent", "live", "deleted"}
                 /\ \A q \in question' : Id(q) \in List \X Place
    BY DEF ShapeOK, SurveyRow, Status, Absent, Question, Id
<1>4. SheetOf(p)' = {Id(q) : q \in LiveQuestions(p)'}
    BY DEF SheetOf, Id
<1> QED BY <1>1, <1>2, <1>3, <1>4 DEF SheetOf, LiveQuestions, QuestionsOf

(* The own list of a request is put nowhere. *)
LEMMA OwnSheet ==
    ASSUME FInv, NEW e \in Editor, request[e] \in Request
    PROVE  {Id(q) : q \in OwnQuestions(request[e])} \in Q!Sheets
<1> DEFINE b == request[e].list
<1>1. b \in List /\ request[e] # Idle
    BY Distinct DEF Request
<1>2. \A q \in question : q.list # b
    BY <1>1 DEF FInv, Fresh
<1>3. \A p \in Post : \A i \in {Id(q) : q \in LiveQuestions(p)} : i[1] # b
    BY <1>2 DEF LiveQuestions, QuestionsOf, Id
<1>4. CASE request[e].asks = "own"
    <2> DEFINE Row(n) == [list |-> b, place |-> n, post |-> request[e].post, live |-> TRUE]
    <2>0. /\ \A n \in Place : Row(n) \in OwnQuestions(request[e]) /\ Id(Row(n)) = <<b, n>>
          /\ \A r \in OwnQuestions(request[e]) : \E n \in Place : r = Row(n)
        BY <1>4 DEF OwnQuestions, Id
    <2> HIDE DEF Row
    <2>1. {Id(q) : q \in OwnQuestions(request[e])} = {b} \X Place
        BY <2>0
    <2>2. \A p \in Post :
            [x \in Post |-> {Id(q) : q \in LiveQuestions(x)}][p] = {Id(q) : q \in LiveQuestions(p)}
        OBVIOUS
    <2>3. \A p \in Post : \A i \in [x \in Post |-> {Id(q) : q \in LiveQuestions(x)}][p] : i[1] # b
        BY <1>3
    <2> QED BY <1>1, <2>1, <2>3 DEF Q!Sheets
<1>5. CASE request[e].asks # "own"
    <2>1. {Id(q) : q \in OwnQuestions(request[e])} = {}
        BY <1>5 DEF OwnQuestions
    <2> QED BY <2>1 DEF Q!Sheets
<1> QED BY <1>4, <1>5

(* What is asked of the survey of p, said of the tables. *)
LEMMA QuestionnaireSteps ==
    ASSUME NEW p \in Post, Only(p)
    PROVE  /\ (/\ survey[p].status = "absent" /\ survey'[p].status = "live"
               /\ SheetOf(p)' \in Q!Sheets /\ UNCHANGED SpoiltNow)
              => Q!QNext
           /\ (/\ Live(p) /\ survey'[p].status = "live"
               /\ SheetOf(p)' \in Q!Sheets /\ UNCHANGED SpoiltNow)
              => Q!QNext
           /\ (/\ Live(p) /\ survey'[p].status = "deleted"
               /\ SheetOf(p)' = {} /\ UNCHANGED SpoiltNow)
              => Q!QNext
           /\ (/\ SpoiltNow' = SpoiltNow \cup {p}
               /\ survey'[p].status \in {"absent", "live", "deleted"}
               /\ SheetOf(p)' \subseteq List \X Place)
              => Q!QNext
           /\ (/\ survey'[p].status = survey[p].status
               /\ SheetOf(p)' = SheetOf(p) /\ UNCHANGED SpoiltNow)
              => UNCHANGED Q!qvars
<1> DEFINE S == [x \in Post |-> survey[x].status]
           H == [x \in Post |-> {Id(q) : q \in LiveQuestions(x)}]
<1>1. /\ S' = [S EXCEPT ![p] = survey'[p].status]
      /\ H' = [H EXCEPT ![p] = SheetOf(p)']
      /\ S[p] = survey[p].status /\ H[p] = SheetOf(p)
      /\ S = [x \in Post |-> S[x]] /\ H = [x \in Post |-> H[x]]
    BY DEF Only, StatusNow, SheetNow, SheetOf
<1>2. ASSUME survey[p].status = "absent",
             survey'[p].status = "live",
             SheetOf(p)' \in Q!Sheets,
             UNCHANGED SpoiltNow
      PROVE  Q!QNext
    <2>1. Q!Issue(p)
        BY <1>1, <1>2 DEF Q!Issue
    <2> QED BY <1>2, <2>1 DEF Q!QNext, SpoiltNow
<1>3. ASSUME Live(p),
             survey'[p].status = "live",
             SheetOf(p)' \in Q!Sheets,
             UNCHANGED SpoiltNow
      PROVE  Q!QNext
    <2>1. S' = S
        BY <1>1, <1>3 DEF Live
    <2>2. Q!Replace(p)
        BY <1>1, <1>3, <2>1 DEF Q!Replace, Live
    <2> QED BY <1>3, <2>2 DEF Q!QNext, SpoiltNow
<1>4. ASSUME Live(p),
             survey'[p].status = "deleted",
             SheetOf(p)' = {},
             UNCHANGED SpoiltNow
      PROVE  Q!QNext
    <2>1. Q!Withdraw(p)
        BY <1>1, <1>4 DEF Q!Withdraw, Live
    <2> QED BY <1>4, <2>1 DEF Q!QNext, SpoiltNow
<1>5. ASSUME SpoiltNow' = SpoiltNow \cup {p},
             survey'[p].status \in {"absent", "live", "deleted"},
             SheetOf(p)' \subseteq List \X Place
      PROVE  Q!QNext
    <2>1. Q!Spoil(p)
        BY <1>1, <1>5 DEF Q!Spoil, SpoiltNow
    <2> QED BY <2>1 DEF Q!QNext
<1>6. ASSUME survey'[p].status = survey[p].status,
             SheetOf(p)' = SheetOf(p),
             UNCHANGED SpoiltNow
      PROVE  UNCHANGED Q!qvars
    <2>1. S' = S /\ H' = H
        BY <1>1, <1>6
    <2> QED BY <1>6, <2>1 DEF Q!qvars, SpoiltNow
<1> QED BY <1>2, <1>3, <1>4, <1>5, <1>6

(* A survey is created with the whole list or none. *)
LEMMA CreateImplements ==
    ASSUME FInv, NEW e \in Editor, Create(e)
    PROVE  [Q!QNext]_Q!qvars
<1> DEFINE q == request[e]
<1>0. PICK p \in Post : p = request[e].post
    BY ActorType DEF FInv, SInv, Create
<1>1. q \in Request /\ UNCHANGED SpoiltNow
    BY ActorType DEF FInv, SInv, Create, history, SpoiltNow
<1>2. CASE UNCHANGED <<survey, question>>
    BY <1>1, <1>2, Shown DEF StatusNow, SheetNow, SheetOf, LiveQuestions, QuestionsOf, Id
<1>3. CASE /\ survey[p] = Absent
           /\ survey' = [survey EXCEPT ![p] = [status |-> "live", title |-> q.title]]
           /\ question' = question \cup OwnQuestions(q)
    <2>1. \A r \in OwnQuestions(q) : r.post = p /\ r.live
        BY <1>0, <1>1, OwnType
    <2>2. \A r \in question : r.post # p
        BY <1>0, <1>3 DEF FInv, SInv, ShapeOK
    <2>3. LiveQuestions(p)' = OwnQuestions(q)
        BY <1>3, <2>1, <2>2 DEF LiveQuestions, QuestionsOf
    <2>4. SheetOf(p)' = {Id(r) : r \in OwnQuestions(q)}
        BY <2>3 DEF SheetOf, Id
    <2>5. ASSUME NEW x \in Post, x # p
          PROVE  survey'[x] = survey[x] /\ SheetOf(x)' = SheetOf(x)
        <3>1. LiveQuestions(x)' = LiveQuestions(x)
            BY <1>3, <2>1, <2>5 DEF LiveQuestions, QuestionsOf
        <3> QED BY <1>0, <1>3, <2>5, <3>1 DEF SheetOf, Id, FInv, SInv, ShapeOK
    <2>6. survey[p].status = "absent" /\ survey'[p].status = "live"
        BY <1>0, <1>1, <1>3 DEF Absent, FInv, SInv, ShapeOK
    <2>7. SheetOf(p)' \in Q!Sheets
        BY <1>0, <1>1, <2>4, OwnSheet
    <2>8. Only(p)
        BY <1>0, <1>1, <2>5, OnlyOne
    <2> QED BY <1>0, <1>1, <2>6, <2>7, <2>8, QuestionnaireSteps
<1> QED BY <1>0, <1>2, <1>3 DEF Create

(* A scan leaves the survey alone, and spoils it if it overlaps. *)
LEMMA ScanImplements ==
    ASSUME SInv, NEW e \in Editor, ScanQuestions(e)
    PROVE  [Q!QNext]_Q!qvars
<1>0. PICK p \in Post : p = request[e].post
    BY ActorType DEF SInv, ScanQuestions
<1>1. /\ UNCHANGED <<survey, question, crossed>>
      /\ overlapping' \in {overlapping, overlapping \cup {p}}
    BY <1>0 DEF ScanQuestions, tables
<1>2. \A x \in Post : survey'[x] = survey[x] /\ SheetOf(x)' = SheetOf(x)
    BY <1>1 DEF SheetOf, LiveQuestions, QuestionsOf, Id
<1>3. Only(p)
    BY <1>1, <1>2, OnlyOne
<1>4. CASE UNCHANGED overlapping
    BY <1>1, <1>2, <1>3, <1>4, QuestionnaireSteps DEF SpoiltNow
<1>5. CASE overlapping' = overlapping \cup {p}
    <2>1. SpoiltNow' = SpoiltNow \cup {p}
        BY <1>1, <1>5 DEF SpoiltNow
    <2> QED BY <1>1, <1>2, <1>3, <2>1, ShownType, QuestionnaireSteps DEF SInv
<1> QED BY <1>1, <1>4, <1>5

(* An update replaces all questions of a live survey at its commit. *)
LEMMA CommitImplements ==
    ASSUME KInv, LInv, SInv', NEW e \in Editor, Commit(e)
    PROVE  [Q!QNext]_Q!qvars
<1> DEFINE q == request[e]
<1>0. PICK p \in Post : p = request[e].post
    BY ActorType DEF LInv, FInv, SInv, Commit, Committed
<1>1. /\ p = request[e].post /\ q \in Request /\ q.at = "commit" /\ p \in Post /\ q # Idle
      /\ UNCHANGED overlapping /\ FInv /\ SInv /\ OInv
    BY <1>0, ActorType DEF KInv, LInv, FInv, SInv, Commit, Committed
<1>2. question' = {r \in question : Id(r) \notin q.held} \cup OwnQuestions(q)
    BY DEF Commit, Committed
<1>3. \A r \in OwnQuestions(q) : r.post = p /\ r.live
    BY <1>1, OwnType
<1>4. ASSUME NEW x \in Post, x # p
      PROVE  survey'[x] = survey[x] /\ SheetOf(x)' = SheetOf(x)
    <2>1. \A r \in question : r.post = x => Id(r) \notin q.held
        BY <1>1, <1>4 DEF FInv, HeldOwn
    <2>2. LiveQuestions(x)' = LiveQuestions(x)
        BY <1>2, <1>3, <1>4, <2>1 DEF LiveQuestions, QuestionsOf
    <2>3. survey'[x] = survey[x]
        BY <1>1, <1>4 DEF Commit, Committed, SInv, ShapeOK
    <2> QED BY <2>2, <2>3 DEF SheetOf, Id
<1>5. Only(p)
    BY <1>1, <1>4, OnlyOne
<1>6. crossed' \in {crossed, crossed \cup {p}}
    BY <1>1 DEF Commit, Committed
<1>7. CASE p \in SpoiltNow'
    <2>1. SpoiltNow' = SpoiltNow \cup {p}
        BY <1>1, <1>6, <1>7 DEF SpoiltNow
    <2>2. survey'[p].status \in {"absent", "live", "deleted"} /\ SheetOf(p)' \subseteq List \X Place
        BY <1>1, ShownType DEF SInv
    <2> QED BY <1>5, <2>1, <2>2, <1>1, QuestionnaireSteps
<1>8. CASE p \notin SpoiltNow'
    <2>1. UNCHANGED SpoiltNow /\ p \notin crossed /\ p \notin overlapping
        BY <1>1, <1>6, <1>8 DEF SpoiltNow
    <2>2. Live(p)
        <3>1. Busy(e, p, Updating)
            BY <1>1 DEF Busy, Updating
        <3> QED BY <1>1, <2>1, <3>1 DEF LInv, UpdatesLive
    <2>3. survey'[p].status = "live"
        BY <1>1, <2>2 DEF Commit, Committed, SInv, ShapeOK, Live
    <2>4. CASE q.asks # "keep"
        <3>1. Replaces(e, p)
            BY <1>1, <2>4 DEF Replaces
        <3>2. \A r \in question : r.post = p => Id(r) \in q.held
            BY <1>1, <2>1, <3>1 DEF OInv, KnowsAll, QuestionsOf
        <3>3. LiveQuestions(p)' = OwnQuestions(q)
            BY <1>2, <1>3, <3>2 DEF LiveQuestions, QuestionsOf
        <3>4. SheetOf(p)' = {Id(r) : r \in OwnQuestions(q)}
            BY <3>3 DEF SheetOf, Id
        <3>5. SheetOf(p)' \in Q!Sheets
            BY <1>1, <3>4, OwnSheet
        <3> QED BY <1>1, <1>5, <2>1, <2>2, <2>3, <3>5, QuestionnaireSteps
    <2>5. CASE q.asks = "keep"
        <3>0. OwnQuestions(q) = {}
            BY <2>5 DEF OwnQuestions
        <3>1. q.held = {}
            BY <1>1, <2>5 DEF KInv, KeepsAll, Removing
        <3>2. SheetOf(p)' = SheetOf(p)
            BY <1>2, <3>0, <3>1 DEF SheetOf, LiveQuestions, QuestionsOf, Id
        <3> QED BY <1>1, <1>5, <2>1, <2>2, <2>3, <3>2, QuestionnaireSteps DEF Live
    <2> QED BY <2>4, <2>5
<1> QED BY <1>7, <1>8

(* A removal deletes all questions with their survey. *)
LEMMA RemoveImplements ==
    ASSUME LInv, LInv', NEW e \in Editor, RemoveSurvey(e)
    PROVE  [Q!QNext]_Q!qvars
<1> DEFINE q == request[e]
<1>0. PICK p \in Post : p = request[e].post
    BY ActorType DEF LInv, FInv, SInv, RemoveSurvey, Removed
<1>1. /\ p = request[e].post /\ q \in Request /\ q.at = "remove" /\ p \in Post /\ q # Idle
      /\ UNCHANGED overlapping /\ FInv /\ SInv /\ ShapeOK /\ ShapeOK'
    BY <1>0, ActorType DEF LInv, FInv, SInv, RemoveSurvey, Removed
<1>2. ASSUME NEW x \in Post, x # p
      PROVE  survey'[x] = survey[x] /\ SheetOf(x)' = SheetOf(x)
    <2>1. \A r \in question : r.post = x => Id(r) \notin q.held
        BY <1>1, <1>2 DEF FInv, HeldOwn
    <2>2. ASSUME NEW s \in LiveQuestions(x)' PROVE s \in LiveQuestions(x)
        <3>1. s \in question' /\ s.post = x /\ s.live
            BY <2>2 DEF LiveQuestions, QuestionsOf
        <3>2. PICK r \in question :
                /\ Id(r) = Id(s) /\ r.post = s.post
                /\ s = IF Id(r) \in q.held THEN [r EXCEPT !.live = FALSE] ELSE r
            BY <1>1, <3>1, RemovedRows
        <3> QED BY <2>1, <3>1, <3>2 DEF LiveQuestions, QuestionsOf
    <2>3. ASSUME NEW r \in LiveQuestions(x) PROVE r \in LiveQuestions(x)'
        <3>1. r \in question /\ r.post = x /\ r.live
            BY <2>3 DEF LiveQuestions, QuestionsOf
        <3>2. r \in question'
            BY <1>1, <2>1, <3>1, RemovedRows
        <3> QED BY <3>1, <3>2 DEF LiveQuestions, QuestionsOf
    <2>4. LiveQuestions(x)' = LiveQuestions(x)
        BY <2>2, <2>3
    <2>5. survey'[x] = survey[x]
        BY <1>1, <1>2 DEF RemoveSurvey, Removed, ShapeOK
    <2> QED BY <2>4, <2>5 DEF SheetOf, Id
<1>3. Only(p)
    BY <1>1, <1>2, OnlyOne
<1>4. crossed' \in {crossed, crossed \cup {p}}
    BY <1>1 DEF RemoveSurvey, Removed
<1>5. survey'[p].status = "deleted"
    <2>1. survey[p] \in SurveyRow
        BY <1>1 DEF SInv, ShapeOK, InFlight
    <2> QED BY <1>1, <2>1 DEF RemoveSurvey, Removed, SoftRemoved, SurveyRow, ShapeOK
<1>6. CASE p \in SpoiltNow'
    <2>1. SpoiltNow' = SpoiltNow \cup {p}
        BY <1>1, <1>4, <1>6 DEF SpoiltNow
    <2>2. SheetOf(p)' \subseteq List \X Place
        BY <1>1, ShownType
    <2> QED BY <1>1, <1>3, <1>5, <2>1, <2>2, QuestionnaireSteps
<1>7. CASE p \notin SpoiltNow'
    <2>1. UNCHANGED SpoiltNow /\ p \notin crossed /\ p \notin crossed'
        BY <1>1, <1>4, <1>7 DEF SpoiltNow
    <2>2. SheetOf(p)' = {}
        BY <1>1, <1>5, <2>1 DEF LInv, QuestionsFollowSurvey, SheetOf, LiveQuestions, Live
    <2>3. CASE Live(p)
        BY <1>1, <1>3, <1>5, <2>1, <2>2, <2>3, QuestionnaireSteps
    <2>4. CASE ~ Live(p)
        <3>1. SheetOf(p) = {}
            BY <1>1, <2>1, <2>4 DEF LInv, QuestionsFollowSurvey, SheetOf, LiveQuestions
        <3>2. survey[p].status = "deleted"
            BY <1>1, <2>4 DEF SInv, ShapeOK, InFlight, SurveyRow, Status, Live
        <3> QED BY <1>1, <1>3, <1>5, <2>1, <2>2, <3>1, <3>2, QuestionnaireSteps
    <2> QED BY <2>3, <2>4
<1> QED BY <1>6, <1>7

(* Every step of the surveys is a step of the questionnaire or none. *)
LEMMA StepImplements ==
    ASSUME KInv, LInv, KInv', LInv', [Next]_vars
    PROVE  [Q!QNext]_Q!qvars
<1>1. SInv /\ SInv' /\ FInv
    BY DEF KInv, OInv, LInv
<1>2. ASSUME UNCHANGED <<survey, question, overlapping, crossed>>
      PROVE  [Q!QNext]_Q!qvars
    BY <1>2, Shown DEF StatusNow, SheetNow, SheetOf, SpoiltNow, LiveQuestions, QuestionsOf, Id
<1>3. CASE Elsewhere
    BY <1>2, <1>3 DEF Elsewhere, Kept
<1>4. ASSUME NEW e \in Editor, Begins(e) \/ Moves(e) \/ DeleteQuestions(e) \/ LoadRemove(e)
      PROVE  [Q!QNext]_Q!qvars
    BY <1>2, <1>4 DEF Begins, Kept, Moves, DeleteQuestions, LoadRemove, tables, history
<1> QED BY <1>1, <1>3, <1>4, CreateImplements, ScanImplements, CommitImplements,
           RemoveImplements, Steps

(* Survey implements Questionnaire: as long as requests do not cross, the  *)
(* surveys are created, updated and deleted in single steps, each with its *)
(* whole list of questions, and a deleted survey stays deleted.            *)
THEOREM SurveyImplementsQuestionnaire == Spec => ImplementsQuestionnaire
<1>1. Init => Q!QInit
    <2>1. Init => /\ StatusNow = [p \in Post |-> "absent"]
                  /\ SheetNow = [p \in Post |-> {}] /\ SpoiltNow = {}
        BY DEF Init, StatusNow, SheetNow, SheetOf, SpoiltNow, LiveQuestions, QuestionsOf, Absent
    <2> QED BY <2>1, Shown
<1>2. KInv /\ LInv /\ KInv' /\ LInv' /\ [Next]_vars => [Q!QNext]_Q!qvars
    BY StepImplements
<1>3. Spec => Q!QSpec
    BY <1>1, <1>2, Spec_KInv, Spec_LInv, PTL DEF Spec, Q!QSpec
<1> QED BY <1>3 DEF ImplementsQuestionnaire
-----------------------------------------------------------------------------
(* What an update that no commit has crossed knows: it will write what the *)
(* row does not say yet, and once it has looked for the questions to       *)
(* delete, it holds all that there are.                                    *)
IdsOf(p) == {Id(r) : r \in QuestionsOf(p)}

LoneAt(e) ==
    LET q == request[e] IN
      /\ q.at \in {"write", "scan", "delete", "commit"}
      /\ Live(q.post) \/ "status" \in q.changes
      /\ survey[q.post].title = q.title \/ "title" \in q.changes
      /\ q.at \in {"delete", "commit"} /\ q.asks # "keep" => q.held = IdsOf(q.post)

LoneInv == lone \subseteq Editor /\ \A e \in lone : LoneAt(e)

(* It goes on knowing that while its survey and questions stay. *)
LEMMA LoneStays ==
    ASSUME NEW e \in Editor, LoneAt(e), request'[e] = request[e],
           NEW p, p = request[e].post, survey'[p] = survey[p], IdsOf(p)' = IdsOf(p)
    PROVE  LoneAt(e)'
<1>1. IdsOf(request[e].post)' = IdsOf(p)'
    BY DEF IdsOf, QuestionsOf
<1> QED BY <1>1 DEF LoneAt, Live

(* Steps of other requests, and of requests that change no table. *)
LEMMA LoneElsewhere ==
    ASSUME LoneInv, UNCHANGED <<survey, question>>, NEW e \in Editor,
           \A f \in Editor \ {e} : request'[f] = request[f],
           lone' \subseteq lone \cup {e}, e \in lone' => LoneAt(e)'
    PROVE  LoneInv'
<1>1. \A p : IdsOf(p)' = IdsOf(p)
    BY DEF IdsOf, QuestionsOf
<1>2. ASSUME NEW f \in lone', f # e PROVE LoneAt(f)'
    BY <1>1, <1>2, LoneStays DEF LoneInv
<1> QED BY <1>2 DEF LoneInv

(* A request that starts, reads or fails is no such update. *)
LEMMA LoneReads ==
    ASSUME SInv, LoneInv, NEW e \in Editor,
           \/ \E p \in Post, b \in List, asks \in Asks, t \in Title :
                \/ CreatePostWithSurvey(e, p, b, asks, t) \/ EditPost(e, p, b, asks, t)
                \/ EditSurvey(e, p, b, asks, t)
           \/ FindSurvey(e) \/ LoadUpdate(e) \/ LoadRemove(e) \/ CheckRemove(e) \/ Fail(e)
    PROVE  LoneInv'
<1>1. ASSUME NEW p \in Post, NEW b \in List, NEW asks \in Asks, NEW t \in Title, NEW at,
             Starts(e, p, b, asks, t, at), UNCHANGED <<survey, question, lone>>
      PROVE  LoneInv'
    <2>1. e \notin lone
        BY <1>1 DEF Starts, LoneInv, LoneAt, Idle
    <2>2. \A f \in Editor \ {e} : request'[f] = request[f]
        BY <1>1 DEF Starts, SInv, ShapeOK
    <2> QED BY <1>1, <2>1, <2>2, LoneElsewhere
<1>2. ASSUME NEW p \in Post, NEW b \in List, NEW asks \in Asks, NEW t \in Title,
             \/ CreatePostWithSurvey(e, p, b, asks, t) \/ EditPost(e, p, b, asks, t)
             \/ EditSurvey(e, p, b, asks, t)
      PROVE  LoneInv'
    <2>1. UNCHANGED <<survey, question, lone>>
        BY <1>2 DEF CreatePostWithSurvey, EditPost, EditSurvey, tables, history
    <2>2. \E at : Starts(e, p, b, asks, t, at)
        BY <1>2 DEF CreatePostWithSurvey, EditPost, EditSurvey
    <2> QED BY <1>1, <2>1, <2>2
<1>3. CASE FindSurvey(e) \/ LoadUpdate(e) \/ LoadRemove(e) \/ CheckRemove(e)
    <2>1. UNCHANGED <<survey, question, lone>> /\ e \notin lone
        BY <1>3 DEF FindSurvey, LoadUpdate, LoadRemove, CheckRemove, tables, history,
                    LoneInv, LoneAt
    <2>2. \A f \in Editor \ {e} : request'[f] = request[f]
        BY <1>3 DEF FindSurvey, LoadUpdate, LoadRemove, CheckRemove, Goes, End, SInv, ShapeOK
    <2> QED BY <2>1, <2>2, LoneElsewhere
<1>4. CASE Fail(e)
    <2>1. UNCHANGED <<survey, question>> /\ lone' = lone \ {e}
        BY <1>4 DEF Fail, tables
    <2>2. \A f \in Editor \ {e} : request'[f] = request[f]
        BY <1>4 DEF Fail, End, SInv, ShapeOK
    <2> QED BY <2>1, <2>2, LoneElsewhere
<1> QED BY <1>2, <1>3, <1>4

(* The statements of an update before its commit. *)
LEMMA LoneProceeds ==
    ASSUME SInv, Chosen, LoneInv, NEW e \in Editor,
           CompareSurvey(e) \/ WriteSurvey(e) \/ ScanQuestions(e) \/ DeleteQuestions(e)
    PROVE  LoneInv'
<1> DEFINE q == request[e]
           p == q.post
<1>1. q \in Request /\ p \in Post
    <2>1. q.at \in At
        BY DEF CompareSurvey, WriteSurvey, ScanQuestions, DeleteQuestions, At
    <2> QED BY <2>1, AtPlace DEF SInv, Request
<1>2. /\ UNCHANGED <<survey, question>> /\ lone' \subseteq lone \cup {e}
      /\ \A f \in Editor \ {e} : request'[f] = request[f]
    BY DEF CompareSurvey, WriteSurvey, ScanQuestions, DeleteQuestions, Goes, tables, history,
           SInv, ShapeOK
<1>3. ASSUME NEW r, request'[e] = r, r.post = p, r.title = q.title,
             r.at \in {"write", "scan", "delete", "commit"},
             Live(p) \/ "status" \in r.changes,
             survey[p].title = q.title \/ "title" \in r.changes,
             r.at \in {"delete", "commit"} /\ r.asks # "keep" =>
               r.held = {Id(s) : s \in QuestionsOf(p)}
      PROVE  LoneInv'
    <2>1. IdsOf(request[e].post)' = {Id(s) : s \in QuestionsOf(p)}
        BY <1>2, <1>3 DEF IdsOf, QuestionsOf
    <2>2. LoneAt(e)'
        BY <1>2, <1>3, <2>1 DEF LoneAt, Live
    <2> QED BY <1>2, <2>2, LoneElsewhere
<1>4. CASE CompareSurvey(e)
    <2> DEFINE c == {x \in {"title"} : survey[p].title # q.title}
                      \cup {x \in {"status"} : ~ Live(p)}
               a == IF c = {} THEN Replacing(q) ELSE "write"
               r == [q EXCEPT !.changes = c, !.at = a]
    <2>1. request'[e] = r
        BY <1>1, <1>4 DEF CompareSurvey, SInv, ShapeOK, Request
    <2>2. /\ Live(p) \/ "status" \in c
          /\ survey[p].title = q.title \/ "title" \in c
        OBVIOUS
    <2>3. a \in {"write", "scan", "commit"} /\ (a = "commit" => q.asks = "keep")
        BY DEF Replacing
    <2> HIDE DEF c, a
    <2>4. r.post = p /\ r.title = q.title /\ r.changes = c /\ r.at = a /\ r.asks = q.asks
        BY <1>1 DEF Request
    <2> QED BY <1>3, <2>1, <2>2, <2>3, <2>4
<1>5. CASE e \notin lone /\ ~ CompareSurvey(e)
    <2>1. lone' = lone
        BY <1>5 DEF WriteSurvey, ScanQuestions, DeleteQuestions, tables, history
    <2> QED BY <1>2, <1>5, <2>1, LoneElsewhere
<1>6. CASE e \in lone /\ WriteSurvey(e)
    <2>1. LoneAt(e)
        BY <1>6 DEF LoneInv
    <2>2. /\ Replacing(q) \in {"scan", "commit"}
          /\ Replacing(q) = "commit" => q.asks = "keep"
        BY DEF Replacing
    <2> DEFINE r == [q EXCEPT !.at = Replacing(q)]
    <2>3. request'[e] = r
        BY <1>6 DEF WriteSurvey, Goes, SInv, ShapeOK
    <2>4. /\ r.post = p /\ r.title = q.title /\ r.changes = q.changes
          /\ r.at = Replacing(q) /\ r.asks = q.asks
        BY <1>1 DEF Request
    <2> QED BY <1>3, <2>1, <2>2, <2>3, <2>4 DEF LoneAt
<1>7. CASE e \in lone /\ ScanQuestions(e)
    <2>1. LoneAt(e)
        BY <1>7 DEF LoneInv
    <2> DEFINE h == {Id(s) : s \in QuestionsOf(p)}
               r == [q EXCEPT !.held = h, !.at = "delete"]
    <2>2. request'[e] = r
        BY <1>1, <1>7 DEF ScanQuestions, SInv, ShapeOK, Request
    <2>3. /\ r.post = p /\ r.title = q.title /\ r.changes = q.changes
          /\ r.at = "delete" /\ r.held = h
        BY <1>1 DEF Request
    <2> QED BY <1>3, <2>1, <2>2, <2>3 DEF LoneAt
<1>8. CASE e \in lone /\ DeleteQuestions(e)
    <2>1. LoneAt(e) /\ q.at = "delete"
        BY <1>8 DEF LoneInv, DeleteQuestions
    <2>2. q.asks # "keep" => q.held = {Id(s) : s \in QuestionsOf(p)}
        BY <2>1 DEF LoneAt, IdsOf
    <2> DEFINE h == q.held \cap {Id(s) : s \in question}
               r == [q EXCEPT !.held = h, !.at = "commit"]
    <2>3. q.asks # "keep" => h = {Id(s) : s \in QuestionsOf(p)}
        BY <2>2 DEF QuestionsOf
    <2>4. request'[e] = r
        BY <1>1, <1>8 DEF DeleteQuestions, SInv, ShapeOK, Request
    <2> HIDE DEF h
    <2>5. /\ r.post = p /\ r.title = q.title /\ r.changes = q.changes
          /\ r.at = "commit" /\ r.held = h /\ r.asks = q.asks
        BY <1>1 DEF Request
    <2> QED BY <1>3, <2>1, <2>3, <2>4, <2>5 DEF LoneAt
<1> QED BY <1>4, <1>5, <1>6, <1>7, <1>8

(* The steps that change the tables change one survey and its questions.   *)
(* Updates of it are crossed.                                              *)
LEMMA LoneCrossed ==
    ASSUME FInv, LoneInv, NEW e \in Editor, Create(e) \/ Commit(e) \/ RemoveSurvey(e)
    PROVE  LoneInv'
<1> DEFINE q == request[e]
           p == q.post
<1>1. q \in Request /\ q # Idle /\ p \in Post
    BY ActorType DEF FInv, SInv, Create, Commit, Committed, RemoveSurvey, Removed
<1>2. lone' \subseteq lone /\ \A f \in Editor \ {e} : request'[f] = request[f]
    BY DEF Create, Commit, Committed, RemoveSurvey, Removed, Uncrossed, End, history,
           FInv, SInv, ShapeOK
<1>3. e \notin lone'
    BY DEF Create, Commit, Committed, RemoveSurvey, Removed, Uncrossed, history, LoneInv, LoneAt
<1>4. \A r \in OwnQuestions(q) : r.post = p
    BY <1>1, OwnType
<1>5. \A r \in question : Id(r) \in q.held => r.post = p
    BY <1>1 DEF FInv, HeldOwn
<1>6. \A x \in Post : x # p => survey'[x] = survey[x] /\ IdsOf(x)' = IdsOf(x)
    <2> SUFFICES ASSUME NEW x \in Post, x # p
                 PROVE  survey'[x] = survey[x] /\ IdsOf(x)' = IdsOf(x)
        OBVIOUS
    <2>1. survey'[x] = survey[x]
        BY DEF Create, Commit, Committed, RemoveSurvey, Removed, FInv, SInv, ShapeOK
    <2>2. CASE Create(e) \/ Commit(e)
        <3>1. \A r : r \in question' /\ r.post = x <=> r \in question /\ r.post = x
            BY <1>4, <1>5, <2>2 DEF Create, Commit, Committed
        <3>2. QuestionsOf(x)' = QuestionsOf(x)
            BY <3>1 DEF QuestionsOf
        <3> QED BY <2>1, <3>2 DEF IdsOf
    <2>3. CASE RemoveSurvey(e)
        <3>1. question' = {IF Id(r) \in q.held THEN [r EXCEPT !.live = FALSE] ELSE r :
                             r \in question}
            BY <2>3 DEF RemoveSurvey, Removed
        <3>2. \A r \in question : [r EXCEPT !.live = FALSE].post = r.post
            BY DEF FInv, SInv, ShapeOK, Question
        <3>3. \A r : r \in question' /\ r.post = x <=> r \in question /\ r.post = x
            BY <1>5, <3>1, <3>2
        <3>4. QuestionsOf(x)' = QuestionsOf(x)
            BY <3>3 DEF QuestionsOf
        <3> QED BY <2>1, <3>4 DEF IdsOf
    <2> QED BY <2>2, <2>3
<1>7. ASSUME NEW f \in lone' PROVE LoneAt(f)'
    <2>1. f \in lone /\ f \in Editor /\ f # e /\ LoneAt(f)
        BY <1>2, <1>3 DEF LoneInv
    <2>2. request[f] # Idle /\ request[f].at \notin {"find", "insert"}
        BY <2>1 DEF LoneAt, Idle
    <2>3. request[f].post \in Post /\ survey[request[f].post] # Absent
        BY <2>1, <2>2 DEF FInv, SInv, ShapeOK, InFlight, Request
    <2>4. CASE Create(e) /\ survey[p] # Absent
        <3>1. UNCHANGED <<survey, question>>
            BY <2>4 DEF Create
        <3>2. \A x : IdsOf(x)' = IdsOf(x)
            BY <3>1 DEF IdsOf, QuestionsOf
        <3> QED BY <1>2, <2>1, <3>1, <3>2, LoneStays
    <2>5. CASE ~ (Create(e) /\ survey[p] # Absent)
        <3>1. request[f].post # p
            BY <1>7, <2>3, <2>5 DEF Create, Commit, Committed, RemoveSurvey, Removed, Uncrossed
        <3> QED BY <1>2, <1>6, <2>1, <2>3, <3>1, LoneStays
    <2> QED BY <2>4, <2>5
<1> QED BY <1>2, <1>7 DEF LoneInv

(* Every step. *)
LEMMA LoneStep ==
    ASSUME OInv, FInv, LoneInv, [Next]_vars
    PROVE  LoneInv'
<1>1. SInv /\ Chosen
    BY DEF OInv
<1>2. ASSUME UNCHANGED <<survey, question, request, lone>> PROVE LoneInv'
    <2>1. \A p : IdsOf(p)' = IdsOf(p)
        BY <1>2 DEF IdsOf, QuestionsOf
    <2> QED BY <1>2, <2>1, LoneStays DEF LoneInv
<1>3. ASSUME NEW p \in Post, CreatePost(p) \/ RemovePost(p) PROVE LoneInv'
    BY <1>2, <1>3 DEF CreatePost, RemovePost, history
<1>4. ASSUME NEW q \in question, Answer(q) PROVE LoneInv'
    BY <1>2, <1>4 DEF Answer, history
<1>5. CASE UNCHANGED vars
    BY <1>2, <1>5 DEF vars, tables, history
<1> QED BY <1>1, <1>3, <1>4, <1>5, LoneReads, LoneProceeds, LoneCrossed DEF Next

(* An update no commit has crossed knows that in every state. *)
LEMMA Spec_LoneInv == Spec => []LoneInv
<1>1. Init => LoneInv
    BY DEF Init, LoneInv
<1>2. KInv /\ LInv /\ LoneInv /\ [Next]_vars => LoneInv'
    BY LoneStep DEF KInv, LInv
<1> QED BY <1>1, <1>2, Spec_KInv, Spec_LInv, PTL DEF Spec

(* TypeOK: survey.entity.ts and its foreign keys, in every state. *)
THEOREM TypeCorrect == Spec => []TypeOK
<1>1. SInv /\ LoneInv => TypeOK
    BY DEF SInv, LoneInv, LoneAt, Updating, TypeOK
<1> QED BY <1>1, Spec_SInv, Spec_LoneInv, PTL

(* What the commit of such an update leaves. *)
LEMMA LoneCommit ==
    ASSUME KInv, FInv, LoneInv, NEW e \in lone, Commit(e)
    PROVE  HasItsWay(request[e])
<1> DEFINE q == request[e]
           p == q.post
<1>1. e \in Editor /\ LoneAt(e) /\ q.at = "commit"
    BY DEF LoneInv, Commit, Committed
<1>2. q \in Request /\ q # Idle /\ p \in Post
    BY <1>1, ActorType DEF FInv, SInv
<1>3. survey'[p] = [status |-> "live", title |-> q.title]
    BY <1>1, <1>2 DEF Commit, Committed, LoneAt, Live, FInv, SInv, ShapeOK
<1>4. question' = {r \in question : Id(r) \notin q.held} \cup OwnQuestions(q)
    BY DEF Commit, Committed
<1>5. \A r \in OwnQuestions(q) : r.post = p
    BY <1>2, OwnType
<1>6. CASE q.asks = "keep"
    <2>1. q.held = {}
        BY <1>1, <1>2, <1>6 DEF KInv, KeepsAll, Removing
    <2>2. OwnQuestions(q) = {}
        BY <1>6 DEF OwnQuestions
    <2> QED BY <1>3, <1>4, <1>6, <2>1, <2>2 DEF Wanted, QuestionsOf, HasItsWay
<1>7. CASE q.asks # "keep"
    <2>1. q.held = IdsOf(p)
        BY <1>1, <1>7 DEF LoneAt
    <2>2. \A r \in question : r.post = p => Id(r) \in q.held
        BY <2>1 DEF IdsOf, QuestionsOf
    <2>3. {r \in question' : r.post = p} = OwnQuestions(q)
        BY <1>4, <1>5, <2>2
    <2> QED BY <1>3, <1>7, <2>3 DEF Wanted, HasItsWay
<1> QED BY <1>6, <1>7

(* LoneUpdateTakesEffect: whatever earlier requests left of a survey, an   *)
(* update of 설문조사를_업데이트한다 that no commit crosses puts it right. *)
THEOREM LoneUpdates == Spec => LoneUpdateTakesEffect
<1> DEFINE Effect == \A e \in lone : Commit(e) => HasItsWay(request[e])
<1>1. KInv /\ LInv /\ LoneInv /\ [Next]_vars => [Effect]_vars
    BY LoneCommit DEF LInv
<1> HIDE DEF Effect
<1>2. Spec => [][Effect]_vars
    BY <1>1, Spec_KInv, Spec_LInv, Spec_LoneInv, PTL DEF Spec
<1> QED BY <1>2 DEF LoneUpdateTakesEffect, Effect
=============================================================================
