------------------------------ MODULE Ordering ------------------------------
(***************************************************************************)
(* The display order of contents.  A creation gives a row the highest      *)
(* order plus one, read before the insert; a batch reorder writes a list   *)
(* of orders, row by row, in the manner of its kind (Reorder of Contents). *)
(* Only that of the announcements is a transaction: the rows it updates    *)
(* stay locked until it ends, and two of them can lock each other out.     *)
(***************************************************************************)
EXTENDS Contents, FiniteSets

CONSTANTS Content,  \* rows a table may get
          Place,    \* orders a request asks for
          Editor,   \* requests under way at a time
          Kinds     \* kinds of content to look at

ASSUME OrderingAssumption ==
    /\ Place \subseteq Nat /\ IsFiniteSet(Content)
    /\ Kinds \subseteq DOMAIN Reorder \cup {"category"}

VARIABLES kind,    \* the kind of content of this table
          row,     \* the table
          request, \* requests on one row
          batch,   \* batch reorders
          given    \* how a row got its order: "alone" by a creation that no
                   \* other creation crossed, "other" by anything else

vars == <<kind, row, request, batch, given>>

(* The statements on one row that this machine runs.  A publication stands *)
(* for every request that saves its copy of a row back.                    *)
Steps == {"next", "insert", "insertSample", "find", "saveOrder", "savePublic", "remove"}
Creating == {"create", "sample"}
Plans ==
    [k \in Kinds |->
       IF k = "category"
       THEN [op \in DOMAIN CategoryOps |->
               {Plan(Categories[s][op], "none", Steps) : s \in DOMAIN Categories}]
       ELSE [op \in DOMAIN Script[k] \ {"edit"} |-> {Plan(Script[k][op], "none", Steps)}]]

Row == [at : {"absent", "live", "deleted"}, order : Nat]

(* order: what next computed, or what find loaded.  alone: no creation has *)
(* inserted its row since next read the table.                             *)
Request == [item : Content,
            plan : UNION {UNION {Plans[k][op] : op \in DOMAIN Plans[k]} : k \in Kinds},
            n : Nat \ {0}, order : Nat, alone : BOOLEAN]
Idle == [plan |-> <<>>]

(* found: the rows, or the next one, have been loaded.  todo: the places   *)
(* of the list still to deal with.  wrote: the rows written, or locked.    *)
(* crossed: the rows others wrote since the request arrived.               *)
Places == 1..Cardinality(Content)
Lists == {list \in UNION {[1..n -> [item : Content, order : Place]] : n \in Places} :
            \A i, j \in DOMAIN list : list[i].item = list[j].item => i = j}
Batch == [list : Lists, found : BOOLEAN, todo : SUBSET Places,
          wrote : SUBSET Content, crossed : SUBSET Content,
          answer : {"none", "done", "partial", "refused", "failed"}]
Free == [list |-> <<>>]
-----------------------------------------------------------------------------
Busy(e) == request[e].plan # <<>>
At(e, step) == Busy(e) /\ request[e].plan[request[e].n] = step

Sorting(s) == batch[s].list # <<>>
Running(s) == Sorting(s) /\ batch[s].answer = "none"
Items(list) == {list[i].item : i \in DOMAIN list}
Live == {c \in Content : row[c].at = "live"}
reads == IF kind = "category" THEN "none" ELSE Reorder[kind].reads

(* Mutant: the updates of the transaction go out at once. *)
TurnAny(s, i) == i \in batch[s].todo

(* In turn, the place of the list that comes first; at once, any of them.  *)
Turn(s, i) ==
    /\ i \in batch[s].todo
    /\ reads = "atOnce" \/ \A j \in batch[s].todo : i <= j

(* Rows a transaction of another reorder has updated and not committed. *)
Locked(c, others) ==
    reads = "locking" /\ \E s \in others : Running(s) /\ c \in batch[s].wrote

Increasing(list, rank) ==
    \A i, j \in DOMAIN list : i < j => rank[list[i].item] < rank[list[j].item]

(* s is in a group of reorders each of which waits for another of them. *)
Waits(s, d) ==
    /\ Running(s) /\ batch[s].found
    /\ \E i \in batch[s].todo : Turn(s, i) /\ batch[s].list[i].item \in batch[d].wrote
Deadlocked(s) ==
    /\ reads = "locking"
    /\ \E group \in SUBSET Editor :
         s \in group /\ \A d \in group : \E h \in group \ {d} : Running(h) /\ Waits(d, h)
-----------------------------------------------------------------------------
Init ==
    /\ kind \in Kinds
    /\ row = [c \in Content |-> [at |-> "absent", order |-> 0]]
    /\ request = [e \in Editor |-> Idle]
    /\ batch = [s \in Editor |-> Free]
    /\ given = [c \in Content |-> "other"]

Start(e, c) ==
    /\ ~Busy(e) /\ ~Sorting(e)
    /\ \E op \in DOMAIN Plans[kind] :
         /\ IF op \in Creating
            THEN row[c].at = "absent" /\ ~ \E d \in Editor : Busy(d) /\ request[d].item = c
            ELSE row[c].at # "absent"
         /\ \E plan \in Plans[kind][op] :
              request' = [request EXCEPT ![e] =
                 [item |-> c, plan |-> plan, n |-> 1, order |-> 0, alone |-> FALSE]]
    /\ UNCHANGED <<kind, row, batch, given>>

(* Mutant: a request that goes on after its last statement. *)
OnwardAlways(r) == [r EXCEPT !.n = r.n + 1]

Onward(r) == IF r.n = Len(r.plan) THEN Idle ELSE [r EXCEPT !.n = r.n + 1]
Goes(e, r) == request' = [request EXCEPT ![e] = Onward(r)]

(* Mutant: the order is the highest one. *)
NextOrderSame(e) ==
    /\ At(e, "next")
    /\ \E order \in IF Live = {} THEN {0} ELSE {row[c].order : c \in Live} :
         /\ \A c \in Live : row[c].order <= order
         /\ Goes(e, [request[e] EXCEPT !.order = order, !.alone = TRUE])
    /\ UNCHANGED <<kind, row, batch, given>>

(* The order of the first row by descending order, plus one. *)
NextOrder(e) ==
    /\ At(e, "next")
    /\ \E order \in IF Live = {} THEN {0} ELSE {row[c].order + 1 : c \in Live} :
         /\ \A c \in Live : row[c].order < order
         /\ Goes(e, [request[e] EXCEPT !.order = order, !.alone = TRUE])
    /\ UNCHANGED <<kind, row, batch, given>>

(* Others write the rows cs: the reorders that run have been crossed. *)
Cross(s, cs) ==
    IF Sorting(s) THEN [batch[s] EXCEPT !.crossed = @ \cup cs] ELSE Free

(* Announcements start at 0, categories where the request says. *)
Insert(e) ==
    /\ At(e, "insert")
    /\ \E order \in IF kind = "category" THEN Place \cup {0} ELSE {request[e].order} :
         row' = [row EXCEPT ![request[e].item] = [at |-> "live", order |-> order]]
    /\ given' = [given EXCEPT ![request[e].item] =
                   IF request[e].alone /\ kind \notin {"announcement", "category"}
                   THEN "alone" ELSE "other"]
    /\ request' = [d \in Editor |->
                     IF d = e THEN Onward([request[e] EXCEPT !.alone = FALSE])
                     ELSE IF Busy(d) THEN [request[d] EXCEPT !.alone = FALSE] ELSE Idle]
    /\ batch' = [s \in Editor |-> Cross(s, {request[e].item})]
    /\ UNCHANGED kind

(* The sample brochures have the orders 1, 2 and 3, whatever the others. *)
InsertSample(e) ==
    /\ At(e, "insertSample")
    /\ \E order \in Place :
         row' = [row EXCEPT ![request[e].item] = [at |-> "live", order |-> order]]
    /\ given' = [given EXCEPT ![request[e].item] = "other"]
    /\ Goes(e, request[e])
    /\ batch' = [s \in Editor |-> Cross(s, {request[e].item})]
    /\ UNCHANGED kind

NotFound(e) ==
    /\ At(e, "find")
    /\ row[request[e].item].at # "live"
    /\ request' = [request EXCEPT ![e] = Idle]
    /\ UNCHANGED <<kind, row, batch, given>>

Find(e) ==
    /\ At(e, "find")
    /\ row[request[e].item].at = "live"
    /\ Goes(e, [request[e] EXCEPT !.order = row[request[e].item].order,
                                  !.alone = FALSE])
    /\ UNCHANGED <<kind, row, batch, given>>

(* The copy is written back with another publication: an older order, and  *)
(* a row that was removed, come back with it.                              *)
SaveBack(e) ==
    LET c == request[e].item
        copy == [at |-> "live", order |-> request[e].order]
    IN  /\ At(e, "savePublic") /\ ~Locked(c, Editor)
        /\ row' = [row EXCEPT ![c] = copy]
        /\ given' = [given EXCEPT ![c] = IF row[c] = copy THEN @ ELSE "other"]
        /\ Goes(e, request[e])
        /\ batch' = [s \in Editor |-> Cross(s, {c})]
        /\ UNCHANGED kind

(* The copy of a category is written back with the order asked for. *)
SaveOrder(e) ==
    LET c == request[e].item
    IN  /\ At(e, "saveOrder")
        /\ \E order \in Place : row' = [row EXCEPT ![c] = [at |-> "live", order |-> order]]
        /\ given' = [given EXCEPT ![c] = "other"]
        /\ Goes(e, request[e])
        /\ batch' = [s \in Editor |-> Cross(s, {c})]
        /\ UNCHANGED kind

Remove(e) ==
    LET c == request[e].item
    IN  /\ At(e, "remove") /\ ~Locked(c, Editor)
        /\ row' = [row EXCEPT ![c].at = "deleted"]
        /\ Goes(e, request[e])
        /\ batch' = [s \in Editor |-> Cross(s, {c})]
        /\ UNCHANGED <<kind, given>>

(* A statement fails, or the process stops. *)
Fail(e) ==
    /\ Busy(e)
    /\ request' = [request EXCEPT ![e] = Idle]
    /\ UNCHANGED <<kind, row, batch, given>>
-----------------------------------------------------------------------------
StartReorder(s) ==
    /\ ~Busy(s) /\ ~Sorting(s) /\ kind # "category"
    /\ \E list \in Lists :
         /\ \A c \in Items(list) : row[c].at # "absent"
         /\ batch' = [batch EXCEPT ![s] =
               [list |-> list, found |-> FALSE, todo |-> DOMAIN list,
                wrote |-> {}, crossed |-> {}, answer |-> "none"]]
    /\ UNCHANGED <<kind, row, request, given>>

Answers(s, answer) ==
    batch' = [batch EXCEPT ![s].answer = answer,
                           ![s].wrote = IF answer = "failed" /\ reads = "locking" THEN {} ELSE @]

(* All the rows of the list are loaded, or the request is refused. *)
FindAll(s) ==
    /\ Running(s) /\ reads # "inTurn" /\ ~batch[s].found
    /\ IF Items(batch[s].list) \subseteq Live
       THEN batch' = [batch EXCEPT ![s].found = TRUE]
       ELSE Answers(s, "refused")
    /\ UNCHANGED <<kind, row, request, given>>

(* The next row of the list is loaded; one that is missing is skipped, or  *)
(* ends the request.                                                       *)
FindNext(s) ==
    /\ Running(s) /\ reads = "inTurn" /\ ~batch[s].found
    /\ \E i \in batch[s].todo :
         /\ Turn(s, i)
         /\ IF batch[s].list[i].item \in Live
            THEN batch' = [batch EXCEPT ![s].found = TRUE]
            ELSE IF Reorder[kind].missing = "skipped"
                 THEN batch' = [batch EXCEPT ![s].todo = @ \ {i}]
                 ELSE Answers(s, "refused")
    /\ UNCHANGED <<kind, row, request, given>>

(* A loaded row is written back with its new order: one that was removed   *)
(* since it was loaded comes back.                                         *)
SaveOne(s) ==
    /\ Running(s) /\ reads # "locking" /\ batch[s].found
    /\ \E i \in batch[s].todo :
         LET c == batch[s].list[i].item
         IN  /\ Turn(s, i)
             /\ row' = [row EXCEPT ![c] = [at |-> "live", order |-> batch[s].list[i].order]]
             /\ given' = [given EXCEPT ![c] = "other"]
             /\ batch' = [t \in Editor |->
                  IF t # s THEN Cross(t, {c})
                  ELSE [batch[s] EXCEPT !.todo = @ \ {i}, !.wrote = @ \cup {c},
                                        !.found = (reads = "atOnce")]]
    /\ UNCHANGED <<kind, request>>

(* A find or a save fails.  At once, the other saves go on. *)
LoseOne(s) ==
    /\ Running(s) /\ reads # "locking" /\ (batch[s].found \/ reads = "inTurn")
    /\ \E i \in batch[s].todo :
         /\ Turn(s, i)
         /\ IF Reorder[kind].missing = "ends"
            THEN Answers(s, "failed")
            ELSE batch' = [batch EXCEPT ![s].todo = @ \ {i}, ![s].found = (reads = "atOnce")]
    /\ UNCHANGED <<kind, row, request, given>>

Finish(s) ==
    /\ Running(s) /\ reads # "locking" /\ batch[s].todo = {}
    /\ Answers(s, IF batch[s].wrote = Items(batch[s].list) THEN "done"
                  ELSE IF Reorder[kind].missing = "skipped" THEN "partial" ELSE "failed")
    /\ UNCHANGED <<kind, row, request, given>>

(* The transaction updates the next row of the list, once no other holds   *)
(* its lock, and keeps the lock.                                           *)
UpdateNext(s) ==
    /\ Running(s) /\ reads = "locking" /\ batch[s].found
    /\ \E i \in batch[s].todo :
         LET c == batch[s].list[i].item
         IN  /\ Turn(s, i) /\ ~Locked(c, Editor \ {s})
             /\ batch' = [batch EXCEPT ![s].todo = @ \ {i}, ![s].wrote = @ \cup {c}]
    /\ UNCHANGED <<kind, row, request, given>>

Commit(s) ==
    LET list == batch[s].list
    IN  /\ Running(s) /\ reads = "locking" /\ batch[s].found /\ batch[s].todo = {}
        /\ row' = [c \in Content |->
                     IF c \in Items(list)
                     THEN [row[c] EXCEPT !.order =
                             list[CHOOSE i \in DOMAIN list : list[i].item = c].order]
                     ELSE row[c]]
        /\ given' = [c \in Content |-> IF c \in Items(list) THEN "other" ELSE given[c]]
        /\ batch' = [t \in Editor |->
                       IF t = s THEN [batch[s] EXCEPT !.answer = "done"]
                       ELSE Cross(t, Items(list))]
        /\ UNCHANGED <<kind, request>>

(* A statement of the transaction fails and it is rolled back. *)
Abort(s) ==
    /\ Running(s) /\ reads = "locking"
    /\ Answers(s, "failed")
    /\ UNCHANGED <<kind, row, request, given>>

BreakDeadlock(s) == Deadlocked(s) /\ Abort(s)

(* The answer is sent. *)
Reply(s) ==
    /\ Sorting(s) /\ ~Running(s)
    /\ batch' = [batch EXCEPT ![s] = Free]
    /\ UNCHANGED <<kind, row, request, given>>

(* The process stops: what is under way is lost, transactions rolled back. *)
Stop ==
    /\ request' = [e \in Editor |-> Idle]
    /\ batch' = [s \in Editor |-> Free]
    /\ UNCHANGED <<kind, row, given>>

RequestStep(e) ==
    NextOrder(e) \/ Insert(e) \/ InsertSample(e) \/ NotFound(e) \/ Find(e)
    \/ SaveBack(e) \/ SaveOrder(e) \/ Remove(e)
ReorderStep(s) ==
    FindAll(s) \/ FindNext(s) \/ SaveOne(s) \/ Finish(s) \/ UpdateNext(s)
    \/ Commit(s) \/ BreakDeadlock(s) \/ Reply(s)

Next ==
    \/ \E e \in Editor :
         \/ (\E c \in Content : Start(e, c)) \/ RequestStep(e) \/ Fail(e)
         \/ StartReorder(e) \/ ReorderStep(e) \/ LoseOne(e) \/ Abort(e)
    \/ Stop

Spec == Init /\ [][Next]_vars
-----------------------------------------------------------------------------
TypeOK ==
    /\ kind \in Kinds
    /\ row \in [Content -> Row]
    /\ request \in [Editor -> Request \cup {Idle}]
    /\ \A e \in Editor : Busy(e) => request[e].n \in DOMAIN request[e].plan
    /\ batch \in [Editor -> Batch \cup {Free}]
    /\ given \in [Content -> {"alone", "other"}]

(* Two live contents have the same order only if one of them got it from a *)
(* creation that another one crossed, from a reorder, from a save of an    *)
(* older copy or as a sample.                                              *)
DistinctOrders ==
    \A c, d \in Live : given[c] = "alone" /\ given[d] = "alone" /\ c # d =>
        row[c].order # row[d].order

(* A reorder that is answered with success has given every row of its list *)
(* its order, but for the rows another request wrote while it ran; one     *)
(* that is answered with 404 has written nothing, but for the meetings,    *)
(* which are written one by one up to the missing one.                     *)
AnswersTruthful ==
    \A s \in Editor : Sorting(s) =>
        /\ batch[s].answer = "done" =>
             \A i \in DOMAIN batch[s].list :
                LET c == batch[s].list[i].item
                IN  c \in batch[s].crossed
                      \/ row[c] = [at |-> "live", order |-> batch[s].list[i].order]
        /\ batch[s].answer = "refused" /\ kind # "meeting" => batch[s].wrote = {}

(* No reorder of announcements is caught in a deadlock as long as all the  *)
(* lists that run name the announcements in one common order.              *)
SameOrderNoDeadlock ==
    \A rank \in [Content -> Places] :
        (\A s \in Editor : Sorting(s) => Increasing(batch[s].list, rank))
          => \A s \in Editor : ~Deadlocked(s)
=============================================================================
