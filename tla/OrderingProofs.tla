--------------------------- MODULE OrderingProofs ---------------------------
(***************************************************************************)
(* Proofs about Ordering, for any sets of contents, orders and requests.   *)
(***************************************************************************)
EXTENDS Ordering, ContentsProofs, FiniteSetTheorems

(* A script that reaches a statement this machine runs.                    *)
Runs(s) == Len(s) \in Nat /\ \E i \in 1..Len(s) : s[i] \in Steps

LEMMA ScriptsRun ==
    \A k \in DOMAIN Script : \A op \in DOMAIN Script[k] \ {"edit"} : Runs(Script[k][op])
<1>1. Runs(NewsCreate)
    BY NewsCreateIs DEF Runs, Steps
<1>2. Runs(LumirCreate)
    BY LumirCreateIs DEF Runs, Steps
<1>3. Runs(VideoCreate)
    BY VideoCreateIs DEF Runs, Steps
<1>4. Runs(BrochureCreate)
    BY BrochureCreateIs DEF Runs, Steps
<1>5. Runs(DisclosureCreate)
    BY DisclosureCreateIs DEF Runs, Steps
<1>6. Runs(MeetingCreate)
    BY MeetingCreateIs DEF Runs, Steps
<1>7. Runs(WikiCreate)
    BY WikiCreateIs DEF Runs, Steps
<1>8. Runs(BrochureSamples)
    BY BrochureSamplesIs DEF Runs, Steps
<1>9. Runs(NewsPublish)
    BY NewsPublishIs DEF Runs, Steps
<1>10. Runs(LumirPublish)
    BY LumirPublishIs DEF Runs, Steps
<1>11. Runs(DisclosurePublish)
    BY DisclosurePublishIs DEF Runs, Steps
<1>12. Runs(PopupPublish)
    BY PopupPublishIs DEF Runs, Steps
<1>13. Runs(NewsRemove)
    BY NewsRemoveIs DEF Runs, Steps
<1>14. Runs(LumirRemove)
    BY LumirRemoveIs DEF Runs, Steps
<1>15. Runs(WikiRemove)
    BY WikiRemoveIs DEF Runs, Steps
<1>16. Runs(AnnouncementCreate)
    BY AnnouncementCreateIs DEF Runs, Steps
<1>17. Runs(AnnouncementPublish)
    BY AnnouncementPublishIs DEF Runs, Steps
<1>18. Runs(AnnouncementRemove)
    BY AnnouncementRemoveIs DEF Runs, Steps
<1>19. Runs(WikiMove)
    BY WikiMoveIs DEF Runs, Steps
<1>20. Runs(WikiCreateEmpty)
    BY WikiCreateEmptyIs DEF Runs, Steps
<1> QED BY <1>1, <1>2, <1>3, <1>4, <1>5, <1>6, <1>7, <1>8, <1>9,
            <1>10, <1>11, <1>12, <1>13, <1>14, <1>15, <1>16, <1>17, <1>18,
            <1>19, <1>20, SameScripts DEF Script

LEMMA CategoriesRun ==
    \A k \in DOMAIN Categories : \A op \in DOMAIN CategoryOps : Runs(Categories[k][op])
<1>1. \A op \in DOMAIN CategoryOps :
         CategoryOps[op] \in {<<"insert">>, <<"find", "savePublic">>, <<"find", "saveOrder">>,
                             <<"find", "remove">>}
    BY DEF CategoryOps, CategoryInsert, CategoryUpdate, CategorySoftRemove
<1>2. ASSUME NEW s \in {<<"insert">>, <<"find", "savePublic">>, <<"find", "saveOrder">>,
                        <<"find", "remove">>}
      PROVE  Runs(s)
    <2>1. Len(s) \in Nat /\ 1 \in 1..Len(s) /\ s[1] \in Steps
        BY DEF Steps
    <2> QED BY <2>1 DEF Runs
<1>3. ASSUME NEW s \in {<<"insert">>, <<"find", "savePublic">>, <<"find", "saveOrder">>,
                        <<"find", "remove">>},
             NEW check
      PROVE  Runs(<<check>> \o s)
    <2>1. /\ Len(<<check>> \o s) \in Nat /\ 2 \in 1..Len(<<check>> \o s)
          /\ (<<check>> \o s)[2] \in Steps
        BY DEF Steps
    <2> QED BY <2>1 DEF Runs
<1>4. ASSUME NEW ops, NEW check, NEW op \in DOMAIN CategoryOps
      PROVE  Runs(Checked(ops, <<check>>)[op])
    <2>1. CategoryOps[op] \in {<<"insert">>, <<"find", "savePublic">>,
                              <<"find", "saveOrder">>, <<"find", "remove">>}
        BY <1>1
    <2>2. Checked(ops, <<check>>)[op] =
            IF op \in ops THEN <<check>> \o CategoryOps[op] ELSE CategoryOps[op]
        BY DEF Checked
    <2>3. Runs(CategoryOps[op]) /\ Runs(<<check>> \o CategoryOps[op])
        BY <1>2, <1>3, <2>1
    <2> QED BY <2>2, <2>3
<1>5. Runs(<<"name">> \o CategoryInsert) /\ Runs(<<"name", "description", "order">> \o CategoryInsert)
    <2>1. Runs(<<"name">> \o <<"insert">>)
        BY <1>3
    <2>2. LET s == <<"name", "description", "order">> \o <<"insert">>
          IN  Len(s) \in Nat /\ 4 \in 1..Len(s) /\ s[4] \in Steps
        BY DEF Steps
    <2> QED BY <2>1, <2>2 DEF Runs, CategoryInsert
<1>6. \A op \in DOMAIN CategoryOps : Runs(CategoryOps[op])
    BY <1>1, <1>2
<1>7. Runs(<<"order">> \o CategoryOps["order"])
    BY <1>1, <1>3 DEF CategoryOps
<1>8. \A op \in DOMAIN CategoryOps : Runs(NewsCategories[op]) /\ Runs(DisclosureCategories[op])
    BY <1>4 DEF NewsCategories, DisclosureCategories
<1> DEFINE checked == Checked({"edit", "order", "remove"}, <<"uuid">>)
           removing == Checked({"remove"}, <<"uuid">>)
<1>9. /\ DOMAIN checked = DOMAIN CategoryOps /\ DOMAIN removing = DOMAIN CategoryOps
      /\ checked["create"] = CategoryInsert /\ removing["create"] = CategoryInsert
      /\ removing["order"] = CategoryOps["order"]
    BY DEF Checked, CategoryOps
<1>10. \A op \in DOMAIN CategoryOps : Runs(checked[op]) /\ Runs(removing[op])
    BY <1>4
<1>11. IrCategories = [checked EXCEPT !["create"] = <<"name">> \o CategoryInsert]
    BY <1>9 DEF IrCategories
<1>12. MeetingCategories = [checked EXCEPT !["create"] = <<"name">> \o CategoryInsert]
    BY <1>9 DEF MeetingCategories
<1>13. PopupCategories =
         [removing EXCEPT !["create"] = <<"name", "description", "order">> \o CategoryInsert,
                          !["order"] = <<"order">> \o CategoryOps["order"]]
    BY <1>9 DEF PopupCategories
<1> HIDE DEF checked, removing
<1>14. \A op \in DOMAIN CategoryOps : Runs(IrCategories[op]) /\ Runs(MeetingCategories[op])
    BY <1>5, <1>9, <1>10, <1>11, <1>12
<1>15. \A op \in DOMAIN CategoryOps : Runs(PopupCategories[op])
    BY <1>5, <1>7, <1>9, <1>10, <1>13
<1> QED BY <1>6, <1>8, <1>14, <1>15
       DEF Categories, LumirCategories, VideoCategories, BrochureCategories,
           AnnouncementCategories

(* Every request runs at least one statement of this machine. *)
LEMMA PlansType ==
    \A k \in Kinds : \A op \in DOMAIN Plans[k] : Plans[k][op] \subseteq Seq(Steps) \ {<<>>}
<1>1. ASSUME NEW s, Runs(s) PROVE Plan(s, "none", Steps) \in Seq(Steps) \ {<<>>}
    BY <1>1, PlanType DEF Runs
<1>2. ASSUME NEW k \in Kinds, NEW op \in DOMAIN Plans[k], k = "category"
      PROVE  Plans[k][op] \subseteq Seq(Steps) \ {<<>>}
    <2>1. /\ op \in DOMAIN CategoryOps
          /\ Plans[k][op] = {Plan(Categories[s][op], "none", Steps) : s \in DOMAIN Categories}
        BY <1>2 DEF Plans
    <2> QED BY <1>1, <2>1, CategoriesRun
<1>3. ASSUME NEW k \in Kinds, NEW op \in DOMAIN Plans[k], k # "category"
      PROVE  Plans[k][op] \subseteq Seq(Steps) \ {<<>>}
    <2>1. op \in DOMAIN Script[k] \ {"edit"} /\ Plans[k][op] = {Plan(Script[k][op], "none", Steps)}
        BY <1>3 DEF Plans
    <2>2. k \in DOMAIN Script
        BY <1>3, OrderingAssumption DEF Reorder, Script
    <2> QED BY <1>1, <2>1, <2>2, ScriptsRun
<1> QED BY <1>2, <1>3
-----------------------------------------------------------------------------
(* Requests, one by one. *)
Typed(r) ==
    /\ r \in Request \cup {Idle}
    /\ r.plan # <<>> => r.n \in DOMAIN r.plan

(* A creation that no other has crossed since it read the table would get  *)
(* an order above those of all the rows created alone.                     *)
OrdersAhead ==
    \A e \in Editor : Busy(e) /\ request[e].alone =>
        \A c \in Live : given[c] = "alone" => row[c].order < request[e].order

(* Place i of the list of b has been dealt with in the table t, or someone *)
(* else has written its row.                                               *)
Placed(b, i, t) ==
    \/ b.list[i].item \in b.crossed
    \/ t[b.list[i].item] = [at |-> "live", order |-> b.list[i].order]

(* What a reorder knows of the table.  A transaction holds the locks of    *)
(* rows that come before all it still waits for in its list.               *)
Sound(b, t) ==
    /\ kind # "category"
    /\ b.todo \subseteq DOMAIN b.list
    /\ reads # "locking" =>
         \A i \in DOMAIN b.list : b.list[i].item \in b.wrote => Placed(b, i, t)
    /\ b.answer = "done" => \A i \in DOMAIN b.list : Placed(b, i, t)
    /\ reads = "locking" /\ b.answer = "none" /\ b.found =>
         \A i \in DOMAIN b.list : b.list[i].item \in b.crossed \/ t[b.list[i].item].at = "live"
    /\ reads # "inTurn" /\ ~b.found => b.wrote = {}
    /\ b.answer = "refused" /\ kind # "meeting" => b.wrote = {}
    /\ reads = "locking" /\ b.answer = "none" =>
         \A c \in b.wrote : \E j \in DOMAIN b.list :
            b.list[j].item = c /\ \A i \in b.todo : j < i

Informed == \A s \in Editor : Sorting(s) => Sound(batch[s], row)

OrderInv == TypeOK /\ DistinctOrders /\ OrdersAhead /\ Informed
-----------------------------------------------------------------------------
(* What the shapes of requests and reorders give.                          *)
LEMMA RequestFacts ==
    ASSUME NEW r \in Request
    PROVE  /\ r.plan \in Seq(Steps) /\ r.plan # <<>>
           /\ r.item \in Content /\ r.n \in Nat /\ r.order \in Nat /\ r.alone \in BOOLEAN
<1>1. PICK k \in Kinds : \E op \in DOMAIN Plans[k] : r.plan \in Plans[k][op]
    BY DEF Request
<1>2. r.plan \in Seq(Steps) \ {<<>>}
    BY <1>1, PlansType
<1> QED BY <1>2 DEF Request

LEMMA BusyFacts ==
    ASSUME TypeOK, NEW e \in Editor, Busy(e)
    PROVE  request[e] \in Request /\ request[e].n \in DOMAIN request[e].plan
BY DEF TypeOK, Busy, Idle

LEMMA ListFacts ==
    ASSUME NEW list \in Lists
    PROVE  /\ list # <<>>
           /\ \E n \in Places : DOMAIN list = 1..n
           /\ DOMAIN list \subseteq Places
           /\ \A i \in DOMAIN list : list[i].item \in Content /\ list[i].order \in Place
           /\ \A i, j \in DOMAIN list : list[i].item = list[j].item => i = j
<1>1. Cardinality(Content) \in Nat
    BY OrderingAssumption, FS_CardinalityType
<1>2. PICK n \in Places : list \in [1..n -> [item : Content, order : Place]]
    BY DEF Lists
<1>3. n \in Nat \ {0} /\ 1..n \subseteq Places
    BY <1>1, <1>2 DEF Places
<1>4. 1 \in DOMAIN list
    BY <1>2, <1>3
<1>5. list # <<>>
    BY <1>4
<1> QED BY <1>2, <1>3, <1>5 DEF Lists

LEMMA SortingFacts ==
    ASSUME TypeOK, NEW s \in Editor, Sorting(s)
    PROVE  batch[s] \in Batch /\ batch[s].list \in Lists
BY DEF TypeOK, Sorting, Free, Batch

(* Only news, videos and meetings are read in turn, and only announcements *)
(* locked.                                                                 *)
LEMMA ReorderFacts ==
    ASSUME TypeOK, reads = "inTurn", Reorder[kind].missing # "skipped"
    PROVE  kind = "meeting"
<1>1. kind \in {"news", "lumir", "video", "brochure", "disclosure", "ir", "popup",
                "meeting", "announcement", "category"}
    BY OrderingAssumption DEF TypeOK, Reorder
<1>2. Reorder.news = NewsReorder /\ Reorder.lumir = LumirReorder
      /\ Reorder.video = VideoReorder /\ Reorder.brochure = BrochureReorder
      /\ Reorder.disclosure = DisclosureReorder /\ Reorder.ir = IrReorder
      /\ Reorder.popup = PopupReorder /\ Reorder.announcement = AnnouncementReorder
    BY DEF Reorder
<1>3. NewsReorder.missing = "skipped" /\ VideoReorder.missing = "skipped"
    BY DEF NewsReorder, VideoReorder
<1>4. LumirReorder.reads = "atOnce" /\ BrochureReorder.reads = "atOnce"
      /\ DisclosureReorder.reads = "atOnce" /\ IrReorder.reads = "atOnce"
      /\ PopupReorder.reads = "atOnce" /\ AnnouncementReorder.reads = "locking"
    BY DEF LumirReorder, BrochureReorder, DisclosureReorder, IrReorder, PopupReorder,
           AnnouncementReorder
<1> QED BY <1>1, <1>2, <1>3, <1>4 DEF reads

LEMMA ReadsFacts ==
    ASSUME TypeOK, kind # "category"
    PROVE  reads \in {"inTurn", "atOnce", "locking"}
<1>1. kind \in {"news", "lumir", "video", "brochure", "disclosure", "ir", "popup",
                "meeting", "announcement"}
    BY OrderingAssumption DEF TypeOK, Reorder
<1>2. Reorder.news = NewsReorder /\ Reorder.lumir = LumirReorder
      /\ Reorder.video = VideoReorder /\ Reorder.brochure = BrochureReorder
      /\ Reorder.disclosure = DisclosureReorder /\ Reorder.ir = IrReorder
      /\ Reorder.popup = PopupReorder /\ Reorder.announcement = AnnouncementReorder
      /\ Reorder.meeting = MeetingReorder
    BY DEF Reorder
<1>3. NewsReorder.reads = "inTurn" /\ VideoReorder.reads = "inTurn"
      /\ MeetingReorder.reads = "inTurn"
    BY DEF NewsReorder, VideoReorder, MeetingReorder
<1>4. LumirReorder.reads = "atOnce" /\ BrochureReorder.reads = "atOnce"
      /\ DisclosureReorder.reads = "atOnce" /\ IrReorder.reads = "atOnce"
      /\ PopupReorder.reads = "atOnce" /\ AnnouncementReorder.reads = "locking"
    BY DEF LumirReorder, BrochureReorder, DisclosureReorder, IrReorder, PopupReorder,
           AnnouncementReorder
<1> QED BY <1>1, <1>2, <1>3, <1>4 DEF reads
-----------------------------------------------------------------------------
(* A request keeps its shape as it goes on.                                *)
LEMMA GoesOnward ==
    ASSUME NEW r \in Request, r.n \in DOMAIN r.plan
    PROVE  /\ Typed(Onward(r))
           /\ Onward(r).plan # <<>> => Onward(r).order = r.order /\ Onward(r).alone = r.alone
<1>1. r.plan \in Seq(Steps) /\ r.n \in 1..Len(r.plan)
    BY RequestFacts
<1>2. CASE r.n = Len(r.plan)
    BY <1>2 DEF Onward, Typed, Idle
<1>3. CASE r.n # Len(r.plan)
    <2>1. r.n + 1 \in 1..Len(r.plan) /\ r.n + 1 \in Nat \ {0}
        BY <1>1, <1>3
    <2>2. Onward(r) = [r EXCEPT !.n = r.n + 1]
        BY <1>3 DEF Onward
    <2>3. Onward(r) \in Request
        BY <2>1, <2>2 DEF Request
    <2> QED BY <1>1, <2>1, <2>2, <2>3 DEF Typed, Request
<1> QED BY <1>2, <1>3

(* The types of the next state, variable by variable.                      *)
LEMMA TypesNext ==
    ASSUME kind' \in Kinds, row' \in [Content -> Row],
           request' \in [Editor -> {r \in Request \cup {Idle} : Typed(r)}],
           batch' \in [Editor -> Batch \cup {Free}],
           given' \in [Content -> {"alone", "other"}]
    PROVE  TypeOK'
BY DEF TypeOK, Typed, Busy

LEMMA RequestsTyped ==
    ASSUME TypeOK
    PROVE  request \in [Editor -> {r \in Request \cup {Idle} : Typed(r)}]
BY DEF TypeOK, Typed, Busy

(* Reorders that others cross.                                             *)
LEMMA CrossType ==
    ASSUME TypeOK, NEW s \in Editor, NEW cs \in SUBSET Content
    PROVE  Cross(s, cs) \in Batch \cup {Free}
<1>1. CASE Sorting(s)
    BY <1>1, SortingFacts DEF Cross, Batch
<1>2. CASE ~Sorting(s)
    BY <1>2 DEF Cross
<1> QED BY <1>1, <1>2

LEMMA CrossSound ==
    ASSUME TypeOK, Informed, NEW s \in Editor, NEW cs \in SUBSET Content,
           Cross(s, cs).list # <<>>, \A c \in Content \ cs : row'[c] = row[c]
    PROVE  Sound(Cross(s, cs), row')
<1> DEFINE b == batch[s]
<1>1. Sorting(s)
    BY DEF Cross, Free
<1>2. b \in Batch /\ b.list \in Lists /\ Sound(b, row)
    BY <1>1, SortingFacts DEF Informed
<1>3. Cross(s, cs) = [b EXCEPT !.crossed = @ \cup cs]
    BY <1>1 DEF Cross
<1>4. \A i \in DOMAIN b.list : b.list[i].item \in Content
    BY <1>2, ListFacts
<1> HIDE DEF b
<1> DEFINE n == [b EXCEPT !.crossed = @ \cup cs]
<1>5. /\ n.list = b.list /\ n.found = b.found /\ n.todo = b.todo
      /\ n.wrote = b.wrote /\ n.answer = b.answer /\ n.crossed = b.crossed \cup cs
    BY <1>2 DEF Batch
<1> HIDE DEF n
<1>6. \A i \in DOMAIN b.list : Placed(b, i, row) => Placed(n, i, row')
    BY <1>4, <1>5 DEF Placed
<1>7. \A i \in DOMAIN b.list :
        b.list[i].item \in b.crossed \/ row[b.list[i].item].at = "live"
          => n.list[i].item \in n.crossed \/ row'[n.list[i].item].at = "live"
    BY <1>4, <1>5
<1>8. Sound(n, row')
    BY <1>2, <1>5, <1>6, <1>7 DEF Sound
<1> QED BY <1>3, <1>8 DEF n

LEMMA InformedNext ==
    ASSUME kind' = kind,
           \A s \in Editor : batch'[s].list # <<>> => Sound(batch'[s], row')
    PROVE  Informed'
BY DEF Informed, Sorting, Sound, Placed, reads

LEMMA InformedSame ==
    ASSUME Informed, kind' = kind, row' = row, batch' = batch
    PROVE  Informed'
BY DEF Informed, Sorting, Sound, Placed, reads

(* Rows written by someone who is no reorder.                              *)
LEMMA InformedCrossed ==
    ASSUME TypeOK, Informed, kind' = kind, NEW cs \in SUBSET Content,
           batch' = [s \in Editor |-> Cross(s, cs)],
           \A c \in Content \ cs : row'[c] = row[c]
    PROVE  Informed' /\ batch' \in [Editor -> Batch \cup {Free}]
<1>1. \A s \in Editor : batch'[s].list # <<>> => Sound(batch'[s], row')
    BY CrossSound
<1>2. Informed'
    BY <1>1, InformedNext
<1>3. batch' \in [Editor -> Batch \cup {Free}]
    BY CrossType
<1> QED BY <1>2, <1>3

(* The two invariants on orders, when rows lose theirs or keep them and    *)
(* requests learn nothing.                                                 *)
LEMMA OrdersKept ==
    ASSUME DistinctOrders, OrdersAhead,
           \A c \in Content : \/ row'[c] = row[c] /\ given'[c] = given[c]
                              \/ given'[c] = "other"
                              \/ row'[c].at # "live",
           \A e \in Editor : request'[e].plan # <<>> /\ request'[e].alone =>
              Busy(e) /\ request[e].alone /\ request'[e].order = request[e].order
    PROVE  DistinctOrders' /\ OrdersAhead'
<1>1. \A c \in Content : row'[c].at = "live" /\ given'[c] = "alone" =>
        row'[c] = row[c] /\ given[c] = "alone" /\ c \in Live
    BY DEF Live
<1>2. DistinctOrders'
    BY <1>1 DEF DistinctOrders, Live
<1>3. OrdersAhead'
    BY <1>1 DEF OrdersAhead, Live, Busy
<1> QED BY <1>2, <1>3

(* e goes on with its copy as it is, or ends.                              *)
LEMMA GoesKeeps ==
    ASSUME TypeOK, NEW e \in Editor, Busy(e), NEW r \in Request,
           r.plan = request[e].plan, r.n = request[e].n, Goes(e, r)
    PROVE  /\ request' \in [Editor -> {q \in Request \cup {Idle} : Typed(q)}]
           /\ \A d \in Editor \ {e} : request'[d] = request[d]
           /\ request'[e].plan # <<>> =>
                request'[e].order = r.order /\ request'[e].alone = r.alone
<1>1. r.n \in DOMAIN r.plan
    BY BusyFacts
<1>2. Typed(Onward(r)) /\ (Onward(r).plan # <<>> =>
         Onward(r).order = r.order /\ Onward(r).alone = r.alone)
    BY <1>1, GoesOnward
<1>3. request' = [request EXCEPT ![e] = Onward(r)]
    BY DEF Goes
<1>4. Onward(r) \in Request \cup {Idle}
    BY <1>2 DEF Typed
<1>5. request \in [Editor -> {q \in Request \cup {Idle} : Typed(q)}]
    BY RequestsTyped
<1> HIDE DEF Idle, Request, Typed
<1> QED BY <1>2, <1>3, <1>4, <1>5

LEMMA IdleKeeps ==
    ASSUME TypeOK, NEW e \in Editor, request' = [request EXCEPT ![e] = Idle]
    PROVE  /\ request' \in [Editor -> {q \in Request \cup {Idle} : Typed(q)}]
           /\ \A d \in Editor : request'[d].plan # <<>> => request'[d] = request[d] /\ Busy(d)
<1>1. request \in [Editor -> {q \in Request \cup {Idle} : Typed(q)}]
    BY RequestsTyped
<1>2. Typed(Idle) /\ Idle.plan = <<>>
    BY DEF Typed, Idle
<1> HIDE DEF Idle, Request, Typed
<1>3. request' \in [Editor -> {q \in Request \cup {Idle} : Typed(q)}]
    BY <1>1, <1>2
<1>4. \A d \in Editor : request'[d].plan # <<>> => request'[d] = request[d] /\ Busy(d)
    BY <1>1, <1>2 DEF Busy
<1> QED BY <1>3, <1>4

(* What all steps take from the invariant.                                 *)
LEMMA InvParts ==
    ASSUME OrderInv
    PROVE  /\ TypeOK /\ DistinctOrders /\ OrdersAhead /\ Informed
           /\ kind \in Kinds /\ row \in [Content -> Row]
           /\ request \in [Editor -> {r \in Request \cup {Idle} : Typed(r)}]
           /\ batch \in [Editor -> Batch \cup {Free}]
           /\ given \in [Content -> {"alone", "other"}]
BY RequestsTyped DEF OrderInv, TypeOK
-----------------------------------------------------------------------------
(* The requests on one row.                                                *)
LEMMA NextOrderStep ==
    ASSUME OrderInv, NEW e \in Editor, NextOrder(e)
    PROVE  OrderInv'
<1>1. Busy(e) /\ request[e] \in Request
    BY InvParts, BusyFacts DEF NextOrder, At
<1>2. PICK order \in IF Live = {} THEN {0} ELSE {row[c].order + 1 : c \in Live} :
        /\ \A c \in Live : row[c].order < order
        /\ Goes(e, [request[e] EXCEPT !.order = order, !.alone = TRUE])
    BY DEF NextOrder
<1>3. order \in Nat
    <2>1. order = 0 \/ \E c \in Live : order = row[c].order + 1
        OBVIOUS
    <2>2. \A c \in Live : row[c].order \in Nat
        BY InvParts DEF Row, Live
    <2> QED BY <2>1, <2>2
<1> DEFINE r == [request[e] EXCEPT !.order = order, !.alone = TRUE]
<1>4. r \in Request /\ r.plan = request[e].plan /\ r.n = request[e].n
      /\ r.order = order
    BY <1>1, <1>3 DEF Request
<1>5. Goes(e, r)
    BY <1>2
<1> HIDE DEF r
<1>6. /\ request' \in [Editor -> {q \in Request \cup {Idle} : Typed(q)}]
      /\ \A d \in Editor \ {e} : request'[d] = request[d]
      /\ request'[e].plan # <<>> => request'[e].order = order
    BY <1>1, <1>4, <1>5, InvParts, GoesKeeps
<1>7. UNCHANGED <<kind, row, batch, given>>
    BY DEF NextOrder
<1>8. TypeOK'
    BY <1>6, <1>7, InvParts, TypesNext
<1>9. DistinctOrders'
    BY <1>7, InvParts DEF DistinctOrders, Live
<1>10. OrdersAhead'
    BY <1>2, <1>6, <1>7, InvParts DEF OrdersAhead, Live, Busy
<1>11. Informed'
    BY <1>7, InvParts, InformedSame
<1> QED BY <1>8, <1>9, <1>10, <1>11 DEF OrderInv

LEMMA InsertStep ==
    ASSUME OrderInv, NEW e \in Editor, Insert(e)
    PROVE  OrderInv'
<1>1. Busy(e) /\ request[e] \in Request /\ request[e].n \in DOMAIN request[e].plan
    BY InvParts, BusyFacts DEF Insert, At
<1> DEFINE c == request[e].item
<1>2. c \in Content /\ request[e].order \in Nat /\ request[e].alone \in BOOLEAN
    BY <1>1, RequestFacts
<1>3. \E order \in Nat :
         /\ row' = [row EXCEPT ![c] = [at |-> "live", order |-> order]]
         /\ kind # "category" => order = request[e].order
    <2>1. CASE kind = "category"
        <3>1. \E order \in Place \cup {0} : row' = [row EXCEPT ![c] = [at |-> "live", order |-> order]]
            BY <2>1 DEF Insert
        <3> QED BY <2>1, <3>1, OrderingAssumption
    <2>2. CASE kind # "category"
        <3>1. \E order \in {request[e].order} :
                 row' = [row EXCEPT ![c] = [at |-> "live", order |-> order]]
            BY <2>2 DEF Insert
        <3> QED BY <1>2, <2>2, <3>1
    <2> QED BY <2>1, <2>2
<1>4. PICK order \in Nat :
         /\ row' = [row EXCEPT ![c] = [at |-> "live", order |-> order]]
         /\ kind # "category" => order = request[e].order
    BY <1>3
<1>5. given' = [given EXCEPT ![c] =
                  IF request[e].alone /\ kind \notin {"announcement", "category"}
                  THEN "alone" ELSE "other"]
    BY DEF Insert
<1>6. request' = [d \in Editor |->
                    IF d = e THEN Onward([request[e] EXCEPT !.alone = FALSE])
                    ELSE IF Busy(d) THEN [request[d] EXCEPT !.alone = FALSE] ELSE Idle]
    BY DEF Insert
<1> HIDE DEF c
<1>7. batch' = [s \in Editor |-> Cross(s, {c})] /\ kind' = kind
    BY DEF Insert, c
<1>8. row' \in [Content -> Row] /\ given' \in [Content -> {"alone", "other"}]
    BY <1>2, <1>4, <1>5, InvParts DEF Row
<1>9. Informed' /\ batch' \in [Editor -> Batch \cup {Free}]
    <2>1. \A d \in Content \ {c} : row'[d] = row[d]
        BY <1>4, InvParts
    <2> QED BY <1>2, <1>7, <2>1, InvParts, InformedCrossed
<1>10. ASSUME NEW d \in Editor
       PROVE  Typed(request'[d]) /\ (request'[d].plan # <<>> => ~request'[d].alone)
    <2>1. CASE d = e
        <3> DEFINE r == [request[e] EXCEPT !.alone = FALSE]
        <3>1. r \in Request /\ r.n \in DOMAIN r.plan /\ r.alone = FALSE
            BY <1>1 DEF Request
        <3>2. request'[d] = Onward(r)
            BY <1>6, <2>1
        <3> HIDE DEF r
        <3> QED BY <3>1, <3>2, GoesOnward
    <2>2. CASE d # e /\ Busy(d)
        <3>1. request[d] \in Request /\ request[d].n \in DOMAIN request[d].plan
            BY <2>2, InvParts, BusyFacts
        <3>2. request'[d] = [request[d] EXCEPT !.alone = FALSE]
            BY <1>6, <2>2
        <3> QED BY <3>1, <3>2 DEF Typed, Request
    <2>3. CASE d # e /\ ~Busy(d)
        BY <1>6, <2>3 DEF Typed, Idle
    <2> QED BY <2>1, <2>2, <2>3
<1>11. request' \in [Editor -> {q \in Request \cup {Idle} : Typed(q)}]
    BY <1>6, <1>10 DEF Typed
<1>12. TypeOK'
    BY <1>7, <1>8, <1>9, <1>11, InvParts, TypesNext
<1>13. \A d \in Content \ {c} : row'[d] = row[d] /\ given'[d] = given[d]
    BY <1>4, <1>5, InvParts
<1>14. row'[c].order = order /\ (given'[c] = "alone" => request[e].alone /\ order = request[e].order)
    BY <1>2, <1>4, <1>5, InvParts
<1>15. given'[c] = "alone" =>
         \A d \in Content \ {c} : d \in Live /\ given[d] = "alone" => row[d].order < row'[c].order
    BY <1>1, <1>14, InvParts DEF OrdersAhead
<1>16. DistinctOrders'
    <2> SUFFICES ASSUME NEW a \in Content, NEW b \in Content, row'[a].at = "live",
                        row'[b].at = "live", given'[a] = "alone", given'[b] = "alone", a # b
                 PROVE  row'[a].order # row'[b].order
        BY DEF DistinctOrders, Live
    <2>1. row'[a].order \in Nat /\ row'[b].order \in Nat
        BY <1>8 DEF Row
    <2>2. CASE a = c
        BY <1>13, <1>15, <2>1, <2>2 DEF Live
    <2>3. CASE b = c
        BY <1>13, <1>15, <2>1, <2>3 DEF Live
    <2>4. CASE a # c /\ b # c
        BY <1>13, <2>4, InvParts DEF DistinctOrders, Live
    <2> QED BY <2>2, <2>3, <2>4
<1>17. OrdersAhead'
    BY <1>10 DEF OrdersAhead, Busy
<1> QED BY <1>9, <1>12, <1>16, <1>17 DEF OrderInv

LEMMA InsertSampleStep ==
    ASSUME OrderInv, NEW e \in Editor, InsertSample(e)
    PROVE  OrderInv'
<1>1. Busy(e) /\ request[e] \in Request
    BY InvParts, BusyFacts DEF InsertSample, At
<1> DEFINE c == request[e].item
<1>2. c \in Content
    BY <1>1, RequestFacts
<1>3. PICK order \in Place : row' = [row EXCEPT ![c] = [at |-> "live", order |-> order]]
    BY DEF InsertSample
<1>4. order \in Nat
    BY OrderingAssumption
<1>5. /\ given' = [given EXCEPT ![c] = "other"] /\ Goes(e, request[e]) /\ kind' = kind
      /\ batch' = [s \in Editor |-> Cross(s, {c})]
    BY DEF InsertSample
<1> HIDE DEF c
<1>6. row' \in [Content -> Row] /\ given' \in [Content -> {"alone", "other"}]
    BY <1>2, <1>3, <1>4, <1>5, InvParts DEF Row
<1>7. /\ request' \in [Editor -> {q \in Request \cup {Idle} : Typed(q)}]
      /\ \A d \in Editor \ {e} : request'[d] = request[d]
      /\ request'[e].plan # <<>> =>
           request'[e].order = request[e].order /\ request'[e].alone = request[e].alone
    BY <1>1, <1>5, InvParts, GoesKeeps
<1>8. Informed' /\ batch' \in [Editor -> Batch \cup {Free}]
    <2>1. \A d \in Content \ {c} : row'[d] = row[d]
        BY <1>3, InvParts
    <2> QED BY <1>2, <1>5, <2>1, InvParts, InformedCrossed
<1>9. TypeOK'
    BY <1>5, <1>6, <1>7, <1>8, InvParts, TypesNext
<1>10. DistinctOrders' /\ OrdersAhead'
    BY <1>1, <1>2, <1>3, <1>5, <1>7, InvParts, OrdersKept DEF Busy
<1> QED BY <1>8, <1>9, <1>10 DEF OrderInv

(* A step that only moves or ends the request e.                           *)
LEMMA RequestOnly ==
    ASSUME OrderInv, UNCHANGED <<kind, row, batch, given>>,
           request' \in [Editor -> {q \in Request \cup {Idle} : Typed(q)}],
           \A d \in Editor : request'[d].plan # <<>> /\ request'[d].alone =>
              Busy(d) /\ request[d].alone /\ request'[d].order = request[d].order
    PROVE  OrderInv'
<1>1. TypeOK'
    BY InvParts, TypesNext
<1>2. DistinctOrders' /\ OrdersAhead'
    BY InvParts, OrdersKept
<1>3. Informed'
    BY InvParts, InformedSame
<1> QED BY <1>1, <1>2, <1>3 DEF OrderInv

LEMMA EndStep ==
    ASSUME OrderInv, NEW e \in Editor, NotFound(e) \/ Fail(e)
    PROVE  OrderInv'
<1>1. request' = [request EXCEPT ![e] = Idle] /\ UNCHANGED <<kind, row, batch, given>>
    BY DEF NotFound, Fail
<1> QED BY <1>1, InvParts, IdleKeeps, RequestOnly

LEMMA FindStep ==
    ASSUME OrderInv, NEW e \in Editor, Find(e)
    PROVE  OrderInv'
<1>1. Busy(e) /\ request[e] \in Request
    BY InvParts, BusyFacts DEF Find, At
<1> DEFINE r == [request[e] EXCEPT !.order = row[request[e].item].order, !.alone = FALSE]
<1>2. row[request[e].item].order \in Nat
    BY <1>1, InvParts, RequestFacts DEF Row
<1>3. r \in Request /\ r.plan = request[e].plan /\ r.n = request[e].n /\ r.alone = FALSE
    BY <1>1, <1>2 DEF Request
<1>4. Goes(e, r) /\ UNCHANGED <<kind, row, batch, given>>
    BY DEF Find
<1> HIDE DEF r
<1>5. /\ request' \in [Editor -> {q \in Request \cup {Idle} : Typed(q)}]
      /\ \A d \in Editor \ {e} : request'[d] = request[d]
      /\ request'[e].plan # <<>> => request'[e].alone = FALSE
    BY <1>1, <1>3, <1>4, InvParts, GoesKeeps
<1> QED BY <1>4, <1>5, RequestOnly DEF Busy

(* A request writes the row it is on.                                      *)
LEMMA WriteStep ==
    ASSUME OrderInv, NEW e \in Editor, Busy(e), NEW v \in Row, NEW g \in {"alone", "other"},
           row' = [row EXCEPT ![request[e].item] = v],
           given' = [given EXCEPT ![request[e].item] = g],
           \/ v = row[request[e].item] /\ g = given[request[e].item]
           \/ g = "other"
           \/ v.at # "live",
           Goes(e, request[e]), kind' = kind,
           batch' = [s \in Editor |-> Cross(s, {request[e].item})]
    PROVE  OrderInv'
<1> DEFINE c == request[e].item
<1>1. request[e] \in Request /\ c \in Content
    BY InvParts, BusyFacts, RequestFacts
<1>2. row' = [row EXCEPT ![c] = v] /\ given' = [given EXCEPT ![c] = g]
      /\ batch' = [s \in Editor |-> Cross(s, {c})]
      /\ ((v = row[c] /\ g = given[c]) \/ g = "other" \/ v.at # "live")
    OBVIOUS
<1>10. batch' = [s \in Editor |-> Cross(s, {c})] /\ kind' = kind
    OBVIOUS
<1> HIDE DEF c
<1>9. row' = [row EXCEPT ![c] = v] /\ row \in [Content -> Row]
    BY <1>2, InvParts
<1>3. row' \in [Content -> Row] /\ given' \in [Content -> {"alone", "other"}]
    BY <1>1, <1>2, InvParts
<1>4. /\ request' \in [Editor -> {q \in Request \cup {Idle} : Typed(q)}]
      /\ \A d \in Editor \ {e} : request'[d] = request[d]
      /\ request'[e].plan # <<>> =>
           request'[e].order = request[e].order /\ request'[e].alone = request[e].alone
    BY <1>1, InvParts, GoesKeeps
<1>5. Informed' /\ batch' \in [Editor -> Batch \cup {Free}]
    <2>1. \A d \in Content \ {c} : row'[d] = row[d]
        BY <1>9
    <2>2. TypeOK /\ Informed /\ {c} \in SUBSET Content
        BY <1>1, InvParts
    <2> QED BY <1>10, <2>1, <2>2, InformedCrossed
<1>6. TypeOK'
    BY <1>3, <1>4, <1>5, InvParts, TypesNext
<1>7. \A d \in Content : \/ row'[d] = row[d] /\ given'[d] = given[d]
                         \/ given'[d] = "other"
                         \/ row'[d].at # "live"
    BY <1>1, <1>2, InvParts
<1>8. DistinctOrders' /\ OrdersAhead'
    BY <1>4, <1>7, InvParts, OrdersKept DEF Busy
<1> QED BY <1>5, <1>6, <1>8 DEF OrderInv

LEMMA SaveBackStep ==
    ASSUME OrderInv, NEW e \in Editor, SaveBack(e)
    PROVE  OrderInv'
<1> DEFINE c == request[e].item
           v == [at |-> "live", order |-> request[e].order]
           g == IF row[c] = v THEN given[c] ELSE "other"
<1>1. Busy(e) /\ request[e] \in Request
    BY InvParts, BusyFacts DEF SaveBack, At
<1>2. v \in Row /\ g \in {"alone", "other"}
    BY <1>1, InvParts, RequestFacts DEF Row
<1>3. /\ row' = [row EXCEPT ![c] = v] /\ given' = [given EXCEPT ![c] = g]
      /\ Goes(e, request[e]) /\ kind' = kind /\ batch' = [s \in Editor |-> Cross(s, {c})]
    BY DEF SaveBack
<1>4. (v = row[c] /\ g = given[c]) \/ g = "other"
    OBVIOUS
<1> HIDE DEF v, g
<1> QED BY <1>1, <1>2, <1>3, <1>4, WriteStep

LEMMA SaveOrderStep ==
    ASSUME OrderInv, NEW e \in Editor, SaveOrder(e)
    PROVE  OrderInv'
<1> DEFINE c == request[e].item
<1>1. Busy(e)
    BY DEF SaveOrder, At
<1>2. PICK order \in Place : row' = [row EXCEPT ![c] = [at |-> "live", order |-> order]]
    BY DEF SaveOrder
<1>3. [at |-> "live", order |-> order] \in Row
    BY OrderingAssumption DEF Row
<1>4. /\ given' = [given EXCEPT ![c] = "other"]
      /\ Goes(e, request[e]) /\ kind' = kind /\ batch' = [s \in Editor |-> Cross(s, {c})]
    BY DEF SaveOrder
<1> QED BY <1>1, <1>2, <1>3, <1>4, WriteStep

LEMMA RemoveStep ==
    ASSUME OrderInv, NEW e \in Editor, Remove(e)
    PROVE  OrderInv'
<1> DEFINE c == request[e].item
           v == [row[c] EXCEPT !.at = "deleted"]
<1>1. Busy(e) /\ c \in Content
    BY InvParts, BusyFacts, RequestFacts DEF Remove, At
<1>2. v \in Row /\ v.at # "live"
    BY <1>1, InvParts DEF Row
<1>3. row' = [row EXCEPT ![c] = v]
    BY DEF Remove
<1>4. /\ given' = [given EXCEPT ![c] = given[c]] /\ given[c] \in {"alone", "other"}
      /\ Goes(e, request[e]) /\ kind' = kind /\ batch' = [s \in Editor |-> Cross(s, {c})]
    BY <1>1, InvParts DEF Remove
<1> HIDE DEF v
<1> QED BY <1>1, <1>2, <1>3, <1>4, WriteStep

LEMMA StartStep ==
    ASSUME OrderInv, NEW e \in Editor, NEW c \in Content, Start(e, c)
    PROVE  OrderInv'
<1>1. PICK op \in DOMAIN Plans[kind] : \E plan \in Plans[kind][op] :
         request' = [request EXCEPT ![e] =
            [item |-> c, plan |-> plan, n |-> 1, order |-> 0, alone |-> FALSE]]
    BY DEF Start
<1>2. PICK plan \in Plans[kind][op] :
         request' = [request EXCEPT ![e] =
            [item |-> c, plan |-> plan, n |-> 1, order |-> 0, alone |-> FALSE]]
    BY <1>1
<1> DEFINE r == [item |-> c, plan |-> plan, n |-> 1, order |-> 0, alone |-> FALSE]
<1>3. kind \in Kinds
    BY InvParts
<1>4. r \in Request
    BY <1>3 DEF Request
<1>5. r.n \in DOMAIN r.plan
    <2>1. plan \in Seq(Steps) \ {<<>>}
        BY <1>3, PlansType
    <2> QED BY <2>1
<1>6. Typed(r) /\ ~r.alone
    BY <1>4, <1>5 DEF Typed
<1>7. request' = [request EXCEPT ![e] = r] /\ UNCHANGED <<kind, row, batch, given>>
    BY <1>2 DEF Start
<1> HIDE DEF r
<1>8. request \in [Editor -> {q \in Request \cup {Idle} : Typed(q)}]
    BY InvParts
<1>9. request' \in [Editor -> {q \in Request \cup {Idle} : Typed(q)}]
    BY <1>4, <1>6, <1>7, <1>8
<1>10. \A d \in Editor : request'[d].plan # <<>> /\ request'[d].alone =>
              Busy(d) /\ request[d].alone /\ request'[d].order = request[d].order
    BY <1>6, <1>7, <1>8 DEF Busy
<1> QED BY <1>7, <1>9, <1>10, RequestOnly
-----------------------------------------------------------------------------
(* The batch reorders.  A step that changes only what the reorder s knows. *)
LEMMA ReorderOnly ==
    ASSUME OrderInv, NEW s \in Editor, UNCHANGED <<kind, row, request, given>>,
           NEW b \in Batch \cup {Free}, batch' = [batch EXCEPT ![s] = b],
           b.list # <<>> => Sound(b, row)
    PROVE  OrderInv'
<1>1. batch' \in [Editor -> Batch \cup {Free}]
    BY InvParts
<1>2. TypeOK'
    BY <1>1, InvParts, TypesNext
<1>3. DistinctOrders' /\ OrdersAhead'
    BY InvParts, OrdersKept DEF Busy
<1>4. \A t \in Editor : batch'[t].list # <<>> => Sound(batch'[t], row')
    BY InvParts DEF Informed, Sorting
<1>5. Informed'
    BY <1>4, InformedNext
<1> QED BY <1>2, <1>3, <1>5 DEF OrderInv

(* What holds of a reorder that runs.                                      *)
LEMMA RunningFacts ==
    ASSUME OrderInv, NEW s \in Editor, Sorting(s)
    PROVE  /\ batch[s] \in Batch /\ Sound(batch[s], row)
           /\ batch[s].list \in Lists
           /\ \A i \in DOMAIN batch[s].list :
                batch[s].list[i].item \in Content /\ batch[s].list[i].order \in Place
           /\ \A i, j \in DOMAIN batch[s].list :
                batch[s].list[i].item = batch[s].list[j].item => i = j
           /\ DOMAIN batch[s].list \subseteq Places
BY InvParts, SortingFacts, ListFacts DEF Informed

LEMMA StartReorderStep ==
    ASSUME OrderInv, NEW s \in Editor, StartReorder(s)
    PROVE  OrderInv'
<1>1. PICK list \in Lists :
         batch' = [batch EXCEPT ![s] =
            [list |-> list, found |-> FALSE, todo |-> DOMAIN list,
             wrote |-> {}, crossed |-> {}, answer |-> "none"]]
    BY DEF StartReorder
<1> DEFINE b == [list |-> list, found |-> FALSE, todo |-> DOMAIN list,
                 wrote |-> {}, crossed |-> {}, answer |-> "none"]
<1>2. DOMAIN list \subseteq Places
    BY ListFacts
<1>3. b \in Batch
    BY <1>2 DEF Batch
<1>4. Sound(b, row)
    <2>1. kind # "category"
        BY DEF StartReorder
    <2> QED BY <2>1 DEF Sound
<1>5. UNCHANGED <<kind, row, request, given>> /\ batch' = [batch EXCEPT ![s] = b]
    BY <1>1 DEF StartReorder
<1> HIDE DEF b
<1> QED BY <1>3, <1>4, <1>5, ReorderOnly

(* The answer of s is settled.                                             *)
LEMMA AnswerStep ==
    ASSUME OrderInv, NEW s \in Editor, Running(s), NEW answer \in {"done", "partial", "refused", "failed"},
           Answers(s, answer), UNCHANGED <<kind, row, request, given>>,
           answer = "done" =>
              reads # "locking" /\ batch[s].wrote = Items(batch[s].list),
           answer = "refused" => kind = "meeting" \/ batch[s].wrote = {}
    PROVE  OrderInv'
<1> DEFINE w == IF answer = "failed" /\ reads = "locking" THEN {} ELSE batch[s].wrote
           b == [batch[s] EXCEPT !.answer = answer, !.wrote = w]
<1>1. batch[s] \in Batch /\ Sound(batch[s], row)
    BY RunningFacts DEF Running
<1>2. w \subseteq Content /\ w \subseteq batch[s].wrote
    BY <1>1 DEF Batch
<1>3. batch' = [batch EXCEPT ![s] = b]
    BY InvParts DEF Answers
<1> HIDE DEF w
<1>4. /\ b \in Batch /\ b.list = batch[s].list /\ b.found = batch[s].found
      /\ b.todo = batch[s].todo /\ b.crossed = batch[s].crossed
      /\ b.wrote = w /\ b.answer = answer
    BY <1>1, <1>2 DEF Batch
<1> HIDE DEF b
<1>5. \A i \in DOMAIN b.list : Placed(b, i, row) <=> Placed(batch[s], i, row)
    BY <1>4 DEF Placed
<1>6. answer = "done" => \A i \in DOMAIN b.list : Placed(b, i, row)
    BY <1>1, <1>4, <1>5 DEF Sound, Items
<1>7. Sound(b, row)
    BY <1>1, <1>2, <1>4, <1>5, <1>6 DEF Sound
<1> QED BY <1>3, <1>4, <1>7, ReorderOnly

LEMMA FindAllStep ==
    ASSUME OrderInv, NEW s \in Editor, FindAll(s)
    PROVE  OrderInv'
<1>1. Running(s) /\ Sorting(s) /\ reads # "inTurn" /\ ~batch[s].found
    BY DEF FindAll, Running
<1>2. UNCHANGED <<kind, row, request, given>>
    BY DEF FindAll
<1>3. batch[s] \in Batch /\ Sound(batch[s], row)
    BY <1>1, RunningFacts
<1>4. CASE Items(batch[s].list) \subseteq Live
    <2> DEFINE b == [batch[s] EXCEPT !.found = TRUE]
    <2>1. batch' = [batch EXCEPT ![s] = b]
        BY <1>4, InvParts DEF FindAll
    <2>2. /\ b \in Batch /\ b.list = batch[s].list /\ b.todo = batch[s].todo
          /\ b.crossed = batch[s].crossed /\ b.wrote = batch[s].wrote
          /\ b.answer = batch[s].answer /\ b.found
        BY <1>3 DEF Batch
    <2> HIDE DEF b
    <2>3. \A i \in DOMAIN b.list : Placed(b, i, row) <=> Placed(batch[s], i, row)
        BY <2>2 DEF Placed
    <2>4. \A i \in DOMAIN b.list : row[b.list[i].item].at = "live"
        BY <1>4, <2>2 DEF Items, Live
    <2>5. Sound(b, row)
        BY <1>3, <2>2, <2>3, <2>4 DEF Sound
    <2> QED BY <1>2, <2>1, <2>2, <2>5, ReorderOnly
<1>5. CASE ~(Items(batch[s].list) \subseteq Live)
    <2>1. Answers(s, "refused")
        BY <1>5 DEF FindAll
    <2>2. batch[s].wrote = {}
        BY <1>1, <1>3 DEF Sound
    <2> QED BY <1>1, <1>2, <2>1, <2>2, AnswerStep
<1> QED BY <1>4, <1>5

(* The rows of s change hands between todo and found; nothing is written.  *)
LEMMA InTurnStep ==
    ASSUME OrderInv, NEW s \in Editor, Running(s), reads # "locking",
           NEW todo \in SUBSET batch[s].todo, NEW found \in BOOLEAN,
           found \/ reads = "inTurn",
           batch' = [batch EXCEPT ![s].todo = todo, ![s].found = found],
           UNCHANGED <<kind, row, request, given>>
    PROVE  OrderInv'
<1> DEFINE b == [batch[s] EXCEPT !.todo = todo, !.found = found]
<1>1. batch[s] \in Batch /\ Sound(batch[s], row)
    BY RunningFacts DEF Running
<1>2. batch' = [batch EXCEPT ![s] = b]
    BY InvParts
<1>3. /\ b \in Batch /\ b.list = batch[s].list /\ b.todo = todo
      /\ b.crossed = batch[s].crossed /\ b.wrote = batch[s].wrote
      /\ b.answer = batch[s].answer /\ b.found = found
    BY <1>1 DEF Batch
<1> HIDE DEF b
<1>4. \A i \in DOMAIN b.list : Placed(b, i, row) <=> Placed(batch[s], i, row)
    BY <1>3 DEF Placed
<1>5. Sound(b, row)
    BY <1>1, <1>3, <1>4 DEF Sound
<1> QED BY <1>2, <1>3, <1>5, ReorderOnly

LEMMA FindNextStep ==
    ASSUME OrderInv, NEW s \in Editor, FindNext(s)
    PROVE  OrderInv'
<1>1. Running(s) /\ Sorting(s) /\ reads = "inTurn" /\ batch[s].found = FALSE
      /\ UNCHANGED <<kind, row, request, given>>
    BY RunningFacts DEF FindNext, Running, Batch
<1>2. PICK i \in batch[s].todo :
         IF batch[s].list[i].item \in Live
         THEN batch' = [batch EXCEPT ![s].found = TRUE]
         ELSE IF Reorder[kind].missing = "skipped"
              THEN batch' = [batch EXCEPT ![s].todo = @ \ {i}]
              ELSE Answers(s, "refused")
    BY DEF FindNext
<1>3. batch[s] \in Batch
    BY <1>1, RunningFacts
<1>4. CASE batch[s].list[i].item \in Live
    <2>1. batch' = [batch EXCEPT ![s].todo = batch[s].todo, ![s].found = TRUE]
        BY <1>2, <1>3, <1>4, InvParts DEF Batch
    <2> QED BY <1>1, <2>1, InTurnStep
<1>5. CASE batch[s].list[i].item \notin Live /\ Reorder[kind].missing = "skipped"
    <2>1. batch' = [batch EXCEPT ![s].todo = batch[s].todo \ {i}, ![s].found = FALSE]
        BY <1>1, <1>2, <1>3, <1>5, InvParts DEF Batch
    <2> QED BY <1>1, <2>1, InTurnStep
<1>6. CASE batch[s].list[i].item \notin Live /\ Reorder[kind].missing # "skipped"
    <2>1. Answers(s, "refused")
        BY <1>2, <1>6
    <2>2. kind = "meeting"
        BY <1>1, <1>6, InvParts, ReorderFacts
    <2> QED BY <1>1, <2>1, <2>2, AnswerStep
<1> QED BY <1>4, <1>5, <1>6

LEMMA LoseOneStep ==
    ASSUME OrderInv, NEW s \in Editor, LoseOne(s)
    PROVE  OrderInv'
<1>1. Running(s) /\ Sorting(s) /\ reads # "locking" /\ UNCHANGED <<kind, row, request, given>>
    BY DEF LoseOne, Running
<1>2. PICK i \in batch[s].todo :
         IF Reorder[kind].missing = "ends"
         THEN Answers(s, "failed")
         ELSE batch' = [batch EXCEPT ![s].todo = @ \ {i}, ![s].found = (reads = "atOnce")]
    BY DEF LoseOne
<1>3. CASE Reorder[kind].missing = "ends"
    BY <1>1, <1>2, <1>3, AnswerStep
<1>4. CASE Reorder[kind].missing # "ends"
    <2>1. batch' = [batch EXCEPT ![s].todo = batch[s].todo \ {i}, ![s].found = (reads = "atOnce")]
        BY <1>2, <1>4, InvParts
    <2>2. reads = "atOnce" \/ reads = "inTurn"
        <3>1. kind # "category"
            BY <1>1, RunningFacts DEF Sound
        <3> QED BY <1>1, <3>1, InvParts, ReadsFacts
    <2> QED BY <1>1, <2>1, <2>2, InTurnStep
<1> QED BY <1>3, <1>4

LEMMA FinishStep ==
    ASSUME OrderInv, NEW s \in Editor, Finish(s)
    PROVE  OrderInv'
<1> DEFINE answer == IF batch[s].wrote = Items(batch[s].list) THEN "done"
                     ELSE IF Reorder[kind].missing = "skipped" THEN "partial" ELSE "failed"
<1>1. Running(s) /\ reads # "locking" /\ UNCHANGED <<kind, row, request, given>>
      /\ Answers(s, answer)
    BY DEF Finish
<1>2. answer \in {"done", "partial", "failed"}
      /\ (answer = "done" => batch[s].wrote = Items(batch[s].list))
    OBVIOUS
<1> HIDE DEF answer
<1> QED BY <1>1, <1>2, AnswerStep

LEMMA AbortStep ==
    ASSUME OrderInv, NEW s \in Editor, Abort(s) \/ BreakDeadlock(s)
    PROVE  OrderInv'
<1>1. Running(s) /\ Answers(s, "failed") /\ UNCHANGED <<kind, row, request, given>>
    BY DEF Abort, BreakDeadlock
<1> QED BY <1>1, AnswerStep

LEMMA ReplyStep ==
    ASSUME OrderInv, NEW s \in Editor, Reply(s)
    PROVE  OrderInv'
<1>1. batch' = [batch EXCEPT ![s] = Free] /\ UNCHANGED <<kind, row, request, given>>
    BY DEF Reply
<1>2. Free \in Batch \cup {Free} /\ Free.list = <<>>
    BY DEF Free
<1> QED BY <1>1, <1>2, ReorderOnly

LEMMA UpdateNextStep ==
    ASSUME OrderInv, NEW s \in Editor, UpdateNext(s)
    PROVE  OrderInv'
<1>1. Running(s) /\ Sorting(s) /\ reads = "locking" /\ batch[s].found
      /\ UNCHANGED <<kind, row, request, given>>
    BY DEF UpdateNext, Running
<1>2. PICK i \in batch[s].todo :
         /\ Turn(s, i)
         /\ batch' = [batch EXCEPT ![s].todo = @ \ {i},
                                   ![s].wrote = @ \cup {batch[s].list[i].item}]
    BY DEF UpdateNext
<1>3. /\ batch[s] \in Batch /\ Sound(batch[s], row) /\ batch[s].answer = "none"
      /\ i \in DOMAIN batch[s].list /\ batch[s].list[i].item \in Content
      /\ batch[s].todo \subseteq DOMAIN batch[s].list
      /\ DOMAIN batch[s].list \subseteq Places
    BY <1>1, RunningFacts DEF Running, Sound
<1> DEFINE b == [batch[s] EXCEPT !.todo = @ \ {i}, !.wrote = @ \cup {batch[s].list[i].item}]
<1>4. batch' = [batch EXCEPT ![s] = b]
    BY <1>2, InvParts
<1>5. /\ b \in Batch /\ b.list = batch[s].list /\ b.todo = batch[s].todo \ {i}
      /\ b.crossed = batch[s].crossed /\ b.wrote = batch[s].wrote \cup {batch[s].list[i].item}
      /\ b.answer = "none" /\ b.found = batch[s].found
    BY <1>3 DEF Batch
<1> HIDE DEF b
<1>6. \A j \in b.todo : i < j
    <2>1. \A j \in batch[s].todo : i <= j
        BY <1>1, <1>2 DEF Turn
    <2>2. \A j \in batch[s].todo : j \in Nat
        BY <1>3 DEF Places
    <2> QED BY <1>5, <2>1, <2>2
<1>7. \A c \in b.wrote : \E j \in DOMAIN b.list : b.list[j].item = c /\ \A h \in b.todo : j < h
    <2> SUFFICES ASSUME NEW c \in b.wrote
                 PROVE  \E j \in DOMAIN b.list : b.list[j].item = c /\ \A h \in b.todo : j < h
        OBVIOUS
    <2>1. CASE c = batch[s].list[i].item
        BY <1>3, <1>5, <1>6, <2>1
    <2>2. CASE c \in batch[s].wrote
        BY <1>1, <1>3, <1>5, <2>2 DEF Sound
    <2> QED BY <1>5, <2>1, <2>2
<1>8. Sound(b, row)
    BY <1>1, <1>3, <1>5, <1>7 DEF Sound
<1> QED BY <1>1, <1>4, <1>5, <1>8, ReorderOnly

LEMMA StopStep ==
    ASSUME OrderInv, Stop
    PROVE  OrderInv'
<1>1. /\ request' = [e \in Editor |-> Idle] /\ batch' = [s \in Editor |-> Free]
      /\ UNCHANGED <<kind, row, given>>
    BY DEF Stop
<1>2. Typed(Idle) /\ Idle.plan = <<>> /\ Free.list = <<>>
    BY DEF Typed, Idle, Free
<1>3. TypeOK'
    BY <1>1, <1>2, InvParts, TypesNext
<1>4. DistinctOrders' /\ OrdersAhead'
    BY <1>1, <1>2, InvParts, OrdersKept
<1>5. Informed'
    BY <1>1, <1>2, InformedNext
<1> QED BY <1>3, <1>4, <1>5 DEF OrderInv

(* The reorder s writes the rows cs, and all the others are crossed.       *)
LEMMA WritingStep ==
    ASSUME OrderInv, NEW s \in Editor, NEW cs \in SUBSET Content,
           kind' = kind, request' = request, row' \in [Content -> Row],
           \A c \in Content \ cs : row'[c] = row[c],
           given' = [c \in Content |-> IF c \in cs THEN "other" ELSE given[c]],
           NEW b \in Batch, Sound(b, row'),
           batch' = [t \in Editor |-> IF t = s THEN b ELSE Cross(t, cs)]
    PROVE  OrderInv'
<1>1. \A t \in Editor : batch'[t].list # <<>> => Sound(batch'[t], row')
    BY InvParts, CrossSound
<1>2. Informed'
    BY <1>1, InformedNext
<1>3. batch' \in [Editor -> Batch \cup {Free}]
    BY InvParts, CrossType
<1>4. given' \in [Content -> {"alone", "other"}]
    BY InvParts
<1>5. TypeOK'
    BY <1>3, <1>4, InvParts, TypesNext
<1>6. DistinctOrders' /\ OrdersAhead'
    BY InvParts, OrdersKept DEF Busy
<1> QED BY <1>2, <1>5, <1>6 DEF OrderInv

LEMMA SaveOneStep ==
    ASSUME OrderInv, NEW s \in Editor, SaveOne(s)
    PROVE  OrderInv'
<1>1. Running(s) /\ Sorting(s) /\ reads # "locking" /\ batch[s].found
      /\ kind' = kind /\ request' = request
    BY DEF SaveOne, Running
<1>2. PICK i \in batch[s].todo :
         LET c == batch[s].list[i].item
         IN  /\ Turn(s, i)
             /\ row' = [row EXCEPT ![c] = [at |-> "live", order |-> batch[s].list[i].order]]
             /\ given' = [given EXCEPT ![c] = "other"]
             /\ batch' = [t \in Editor |->
                  IF t # s THEN Cross(t, {c})
                  ELSE [batch[s] EXCEPT !.todo = @ \ {i}, !.wrote = @ \cup {c},
                                        !.found = (reads = "atOnce")]]
    BY DEF SaveOne
<1> DEFINE c == batch[s].list[i].item
           v == [at |-> "live", order |-> batch[s].list[i].order]
           b == [batch[s] EXCEPT !.todo = @ \ {i}, !.wrote = @ \cup {c},
                                 !.found = (reads = "atOnce")]
<1>3. /\ batch[s] \in Batch /\ Sound(batch[s], row) /\ batch[s].answer = "none"
      /\ i \in DOMAIN batch[s].list /\ c \in Content /\ batch[s].list[i].order \in Place
      /\ \A j \in DOMAIN batch[s].list : batch[s].list[j].item \in Content
      /\ \A j \in DOMAIN batch[s].list : batch[s].list[j].item = c => j = i
    BY <1>1, RunningFacts DEF Running, Sound
<1>4. v \in Row
    BY <1>3, OrderingAssumption DEF Row
<1>5. row' = [row EXCEPT ![c] = v] /\ given' = [given EXCEPT ![c] = "other"]
    BY <1>2
<1>6. batch' = [t \in Editor |-> IF t = s THEN b ELSE Cross(t, {c})]
    BY <1>2
<1>7. /\ b \in Batch /\ b.list = batch[s].list /\ b.todo = batch[s].todo \ {i}
      /\ b.crossed = batch[s].crossed /\ b.wrote = batch[s].wrote \cup {c}
      /\ b.answer = "none" /\ b.found = (reads = "atOnce")
    BY <1>3 DEF Batch
<1>8. v.at = "live" /\ v = [at |-> "live", order |-> b.list[i].order]
    BY <1>7
<1>9. row' \in [Content -> Row] /\ row'[c] = v
      /\ \A d \in Content \ {c} : row'[d] = row[d]
    BY <1>3, <1>4, <1>5, InvParts
<1>10. given' = [d \in Content |-> IF d \in {c} THEN "other" ELSE given[d]]
    BY <1>3, <1>5, InvParts
<1>11. batch[s].list[i].item = c
    OBVIOUS
<1> HIDE DEF b, c, v
<1>12. ASSUME NEW j \in DOMAIN b.list, b.list[j].item \in b.wrote
       PROVE  Placed(b, j, row')
    <2>1. CASE j = i
        BY <1>7, <1>8, <1>9, <1>11, <2>1 DEF Placed
    <2>2. CASE j # i
        <3>1. b.list[j].item # c /\ b.list[j].item \in Content /\ b.list[j].item \in batch[s].wrote
            BY <1>3, <1>7, <1>12, <2>2
        <3>2. Placed(batch[s], j, row)
            BY <1>1, <1>3, <1>7, <3>1 DEF Sound
        <3> QED BY <1>7, <1>9, <3>1, <3>2 DEF Placed
    <2> QED BY <2>1, <2>2
<1>13. kind # "category" /\ (reads = "inTurn" \/ reads = "atOnce")
    <2>1. kind # "category"
        BY <1>3 DEF Sound
    <2> QED BY <1>1, <2>1, InvParts, ReadsFacts
<1>14. Sound(b, row')
    BY <1>1, <1>3, <1>7, <1>12, <1>13 DEF Sound
<1>15. {c} \in SUBSET Content
    BY <1>3
<1> QED BY <1>1, <1>6, <1>7, <1>9, <1>10, <1>14, <1>15, WritingStep

LEMMA CommitStep ==
    ASSUME OrderInv, NEW s \in Editor, Commit(s)
    PROVE  OrderInv'
<1> DEFINE list == batch[s].list
           cs == Items(list)
           b == [batch[s] EXCEPT !.answer = "done"]
           At2(c) == CHOOSE i \in DOMAIN list : list[i].item = c
<1>1. Running(s) /\ Sorting(s) /\ reads = "locking" /\ batch[s].found
      /\ kind' = kind /\ request' = request
    BY DEF Commit, Running
<1>2. /\ row' = [c \in Content |->
                  IF c \in cs THEN [row[c] EXCEPT !.order = list[At2(c)].order] ELSE row[c]]
      /\ given' = [c \in Content |-> IF c \in cs THEN "other" ELSE given[c]]
    BY DEF Commit
<1>3. batch' = [t \in Editor |-> IF t = s THEN b ELSE Cross(t, cs)]
    BY DEF Commit
<1>4. /\ batch[s] \in Batch /\ Sound(batch[s], row) /\ batch[s].answer = "none"
      /\ \A i \in DOMAIN list : list[i].item \in Content /\ list[i].order \in Nat
      /\ \A i, j \in DOMAIN list : list[i].item = list[j].item => i = j
    BY <1>1, RunningFacts, OrderingAssumption DEF Running
<1>5. cs \in SUBSET Content
    BY <1>4 DEF Items
<1>6. \A i \in DOMAIN list : list[i].item \in cs /\ At2(list[i].item) = i
    BY <1>4 DEF Items
<1>7. \A c \in cs : At2(c) \in DOMAIN list
    BY DEF Items
<1>8. /\ b \in Batch /\ b.list = list /\ b.todo = batch[s].todo
      /\ b.crossed = batch[s].crossed /\ b.wrote = batch[s].wrote
      /\ b.answer = "done" /\ b.found = batch[s].found
    BY <1>4 DEF Batch
<1> HIDE DEF b
<1>9. row' \in [Content -> Row]
    <2>1. \A c \in cs : list[At2(c)].order \in Nat
        BY <1>4, <1>7
    <2> HIDE DEF cs, list, At2
    <2>2. \A c \in Content : c \in cs => [row[c] EXCEPT !.order = list[At2(c)].order] \in Row
        BY <2>1, InvParts DEF Row
    <2> QED BY <1>2, <2>2, InvParts
<1>10. \A c \in Content \ cs : row'[c] = row[c]
    BY <1>2
<1>11. ASSUME NEW i \in DOMAIN list
       PROVE  Placed(b, i, row')
    <2> DEFINE c == list[i].item
    <2>1. c \in Content /\ c \in cs /\ At2(c) = i /\ list[i].order \in Nat
        BY <1>4, <1>6
    <2>2. row'[c] = [row[c] EXCEPT !.order = list[i].order]
        BY <1>2, <2>1
    <2>3. c \in batch[s].crossed \/ row[c].at = "live"
        BY <1>1, <1>4 DEF Sound
    <2>4. row[c] \in Row
        BY <2>1, InvParts
    <2>5. row[c].at = "live" => row'[c] = [at |-> "live", order |-> list[i].order]
        BY <2>2, <2>4 DEF Row
    <2> QED BY <1>8, <2>3, <2>5 DEF Placed
<1>12. Sound(b, row')
    BY <1>1, <1>4, <1>8, <1>11 DEF Sound
<1> HIDE DEF cs
<1> QED BY <1>1, <1>2, <1>3, <1>5, <1>8, <1>9, <1>10, <1>12, WritingStep
-----------------------------------------------------------------------------
LEMMA OrderingInit == Init => OrderInv
<1> SUFFICES ASSUME Init PROVE OrderInv
    OBVIOUS
<1>1. Idle.plan = <<>> /\ Free.list = <<>>
    BY DEF Idle, Free
<1>2. \A e \in Editor : ~Busy(e) /\ ~Sorting(e)
    BY <1>1 DEF Init, Busy, Sorting
<1>3. TypeOK
    BY <1>2 DEF Init, TypeOK, Row
<1>4. DistinctOrders /\ OrdersAhead /\ Informed
    BY <1>2 DEF DistinctOrders, OrdersAhead, Informed, Live, Init
<1> QED BY <1>3, <1>4 DEF OrderInv

LEMMA OrderingStep == OrderInv /\ [Next]_vars => OrderInv'
<1> SUFFICES ASSUME OrderInv, [Next]_vars PROVE OrderInv'
    OBVIOUS
<1>1. CASE UNCHANGED vars
    <2>1. UNCHANGED <<kind, row, request, batch, given>>
        BY <1>1 DEF vars
    <2>2. request' \in [Editor -> {q \in Request \cup {Idle} : Typed(q)}]
        BY <2>1, InvParts
    <2> QED BY <2>1, <2>2, RequestOnly DEF Busy
<1>2. CASE Stop
    BY <1>2, StopStep
<1>3. ASSUME NEW e \in Editor, NEW c \in Content, Start(e, c)
      PROVE  OrderInv'
    BY <1>3, StartStep
<1>4. ASSUME NEW e \in Editor, RequestStep(e) \/ Fail(e)
      PROVE  OrderInv'
    BY <1>4, NextOrderStep, InsertStep, InsertSampleStep, EndStep, FindStep, SaveBackStep,
       SaveOrderStep, RemoveStep DEF RequestStep
<1>5. ASSUME NEW e \in Editor,
             StartReorder(e) \/ ReorderStep(e) \/ LoseOne(e) \/ Abort(e)
      PROVE  OrderInv'
    BY <1>5, StartReorderStep, FindAllStep, FindNextStep, SaveOneStep, FinishStep,
       UpdateNextStep, CommitStep, AbortStep, ReplyStep, LoseOneStep DEF ReorderStep
<1> QED BY <1>1, <1>2, <1>3, <1>4, <1>5 DEF Next

THEOREM OrderingInductive == Spec => []OrderInv
<1> QED BY OrderingInit, OrderingStep, PTL DEF Spec

(* The table, the requests and the reorders keep their types.              *)
THEOREM OrderingTypes == Spec => []TypeOK
<1>1. OrderInv => TypeOK
    BY DEF OrderInv
<1> QED BY <1>1, OrderingInductive, PTL

(* Creations that do not cross give distinct orders, for any number of     *)
(* contents and requests.                                                  *)
THEOREM OrdersAreDistinct == Spec => []DistinctOrders
<1>1. OrderInv => DistinctOrders
    BY DEF OrderInv
<1> QED BY <1>1, OrderingInductive, PTL

(* What a reorder answers is what it has done, in each of the manners.     *)
THEOREM AnswersAreTruthful == Spec => []AnswersTruthful
<1>1. ASSUME OrderInv PROVE AnswersTruthful
    BY <1>1 DEF OrderInv, Informed, Sound, Placed, AnswersTruthful
<1>2. OrderInv => AnswersTruthful
    BY <1>1
<1> QED BY <1>2, OrderingInductive, PTL

(* A reorder that waits in a group has a member of the group before it at  *)
(* a higher rank: the ranks the members wait at have no maximum.           *)
LEMMA NoDeadlock ==
    ASSUME OrderInv, NEW rank \in [Content -> Places],
           \A s \in Editor : Sorting(s) => Increasing(batch[s].list, rank),
           NEW s \in Editor
    PROVE  ~Deadlocked(s)
<1> SUFFICES ASSUME Deadlocked(s) PROVE FALSE
    OBVIOUS
<1>1. reads = "locking"
    BY DEF Deadlocked
<1>2. PICK group \in SUBSET Editor :
         s \in group /\ \A d \in group : \E h \in group \ {d} : Running(h) /\ Waits(d, h)
    BY DEF Deadlocked
<1> DEFINE Awaits(d, n) ==
             /\ Running(d)
             /\ \E i \in batch[d].todo : Turn(d, i) /\ n = rank[batch[d].list[i].item]
<1>3. Cardinality(Content) \in Nat
    BY OrderingAssumption, FS_CardinalityType
<1> DEFINE C == Cardinality(Content)
<1>4. \A c \in Content : rank[c] \in Nat /\ rank[c] <= C
    BY <1>3 DEF Places
<1>5. ASSUME NEW d \in group, Running(d)
      PROVE  /\ batch[d].todo \subseteq DOMAIN batch[d].list
             /\ \A i \in DOMAIN batch[d].list : batch[d].list[i].item \in Content
             /\ \A i, j \in DOMAIN batch[d].list :
                   i < j => rank[batch[d].list[i].item] < rank[batch[d].list[j].item]
             /\ \A c \in batch[d].wrote : \E j \in DOMAIN batch[d].list :
                   batch[d].list[j].item = c /\ \A i \in batch[d].todo : j < i
    BY <1>1, <1>2, <1>5, RunningFacts DEF Running, Sound, Increasing
<1>6. ASSUME NEW d \in group
      PROVE  Running(d) /\ \E n \in Nat : n <= C /\ Awaits(d, n)
    <2>1. PICK h \in group : Running(h) /\ Waits(d, h)
        BY <1>2
    <2>2. Running(d) /\ \E i \in batch[d].todo : Turn(d, i)
        BY <2>1 DEF Waits
    <2>3. PICK i \in batch[d].todo : Turn(d, i)
        BY <2>2
    <2>4. batch[d].list[i].item \in Content
        BY <1>5, <2>2
    <2> QED BY <1>4, <2>2, <2>3, <2>4
<1>7. ASSUME NEW d \in group, NEW n \in Nat, Awaits(d, n)
      PROVE  \E h \in group : \E m \in Nat : m <= C /\ Awaits(h, m) /\ n < m
    <2>1. PICK h \in group : Running(h) /\ Waits(d, h)
        BY <1>2
    <2>2. PICK i \in batch[d].todo : Turn(d, i) /\ batch[d].list[i].item \in batch[h].wrote
        BY <2>1 DEF Waits
    <2>3. PICK k \in batch[d].todo : Turn(d, k) /\ n = rank[batch[d].list[k].item]
        BY <1>7
    <2>4. i = k
        <3>1. i <= k /\ k <= i
            BY <1>1, <2>2, <2>3 DEF Turn
        <3>2. i \in Nat /\ k \in Nat
            <4>1. Sorting(d)
                BY <1>7 DEF Running
            <4>2. batch[d].todo \subseteq Places
                BY <4>1, RunningFacts DEF Sound
            <4> QED BY <4>2 DEF Places
        <3> QED BY <3>1, <3>2
    <2>5. PICK j \in DOMAIN batch[h].list :
             batch[h].list[j].item = batch[d].list[i].item /\ \A l \in batch[h].todo : j < l
        BY <1>5, <2>1, <2>2
    <2>6. PICK m \in Nat : m <= C /\ Awaits(h, m)
        BY <1>6
    <2>7. PICK l \in batch[h].todo : m = rank[batch[h].list[l].item]
        BY <2>6
    <2>8. j < l /\ l \in DOMAIN batch[h].list
        BY <1>5, <2>1, <2>5, <2>7
    <2>9. rank[batch[h].list[j].item] < rank[batch[h].list[l].item]
        BY <1>5, <2>1, <2>8
    <2>10. n < m
        BY <2>3, <2>4, <2>5, <2>7, <2>9
    <2> HIDE DEF Awaits
    <2> QED BY <2>6, <2>10
<1> HIDE DEF Awaits
<1> DEFINE T == {x \in Nat : \E d \in group : \E n \in Nat : n <= C /\ Awaits(d, n) /\ x = C - n}
<1>8. ASSUME NEW d \in group, NEW n \in Nat, n <= C, Awaits(d, n)
      PROVE  C - n \in T
    BY <1>3, <1>8
<1>9. T # {}
    <2>1. PICK n \in Nat : n <= C /\ Awaits(s, n)
        BY <1>2, <1>6
    <2> QED BY <1>2, <1>8, <2>1
<1>10. PICK x \in T : \A y \in T : ~(<<y, x>> \in OpToRel(<, Nat))
    <2>1. T \subseteq Nat
        OBVIOUS
    <2> HIDE DEF T
    <2> QED BY <1>9, <2>1, NatLessThanWellFounded, WFMin
<1>11. PICK d \in group : \E n \in Nat : n <= C /\ Awaits(d, n) /\ x = C - n
    OBVIOUS
<1>12. PICK n \in Nat : n <= C /\ Awaits(d, n) /\ x = C - n
    BY <1>11
<1>13. PICK h \in group : \E m \in Nat : m <= C /\ Awaits(h, m) /\ n < m
    BY <1>7, <1>12
<1>14. PICK m \in Nat : m <= C /\ Awaits(h, m) /\ n < m
    BY <1>13
<1>15. C - m \in T
    BY <1>8, <1>14
<1>16. C - m \in Nat /\ x \in Nat /\ C - m < x
    BY <1>3, <1>12, <1>14
<1> HIDE DEF T
<1>17. <<C - m, x>> \in OpToRel(<, Nat)
    BY <1>16 DEF OpToRel
<1> QED BY <1>10, <1>15, <1>17

(* Reorders whose lists agree on an order of the announcements never wait  *)
(* for each other in a circle, for any number of them.                     *)
THEOREM NoDeadlockInSameOrder == Spec => []SameOrderNoDeadlock
<1>1. ASSUME OrderInv PROVE SameOrderNoDeadlock
    BY <1>1, NoDeadlock DEF SameOrderNoDeadlock
<1>2. OrderInv => SameOrderNoDeadlock
    BY <1>1
<1> QED BY <1>2, OrderingInductive, PTL
=============================================================================
