--------------------------- MODULE WikiTreeProofs ---------------------------
(***************************************************************************)
(* Proofs about WikiTree, for any set of items and concurrent requests:    *)
(* it implements WikiForest, and what follows from there.                  *)
(***************************************************************************)
EXTENDS WikiTree, TLAPS

P == INSTANCE WikiForestProofs WITH
       parent <- [n \in Item |-> node[n].parent],
       live <- Live

(* What a request holds: a row that was live, places that exist, and, as   *)
(* long as the tree is the one it saw, the row of the table and a check    *)
(* that still holds.                                                       *)
Held(q) ==
    /\ node[q.item] # Absent
    /\ q.to \in Item \cup {Root}
    /\ q.copy.status = "live"
    /\ q.copy.parent \in Item \cup {Root}
    /\ q.fresh =>
         /\ node[q.item] = q.copy
         /\ q.op = "move" /\ q.checked => q.to \notin Structure(q.item)
         /\ q.op = "rmdir" /\ q.checked => Children(q.item) = {}

HeldOK == \A e \in Editor : request[e] # Idle => Held(request[e])

Inv == TypeOK /\ HeldOK

(* A row of the table is a row. *)
LEMMA RowStatus == (\A r \in Row : r # Absent) /\ Absent.status # "live" /\ Idle.op = "idle"
<1>1. Absent.status = "absent" /\ Idle.op = "idle"
    BY DEF Absent, Idle
<1> QED BY <1>1 DEF Row

(* A live item is an item of the table, with a row. *)
LEMMA LiveRow ==
    ASSUME TypeOK
    PROVE  /\ Live \subseteq Item
           /\ \A n \in Item : node[n] \in Row
BY RowStatus DEF TypeOK, Live, Item

(* What the table of ancestors lists are items of the tree.               *)
LEMMA StructureItems == \A n \in Node : Structure(n) \subseteq Item
BY DEF Structure, Below

(* The tree is the same when the table is. *)
LEMMA SameTree ==
    ASSUME node' = node
    PROVE  /\ Item' = Item /\ Live' = Live
           /\ \A n \in Node : Structure(n)' = Structure(n) /\ Children(n)' = Children(n)
BY DEF Structure, Below, Children, Live, Item

(* A request that is not idle is a request. *)
LEMMA RequestType ==
    ASSUME TypeOK, NEW e \in Editor, request[e] # Idle
    PROVE  request[e] \in Request
BY DEF TypeOK

(* The empty tree with no request in flight satisfies the invariant.      *)
THEOREM Init_Inv == Init => Inv
<1> SUFFICES ASSUME Init PROVE Inv
    OBVIOUS
<1>1. TypeOK
    BY DEF Init, TypeOK, Item
<1>2. HeldOK
    BY DEF Init, HeldOK
<1> QED BY <1>1, <1>2 DEF Inv

(* A request that the others' writes outdate still holds what it must.     *)
LEMMA OutdatedHeld ==
    ASSUME TypeOK, NEW e \in Editor, request[e] # Idle, Held(request[e]),
           \A n \in Item : node'[n] # Absent,
           node' \in [Node -> Row \cup {Absent}]
    PROVE  /\ Outdated(e) \in Request
           /\ Outdated(e).item = request[e].item
           /\ Outdated(e).to = request[e].to
           /\ Outdated(e).copy = request[e].copy
           /\ Outdated(e).op = request[e].op
           /\ Outdated(e).checked = request[e].checked
           /\ Outdated(e).fresh => node' = node /\ request[e].fresh
BY RequestType DEF Outdated, Request

(* A step that writes the table, finishes some requests and outdates the   *)
(* others keeps what they hold.                                            *)
LEMMA WriteKeepsHeld ==
    ASSUME Inv, NEW D \in SUBSET Editor,
           \A n \in Item : node'[n] # Absent,
           node' \in [Node -> Row \cup {Absent}],
           request' = [f \in Editor |-> IF f \in D THEN Idle ELSE Outdated(f)]
    PROVE  request' \in [Editor -> {Idle} \cup Request] /\ HeldOK'
<1>1. ASSUME NEW f \in Editor PROVE request'[f] \in {Idle} \cup Request
    BY OutdatedHeld DEF Inv, HeldOK, Outdated
<1>2. ASSUME NEW f \in Editor, request'[f] # Idle PROVE Held(request[f])'
    <2>1. request'[f] = Outdated(f) /\ request[f] # Idle
        BY <1>2 DEF Outdated
    <2>2. Held(request[f]) /\ request[f] \in Request
        BY <2>1, RequestType DEF Inv, HeldOK
    <2> DEFINE q == Outdated(f)
               r == request[f]
    <2>3. /\ q.item = r.item /\ q.to = r.to /\ q.copy = r.copy
          /\ q.op = r.op /\ q.checked = r.checked
          /\ q.fresh => node' = node /\ r.fresh
        BY <2>1, <2>2, OutdatedHeld DEF Inv
    <2>4. Item \subseteq Item'
        BY DEF Item
    <2>5. /\ node'[q.item] # Absent
          /\ q.to \in Item' \cup {Root}
          /\ q.copy.status = "live"
          /\ q.copy.parent \in Item' \cup {Root}
        BY <2>2, <2>3, <2>4 DEF Held, Item, Request
    <2>6. PICK i \in Node : i = r.item
        BY <2>2 DEF Request
    <2>7. ASSUME q.fresh
          PROVE  /\ node'[i] = q.copy
                 /\ q.op = "move" /\ q.checked => q.to \notin Structure(i)'
                 /\ q.op = "rmdir" /\ q.checked => Children(i)' = {}
        <3>1. node' = node /\ r.fresh
            BY <2>3, <2>7
        <3>2. Structure(i)' = Structure(i) /\ Children(i)' = Children(i)
            BY <3>1, SameTree
        <3> QED BY <2>2, <2>3, <2>6, <3>1, <3>2 DEF Held
    <2>8. request'[f].item = i
        BY <2>1, <2>3, <2>6
    <2> QED BY <2>1, <2>5, <2>3, <2>6, <2>7, <2>8 DEF Held
<1>3. request' \in [Editor -> {Idle} \cup Request]
    BY <1>1
<1> QED BY <1>2, <1>3 DEF HeldOK

(* A request that gets a new value that it may hold, while the table stays *)
(* as it is, leaves the invariant as it is.                                *)
LEMMA TurnKeepsInv ==
    ASSUME Inv, NEW e \in Editor, NEW q,
           request' = [request EXCEPT ![e] = q], UNCHANGED <<node, crossed>>,
           q = Idle \/ (q \in Request /\ Held(q))
    PROVE  Inv'
<1>1. request' \in [Editor -> {Idle} \cup Request]
    BY DEF Inv, TypeOK
<1>2. TypeOK'
    BY <1>1, SameTree DEF Inv, TypeOK
<1>3. ASSUME NEW f \in Editor, request'[f] # Idle PROVE Held(request[f])'
    <2>1. request'[f] \in Request /\ Held(request'[f])
        BY <1>3, RequestType DEF Inv, HeldOK, TypeOK
    <2>2. PICK r : r = request'[f]
        OBVIOUS
    <2>3. PICK i \in Node : i = r.item
        BY <2>1, <2>2 DEF Request
    <2>4. Structure(i)' = Structure(i) /\ Children(i)' = Children(i) /\ Item' = Item
        BY SameTree
    <2> QED BY <2>1, <2>2, <2>3, <2>4 DEF Held
<1> QED BY <1>2, <1>3 DEF Inv, HeldOK

(* The new item's parent exists, and nobody holds the new item.            *)
LEMMA CreateStep ==
    ASSUME Inv, NEW n \in Node, Create(n) PROVE Inv'
<1>1. PICK k \in {"folder", "file"}, p \in Item \cup {Root} :
         node' = [node EXCEPT ![n] = [status |-> "live", kind |-> k, parent |-> p]]
    BY DEF Create
<1>2. [status |-> "live", kind |-> k, parent |-> p] \in Row
    BY DEF Row, Item
<1>3. node' \in [Node -> Row \cup {Absent}] /\ \A j \in Item : node'[j] # Absent
    BY <1>1, <1>2, RowStatus DEF Inv, TypeOK, Item
<1>4. Item \subseteq Item'
    BY <1>3 DEF Item
<1>5. \A j \in Item' : node'[j].parent \in Item' \cup {Root}
    BY <1>1, <1>4 DEF Inv, TypeOK, Item
<1>6. request' \in [Editor -> {Idle} \cup Request] /\ HeldOK'
    <2> DEFINE D == {f \in Editor : FALSE}
    <2>1. D \in SUBSET Editor /\ request' = [f \in Editor |-> IF f \in D THEN Idle ELSE Outdated(f)]
        BY DEF Create
    <2> HIDE DEF D
    <2> QED BY <2>1, <1>3, WriteKeepsHeld
<1> QED BY <1>3, <1>5, <1>6 DEF Inv, TypeOK, Create

(* A loaded copy is the row of a live item.                                *)
LEMMA LoadStep ==
    ASSUME Inv, NEW e \in Editor, NEW op \in Op, NEW n \in Node,
           NEW p \in Node \cup {Root}, Load(e, op, n, p)
    PROVE  Inv'
<1> DEFINE q == [op |-> op, item |-> n, copy |-> node[n], to |-> p,
                 checked |-> op \in {"edit", "delete"} \/ (op = "move" /\ p = Root),
                 fresh |-> TRUE]
<1>1. request' = [request EXCEPT ![e] = q] /\ UNCHANGED <<node, crossed>>
    BY DEF Load
<1>2. n \in Live /\ n \in Item /\ node[n] \in Row /\ p \in Item \cup {Root}
    BY LiveRow DEF Inv, Load
<1>3. node[n].status = "live" /\ node[n].parent \in Item \cup {Root}
    BY <1>2 DEF Inv, TypeOK, Live
<1>4. q \in Request
    BY <1>2 DEF Request
<1>5. op = "move" /\ q.checked => p \notin Structure(n)
    <2>1. Root \notin Structure(n)
        BY RootAssumption, StructureItems DEF Item
    <2> QED BY <2>1
<1>6. Held(q)
    BY <1>2, <1>3, <1>5 DEF Held, Item
<1> HIDE DEF q
<1> QED BY <1>1, <1>4, <1>6, TurnKeepsInv

(* A check that passes holds of the tree as it is.                         *)
LEMMA CheckStep ==
    ASSUME Inv, NEW e \in Editor, CheckMove(e) \/ CheckEmpty(e)
    PROVE  Inv'
<1>1. UNCHANGED <<node, crossed>> /\ request[e] # Idle
    BY RowStatus DEF CheckMove, CheckEmpty
<1>2. request[e] \in Request /\ Held(request[e])
    BY <1>1, RequestType DEF Inv, HeldOK
<1>3. CASE End(e)
    BY <1>1, <1>3, TurnKeepsInv DEF End
<1>4. CASE CheckPasses(e) /\ ~ End(e)
    <2> DEFINE q == [request[e] EXCEPT !.checked = TRUE]
    <2>1. request' = [request EXCEPT ![e] = q]
        BY <1>4 DEF CheckPasses
    <2>2. q \in Request
        BY <1>2 DEF Request
    <2>3. q.op = "move" => q.to \notin Structure(q.item)
        BY <1>2, <1>4 DEF CheckMove, CheckEmpty, Request
    <2>4. q.op = "rmdir" => Children(q.item) = {}
        BY <1>2, <1>4 DEF CheckMove, CheckEmpty, Request
    <2>5. Held(q)
        BY <1>2, <2>3, <2>4 DEF Held, Request
    <2> HIDE DEF q
    <2> QED BY <1>1, <2>1, <2>2, <2>5, TurnKeepsInv
<1> QED BY <1>3, <1>4 DEF CheckMove, CheckEmpty

(* What a request writes is a row, of an item there was.                   *)
LEMMA WriteType ==
    ASSUME Inv, NEW e \in Editor, Save(e) \/ SoftRemove(e)
    PROVE  /\ request[e] # Idle
           /\ request[e] \in Request
           /\ Held(request[e])
           /\ \E r \in Row :
                /\ node' = [node EXCEPT ![request[e].item] = r]
                /\ r.parent \in Item \cup {Root}
                /\ Save(e) => r = IF request[e].op = "move"
                                  THEN [request[e].copy EXCEPT !.parent = request[e].to]
                                  ELSE request[e].copy
                /\ SoftRemove(e) => r = [node[request[e].item] EXCEPT !.status = "deleted"]
<1>1. request[e] # Idle
    BY RowStatus DEF Save, SoftRemove
<1>2. request[e] \in Request /\ Held(request[e])
    BY <1>1, RequestType DEF Inv, HeldOK
<1> DEFINE q == request[e]
<1>3. q.item \in Item /\ node[q.item] \in Row /\ q.copy \in Row
    BY <1>2, LiveRow DEF Inv, Held, Request, Item
<1>4. CASE Save(e)
    <2> DEFINE r == IF q.op = "move" THEN [q.copy EXCEPT !.parent = q.to] ELSE q.copy
    <2>1. r \in Row /\ r.parent \in Item \cup {Root}
        BY <1>2, <1>3 DEF Held, Row, Item
    <2>2. ~ SoftRemove(e)
        BY <1>4 DEF Save, SoftRemove
    <2> QED BY <1>1, <1>2, <1>4, <2>1, <2>2 DEF Save
<1>5. CASE SoftRemove(e)
    <2> DEFINE r == [node[q.item] EXCEPT !.status = "deleted"]
    <2>1. r \in Row /\ r.parent \in Item \cup {Root}
        BY <1>3 DEF Row, Inv, TypeOK
    <2>2. ~ Save(e)
        BY <1>5 DEF Save, SoftRemove
    <2> QED BY <1>1, <1>2, <1>5, <2>1, <2>2 DEF SoftRemove
<1> QED BY <1>4, <1>5

(* A save and a removal keep every item, with a parent that exists.        *)
LEMMA WriteStep ==
    ASSUME Inv, NEW e \in Editor, Save(e) \/ SoftRemove(e)
    PROVE  Inv'
<1>1. PICK r \in Row : /\ node' = [node EXCEPT ![request[e].item] = r]
                       /\ r.parent \in Item \cup {Root}
    BY WriteType
<1>2. request[e].item \in Item
    BY WriteType DEF Held, Request, Item
<1>3. node' \in [Node -> Row \cup {Absent}] /\ \A j \in Item : node'[j] # Absent
    BY <1>1, RowStatus DEF Inv, TypeOK, Item
<1>4. Item' = Item
    BY <1>1, <1>2, <1>3 DEF Item, Inv, TypeOK
<1>5. \A j \in Item' : node'[j].parent \in Item' \cup {Root}
    BY <1>1, <1>4 DEF Inv, TypeOK, Item
<1>6. request' \in [Editor -> {Idle} \cup Request] /\ HeldOK'
    <2>1. request' = [f \in Editor |-> IF f \in {e} THEN Idle ELSE Outdated(f)]
        BY DEF Save, SoftRemove, Written
    <2> QED BY <2>1, <1>3, WriteKeepsHeld
<1>7. crossed' \in BOOLEAN
    BY DEF Inv, TypeOK, Save, SoftRemove, Written
<1> QED BY <1>3, <1>5, <1>6, <1>7 DEF Inv, TypeOK

(* Inv is inductive.                                                       *)
THEOREM Next_Inv == Inv /\ [Next]_vars => Inv'
<1> SUFFICES ASSUME Inv, [Next]_vars PROVE Inv'
    OBVIOUS
<1>1. CASE \E n \in Node : Create(n)
    BY <1>1, CreateStep
<1>2. CASE \E e \in Editor, op \in Op, n \in Node, p \in Node \cup {Root} : Load(e, op, n, p)
    BY <1>2, LoadStep
<1>3. CASE \E e \in Editor : CheckMove(e) \/ CheckEmpty(e)
    BY <1>3, CheckStep
<1>4. CASE \E e \in Editor : Save(e) \/ SoftRemove(e)
    BY <1>4, WriteStep
<1>5. CASE \E e \in Editor : Fail(e)
    BY <1>5, TurnKeepsInv DEF Fail, End
<1>6. CASE UNCHANGED vars
    <2>1. HeldOK'
        <3> SUFFICES ASSUME NEW e \in Editor, request[e] # Idle PROVE Held(request[e])'
            BY <1>6 DEF HeldOK, vars
        <3>1. request[e] \in Request /\ Held(request[e]) /\ request'[e] = request[e]
            BY <1>6, RequestType DEF Inv, HeldOK, vars
        <3>2. PICK i \in Node : i = request[e].item
            BY <3>1 DEF Request
        <3>3. Structure(i)' = Structure(i) /\ Children(i)' = Children(i) /\ Item' = Item
            BY <1>6, SameTree DEF vars
        <3> QED BY <1>6, <3>1, <3>2, <3>3 DEF Held, vars
    <2> QED BY <1>6, <2>1, SameTree DEF vars, Inv, TypeOK
<1> QED BY <1>1, <1>2, <1>3, <1>4, <1>5, <1>6 DEF Next

(* The shapes of the table and of the requests are kept.                   *)
THEOREM WikiTypes == Spec => []TypeOK
<1>1. Inv => TypeOK
    BY DEF Inv
<1> QED BY Init_Inv, Next_Inv, <1>1, PTL DEF Spec
-----------------------------------------------------------------------------
(* The items of the abstract tree are the ones of the table.              *)
LEMMA ForestItem == F!Item = Item
BY DEF F!Item

(* What lies below an item in the abstract tree is what the table of       *)
(* ancestors says.                                                         *)
LEMMA ForestBelow == \A n \in Node : F!Below(n) = Below(n)
<1> SUFFICES ASSUME NEW n \in Node PROVE F!Below(n) = Below(n)
    OBVIOUS
<1> DEFINE parent == [k \in Item |-> node[k].parent]
<1>1. \A k \in Item : parent[k] = node[k].parent
    OBVIOUS
<1>2. ASSUME NEW S \in SUBSET Item
      PROVE  (\A k \in Item : parent[k] \in S => k \in S)
               <=> (\A k \in Item : node[k].parent \in S => k \in S)
    BY <1>1
<1>3. F!Below(n) = {m \in Item : \A S \in SUBSET Item :
                       (n \in S /\ \A k \in Item : parent[k] \in S => k \in S) => m \in S}
    BY ForestItem DEF F!Below
<1> HIDE DEF parent
<1> QED BY <1>2, <1>3 DEF Below

(* The empty table is the empty forest. *)
LEMMA InitForest == Init => F!FInit
<1> SUFFICES ASSUME Init PROVE F!FInit
    OBVIOUS
<1>1. Item = {} /\ Live = {}
    BY RowStatus DEF Init, Item, Live
<1> QED BY <1>1 DEF Init, F!FInit

(* Creating an item adds it to the forest. *)
LEMMA CreateForest ==
    ASSUME Inv, NEW n \in Node, Create(n)
    PROVE  \E p \in Node \cup {Root} : F!Add(n, p)
<1>1. PICK k \in {"folder", "file"}, p \in Item \cup {Root} :
         node' = [node EXCEPT ![n] = [status |-> "live", kind |-> k, parent |-> p]]
    BY DEF Create
<1>2. n \in Node \ (Item \cup {Root})
    BY RootAssumption DEF Create, Item
<1>3. Item' = Item \cup {n} /\ Live' = Live \cup {n}
    <2>1. \A m \in Node : node'[m] = IF m = n THEN [status |-> "live", kind |-> k, parent |-> p]
                                           ELSE node[m]
        BY <1>1 DEF Inv, TypeOK
    <2>2. [status |-> "live", kind |-> k, parent |-> p] # Absent
        <3>1. [status |-> "live", kind |-> k, parent |-> p].status = "live"
            OBVIOUS
        <3> QED BY <3>1, RowStatus
    <2> QED BY <2>1, <2>2 DEF Item, Live
<1>4. [m \in Item |-> node[m].parent]'
        = [m \in Item \cup {n} |-> IF m = n THEN p ELSE [j \in Item |-> node[j].parent][m]]
    BY <1>1, <1>2, <1>3 DEF Inv, TypeOK, Item
<1>5. p \in Node \cup {Root}
    BY DEF Item
<1> QED BY <1>2, <1>3, <1>4, <1>5, ForestItem DEF F!Add

(* A fresh save moves its item in the forest, or leaves the table alone.   *)
LEMMA SaveForest ==
    ASSUME Inv, NEW e \in Editor, Save(e), request[e].fresh
    PROVE  \/ UNCHANGED node
           \/ \E n \in Node, p \in Node \cup {Root} : F!Move(n, p)
<1> DEFINE q == request[e]
           n == q.item
           p == q.to
<1>1. q \in Request /\ Held(q) /\ node[n] = q.copy /\ n \in Live /\ n \in Item
    BY WriteType DEF Held, Request, Live, Item
<1>2. CASE q.op = "edit"
    <2>1. node' = [node EXCEPT ![n] = node[n]]
        BY <1>1, <1>2 DEF Save
    <2> QED BY <2>1, <1>1 DEF Inv, TypeOK
<1>3. CASE q.op = "move"
    <2>1. node' = [node EXCEPT ![n] = [node[n] EXCEPT !.parent = p]]
        BY <1>1, <1>3 DEF Save
    <2>2. q.checked
        BY DEF Save
    <2>3. p \in (Item \cup {Root}) \ Structure(n)
        BY <1>1, <1>3, <2>2 DEF Held
    <2>4. node[n] \in Row
        BY <1>1, LiveRow DEF Inv
    <2>5. \A m \in Node : /\ m # n => node'[m] = node[m]
                          /\ m = n => node'[m] \in Row /\ node'[m].status = node[m].status
                                                      /\ node'[m].parent = p
        BY <1>1, <2>1, <2>3, <2>4 DEF Inv, TypeOK, Row, Item, Request
    <2>6. Item' = Item /\ Live' = Live
        BY <1>1, <2>5, RowStatus DEF Item, Live
    <2>7. [m \in Item |-> node[m].parent]' = [[m \in Item |-> node[m].parent] EXCEPT ![n] = p]
        BY <1>1, <2>5, <2>6 DEF Item
    <2>8. n \in Node /\ p \in Node \cup {Root}
        BY <1>1 DEF Request
    <2>9. p \in (F!Item \cup {Root}) \ (Live \cap F!Below(n))
        BY <2>3, <2>8, ForestItem, ForestBelow DEF Structure
    <2> QED BY <1>1, <2>6, <2>7, <2>8, <2>9 DEF F!Move
<1> QED BY <1>2, <1>3 DEF Save

(* A fresh removal removes its item from the live ones. *)
LEMMA RemoveForest ==
    ASSUME Inv, NEW e \in Editor, SoftRemove(e), request[e].fresh
    PROVE  \E n \in Node : F!Remove(n)
<1> DEFINE q == request[e]
           n == q.item
<1>1. q \in Request /\ Held(q) /\ node[n] = q.copy /\ n \in Live /\ n \in Item /\ n \in Node
    BY WriteType DEF Held, Request, Live, Item
<1>2. node' = [node EXCEPT ![n] = [node[n] EXCEPT !.status = "deleted"]]
    BY DEF SoftRemove
<1>3. node[n] \in Row
    BY <1>1, LiveRow DEF Inv
<1>4. \A m \in Node : /\ m # n => node'[m] = node[m]
                      /\ m = n => node'[m] \in Row /\ node'[m].status = "deleted"
                                                  /\ node'[m].parent = node[m].parent
    BY <1>1, <1>2, <1>3 DEF Inv, TypeOK, Row
<1>5. Item' = Item /\ Live' = Live \ {n}
    BY <1>1, <1>4, RowStatus DEF Item, Live
<1>6. [m \in Item |-> node[m].parent]' = [m \in Item |-> node[m].parent]
    BY <1>1, <1>4, <1>5 DEF Item
<1> QED BY <1>1, <1>5, <1>6 DEF F!Remove

(* A step that leaves the table alone leaves the forest alone. *)
LEMMA StutterForest ==
    ASSUME UNCHANGED <<node, crossed>> PROVE UNCHANGED F!fvars
BY DEF F!fvars, Item, Live

(* Every step of the requests is a step of the forest, or none.            *)
LEMMA NextForest == Inv /\ [Next]_vars => [F!FNext]_F!fvars
<1> SUFFICES ASSUME Inv, [Next]_vars PROVE [F!FNext]_F!fvars
    OBVIOUS
<1>1. ASSUME NEW n \in Node, Create(n) PROVE F!FNext
    <2>1. UNCHANGED crossed
        BY <1>1 DEF Create
    <2> QED BY <1>1, <2>1, CreateForest DEF F!FNext
<1>2. ASSUME NEW e \in Editor, Save(e) \/ SoftRemove(e), request[e].fresh
      PROVE  [F!FNext]_F!fvars
    <2>1. UNCHANGED crossed
        BY <1>2 DEF Save, SoftRemove, Written, Inv, TypeOK
    <2> QED BY <1>2, <2>1, SaveForest, RemoveForest, StutterForest DEF F!FNext
<1>3. ASSUME NEW e \in Editor, Save(e) \/ SoftRemove(e), ~ request[e].fresh
      PROVE  F!FNext
    <2>1. crossed'
        BY <1>3 DEF Save, SoftRemove, Written
    <2> QED BY <2>1 DEF F!FNext
<1>4. CASE \E e \in Editor, op \in Op, n \in Node, p \in Node \cup {Root} : Load(e, op, n, p)
    BY <1>4, StutterForest DEF Load
<1>5. CASE \E e \in Editor : CheckMove(e) \/ CheckEmpty(e) \/ Fail(e)
    BY <1>5, StutterForest DEF CheckMove, CheckEmpty, Fail
<1>6. CASE UNCHANGED vars
    BY <1>6, StutterForest DEF vars
<1> QED BY <1>1, <1>2, <1>3, <1>4, <1>5, <1>6 DEF Next

(* WikiTree implements WikiForest: as long as no request saves over a tree *)
(* it has not seen, the wiki is a forest that changes in single steps.     *)
THEOREM WikiImplementsForest == Spec => ImplementsForest
<1>1. Spec => F!FSpec
    BY Init_Inv, Next_Inv, InitForest, NextForest, PTL DEF Spec, F!FSpec
<1> QED BY <1>1 DEF ImplementsForest
-----------------------------------------------------------------------------
(* In a forest, an item above which there are only live folders is shown:  *)
(* otherwise the items above it that are not shown would hang in           *)
(* themselves.                                                             *)
LEMMA ForestShows ==
    ASSUME Inv, F!Forest, NEW n \in Live, NEW top \in Tops,
           \A a \in Above(n) : a \in Live /\ node[a].kind = "folder"
    PROVE  n \in Shown(top)
<1> SUFFICES ASSUME NEW S \in SUBSET Live,
                    \A k \in Live : \/ node[k].parent = top
                                    \/ /\ node[k].parent \in S
                                       /\ node[node[k].parent].kind = "folder"
                                    => k \in S,
                    n \notin S
             PROVE  FALSE
    BY DEF Shown
<1> DEFINE T == {k \in Item : n \in Below(k)} \ S
<1>1. n \in Item
    BY LiveRow DEF Inv
<1>2. n \in T
    BY <1>1 DEF Below
<1>3. \A k \in T : k \in Live /\ (k # n => node[k].kind = "folder")
    BY DEF Above
<1>4. ASSUME NEW k \in T PROVE node[k].parent \in T
    <2> DEFINE p == node[k].parent
    <2>1. k \in Live /\ k \in Item /\ k \notin S
        BY <1>3
    <2>2. p # Root
        BY <2>1 DEF Tops, Children
    <2>3. p \in Item
        BY <2>1, <2>2 DEF Inv, TypeOK
    <2>4. n \in Below(p)
        BY <2>1, <2>3, <1>1 DEF Below
    <2>5. CASE p = n
        BY <2>5, <1>2
    <2>6. CASE p # n
        <3>1. node[p].kind = "folder"
            BY <2>3, <2>4, <2>6 DEF Above
        <3>2. p \notin S
            BY <2>1, <3>1
        <3> QED BY <2>3, <2>4, <3>2
    <2> QED BY <2>5, <2>6
<1>5. \A k \in T : [m \in Item |-> node[m].parent][k] \in T
    BY <1>4
<1>6. T \in SUBSET Live
    BY <1>3
<1> HIDE DEF T
<1> QED BY <1>2, <1>5, <1>6 DEF F!Forest

(* The forest of the specification is the forest of the proofs. *)
LEMMA SameForest ==
    /\ F!FInit <=> P!FInit
    /\ F!FInv <=> P!FInv
    /\ F!FInv' <=> P!FInv'
    /\ [F!FNext]_F!fvars <=> [P!FNext]_P!fvars
<1>1. F!FInit <=> P!FInit
    BY DEF F!FInit, P!FInit
<1>2. F!FInv <=> P!FInv
    BY DEF F!FInv, P!FInv, F!Forest, P!Forest, F!Item, P!Item
<1>3. \A n \in Node : F!Below(n) = P!Below(n)
    BY DEF F!Below, P!Below, F!Item, P!Item
<1>4. \A n \in Node, p \in Node \cup {Root} :
         (F!Add(n, p) <=> P!Add(n, p)) /\ (F!Move(n, p) <=> P!Move(n, p))
    BY <1>3 DEF F!Add, P!Add, F!Move, P!Move, F!Item, P!Item
<1>5. \A n \in Node : F!Remove(n) <=> P!Remove(n)
    BY DEF F!Remove, P!Remove
<1>6. F!FNext <=> P!FNext
    BY <1>4, <1>5 DEF F!FNext, P!FNext
<1>7. F!fvars' = F!fvars <=> P!fvars' = P!fvars
    BY DEF F!fvars, P!fvars
<1>8. F!FInv' <=> P!FInv'
    BY <1>2, PTL
<1> QED BY <1>1, <1>2, <1>6, <1>7, <1>8

(* The items of the table stay a forest until requests cross. *)
LEMMA NextForestInv ==
    ASSUME Inv, ~ crossed => F!FInv, [Next]_vars, ~ crossed'
    PROVE  F!FInv'
<1>1. [F!FNext]_F!fvars
    BY NextForest
<1>2. ~ crossed
    BY <1>1 DEF F!FNext, F!fvars
<1>3. P!FInv /\ [P!FNext]_P!fvars
    BY <1>1, <1>2, SameForest
<1>4. P!FInv'
    BY <1>3, P!FNext_FInv
<1> QED BY <1>4, SameForest

(* The tree an administrator is shown holds every live item under live     *)
(* folders, unless requests crossed.                                       *)
THEOREM WikiTreeShowsItems == Spec => []TreeShowsItems
<1>1. Inv /\ (~ crossed => F!FInv) => TreeShowsItems
    BY ForestShows DEF TreeShowsItems, F!FInv
<1>2. Init => (~ crossed => F!FInv)
    BY InitForest, SameForest, P!FInit_FInv
<1>3. Inv /\ (~ crossed => F!FInv) /\ [Next]_vars => (~ crossed => F!FInv)'
    <2> SUFFICES ASSUME Inv, ~ crossed => F!FInv, [Next]_vars, ~ crossed' PROVE F!FInv'
        OBVIOUS
    <2> QED BY NextForestInv
<1> QED BY Init_Inv, Next_Inv, <1>1, <1>2, <1>3, PTL DEF Spec

(* EmptyFolderRemoved as the formula about one step.                       *)
EmptyRemoved ==
    \A e \in Editor :
        (/\ request[e].op = "rmdir" /\ request[e].fresh
         /\ request'[e] = Idle
         /\ node[request[e].item].status = "live"
         /\ node'[request[e].item].status = "deleted")
           => Children(request[e].item) = {}

(* A fresh request that removes a folder as an empty one has checked that  *)
(* it is empty, and the tree has not changed since.                        *)
LEMMA NextEmpty == Inv /\ [Next]_vars => EmptyRemoved
<1> SUFFICES ASSUME Inv, [Next]_vars, NEW e \in Editor,
                    request[e].op = "rmdir", request[e].fresh, request'[e] = Idle,
                    node[request[e].item].status = "live",
                    node'[request[e].item].status = "deleted"
             PROVE  Children(request[e].item) = {}
    BY DEF EmptyRemoved
<1>1. request[e] # Idle /\ node' # node
    BY RowStatus
<1>2. SoftRemove(e)
    <2>1. Outdated(e) # Idle
        BY <1>1, RowStatus, RequestType DEF Outdated, Inv, Request
    <2>2. \A n \in Node : ~ Create(n)
        BY <2>1 DEF Create
    <2>3. ASSUME NEW f \in Editor, Save(f) \/ SoftRemove(f) PROVE f = e
        BY <2>1, <2>3 DEF Save, SoftRemove, Written
    <2>4. ~ Save(e)
        BY DEF Save
    <2> QED BY <1>1, <2>2, <2>3, <2>4 DEF Next, vars, Load, CheckMove, CheckEmpty, Fail
<1>3. request[e].checked /\ Held(request[e])
    BY <1>1, <1>2 DEF SoftRemove, Inv, HeldOK
<1> QED BY <1>3 DEF Held

(* Removing a folder as an empty one leaves nothing live under it, in      *)
(* every behaviour in which nobody put something there meanwhile.          *)
THEOREM WikiEmptyFolderRemoved == Spec => EmptyFolderRemoved
<1>1. Inv /\ [Next]_vars => [EmptyRemoved]_vars
    BY NextEmpty
<1>2. Spec => [][EmptyRemoved]_vars
    BY Init_Inv, Next_Inv, <1>1, PTL DEF Spec
<1> QED BY <1>2, PTL DEF EmptyFolderRemoved, EmptyRemoved
=============================================================================
