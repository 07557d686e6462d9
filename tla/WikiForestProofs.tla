-------------------------- MODULE WikiForestProofs --------------------------
(***************************************************************************)
(* The forest stays one, for any number of items: proofs about WikiForest. *)
(***************************************************************************)
EXTENDS WikiForest, TLAPS

(* An item is at or below itself. *)
LEMMA BelowSelf == ASSUME NEW n \in Item PROVE n \in Below(n)
BY DEF Below

(* What hangs under an item below n is below n. *)
LEMMA BelowClosed ==
    ASSUME NEW n, NEW k \in Item, parent[k] \in Below(n) PROVE k \in Below(n)
<1> SUFFICES ASSUME NEW S \in SUBSET Item, n \in S,
                    \A j \in Item : parent[j] \in S => j \in S
             PROVE  k \in S
    BY DEF Below
<1>1. parent[k] \in S
    BY DEF Below
<1> QED BY <1>1

(* Nothing hangs in the empty tree. *)
THEOREM FInit_FInv == FInit => FInv
BY DEF FInit, FInv, Item, Forest

(* A set that hangs in itself after n was moved under p would still do so  *)
(* before, without what lies below n: p itself is not below n.             *)
LEMMA MoveForest ==
    ASSUME FInv, Forest, NEW n \in Node, NEW p \in Node \cup {Root}, Move(n, p)
    PROVE  Forest'
<1> SUFFICES ASSUME NEW S \in SUBSET live, S # {}, \A k \in S : parent'[k] \in S
             PROVE  FALSE
    BY DEF Forest, Move
<1>1. n \in Item /\ S \subseteq Item
    BY DEF FInv, Move
<1>2. \A k \in S : k # n => parent'[k] = parent[k]
    BY <1>1 DEF Move, Item
<1>3. parent'[n] = p
    BY <1>1 DEF Move, Item
<1> DEFINE T == S \ Below(n)
<1>4. ASSUME NEW k \in T PROVE k # n /\ parent[k] \in T
    <2>1. k # n
        BY <1>1, BelowSelf
    <2>2. parent[k] \in S
        BY <2>1, <1>2
    <2>3. parent[k] \notin Below(n)
        BY <1>1, BelowClosed
    <2> QED BY <2>1, <2>2, <2>3
<1>5. T = {}
    <2>1. T \in SUBSET live /\ \A k \in T : parent[k] \in T
        BY <1>4
    <2> QED BY <2>1 DEF Forest
<1>6. n \in S
    <2>1. CASE n \in S
        BY <2>1
    <2>2. CASE n \notin S
        <3>1. \A k \in S : parent[k] \in S
            BY <2>2, <1>2
        <3> QED BY <3>1 DEF Forest
    <2> QED BY <2>1, <2>2
<1>7. p \in S /\ p \notin Below(n)
    BY <1>3, <1>6 DEF Move
<1> QED BY <1>5, <1>7

(* A new item is nobody's parent, so that a set that hangs in itself can   *)
(* do without it.                                                          *)
LEMMA AddForest ==
    ASSUME FInv, Forest, NEW n \in Node, NEW p \in Node \cup {Root}, Add(n, p)
    PROVE  Forest'
<1> SUFFICES ASSUME NEW S \in SUBSET live', S # {}, \A k \in S : parent'[k] \in S
             PROVE  FALSE
    BY DEF Forest
<1> DEFINE T == S \ {n}
<1>1. \A k \in T : k \in live /\ k \in Item /\ k # n
    BY DEF Add, FInv
<1>2. \A k \in T : parent'[k] = parent[k]
    BY <1>1 DEF Add
<1>3. n # Root /\ n \notin Item
    BY DEF Add
<1>4. \A k \in T : parent[k] \in T
    BY <1>1, <1>2, <1>3 DEF FInv
<1>5. T = {}
    BY <1>1, <1>4 DEF Forest
<1>6. S = {n} /\ parent'[n] = n
    BY <1>5
<1>7. parent'[n] = p /\ p # n
    BY <1>3 DEF Add
<1> QED BY <1>6, <1>7

(* FInv is inductive. *)
THEOREM FNext_FInv == FInv /\ [FNext]_fvars /\ ~ crossed' => FInv'
<1> SUFFICES ASSUME FInv, [FNext]_fvars, ~ crossed' PROVE FInv'
    OBVIOUS
<1>1. crossed' = crossed
    BY DEF FNext, fvars
<1>2. Forest
    BY <1>1 DEF FInv
<1>3. ASSUME NEW n \in Node, NEW p \in Node \cup {Root}, Add(n, p) PROVE FInv'
    <2>1. Item' = Item \cup {n}
        BY <1>3 DEF Add, Item
    <2>2. \A k \in Item' : parent'[k] \in Item' \cup {Root}
        BY <1>3, <2>1 DEF Add, FInv
    <2>3. live' \subseteq Item' /\ Item' \subseteq Node
        BY <1>3, <2>1 DEF Add, FInv
    <2> QED BY <1>2, <1>3, <2>2, <2>3, AddForest DEF FInv
<1>4. ASSUME NEW n \in Node, NEW p \in Node \cup {Root}, Move(n, p) PROVE FInv'
    <2>1. Item' = Item
        BY <1>4 DEF Move, Item
    <2>2. \A k \in Item' : parent'[k] \in Item' \cup {Root}
        BY <1>4, <2>1 DEF Move, FInv, Item
    <2>3. live' \subseteq Item' /\ Item' \subseteq Node
        BY <1>4, <2>1 DEF Move, FInv
    <2> QED BY <1>2, <1>4, <2>2, <2>3, MoveForest DEF FInv
<1>5. ASSUME NEW n \in Node, Remove(n) PROVE FInv'
    <2>1. parent' = parent /\ live' \subseteq live
        BY <1>5 DEF Remove
    <2> QED BY <1>2, <2>1 DEF FInv, Forest, Item
<1>6. CASE UNCHANGED fvars
    BY <1>2, <1>6 DEF fvars, FInv, Forest, Item
<1> QED BY <1>3, <1>4, <1>5, <1>6 DEF FNext

(* Every behaviour of the forest keeps the items a forest until crossed.   *)
THEOREM ForestUnlessCrossed == FSpec => [](~ crossed => FInv)
<1>1. FInit => (~ crossed => FInv)
    BY FInit_FInv
<1>2. (~ crossed => FInv) /\ [FNext]_fvars => (~ crossed => FInv)'
    <2> SUFFICES ASSUME ~ crossed => FInv, [FNext]_fvars, ~ crossed' PROVE FInv'
        OBVIOUS
    <2>1. ~ crossed
        BY DEF FNext, fvars
    <2> QED BY <2>1, FNext_FInv
<1> QED BY <1>1, <1>2, PTL DEF FSpec
=============================================================================
