----------------------------- MODULE WikiForest -----------------------------
(***************************************************************************)
(* What the wiki promises of its tree: items are added, moved and removed  *)
(* in one step each, and a move under a live item below the moved one is   *)
(* refused.  Requests that cross may break this; crossed then says so, and *)
(* from there on nothing is promised.                                      *)
(***************************************************************************)
CONSTANTS
    Node,         \* identifiers of folders and files
    Root          \* the parent of the items at the top

VARIABLES
    parent,       \* parent[n]: where item n hangs, for the items there are
    live,         \* the items that are not deleted
    crossed       \* whether requests crossed

fvars == <<parent, live, crossed>>

Item == DOMAIN parent

(* The items at or below n: those in every set that contains n and, with   *)
(* an item, all that hang under it.                                        *)
Below(n) ==
    {m \in Item : \A S \in SUBSET Item :
        (n \in S /\ \A k \in Item : parent[k] \in S => k \in S) => m \in S}

FInit ==
    /\ parent = [n \in {} |-> Root]
    /\ live = {}
    /\ crossed = FALSE

Add(n, p) ==
    /\ n \in Node \ (Item \cup {Root})
    /\ p \in Item \cup {Root}
    /\ parent' = [k \in Item \cup {n} |-> IF k = n THEN p ELSE parent[k]]
    /\ live' = live \cup {n}

Move(n, p) ==
    /\ n \in live
    /\ p \in (Item \cup {Root}) \ (live \cap Below(n))
    /\ parent' = [parent EXCEPT ![n] = p]
    /\ UNCHANGED live

Remove(n) ==
    /\ n \in live
    /\ live' = live \ {n}
    /\ UNCHANGED parent

FNext ==
    \/ /\ UNCHANGED crossed
       /\ \/ \E n \in Node, p \in Node \cup {Root} : Add(n, p) \/ Move(n, p)
          \/ \E n \in Node : Remove(n)
    \/ crossed'

FSpec == FInit /\ [][FNext]_fvars
-----------------------------------------------------------------------------
(* No set of live items hangs in itself: there is no cycle, and whoever    *)
(* climbs from a live item leaves the live items.                          *)
Forest == \A S \in SUBSET live : S # {} => \E k \in S : parent[k] \notin S

(* The items are identified, every parent exists, and they form a forest. *)
FInv ==
    /\ live \subseteq Item
    /\ Item \subseteq Node
    /\ \A n \in Item : parent[n] \in Item \cup {Root}
    /\ Forest
=============================================================================
