------------------------------ MODULE WikiTree ------------------------------
(***************************************************************************)
(* The wiki's folders and files                                            *)
(* (src/src/domain/sub/wiki-file-system/wiki-file-system.service.ts).      *)
(*                                                                         *)
(* The place of an item is its parentId.  A table of ancestors, which      *)
(* database triggers keep, answers what lies below an item.  A request     *)
(* loads an item, reads what its check needs, and then saves the whole     *)
(* entity, parentId and deletedAt included; other requests run between     *)
(* these steps.  Deletion is soft and takes one row.                       *)
(***************************************************************************)
CONSTANTS
    Node,         \* identifiers of folders and files
    Root,         \* parentId null: the top of the tree
    Editor        \* requests that may be in flight at once

ASSUME RootAssumption == Root \notin Node

VARIABLES
    node,         \* node[n]: the table of folders and files
    request,      \* request[e]: what request e holds in memory
    crossed       \* history: a request was saved over a tree it had not seen

vars == <<node, request, crossed>>

Row == [status : {"live", "deleted"}, kind : {"folder", "file"},
        parent : Node \cup {Root}]
Absent == [status |-> "absent"]

(* edit changes names, contents, visibility, permissions or order; rmdir   *)
(* is the deletion of an empty folder.  fresh is history: whether the tree *)
(* is still the one the request was loaded from.                           *)
Op == {"edit", "move", "delete", "rmdir"}
Idle == [op |-> "idle"]
Request == [op : Op, item : Node, copy : Row, to : Node \cup {Root},
            checked : BOOLEAN, fresh : BOOLEAN]

Item == {n \in Node : node[n] # Absent}
Live == {n \in Node : node[n].status = "live"}
Children(n) == {k \in Live : node[k].parent = n}

(* The table of ancestors: the items at or below n, deleted ones included. *)
Below(n) ==
    {m \in Item : \A S \in SUBSET Item :
        (n \in S /\ \A k \in Item : node[k].parent \in S => k \in S) => m \in S}

(* Faulty variant: the items right under n only. *)
NextBelow(n) == {n} \cup Children(n)

(* 폴더_구조를_조회한다: what the table says, without the deleted items. *)
Structure(n) == Below(n) \cap Live
-----------------------------------------------------------------------------
Init ==
    /\ node = [n \in Node |-> Absent]
    /\ request = [e \in Editor |-> Idle]
    /\ crossed = FALSE

(* When the tree changes, what other requests loaded is out of date. *)
Outdated(e) ==
    IF request[e] = Idle \/ node' = node THEN request[e]
    ELSE [request[e] EXCEPT !.fresh = FALSE]

(* Faulty variant: the parent need not exist. *)
CreateAnywhere(n) ==
    /\ node[n] = Absent
    /\ \E k \in {"folder", "file"}, p \in Node \cup {Root} :
         node' = [node EXCEPT ![n] = [status |-> "live", kind |-> k, parent |-> p]]
    /\ request' = [e \in Editor |-> Outdated(e)]
    /\ UNCHANGED crossed

(* The parent must exist; that it is a folder, and live, is not checked. *)
Create(n) ==
    /\ node[n] = Absent
    /\ \E k \in {"folder", "file"}, p \in Item \cup {Root} :
         node' = [node EXCEPT ![n] = [status |-> "live", kind |-> k, parent |-> p]]
    /\ request' = [e \in Editor |-> Outdated(e)]
    /\ UNCHANGED crossed

(* ID로_조회한다.  A move to the top is not checked, nor an edit or a      *)
(* deletion; only a folder can be removed as an empty one.                 *)
Load(e, op, n, p) ==
    /\ request[e] = Idle
    /\ n \in Live
    /\ IF op = "move" THEN p \in Item \cup {Root} ELSE p = Root
    /\ op = "rmdir" => node[n].kind = "folder"
    /\ request' = [request EXCEPT ![e] =
         [op |-> op, item |-> n, copy |-> node[n], to |-> p,
          checked |-> op \in {"edit", "delete"} \/ (op = "move" /\ p = Root),
          fresh |-> TRUE]]
    /\ UNCHANGED <<node, crossed>>

CheckPasses(e) == request' = [request EXCEPT ![e].checked = TRUE]
End(e) == request' = [request EXCEPT ![e] = Idle]

(* Faulty variant: moves are not checked. *)
CheckMoveNever(e) ==
    /\ request[e].op = "move"
    /\ ~ request[e].checked
    /\ CheckPasses(e)
    /\ UNCHANGED <<node, crossed>>

(* An item is not moved under a live item below it. *)
CheckMove(e) ==
    /\ request[e].op = "move"
    /\ ~ request[e].checked
    /\ IF request[e].to \in Structure(request[e].item) THEN End(e) ELSE CheckPasses(e)
    /\ UNCHANGED <<node, crossed>>

(* Faulty variant: the folder is taken for empty. *)
CheckEmptyNever(e) ==
    /\ request[e].op = "rmdir"
    /\ ~ request[e].checked
    /\ CheckPasses(e)
    /\ UNCHANGED <<node, crossed>>

(* A folder with live children is not removed as an empty one. *)
CheckEmpty(e) ==
    /\ request[e].op = "rmdir"
    /\ ~ request[e].checked
    /\ IF Children(request[e].item) # {} THEN End(e) ELSE CheckPasses(e)
    /\ UNCHANGED <<node, crossed>>

(* The request is over; the others see another tree, if it changed. *)
Written(e) ==
    /\ request' = [f \in Editor |-> IF f = e THEN Idle ELSE Outdated(f)]
    /\ crossed' = (crossed \/ ~ request[e].fresh)

(* Repository.save of the loaded entity: the whole row, live again. *)
Save(e) ==
    /\ request[e].op \in {"edit", "move"}
    /\ request[e].checked
    /\ LET q == request[e] IN
       node' = [node EXCEPT ![q.item] =
                 IF q.op = "move" THEN [q.copy EXCEPT !.parent = q.to] ELSE q.copy]
    /\ Written(e)

(* softRemove writes deletedAt of the one row. *)
SoftRemove(e) ==
    /\ request[e].op \in {"delete", "rmdir"}
    /\ request[e].checked
    /\ node' = [node EXCEPT ![request[e].item].status = "deleted"]
    /\ Written(e)

(* A request ends early: an error of the database, or a restart. *)
Fail(e) ==
    /\ request[e] # Idle
    /\ End(e)
    /\ UNCHANGED <<node, crossed>>

Next ==
    \/ \E n \in Node : Create(n)
    \/ \E e \in Editor, op \in Op, n \in Node, p \in Node \cup {Root} : Load(e, op, n, p)
    \/ \E e \in Editor : \/ CheckMove(e)
                         \/ CheckEmpty(e)
                         \/ Save(e)
                         \/ SoftRemove(e)
                         \/ Fail(e)

Spec == Init /\ [][Next]_vars
-----------------------------------------------------------------------------
(* The list of all items starts with the one of least depth, and the tree  *)
(* is built from where that one hangs: from the top if any live item is    *)
(* there, else from the parent of another one; which one is left open.     *)
Tops ==
    IF Children(Root) # {} THEN {Root} ELSE {node[n].parent : n \in Live}

(* buildTree: the items under top, and then what lies in a folder that is  *)
(* shown; what hangs under a file or a deleted folder is not reached.      *)
Shown(top) ==
    {m \in Live : \A S \in SUBSET Live :
        (\A k \in Live : \/ node[k].parent = top
                         \/ /\ node[k].parent \in S
                            /\ node[node[k].parent].kind = "folder"
                         => k \in S)
        => m \in S}

Above(n) == {a \in Item \ {n} : n \in Below(a)}

(* The shape of the table and of what requests hold: a request checked or  *)
(* not, on a row that was live, and whose place existed when it was read.  *)
TypeOK ==
    /\ node \in [Node -> Row \cup {Absent}]
    /\ request \in [Editor -> {Idle} \cup Request]
    /\ crossed \in BOOLEAN
    /\ \A n \in Item : node[n].parent \in Item \cup {Root}

(* Every live item whose ancestors are live folders is in the tree the     *)
(* administrator is shown, unless requests crossed: the descendant check   *)
(* of 경로를_수정한다 leaves no item on a cycle, which buildTree would     *)
(* never reach.                                                            *)
TreeShowsItems ==
    ~ crossed =>
      \A n \in Live : (\A a \in Above(n) : a \in Live /\ node[a].kind = "folder")
                         => \A top \in Tops : n \in Shown(top)

(* 폴더만_삭제한다 leaves no live item under the folder it removes, as     *)
(* long as nobody put one there between its check and its removal.         *)
EmptyFolderRemoved ==
    [][\A e \in Editor :
         (/\ request[e].op = "rmdir" /\ request[e].fresh
          /\ request'[e] = Idle
          /\ node[request[e].item].status = "live"
          /\ node'[request[e].item].status = "deleted")
            => Children(request[e].item) = {}]_vars

(* Deleting a folder deletes everything in it: what the comment of         *)
(* 위키를_삭제한다 says of its one softRemove.                             *)
DeletionTakesSubtree ==
    [][\A n \in Node : (node[n].status = "live" /\ node'[n].status = "deleted")
                          => Children(n)' = {}]_vars

(* As long as no request saves over a tree it has not seen, the requests,  *)
(* which read, check and write apart, are the single steps of the forest:  *)
(* 경로를_수정한다 moves nothing under its own descendants, and an edit     *)
(* moves and revives nothing.                                              *)
F == INSTANCE WikiForest WITH
       parent <- [n \in Item |-> node[n].parent],
       live <- Live
ImplementsForest == F!FSpec
=============================================================================
