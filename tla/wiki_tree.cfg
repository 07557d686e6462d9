\* Two requests in flight over three items.
CONSTANTS
    Node = {n1, n2, n3}
    Root = root
    Editor = {e1, e2}
SPECIFICATION Spec
SYMMETRY Symmetry
CONSTRAINT Promising
INVARIANT TypeOK
INVARIANT TreeShowsItems
PROPERTY EmptyFolderRemoved
PROPERTY ImplementsForest
\* Every item may end up deleted, and no identifier may be left.
CHECK_DEADLOCK FALSE
