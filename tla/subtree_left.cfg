\* A folder with something in it is deleted.
CONSTANTS
    Node = {n1, n2}
    Root = root
    Editor = {e1}
SPECIFICATION Spec
PROPERTY DeletionTakesSubtree
CHECK_DEADLOCK FALSE
