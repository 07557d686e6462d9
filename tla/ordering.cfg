\* Two requests or reorders at a time on two contents of each kind.
CONSTANTS
    Content = {c1, c2}
    Place = {1}
    Editor = {e1, e2}
    Kinds = {"news", "lumir", "video", "brochure", "disclosure", "ir", "popup", "meeting",
             "announcement", "category"}
SPECIFICATION Spec
SYMMETRY Symmetry
INVARIANT TypeOK
INVARIANT DistinctOrders
INVARIANT AnswersTruthful
INVARIANT SameOrderNoDeadlock
