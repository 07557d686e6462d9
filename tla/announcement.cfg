\* Two requests in flight on one announcement, with a release date that passes.
CONSTANTS
    Item = {i1}
    Dept = {d1, d2}
    Text = {draft, full}
    Complete = {full}
    Place = {1, 2}
    Editor = {e1, e2}
    MaxDepts = 1
    MaxNow = 1
SPECIFICATION ASpec
SYMMETRY Symmetry
INVARIANT ATypeOK
PROPERTY FreshSavesKeepPolicy
