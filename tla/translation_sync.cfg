\* Two requests and a run of the job on two items in two languages.
CONSTANTS
    Content = {c1, c2}
    Lang = {ko, en}
    ko = ko
    Text = {t1, t2}
    Kinds = {"brochure", "disclosure", "ir", "popup", "meeting"}
    Editor = {e1, e2}
    Job = {j1}
    MaxChanges = 3
SPECIFICATION Spec
SYMMETRY Symmetry
INVARIANT TypeOK
INVARIANT SyncedTextFromSource
INVARIANT CompleteUnlessInterrupted
PROPERTY FreshWritesKeepWork
