\* One run after the other; the changes stop, the daily runs go on.
CONSTANTS
    Item = {i1}
    Dept = {d1, d2}
    Text = {full}
    Complete = {full}
    Place = {1}
    Editor = {}
    MaxDepts = 2
    MaxNow = 0
    Run = {r1}
    LogId = {l1, l2, l3}
    BatchSize = 1
    ErrorsIsolated = FALSE
    MaxChanges = 2
SPECIFICATION FairSpec
PROPERTY InactiveItemReported
PROPERTY ReactivatedLogResolved
