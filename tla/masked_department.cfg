\* Runs one after the other, no fault at all, one change by the SSO service.
CONSTANTS
    Item = {i1}
    Dept = {d1, d2}
    Text = {full}
    Complete = {full}
    Place = {1}
    Editor = {}
    MaxDepts = 2
    MaxNow = 0
    Run = {r1}
    LogId = {l1, l2}
    BatchSize = 1
    ErrorsIsolated = TRUE
    MaxChanges = 1
SPECIFICATION FairSpec
PROPERTY InactiveDepartmentReported
