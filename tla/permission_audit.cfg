\* Two runs over two announcements, with departments changing under them.
CONSTANTS
    Item = {i1, i2}
    Dept = {d1}
    Text = {full}
    Complete = {full}
    Place = {1}
    Editor = {e1}
    MaxDepts = 1
    MaxNow = 0
    Run = {r1, r2}
    LogId = {l1, l2, l3}
    BatchSize = 2
    ErrorsIsolated = TRUE
    MaxChanges = 2
SPECIFICATION Spec
SYMMETRY Symmetry
INVARIANT TypeOK
INVARIANT LogsAreTruthful
INVARIANT NoDuplicateWithoutOverlap
INVARIANT OneOpenLogEach
INVARIANT FreshResolveWithoutOverlap
INVARIANT QuietRunSettlesLogs
PROPERTY LogsArePermanent
CHECK_DEADLOCK FALSE
