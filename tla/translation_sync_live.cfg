\* Two runs of the job may overlap; the requests stop, the runs go on.
CONSTANTS
    Content = {c1}
    Lang = {ko, en}
    ko = ko
    Text = {t1, t2}
    Kinds = {"brochure", "disclosure", "ir", "popup", "meeting"}
    Editor = {e1}
    Job = {j1, j2}
    MaxChanges = 4
SPECIFICATION FairSpec
INVARIANT QuietRunSynchronises
PROPERTY SyncedTextConverges
