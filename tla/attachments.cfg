\* Two requests on one content of each kind, on both storages.
CONSTANTS
    Content = {c1}
    File = {f1, f2, f3}
    Editor = {e1, e2}
    Kinds = {"news", "lumir", "video", "brochure", "disclosure", "ir", "popup", "meeting", "wiki"}
    Storages = {"s3", "local"}
SPECIFICATION Spec
SYMMETRY Symmetry
INVARIANT TypeOK
INVARIANT NamedFilesStored
INVARIANT NothingLeaks
INVARIANT RefusedBeforePurge
