\* One request is enough: it is served, the process restarts, and it is served again.
CONSTANTS
    Versions = {c1}
    MaxNonce = 1
    MaxTime = 0
    MaxFailures = 1
    DiskMayFail = FALSE
    None = None
SPECIFICATION LiveSpec
PROPERTY NoNeedlessRefresh
