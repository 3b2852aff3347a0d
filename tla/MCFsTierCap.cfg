SPECIFICATION FsSpec
CONSTANTS
    Key = {k1, k2, k3}
    Cap = 5
    MaxJobs = 3
    MaxFaults = 0
PROPERTIES StoreNeverCrossesCap
CHECK_DEADLOCK FALSE
