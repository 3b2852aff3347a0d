SPECIFICATION MCSpec
CONSTANTS
    PlanLaunches <- StartsTried
    PlanBlock = 1
    MinBlocks = 2
    PoolAlign = 4
    SampleBytes = 8
    ReserveFloor = 2
    ToleranceFloor = 1
    UpLaunches <- LaunchesTried
    UpRelaunches <- LaterLaunches
    MambaPage = 20
    PackedToken = 3
    PlainToken = 4
    KernelTokens = 4
    MaxModelLen = 24
    UpMaxEngines = 2
    UpMaxChanges = 1
    Libs = {"rope", "nax"}
    Versions = {"v1", "v2"}
    Toolchains = {"plain", "nax_sdk", "unavailable"}
    MaxEdits = 2
    MaxCrashes = 1
    NumExperts = 3
    ExpertBytes <- TwoLayers
    CacheBytes = 5
    MaxGets = 4
    Key = {k1, k2, k3}
    Cap = 5
    MaxJobs = 3
    MaxFaults = 2
    Adapter = {1, 2, 3}
    MaxId = 3
    Slots = 2
    Capacity = 2
    Reloaded = {2}
    MaxRows = 2
    MaxWrites = 1
INVARIANTS MemoryPlanHolds LaunchesComeUp RecordsVouch ExpertsServed IndexMatchesDisk TablesAgree BatchServed RowsRunTheirAdapter
PROPERTIES RoomMadeFromOldest MalformedChangesNothing
SYMMETRY Symmetry
CHECK_DEADLOCK FALSE
