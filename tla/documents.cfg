\* Pairs of publishers, workers, sources, documents, spaces and calls.
CONSTANTS
    Nil = Nil
    Sole = {e}
    Pair = {a, b}
    Others = {c, d}
    Backends = {"disk", "bucket"}
    FirstBackend = "disk"
    Cleaners = {"c1"}
    BatchSize = 1
    MaxFaults = 1
    DocCount = 1
    Publishers = {a, b}
    Workers = {"w1"}
    MaxPublishes = 2
    MaxMigrations = 2
    None = Nil
SPECIFICATION SuiteSpec
SYMMETRY Symmetry
INVARIANTS TypesOK ContentIsReadable ReferredToIsKept
PROPERTIES UploadsCanBeEnqueued CancellationIsHonoured
CHECK_DEADLOCK FALSE
