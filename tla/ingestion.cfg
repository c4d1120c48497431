\* Two contents, two daemons (or one and a CLI) and two services; bounded claims, tasks and
\* generations.
CONSTANTS
    Files = {f1}
    Docs = {d1, d2}
    d1 = d1
    d2 = d2
    s1 = s1
    w = w
    c = c
    PlainText = {}
    RestartTask = {d1}
    Services = {s1, s2}
    Daemons = {w1, w2}
    Clis = {}
    MaxAttempts = 2
    MaxClaims = 3
    MaxTasks = 2
    MaxGens = 2
    NoFile = NoFile
    NoDoc = NoDoc
    NoService = NoService
SPECIFICATION SuiteSpec
SYMMETRY DaemonSymmetry
INVARIANTS TypeOK PauseHasExecutor CheckpointPinsService DaemonsKeepOrder CliKeepsRecords
PROPERTIES StaleWorkersWriteNothing PublicationMovesForward ImplementsLibrary
CHECK_DEADLOCK FALSE
