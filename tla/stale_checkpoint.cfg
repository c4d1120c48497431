\* A CLI ingestion prepares another content while a worker converts the first.
CONSTANTS
    Files = {f1}
    Docs = {d1, d2}
    PlainText = {}
    RestartTask = {d1, d2}
    Services = {s1}
    Daemons = {w1}
    Clis = {c1}
    MaxAttempts = 2
    MaxClaims = 2
    MaxTasks = 1
    MaxGens = 2
    NoFile = NoFile
    NoDoc = NoDoc
    NoService = NoService
SPECIFICATION Spec
INVARIANTS ElementsMatchContent
CHECK_DEADLOCK FALSE
