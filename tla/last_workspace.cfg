\* Two requests of an administrator in an installation with two workspaces.
CONSTANTS
    Parts = {"accounts"}
    Nil = Nil
    Pair = {a, b}
    Others = {c, d}
    Users = {a, b}
    Savers = {c, d}
    Controller = Nil
    MaxVersion = 3
SPECIFICATION SuiteSpec
INVARIANTS WorkspaceRemains
CHECK_DEADLOCK FALSE
