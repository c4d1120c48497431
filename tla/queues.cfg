\* Two runs, jobs or servers and two handlers, two claims; bounded attempts, failures and time.
CONSTANTS
    Nil = Nil
    Pair = {a, b}
    Runs = {a, b}
    Handlers = {"h1", "h2"}
    MaxAttempts = 2
    NoRun = Nil
SPECIFICATION SuiteSpec
SYMMETRY Symmetry
INVARIANTS TypesOK HoldersAreBounded ResultsAreCurrent VerdictsMatchScores
PROPERTIES FinishedIsFinal RunsImplementFencedWork JobsImplementFencedWork
CHECK_DEADLOCK FALSE
