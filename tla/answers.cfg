\* Two requests and coordinators; two elements, three retrieved passages; two citations, statements and turns.
CONSTANTS
    Nil = Nil
    Pair = {a, b}
    Requests = {"r1", "b1"}
    Background = {"b1"}
    Processes = {a, b}
    MaxCapacity = 2
    MaxVersion = 2
    NoRequest = Nil
SPECIFICATION SuiteSpec
SYMMETRY Symmetry
INVARIANTS TypesOK SavedAnswersAreWhole AcceptedCompiles AdmittedOnce
PROPERTIES SlotsAreFenced
CHECK_DEADLOCK FALSE
