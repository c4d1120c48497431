\* Two threads and two chats; bounded requests, loads, failures and changes.
CONSTANTS
    Nil = Nil
    Pair = {a, b}
SPECIFICATION Spec
SYMMETRY Symmetry
INVARIANTS TypeOK ShownIsCurrent StreamsLetGo
PROPERTIES NothingComesBack
CHECK_DEADLOCK FALSE
