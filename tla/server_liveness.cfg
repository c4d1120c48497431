\* Small instances: one or two of everything, one failure; no symmetry.
CONSTANTS
    Nil = Nil
SPECIFICATION FairSpec
PROPERTIES ServerKeepsUp
CHECK_DEADLOCK FALSE
