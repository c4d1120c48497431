\* Small instances: one or two of everything, one fault; no symmetry.
CONSTANTS
    Nil = Nil
SPECIFICATION FairSpec
PROPERTIES WorkIsSettled
CHECK_DEADLOCK FALSE
