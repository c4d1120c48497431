\* Pairs of requests, links, users and administrators; bounded versions, passwords and sign-ins.
CONSTANTS
    Parts = {"accounts", "passwords", "oauth", "settings", "credentials", "signin", "runtime"}
    Nil = Nil
    Pair = {a, b}
    Others = {c, d}
    Users = {a, b}
    Savers = {c, d}
    Controller = Nil
    MaxVersion = 3
SPECIFICATION SuiteSpec
SYMMETRY Symmetry
INVARIANTS TypesOK AccountsStayUsable SettingsHoldTogether LeasedIsOpen
PROPERTIES NoStaleStep
CHECK_DEADLOCK FALSE
