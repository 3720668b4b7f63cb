SPECIFICATION Spec
CONSTANTS
    Tasks = {t1}
    Tabs = {a, b}
    Home = a
    Targets = {a, b}
    PageMoves = FALSE
    None = None
    MaxDoc = 1
    MaxControllers = 1
    MaxClients = 1
    MaxPages = 1
SYMMETRY MCSymmetry
INVARIANTS ActivePageIsCached
CHECK_DEADLOCK FALSE
