SPECIFICATION Spec
CONSTANTS
    Tasks = {t1, t2}
    Tabs = {a, b}
    Home = a
    Targets = {}
    PageMoves = FALSE
    None = None
    MaxDoc = 0
    MaxControllers = 2
    MaxClients = 2
    MaxPages = 2
SYMMETRY MCSymmetry
INVARIANTS ClientsReleased
CHECK_DEADLOCK FALSE
