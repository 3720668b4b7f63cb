SPECIFICATION Spec
CONSTANTS
    click = click
    fill = fill
    quit = quit
    k1 = k1
    k2 = k2
    Commands <- ClickAndFill
    CloseCommands = {}
    Closers = {k1}
    Shutdown = Shutdown
    Stop = Stop
    None = None
INVARIANTS TypeOK CancelledIsQuiet RejectedNeverRan
PROPERTIES NothingRunsAfterClosing
SYMMETRY Interchangeable
CHECK_DEADLOCK FALSE
