SPECIFICATION FairSpec
CONSTANTS
    click = click
    fill = fill
    quit = quit
    k1 = k1
    k2 = k2
    Commands <- ClickAndQuit
    CloseCommands = {quit}
    Closers = {k1}
    Shutdown = Shutdown
    Stop = Stop
    None = None
PROPERTIES ImplementsContract ClosingEndsEveryCall
CHECK_DEADLOCK FALSE
