SPECIFICATION FairSpec
CONSTANTS
    click = click
    fill = fill
    quit = quit
    k1 = k1
    k2 = k2
    Commands = {click}
    CloseCommands = {}
    Closers = {k1}
    Shutdown = Shutdown
    Stop = Stop
    None = None
PROPERTIES CancellationEnds CloseEnds OwnerExits
CHECK_DEADLOCK FALSE
