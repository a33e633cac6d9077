CONSTANTS
    Window = Window
    Other = Other
    Calls = {Window, Other}
    Ops <- TwoWindows
    Profiles <- DefaultPorts
    MaxConnects = 2
    TunIoCanFail = TRUE
SPECIFICATION Spec
INVARIANTS TypeOK 
 
