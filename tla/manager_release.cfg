CONSTANTS
    Window = Window
    Other = Other
    Calls = {Window, Other}
    Ops <- TwoWindows
    Profiles <- TunnelAndProxy
    MaxConnects = 2
    TunIoCanFail = FALSE
SPECIFICATION FairSpec
INVARIANT NoOrphan
PROPERTY UnownedIsReleased
