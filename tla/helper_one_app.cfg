CONSTANTS
    a = a
    b = b
    k = k
    Clients = {a, b}
    Cleaners = {}
    Main = Main
    None = None
    Requests <- AppAndProbe
    JournalCanFail = FALSE
    MaxCrashes = 2
SPECIFICATION FairSpec
INVARIANT SessionIsApplied
INVARIANT NothingLeftBehind
PROPERTY LeaseIsGivenBack
