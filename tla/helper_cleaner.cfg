CONSTANTS
    a = a
    b = b
    k = k
    Clients = {a}
    Cleaners = {k}
    Main = Main
    None = None
    Requests <- AnyRequests
    JournalCanFail = TRUE
    MaxCrashes = 2
SPECIFICATION FairSpec
INVARIANT CleanStart
PROPERTY RequestsAreAnswered
