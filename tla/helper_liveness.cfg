CONSTANTS
    a = a
    b = b
    k = k
    Clients = {a, b}
    Cleaners = {}
    Main = Main
    None = None
    Requests <- AppBesideRestore
    JournalCanFail = FALSE
    MaxCrashes = 1
SPECIFICATION FairSpec
 
PROPERTY OrphanIsRemoved
