CONSTANTS
    i1 = i1
    i2 = i2
    r1 = r1
    r2 = r2
    r3 = r3
    h1 = h1
    h2 = h2
    Ids = {i1, i2}
    Refs = {r1, r2, r3}
    Hosts = {h1, h2}
    Actors = {"gui", "bg", "cli"}
    MaxCommands = 3
    MaxCrashes = 1
SPECIFICATION Spec
INVARIANTS VaultIsWhole   StartedIsComplete
CHECK_DEADLOCK FALSE
