------------------------------ MODULE MCHelper ------------------------------
(* Instances of Helper for TLC.                                            *)
EXTENDS Helper, TLC

CONSTANTS a, b, k

\* Peers that may send anything.
AnyRequests == [c \in Clients |-> RequestKinds]

\* One application and one health check.
AppAndProbe == [c \in Clients |-> IF c = a THEN RequestKinds ELSE {"Ping"}]

\* One application that connects and disconnects, and a terminal running
\* `easy emergency-restore` beside it.
AppBesideRestore ==
    [c \in Clients |-> IF c = a THEN {"Apply", "Teardown"} ELSE {"Restore"}]
=============================================================================
