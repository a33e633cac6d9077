---------------------------- MODULE TunnelLease ----------------------------
(***************************************************************************)
(* What the privileged helper promises an application, and all that the    *)
(* connection manager takes for granted of it: the host's networking is    *)
(* lent to one session at a time, over one connection.  The session ends   *)
(* it, or the helper does so once it lost the connection; it never passes  *)
(* from one session to another, and a lost connection does not come back.  *)
(*                                                                         *)
(* Helper implements it while one connection controls the helper, and      *)
(* ConnectionManager, whose helper is abstract, implements it with any     *)
(* number of calls in flight.                                              *)
(***************************************************************************)
CONSTANTS Owners, NoOwner

VARIABLES
    holder,  \* the session whose networking is applied
    alive    \* its connection is open

lease == <<holder, alive>>

Init == holder = NoOwner /\ alive = FALSE

\* Apply is answered.  The connection may have ended meanwhile.
Grant(o) ==
    /\ holder = NoOwner
    /\ holder' = o
    /\ alive' \in BOOLEAN

Lose ==
    /\ holder # NoOwner /\ alive
    /\ holder' = holder
    /\ alive' = FALSE

\* Teardown, the cleanup after a lost connection, or the end of the helper
End ==
    /\ holder # NoOwner
    /\ holder' = NoOwner
    /\ alive' = FALSE

Next == (\E o \in Owners : Grant(o)) \/ Lose \/ End

Spec == Init /\ [][Next]_lease

\* A session whose connection is lost is ended by the helper.
FairSpec == Spec /\ WF_lease(~alive /\ End)
=============================================================================
