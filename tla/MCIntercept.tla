---------------------------- MODULE MCIntercept ----------------------------
(***************************************************************************)
(* An instance of Intercept for TLC.  Three queries are needed to share a  *)
(* pooled stream: one leaves it, two meet on it.                           *)
(***************************************************************************)
EXTENDS Intercept

CONSTANTS t1, t2, t3, p1

ThreeWithoutGateway == [gw \in BOOLEAN |-> IF gw THEN 2 ELSE 3]
=============================================================================
