---------------------------- MODULE MCTransport ----------------------------
(***************************************************************************)
(* An instance of Transport for TLC: more tasks than the pool may dial,    *)
(* and a flow with one write against two frames.                           *)
(***************************************************************************)
EXTENDS Transport, TLC

CONSTANTS f1, f2, f3, f4

FourFillers == {f1, f2, f3, f4}
Symmetry == Permutations(FourFillers)
=============================================================================
