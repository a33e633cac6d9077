--------------------------- MODULE MCProfileStore ---------------------------
(***************************************************************************)
(* An instance of ProfileStore for TLC.                                    *)
(***************************************************************************)
EXTENDS ProfileStore

CONSTANTS i1, i2, r1, r2, r3, h1, h2
=============================================================================
