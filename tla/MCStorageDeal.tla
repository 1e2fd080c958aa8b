--------------------------- MODULE MCStorageDeal ---------------------------
(***************************************************************************)
(* Instances of StorageDeal for TLC: a proposal and its repetition, one    *)
(* transfer channel, imports and two calls of the assigner.                *)
(***************************************************************************)
EXTENDS StorageDeal

CONSTANTS s1, s2, c1, i1, i2, a1, a2
=============================================================================
