-------------------------- MODULE MCDealPublisher --------------------------
(***************************************************************************)
(* Instances of DealPublisher for TLC.                                     *)
(***************************************************************************)
EXTENDS DealPublisher

CONSTANTS d1, d2, d3
=============================================================================
