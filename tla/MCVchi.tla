-------------------------------- MODULE MCVchi --------------------------------
(***************************************************************************)
(* Instances of Vchi for TLC.                                              *)
(***************************************************************************)
EXTENDS Vchi
=============================================================================
