------------------------------ MODULE MCTransmit ------------------------------
(***************************************************************************)
(* Instances of Transmit for TLC.                                          *)
(***************************************************************************)
EXTENDS Transmit, TLC

Symmetry == Permutations(Services)
=============================================================================
