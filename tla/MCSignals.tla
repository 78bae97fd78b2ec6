------------------------------ MODULE MCSignals ------------------------------
(***************************************************************************)
(* The instance of Signals for TLC.  It checks liveness, so it uses no     *)
(* symmetry.                                                               *)
(***************************************************************************)
EXTENDS Signals
=============================================================================
