------------------------------ MODULE MCStops ------------------------------
(***************************************************************************)
(* Instances of StopIntents for TLC, with the samples of MCController.     *)
(***************************************************************************)
EXTENDS MCController, StopIntents

=============================================================================
