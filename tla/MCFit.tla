------------------------------- MODULE MCFit -------------------------------
(***************************************************************************)
(* The instance of Fit for TLC.                                            *)
(***************************************************************************)
EXTENDS Fit
=============================================================================
