------------------------------- MODULE MCPanel -------------------------------
(* One customer's user and one administrator; the keys are in the .cfg.     *)
EXTENDS PanelSession
=============================================================================
