----------------------------- MODULE MCAccounts -----------------------------
(* Two processes; the processes and the keys are given in the .cfg.         *)
EXTENDS Accounts
=============================================================================
