----------------------------- MODULE MCServerAPI -----------------------------
(* An administrator, a customer's user and a Google account without a      *)
(* customer; the local cluster, a remote one and one without a provider.   *)
(* Replicas are interchangeable.                                           *)
EXTENDS ServerAPI, TLC

MCCustomerOf == [root |-> None, ana |-> "acme", guest |-> None]

Symmetry == Permutations(Replicas)
=============================================================================
