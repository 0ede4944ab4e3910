------------------------ MODULE GameServerRefinement ------------------------
(***************************************************************************)
(* The operator implements ServerResource.  The mapping is the backend's   *)
(* own (providers/k8s.py, _to_server): what it shows of a resource is its  *)
(* status, with Pending for a resource that has none yet.                  *)
(***************************************************************************)
EXTENDS GameServerController

ShownStatus(st) == [phase   |-> IF st.phase = "none" THEN "Pending" ELSE st.phase,
                    ready   |-> st.ready, address |-> st.address]

Shown == IF cr = None THEN None
         ELSE [uid |-> cr.uid, deleting |-> cr.deleting, status |-> ShownStatus(cr.status)]

Contract == INSTANCE ServerResource WITH res <- Shown, last <- lastUid

(* What is shown of a resource, which is never None. *)
ShownType == [uid: Uids, deleting: BOOLEAN, status: Contract!Status]
ASSUME ShownAssumption == None \notin ShownType

(* Every step of the operator, of users, of the cluster and every fault is *)
(* a step of the abstract resource, or none: a deleted server is never     *)
(* shown again, a successor starts afresh, a phase agrees with ready and   *)
(* the address.                                                            *)
ResourceSafety == Contract!SafeSpec

(* ... and a deletion completes.                                           *)
ImplementsResource == Contract!Spec
=============================================================================
