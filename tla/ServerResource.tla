--------------------------- MODULE ServerResource ---------------------------
(***************************************************************************)
(* What the panel may rely on about one server name, whoever implements    *)
(* it: the shape that providers/base.py and models.py give a server, and   *)
(* the life it leads.  GameServerRefinement shows that the operator        *)
(* implements this module.                                                 *)
(*                                                                         *)
(* An incarnation is created Pending, reports statuses, is asked to go and *)
(* goes; it is never revived, its uid is never used again, and no status   *)
(* of a predecessor is ever shown for it.                                  *)
(***************************************************************************)
EXTENDS Naturals

CONSTANT None

VARIABLES
  res,  \* the server of this name as the API shows it, or None
  last  \* uid of the newest incarnation

Phases == {"Pending", "Provisioning", "Running", "Stopping", "Error"}
Status == [phase: Phases, ready: BOOLEAN, address: BOOLEAN]
Fresh  == [phase |-> "Pending", ready |-> FALSE, address |-> FALSE]

(* "Server is live" is said only of a ready server with an address, and a  *)
(* server that waits to be scheduled has neither.                          *)
Coherent(st) ==
  /\ st.phase = "Running" => st.ready /\ st.address
  /\ st.phase = "Pending" => ~st.ready /\ ~st.address

Init == res = None /\ last = 0

Create ==
  /\ res = None
  /\ last' = last + 1
  /\ res' = [uid |-> last + 1, deleting |-> FALSE, status |-> Fresh]

Report(st) ==
  /\ res # None /\ Coherent(st)
  /\ st.phase = "Stopping" => res.deleting
  /\ res' = [res EXCEPT !.status = st]
  /\ UNCHANGED last

(* A deletion may have work to do first, or none. *)
Delete ==
  /\ res # None /\ ~res.deleting
  /\ res' \in {[res EXCEPT !.deleting = TRUE], None}
  /\ UNCHANGED last

Gone ==
  /\ res # None /\ res.deleting
  /\ res' = None
  /\ UNCHANGED last

Next == Create \/ Delete \/ Gone \/ \E st \in Status : Report(st)

vars == <<res, last>>

SafeSpec == Init /\ [][Next]_vars

(* A server that was asked to go goes. *)
Spec == SafeSpec /\ WF_vars(Gone)
=============================================================================
