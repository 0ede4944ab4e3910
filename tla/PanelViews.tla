------------------------------ MODULE PanelViews ------------------------------
(***************************************************************************)
(* The two tabs of an administrator's panel (App.tsx): the list of servers *)
(* with a metrics panel on each card, modelled for one of them, and the    *)
(* cross-cluster dashboard.  Only the shown one is mounted: switching      *)
(* drops the state of the other and whatever it was waiting for.           *)
(*                                                                         *)
(* The pod and its sample change in the servers view only: nothing reads   *)
(* them in the other, so a change there is one just before or after.       *)
(***************************************************************************)
EXTENDS ServerMetrics, EnterpriseDashboard

CONSTANT
  MaxClicks   \* bound: switches of the view

ASSUME ViewsAssumption == MaxClicks \in Nat

VARIABLES view, clicks

vars == <<view, clicks, metricsVars, dashboardVars>>

TypeOK ==
  /\ view \in {"servers", "enterprise"} /\ clicks \in 0..MaxClicks
  /\ MetricsTypeOK /\ DashboardTypeOK

Init == view = "servers" /\ clicks = 0 /\ MetricsInit /\ Closed

Click(from, to) ==
  /\ view = from /\ view' = to
  /\ clicks < MaxClicks /\ clicks' = clicks + 1

ShowEnterprise ==
  /\ Click("servers", "enterprise")
  /\ Cancel /\ Remounted(ListRequest)
  /\ UNCHANGED <<pod, sample, changes, faults>>

ShowServers ==
  /\ Click("enterprise", "servers")
  /\ Remounted({})
  /\ UNCHANGED metricsVars

InServers == view = "servers" /\ UNCHANGED <<view, clicks, dashboardVars>>
InEnterprise == view = "enterprise" /\ UNCHANGED <<view, clicks, metricsVars>>

Next ==
  \/ InServers /\ MetricsNext
  \/ InEnterprise /\ DashboardNext
  \/ ShowEnterprise \/ ShowServers

SafeSpec == Init /\ [][Next]_vars

(* What the shown view does by itself: it polls, the backend answers, the  *)
(* answers are applied.                                                    *)
Fairness ==
  /\ WF_vars(InServers /\ \E p \in Polls : Serve(p))
  /\ WF_vars(InServers /\ \E ok \in BOOLEAN : Read(ok))
  /\ \A p \in Polls : WF_vars(InServers /\ Poll(p)) /\ WF_vars(InServers /\ Apply(p))
  /\ \A r \in Requests : WF_vars(InEnterprise /\ Settle(r))

Spec == SafeSpec /\ Fairness

-----------------------------------------------------------------------------
(* A table does not say "Loading" for ever, nor when nothing is asked for: *)
(* the last answer, or failure, ends it.                                   *)
LoadingEnds == \A t \in Tables : loading[t] ~> ~loading[t]
=============================================================================
