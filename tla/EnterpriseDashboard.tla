------------------------- MODULE EnterpriseDashboard -------------------------
(***************************************************************************)
(* The administrator's cross-cluster view (EnterpriseDashboard.tsx): the   *)
(* badges of the clusters with their health, the servers of the selected   *)
(* cluster, the customers, the servers of the selected customer.           *)
(*                                                                         *)
(* Every request is sent once and none is numbered or cancelled: answers   *)
(* are applied as they come.  Of a list of servers the model keeps the     *)
(* request it answers.                                                     *)
(***************************************************************************)
EXTENDS Naturals

CONSTANTS
  Clusters,   \* cluster ids
  First,      \* the cluster GET /clusters lists first
  Customers,  \* customer ids
  Unset,       \* nothing selected, nothing shown
  MaxSelects  \* bound: selections while the dashboard is shown

Tables == {"cluster", "customer"}
Keys(t) == IF t = "cluster" THEN Clusters ELSE Customers

(* Requests: the two lists, a cluster's health, and the n-th selection of  *)
(* one of the two tables.                                                  *)
ListRequest == [op: {"clusters", "customers"}]
HealthRequest == [op: {"health"}, key: Clusters]
TableRequest ==
  [op: {"servers"}, table: {"cluster"}, key: Clusters, n: 0..MaxSelects]
    \cup [op: {"servers"}, table: {"customer"}, key: Customers, n: 0..MaxSelects]
Requests == ListRequest \cup HealthRequest \cup TableRequest

ASSUME DashboardAssumption ==
  /\ First \in Clusters /\ MaxSelects \in Nat
  /\ Unset \notin Clusters \cup Customers /\ Unset \notin TableRequest

VARIABLES
  listed,    \* which of the two lists have arrived
  healths,   \* the clusters whose health has arrived
  selected,  \* table |-> the key in its heading, or Unset
  rows,      \* table |-> the request whose answer it shows, or Unset
  loading,   \* table |-> does it say so
  error,     \* the banner
  flight,    \* requests in flight
  selects,   \* selections so far
  newest     \* table |-> the newest request answered with a list (history)

dashboardVars == <<listed, healths, selected, rows, loading, error, flight, selects, newest>>

DashboardTypeOK ==
  /\ listed \subseteq {"clusters", "customers"} /\ healths \subseteq Clusters
  /\ selected \in [Tables -> Clusters \cup Customers \cup {Unset}]
  /\ rows \in [Tables -> TableRequest \cup {Unset}]
  /\ loading \in [Tables -> BOOLEAN] /\ error \in BOOLEAN
  /\ flight \subseteq Requests /\ selects \in 0..MaxSelects
  /\ newest \in [Tables -> 0..MaxSelects]

(* Not shown.                                                              *)
Closed ==
  /\ listed = {} /\ healths = {} /\ error = FALSE /\ flight = {} /\ selects = 0
  /\ selected = [t \in Tables |-> Unset] /\ rows = [t \in Tables |-> Unset]
  /\ loading = [t \in Tables |-> FALSE] /\ newest = [t \in Tables |-> 0]

(* Mounted anew, its effects ask for the two lists; unmounted, nothing.    *)
Remounted(asked) ==
  /\ listed' = {} /\ healths' = {} /\ error' = FALSE /\ flight' = asked /\ selects' = 0
  /\ selected' = [t \in Tables |-> Unset] /\ rows' = [t \in Tables |-> Unset]
  /\ loading' = [t \in Tables |-> FALSE] /\ newest' = [t \in Tables |-> 0]

-----------------------------------------------------------------------------
Ask(t, k, n) == [op |-> "servers", table |-> t, key |-> k, n |-> n]

(* The clusters have arrived: one health request each, and the first one   *)
(* is selected, which asks for its servers.                                *)
ClustersDone(r) ==
  /\ r.op = "clusters"
  /\ listed' = listed \cup {"clusters"}
  /\ selected' = [selected EXCEPT !["cluster"] = First]
  /\ loading' = [loading EXCEPT !["cluster"] = TRUE]
  /\ flight' = (flight \ {r}) \cup HealthRequest \cup {Ask("cluster", First, 0)}
  /\ UNCHANGED <<healths, rows, error, selects, newest>>

CustomersDone(r) ==
  /\ r.op = "customers"
  /\ listed' = listed \cup {"customers"}
  /\ flight' = flight \ {r}
  /\ UNCHANGED <<healths, selected, rows, loading, error, selects, newest>>

HealthDone(r) ==
  /\ r.op = "health"
  /\ healths' = healths \cup {r.key}
  /\ flight' = flight \ {r}
  /\ UNCHANGED <<listed, selected, rows, loading, error, selects, newest>>

(* Any answer ends the loading of its table, an older one as well.         *)
ServersDone(r) ==
  /\ r.op = "servers"
  /\ rows' = [rows EXCEPT ![r.table] = r]
  /\ loading' = [loading EXCEPT ![r.table] = FALSE]
  /\ newest' = [newest EXCEPT ![r.table] = IF r.n > @ THEN r.n ELSE @]
  /\ flight' = flight \ {r}
  /\ UNCHANGED <<listed, healths, selected, error, selects>>

(* Mutant: setLoading(false) in then, not in finally. *)
Fails_loading(r) ==
  /\ flight' = flight \ {r}
  /\ error' = (error \/ r.op # "health")
  /\ UNCHANGED <<listed, healths, selected, rows, loading, selects, newest>>

(* A failed request: the banner appears and is never taken away; the table *)
(* keeps the servers it had.  A missing health says nothing.               *)
Fails(r) ==
  /\ flight' = flight \ {r}
  /\ error' = (error \/ r.op # "health")
  /\ loading' = IF r.op = "servers" THEN [loading EXCEPT ![r.table] = FALSE] ELSE loading
  /\ UNCHANGED <<listed, healths, selected, rows, selects, newest>>

Select(t, k) ==
  /\ selects < MaxSelects /\ selects' = selects + 1
  /\ selected' = [selected EXCEPT ![t] = k]
  /\ loading' = [loading EXCEPT ![t] = TRUE]
  /\ flight' = flight \cup {Ask(t, k, selects + 1)}
  /\ UNCHANGED <<listed, healths, rows, error, newest>>

(* Mutant: the effect that asks does not depend on the selection. *)
SelectCluster_once(k) ==
  /\ "clusters" \in listed /\ k # selected["cluster"]
  /\ selects < MaxSelects /\ selects' = selects + 1
  /\ selected' = [selected EXCEPT !["cluster"] = k]
  /\ UNCHANGED <<listed, healths, rows, loading, error, flight, newest>>

(* The effect runs when the selected cluster is another one; a customer is *)
(* asked for at every click.                                               *)
SelectCluster(k) == "clusters" \in listed /\ k # selected["cluster"] /\ Select("cluster", k)

SelectCustomer(k) == "customers" \in listed /\ Select("customer", k)

-----------------------------------------------------------------------------
Done(r) == ClustersDone(r) \/ CustomersDone(r) \/ HealthDone(r) \/ ServersDone(r)

Settle(r) == r \in flight /\ (Done(r) \/ Fails(r))

DashboardNext ==
  \/ \E r \in flight : Settle(r)
  \/ \E k \in Clusters : SelectCluster(k)
  \/ \E k \in Customers : SelectCustomer(k)

-----------------------------------------------------------------------------
Quiet(t) == \A r \in flight : r.op = "servers" => r.table # t

Overtaken(t) == rows[t] # Unset /\ rows[t].n < newest[t]

(* When nothing is under way for a table, it lists the servers of the key  *)
(* in its heading, unless a request failed, which the banner says, or an   *)
(* older answer came after a newer one, which nothing says.                *)
TableOfSelection ==
  \A t \in Tables :
    selected[t] # Unset /\ Quiet(t) /\ ~error /\ ~Overtaken(t)
    => rows[t] # Unset /\ rows[t].key = selected[t]

(* A table that says it is loading has a request under way.                *)
LoadingIsTrue == \A t \in Tables : loading[t] => ~Quiet(t)
=============================================================================
