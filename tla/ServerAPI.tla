------------------------------ MODULE ServerAPI ------------------------------
(***************************************************************************)
(* The routes that create, delete and list servers (routers/servers.py,    *)
(* clusters.py, customers.py), scoped by tenancy (tenancy/scope.py), over   *)
(* the provider of each registered cluster (clusters/registry.py).         *)
(*                                                                         *)
(* A replica of the backend runs one request at a time, because no         *)
(* provider call yields to the event loop; several replicas, the operator  *)
(* and other clients act between two calls of one request.                 *)
(***************************************************************************)
EXTENDS Naturals, FiniteSets

CONSTANTS
  Replicas,    \* backend processes
  Clusters,    \* registered clusters
  Local,       \* the cluster of the provider that is injected
  Providers,   \* clusters a provider can be resolved for
  Callers,     \* accounts
  Admins,      \* platform administrators among them
  Customers,
  CustomerOf,  \* caller |-> its customer, or None (a Google account)
  Names,
  None,
  MaxUid       \* bound: servers ever created

ASSUME ApiAssumption ==
  /\ IsFiniteSet(Clusters) /\ Local \in Providers /\ Providers \subseteq Clusters \cup {Local}
  /\ Admins \subseteq Callers
  /\ CustomerOf \in [Callers -> Customers \cup {None}]
  /\ None \notin Customers \cup Names /\ "visible" \notin Customers \cup {None}
  /\ MaxUid \in Nat

Sites == Clusters \cup {Local}

(* What the routes tell apart: GameServer with its owner; a server that is *)
(* being deleted is still listed.                                          *)
Server == [uid: 1..MaxUid, owner: Customers \cup {None}, leaving: BOOLEAN]

ASSUME ServerAssumption == None \notin Server

VARIABLES
  servers,  \* cluster |-> name |-> Server or None
  job,      \* replica |-> the request it is serving
  lastUid

vars == <<servers, job, lastUid>>

(* A listed server. *)
Entry == [site: Sites, uid: 1..MaxUid, owner: Customers \cup {None}]

EntryOf(cl, s) == [site |-> cl, uid |-> s.uid, owner |-> s.owner]

Listing(store, cl) ==
  {EntryOf(cl, store[cl][n]) : n \in {m \in Names : store[cl][m] # None}}

Asked(store, sites) == UNION {Listing(store, cl) : cl \in sites}

(* must and may are history: of the clusters a request asks, the servers   *)
(* that were listed all the time since it began (in those that answer),    *)
(* and the servers that were listed at some time.                          *)
Idle == [op |-> "idle"]
Deleting == [op: {"delete"}, caller: Callers, name: Names, uid: 1..MaxUid]
Listings == [op: {"list"}, caller: Callers, scope: Customers \cup {"visible"}, strict: BOOLEAN,
             asked: SUBSET Sites, todo: SUBSET Sites, got: SUBSET Entry,
             must: SUBSET Entry, may: SUBSET Entry]

TypeOK ==
  /\ servers \in [Sites -> [Names -> Server \cup {None}]]
  /\ job \in [Replicas -> {Idle} \cup Deleting \cup Listings]
  /\ lastUid \in 0..MaxUid

Init ==
  /\ servers = [cl \in Sites |-> [n \in Names |-> None]]
  /\ job = [r \in Replicas |-> Idle]
  /\ lastUid = 0

-----------------------------------------------------------------------------
(* Tenancy. *)
Owns(c, owner) == owner # None /\ owner = CustomerOf[c]

Visible(c, owner) == c \in Admins \/ Owns(c, owner)

(* Mutant: the owner is the caller, not its customer. *)
OwnerFor_caller(c, option) ==
  IF c \notin Admins /\ CustomerOf[c] # None THEN c ELSE option

(* Non-admins that have a customer create for it; options say the rest. *)
OwnerFor(c, option) ==
  IF c \notin Admins /\ CustomerOf[c] # None THEN CustomerOf[c] ELSE option

(* The servers of the clusters a request asks change, and what is true of  *)
(* the requests that are listing them.                                     *)
Watched(j, store) ==
  IF j.op # "list" THEN j
  ELSE LET now == Asked(store, j.asked) IN
       [j EXCEPT !.must = @ \cap now, !.may = @ \cup now]

Store(jobs, store) ==
  /\ servers' = store
  /\ job' = [r \in Replicas |-> Watched(jobs[r], store)]

Put(cl, n, s) == [servers EXCEPT ![cl] = [@ EXCEPT ![n] = s]]

-----------------------------------------------------------------------------
(* POST /servers: one call; a name that is taken is refused. *)
Create(r, c, n, option) ==
  /\ job[r] = Idle /\ lastUid < MaxUid /\ servers[Local][n] = None
  /\ lastUid' = lastUid + 1
  /\ Store(job, Put(Local, n, [uid |-> lastUid + 1, owner |-> OwnerFor(c, option),
                               leaving |-> FALSE]))

(* Mutant: the route deletes without looking. *)
BeginDelete_unchecked(r, c, n) ==
  /\ job[r] = Idle /\ servers[Local][n] # None
  /\ job' = [job EXCEPT ![r] = [op |-> "delete", caller |-> c, name |-> n,
                                uid |-> servers[Local][n].uid]]
  /\ UNCHANGED <<servers, lastUid>>

(* DELETE /servers/{name}: the owner is looked up, *)
BeginDelete(r, c, n) ==
  /\ job[r] = Idle /\ servers[Local][n] # None
  /\ Visible(c, servers[Local][n].owner)
  /\ job' = [job EXCEPT ![r] = [op |-> "delete", caller |-> c, name |-> n,
                                uid |-> servers[Local][n].uid]]
  /\ UNCHANGED <<servers, lastUid>>

(* then the name is deleted, at once (mock) or when its finalizer is       *)
(* lifted (Others); or the call fails, as it does when the name is free.   *)
DoDelete(r) ==
  /\ job[r].op = "delete"
  /\ LET s == servers[Local][job[r].name]
         done == [job EXCEPT ![r] = Idle]
     IN \/ job' = done /\ UNCHANGED servers
        \/ /\ s # None
           /\ \E t \in {[s EXCEPT !.leaving = TRUE], None} :
                Store(done, Put(Local, job[r].name, t))
  /\ UNCHANGED lastUid

(* The listing routes: which clusters they ask, what they keep of it, and  *)
(* whether a cluster that cannot be asked fails the request (strict) or is *)
(* left out.  First GET /servers and /clusters/{id}/servers,               *)
SiteRoutes == {[scope |-> "visible", targets |-> {cl}, strict |-> TRUE] : cl \in Sites}

(* then /clusters/rollup/servers,                                          *)
RollupRoute == [scope |-> "visible", targets |-> Clusters, strict |-> FALSE]

(* and /customers/{id}/servers, which asks a single cluster directly.      *)
CustomerRoutes(c) ==
  LET single == Cardinality(Clusters) <= 1 IN
  {[scope |-> k, targets |-> IF single THEN {Local} ELSE Clusters, strict |-> single] :
     k \in {x \in Customers : c \in Admins \/ x = CustomerOf[c]}}

Routes(c) == SiteRoutes \cup {RollupRoute} \cup CustomerRoutes(c)

BeginList(r, c, route) ==
  /\ job[r] = Idle
  /\ LET now == Asked(servers, route.targets) IN
     job' = [job EXCEPT ![r] =
       [op |-> "list", caller |-> c, scope |-> route.scope, strict |-> route.strict,
        asked |-> route.targets, todo |-> route.targets, got |-> {}, must |-> now, may |-> now]]
  /\ UNCHANGED <<servers, lastUid>>

Fetch(r, cl) ==
  /\ job[r].op = "list" /\ cl \in job[r].todo \cap Providers
  /\ job' = [job EXCEPT ![r] = [job[r] EXCEPT !.todo = @ \ {cl},
                                              !.got = @ \cup Listing(servers, cl)]]
  /\ UNCHANGED <<servers, lastUid>>

(* Mutant: one cluster that cannot be asked empties the answer. *)
Unanswered_empties(j, cl) ==
  IF j.strict THEN Idle
  ELSE [j EXCEPT !.todo = @ \ {cl}, !.got = {}, !.must = {e \in @ : e.site # cl}]

Unanswered(j, cl) ==
  IF j.strict THEN Idle
  ELSE [j EXCEPT !.todo = @ \ {cl}, !.must = {e \in @ : e.site # cl}]

(* There is no provider for the cluster, or its call fails. *)
FetchFails(r, cl) ==
  /\ job[r].op = "list" /\ cl \in job[r].todo
  /\ job' = [job EXCEPT ![r] = Unanswered(job[r], cl)]
  /\ UNCHANGED <<servers, lastUid>>

(* The tenancy filter, applied after the merge. *)
Kept(j) ==
  {e \in j.got : IF j.scope = "visible" THEN Visible(j.caller, e.owner) ELSE e.owner = j.scope}

Answered(j) == j.op = "list" /\ j.todo = {}

EndList(r) ==
  /\ Answered(job[r])
  /\ job' = [job EXCEPT ![r] = Idle]
  /\ UNCHANGED <<servers, lastUid>>

(* Other clients of the clusters; the operator that lifts a finalizer. *)
Others(cl, n) ==
  /\ \/ /\ servers[cl][n] = None /\ lastUid < MaxUid /\ lastUid' = lastUid + 1
        /\ \E k \in Customers \cup {None} :
             Store(job, Put(cl, n, [uid |-> lastUid + 1, owner |-> k, leaving |-> FALSE]))
     \/ /\ servers[cl][n] # None /\ UNCHANGED lastUid
        /\ Store(job, Put(cl, n, None))

Next ==
  \/ \E r \in Replicas, c \in Callers :
       \/ \E n \in Names, k \in Customers \cup {None} : Create(r, c, n, k)
       \/ \E n \in Names : BeginDelete(r, c, n)
       \/ \E route \in Routes(c) : BeginList(r, c, route)
  \/ \E r \in Replicas : DoDelete(r) \/ EndList(r)
  \/ \E r \in Replicas, cl \in Sites : Fetch(r, cl) \/ FetchFails(r, cl)
  \/ \E cl \in Sites, n \in Names : Others(cl, n)

Spec == Init /\ [][Next]_vars

-----------------------------------------------------------------------------
(* An answer is true of the time it took.  Whatever failed elsewhere, it   *)
(* has every server the caller may see that was there throughout in a      *)
(* cluster that could be asked; it has none that never was there, and none *)
(* of another customer.                                                    *)
AnswersTrue ==
  \A r \in Replicas : LET j == job[r] IN
    Answered(j) =>
      /\ Kept(j) \subseteq j.may
      /\ \A e \in Kept(j) :
           j.caller \in Admins \/ (CustomerOf[j.caller] # None /\ e.owner = CustomerOf[j.caller])
      /\ \A e \in j.must :
           j.scope \in {"visible", e.owner} /\ Visible(j.caller, e.owner)
             => e \in Kept(j)

(* A delete removes what its caller may see, unless the name has changed   *)
(* hands since the route looked: never a server older than that.           *)
DeletesWhatItSaw ==
  [][\A r \in Replicas :
       DoDelete(r) /\ servers' # servers =>
         LET s == servers[Local][job[r].name] IN
         Visible(job[r].caller, s.owner) \/ s.uid > job[r].uid]_vars
=============================================================================
