--------------------------- MODULE ServerAPI_proofs ---------------------------
(***************************************************************************)
(* Types, true answers and checked deletes of ServerAPI, for any number of *)
(* replicas, clusters, callers and names.                                  *)
(***************************************************************************)
EXTENDS ServerAPI, TLAPS

Jobs == {Idle} \cup Deleting \cup Listings

Stores == [Sites -> [Names -> Server \cup {None}]]

(* A delete under way: the server under the name is the one that was       *)
(* looked at, or a newer one.                                              *)
DeleteOK(j, store, last) ==
  j.op = "delete" =>
    LET s == store[Local][j.name] IN
    /\ j.uid <= last
    /\ s # None => s.uid > j.uid \/ Visible(j.caller, s.owner)

(* A listing under way: what it must still find is there to be found.      *)
ListOK(j, store) ==
  j.op = "list" =>
    /\ j.todo \subseteq j.asked
    /\ j.got \subseteq j.may
    /\ j.must \subseteq Asked(store, j.asked)
    /\ Asked(store, j.asked) \subseteq j.may
    /\ \A e \in j.must : e.site \notin j.todo => e \in j.got
    /\ j.scope # "visible" => j.caller \in Admins \/ j.scope = CustomerOf[j.caller]

JobsOK == \A r \in Replicas : DeleteOK(job[r], servers, lastUid) /\ ListOK(job[r], servers)

(* uids are given in order. *)
NewestInv == \A cl \in Sites, n \in Names : servers[cl][n] # None => servers[cl][n].uid <= lastUid

ApiInv == TypeOK /\ NewestInv /\ JobsOK

-----------------------------------------------------------------------------
LEMMA LocalSite == Local \in Sites /\ Clusters \subseteq Sites
  BY DEF Sites

(* The kinds of job are told apart by op. *)
LEMMA Kinds ==
  ASSUME NEW j \in Jobs
  PROVE  /\ j.op = "delete" => j \in Deleting
         /\ j.op = "list" => j \in Listings
         /\ j.op \in {"idle", "delete", "list"}
  BY DEF Jobs, Idle, Deleting, Listings

LEMMA IdleOK == \A store, last : Idle \in Jobs /\ DeleteOK(Idle, store, last) /\ ListOK(Idle, store)
  BY DEF Idle, Jobs, DeleteOK, ListOK

(* What is listed is an entry of the cluster it is listed for. *)
LEMMA AskedType ==
  ASSUME NEW store \in Stores, NEW sites \in SUBSET Sites
  PROVE  /\ Asked(store, sites) \subseteq Entry
         /\ \A cl \in sites : Listing(store, cl) \subseteq Asked(store, sites)
         /\ \A e \in Asked(store, sites) : e.site \in sites /\ e \in Listing(store, e.site)
<1>1. ASSUME NEW cl \in Sites, NEW n \in Names, store[cl][n] # None
      PROVE  EntryOf(cl, store[cl][n]) \in Entry /\ EntryOf(cl, store[cl][n]).site = cl
  <2>1. store[cl][n] \in Server
    BY <1>1 DEF Stores
  <2> QED
    BY <2>1 DEF Server, Entry, EntryOf
<1>2. \A cl \in Sites : Listing(store, cl) \subseteq Entry /\ \A e \in Listing(store, cl) : e.site = cl
  BY <1>1 DEF Listing
<1> QED
  BY <1>2 DEF Asked

(* Put changes one slot. *)
LEMMA PutType ==
  ASSUME servers \in Stores, NEW cl \in Sites, NEW n \in Names, NEW s \in Server \cup {None}
  PROVE  /\ Put(cl, n, s) \in Stores
         /\ Put(cl, n, s)[cl][n] = s
         /\ \A d \in Sites, m \in Names : d # cl \/ m # n => Put(cl, n, s)[d][m] = servers[d][m]
  BY DEF Put, Stores

(* A request that is not served at the moment keeps its invariant when the *)
(* servers change.                                                         *)
LEMMA WatchedOK ==
  ASSUME NEW j \in Jobs, NEW store \in Stores, NEW last,
         DeleteOK(j, store, last), ListOK(j, servers)
  PROVE  /\ Watched(j, store) \in Jobs
         /\ DeleteOK(Watched(j, store), store, last)
         /\ ListOK(Watched(j, store), store)
<1>1. CASE j.op # "list"
  BY <1>1 DEF Watched, ListOK
<1>2. CASE j.op = "list"
  <2> DEFINE now == Asked(store, j.asked)
             k == [j EXCEPT !.must = @ \cap now, !.may = @ \cup now]
  <2>1. j \in Listings
    BY <1>2, Kinds
  <2>2. j.asked \subseteq Sites
    BY <2>1 DEF Listings
  <2>3. now \subseteq Entry
    BY <2>2, AskedType
  <2>4. Watched(j, store) = k
    BY <1>2 DEF Watched
  <2> HIDE DEF now
  <2>5. /\ k \in Listings
        /\ k.op = "list" /\ k.caller = j.caller /\ k.scope = j.scope
        /\ k.asked = j.asked /\ k.todo = j.todo /\ k.got = j.got
        /\ k.must = j.must \cap now /\ k.may = j.may \cup now
    BY <2>1, <2>3 DEF Listings
  <2> HIDE DEF k
  <2>6. ListOK(k, store)
    BY <1>2, <2>5 DEF ListOK, now
  <2> QED
    BY <2>4, <2>5, <2>6 DEF Jobs, DeleteOK
<1> QED
  BY <1>1, <1>2

(* One slot changes: to nothing, to a new server, or to the same server    *)
(* about to leave.                                                         *)
LEMMA StoreStep ==
  ASSUME ApiInv, NEW jobs \in [Replicas -> Jobs],
         \A r \in Replicas : jobs[r] \in {job[r], Idle},
         NEW cl \in Sites, NEW n \in Names, NEW s \in Server \cup {None},
         Store(jobs, Put(cl, n, s)),
         lastUid' \in 0..MaxUid, lastUid' >= lastUid,
         \/ s = None
         \/ s.uid = lastUid + 1 /\ lastUid' = lastUid + 1
         \/ servers[cl][n] # None /\ s.uid = servers[cl][n].uid /\ s.owner = servers[cl][n].owner
  PROVE  ApiInv'
<1> DEFINE store == Put(cl, n, s)
<1>1. servers \in Stores /\ lastUid \in Nat /\ lastUid' \in Nat
  BY ApiAssumption DEF ApiInv, TypeOK, Stores
<1>2. /\ store \in Stores /\ store[cl][n] = s
      /\ \A d \in Sites, m \in Names : d # cl \/ m # n => store[d][m] = servers[d][m]
  BY <1>1, PutType
<1>3. servers' = store /\ job' = [r \in Replicas |-> Watched(jobs[r], store)]
  BY DEF Store
<1> HIDE DEF store
<1>4. ASSUME NEW r \in Replicas
      PROVE  DeleteOK(jobs[r], store, lastUid')
  <2>1. CASE jobs[r] = Idle
    BY <2>1, IdleOK
  <2>2. CASE jobs[r] = job[r] /\ job[r].op = "delete"
    <3>1. job[r] \in Deleting
      BY <2>2, Kinds
    <3>2. job[r].uid \in Nat /\ job[r].name \in Names
      BY <3>1, ApiAssumption DEF Deleting
    <3>3. DeleteOK(job[r], servers, lastUid)
      BY DEF ApiInv, JobsOK
    <3>4. job[r].uid <= lastUid'
      BY <1>1, <2>2, <3>2, <3>3 DEF DeleteOK
    <3>5. CASE cl = Local /\ n = job[r].name
      <4>1. store[Local][job[r].name] = s
        BY <1>2, <3>5
      <4>2. s.uid = lastUid + 1 => s.uid > job[r].uid
        BY <1>1, <2>2, <3>2, <3>3 DEF DeleteOK
      <4> QED
        BY <2>2, <3>3, <3>4, <3>5, <4>1, <4>2 DEF DeleteOK
    <3>6. CASE cl # Local \/ n # job[r].name
      <4>1. store[Local][job[r].name] = servers[Local][job[r].name]
        BY <1>2, <3>2, <3>6, LocalSite
      <4> QED
        BY <2>2, <3>3, <3>4, <4>1 DEF DeleteOK
    <3> QED
      BY <3>5, <3>6
  <2>3. CASE jobs[r] = job[r] /\ job[r].op # "delete"
    BY <2>3 DEF DeleteOK
  <2> QED
    BY <2>1, <2>2, <2>3
<1>5. ASSUME NEW r \in Replicas
      PROVE  /\ job'[r] \in Jobs
             /\ DeleteOK(job'[r], store, lastUid') /\ ListOK(job'[r], store)
  <2>1. jobs[r] \in Jobs /\ ListOK(jobs[r], servers)
    BY IdleOK DEF ApiInv, JobsOK
  <2>2. job'[r] = Watched(jobs[r], store)
    BY <1>3
  <2> QED
    BY <1>2, <1>4, <2>1, <2>2, WatchedOK
<1>6. job' \in [Replicas -> Jobs]
  BY <1>3, <1>5
<1>7. ASSUME NEW d \in Sites, NEW m \in Names, store[d][m] # None
      PROVE  store[d][m].uid <= lastUid'
  <2>1. CASE d = cl /\ m = n
    <3>1. store[d][m] = s /\ s # None
      BY <1>2, <1>7, <2>1
    <3>2. CASE s.uid = lastUid + 1 /\ lastUid' = lastUid + 1
      BY <1>1, <3>1, <3>2
    <3>3. CASE servers[cl][n] # None /\ s.uid = servers[cl][n].uid
      <4>1. servers[cl][n] \in Server
        BY <1>1, <3>3 DEF Stores
      <4>2. s.uid \in Nat /\ s.uid <= lastUid
        BY <3>3, <4>1, ApiAssumption DEF Server, ApiInv, NewestInv
      <4> QED
        BY <1>1, <3>1, <4>2
    <3> QED
      BY <3>1, <3>2, <3>3
  <2>2. CASE d # cl \/ m # n
    <3>1. store[d][m] = servers[d][m]
      BY <1>2, <2>2
    <3>2. servers[d][m] \in Server
      BY <1>1, <1>7, <3>1 DEF Stores
    <3>3. servers[d][m].uid \in Nat /\ servers[d][m].uid <= lastUid
      BY <1>7, <3>1, <3>2, ApiAssumption DEF Server, ApiInv, NewestInv
    <3> QED
      BY <1>1, <3>1, <3>3
  <2> QED
    BY <2>1, <2>2
<1> QED
  BY <1>2, <1>3, <1>5, <1>6, <1>7 DEF ApiInv, NewestInv, TypeOK, JobsOK, Jobs, Stores

(* One request moves on; the servers stay. *)
LEMMA JobStep ==
  ASSUME ApiInv, NEW r \in Replicas, NEW j \in Jobs,
         job' = [job EXCEPT ![r] = j], UNCHANGED <<servers, lastUid>>,
         DeleteOK(j, servers, lastUid), ListOK(j, servers)
  PROVE  ApiInv'
<1>1. job \in [Replicas -> Jobs]
  BY DEF ApiInv, TypeOK, Jobs
<1>2. job' \in [Replicas -> Jobs] /\ \A q \in Replicas : job'[q] = IF q = r THEN j ELSE job[q]
  BY <1>1
<1> QED
  BY <1>2 DEF ApiInv, NewestInv, TypeOK, JobsOK, Jobs

-----------------------------------------------------------------------------
LEMMA CreateStep ==
  ASSUME ApiInv, NEW r \in Replicas, NEW c \in Callers, NEW n \in Names,
         NEW option \in Customers \cup {None}, Create(r, c, n, option)
  PROVE  ApiInv'
<1> DEFINE s == [uid |-> lastUid + 1, owner |-> OwnerFor(c, option), leaving |-> FALSE]
<1>1. /\ lastUid' = lastUid + 1 /\ lastUid < MaxUid
      /\ Store(job, Put(Local, n, s))
  BY DEF Create
<1>2. OwnerFor(c, option) \in Customers \cup {None}
  BY ApiAssumption DEF OwnerFor
<1>3. /\ lastUid + 1 \in 1..MaxUid /\ lastUid' \in 0..MaxUid /\ lastUid' >= lastUid
  BY <1>1, ApiAssumption DEF ApiInv, TypeOK
<1>4. s \in Server /\ s.uid = lastUid + 1
  BY <1>2, <1>3 DEF Server
<1>5. job \in [Replicas -> Jobs]
  BY DEF ApiInv, TypeOK, Jobs
<1> HIDE DEF s
<1> QED
  BY <1>1, <1>3, <1>4, <1>5, LocalSite, StoreStep

LEMMA OthersStep ==
  ASSUME ApiInv, NEW cl \in Sites, NEW n \in Names, Others(cl, n)
  PROVE  ApiInv'
<1>1. job \in [Replicas -> Jobs] /\ lastUid \in 0..MaxUid /\ lastUid \in Nat
  BY ApiAssumption DEF ApiInv, TypeOK, Jobs
<1>2. CASE UNCHANGED lastUid /\ Store(job, Put(cl, n, None))
  <2>1. lastUid' \in 0..MaxUid /\ lastUid' >= lastUid
    BY <1>1, <1>2
  <2> QED
    BY <1>1, <1>2, <2>1, StoreStep
<1>3. ASSUME NEW k \in Customers \cup {None}, lastUid < MaxUid, lastUid' = lastUid + 1,
             Store(job, Put(cl, n, [uid |-> lastUid + 1, owner |-> k, leaving |-> FALSE]))
      PROVE  ApiInv'
  <2> DEFINE s == [uid |-> lastUid + 1, owner |-> k, leaving |-> FALSE]
  <2>1. lastUid + 1 \in 1..MaxUid /\ lastUid' \in 0..MaxUid /\ lastUid' >= lastUid
    BY <1>1, <1>3, ApiAssumption
  <2>2. s \in Server /\ s.uid = lastUid + 1
    BY <2>1 DEF Server
  <2>3. Store(job, Put(cl, n, s))
    BY <1>3
  <2> HIDE DEF s
  <2> QED
    BY <1>1, <1>3, <2>1, <2>2, <2>3, StoreStep
<1> QED
  BY <1>2, <1>3 DEF Others

LEMMA BeginDeleteStep ==
  ASSUME ApiInv, NEW r \in Replicas, NEW c \in Callers, NEW n \in Names, BeginDelete(r, c, n)
  PROVE  ApiInv'
<1> DEFINE s == servers[Local][n]
           j == [op |-> "delete", caller |-> c, name |-> n, uid |-> s.uid]
<1>1. s # None /\ Visible(c, s.owner) /\ job' = [job EXCEPT ![r] = j] /\ UNCHANGED <<servers, lastUid>>
  BY DEF BeginDelete
<1>2. s \in Server
  BY <1>1, LocalSite DEF ApiInv, TypeOK
<1>3. s.uid \in 1..MaxUid /\ s.uid \in Nat
  BY <1>2, ApiAssumption DEF Server
<1>4. j \in Jobs /\ j.op = "delete" /\ j.caller = c /\ j.name = n /\ j.uid = s.uid
  BY <1>3 DEF Jobs, Deleting
<1>5. s.uid <= lastUid
  BY <1>1, LocalSite DEF ApiInv, NewestInv
<1> HIDE DEF j
<1>6. DeleteOK(j, servers, lastUid)
  BY <1>1, <1>4, <1>5 DEF DeleteOK
<1>7. ListOK(j, servers)
  BY <1>4 DEF ListOK
<1> QED
  BY <1>1, <1>4, <1>6, <1>7, JobStep

(* A delete: the name is free, the call fails, or the server leaves. *)
LEMMA DoDeleteStep ==
  ASSUME ApiInv, NEW r \in Replicas, DoDelete(r)
  PROVE  ApiInv'
<1> DEFINE n == job[r].name
           s == servers[Local][n]
           done == [job EXCEPT ![r] = Idle]
<1>1. job \in [Replicas -> Jobs] /\ lastUid \in 0..MaxUid /\ lastUid \in Nat
  BY ApiAssumption DEF ApiInv, TypeOK, Jobs
<1>2. n \in Names
  <2>1. job[r] \in Deleting
    BY <1>1, Kinds DEF DoDelete
  <2> QED
    BY <2>1 DEF Deleting
<1>3. done \in [Replicas -> Jobs] /\ \A q \in Replicas : done[q] \in {job[q], Idle}
  BY <1>1, IdleOK
<1>4. lastUid' \in 0..MaxUid /\ lastUid' >= lastUid /\ lastUid' = lastUid
  BY <1>1 DEF DoDelete
<1>5. CASE job' = done /\ UNCHANGED servers
  BY <1>4, <1>5, IdleOK, JobStep
<1>6. CASE s # None /\ Store(done, Put(Local, n, None))
  <2> HIDE DEF done, n
  <2> QED
    BY <1>2, <1>3, <1>4, <1>6, LocalSite, StoreStep
<1>7. CASE s # None /\ Store(done, Put(Local, n, [s EXCEPT !.leaving = TRUE]))
  <2> DEFINE t == [s EXCEPT !.leaving = TRUE]
  <2>1. s \in Server
    BY <1>2, <1>7, LocalSite DEF ApiInv, TypeOK
  <2>2. t \in Server /\ t.uid = s.uid /\ t.owner = s.owner
    BY <2>1 DEF Server
  <2>3. Store(done, Put(Local, n, t))
    BY <1>7
  <2> HIDE DEF done, n, t
  <2> QED
    BY <1>2, <1>3, <1>4, <1>7, <2>2, <2>3, LocalSite, StoreStep
<1> QED
  BY <1>5, <1>6, <1>7 DEF DoDelete

LEMMA BeginListStep ==
  ASSUME ApiInv, NEW r \in Replicas, NEW c \in Callers, NEW route \in Routes(c),
         BeginList(r, c, route)
  PROVE  ApiInv'
<1> DEFINE now == Asked(servers, route.targets)
           j == [op |-> "list", caller |-> c, scope |-> route.scope, strict |-> route.strict,
                 asked |-> route.targets, todo |-> route.targets, got |-> {},
                 must |-> now, may |-> now]
<1>1. job' = [job EXCEPT ![r] = j] /\ UNCHANGED <<servers, lastUid>>
  BY DEF BeginList
<1>2. /\ route.targets \subseteq Sites /\ route.strict \in BOOLEAN
      /\ route.scope \in Customers \cup {"visible"}
      /\ route.scope # "visible" => c \in Admins \/ route.scope = CustomerOf[c]
  <2> DEFINE single == Cardinality(Clusters) <= 1
  <2>1. CASE \E cl \in Sites : route = [scope |-> "visible", targets |-> {cl}, strict |-> TRUE]
    BY <2>1
  <2>2. CASE route = [scope |-> "visible", targets |-> Clusters, strict |-> FALSE]
    BY <2>2, LocalSite
  <2>3. CASE \E k \in Customers :
               /\ c \in Admins \/ k = CustomerOf[c]
               /\ route = [scope |-> k, strict |-> single,
                           targets |-> IF single THEN {Local} ELSE Clusters]
    <3>1. single \in BOOLEAN
      OBVIOUS
    <3> HIDE DEF single
    <3> QED
      BY <2>3, <3>1, LocalSite
  <2> QED
    BY <2>1, <2>2, <2>3 DEF Routes, SiteRoutes, RollupRoute, CustomerRoutes
<1>3. now \subseteq Entry /\ \A e \in now : e.site \in route.targets
  BY <1>2, AskedType DEF ApiInv, TypeOK, Stores
<1> HIDE DEF now
<1>4. /\ j \in Listings /\ j.op = "list" /\ j.caller = c /\ j.scope = route.scope
      /\ j.asked = route.targets /\ j.todo = route.targets /\ j.got = {}
      /\ j.must = now /\ j.may = now
  BY <1>2, <1>3 DEF Listings
<1> HIDE DEF j
<1>5. DeleteOK(j, servers, lastUid) /\ ListOK(j, servers)
  BY <1>2, <1>3, <1>4 DEF DeleteOK, ListOK, now
<1> QED
  BY <1>1, <1>4, <1>5, JobStep DEF Jobs

LEMMA FetchStep ==
  ASSUME ApiInv, NEW r \in Replicas, NEW cl \in Sites, Fetch(r, cl)
  PROVE  ApiInv'
<1> DEFINE j == job[r]
           list == Listing(servers, cl)
           k == [j EXCEPT !.todo = @ \ {cl}, !.got = @ \cup list]
<1>1. j.op = "list" /\ cl \in j.todo
  BY DEF Fetch
<1>2. /\ job \in [Replicas -> Jobs] /\ servers \in Stores
      /\ ListOK(j, servers)
  BY DEF ApiInv, TypeOK, JobsOK, Jobs, Stores
<1>3. j \in Listings
  BY <1>1, <1>2, Kinds
<1>4. cl \in j.asked /\ j.asked \subseteq Sites
  BY <1>1, <1>2, <1>3 DEF ListOK, Listings
<1>5. /\ list \subseteq Entry /\ list \subseteq Asked(servers, j.asked)
      /\ \A e \in Asked(servers, j.asked) : e.site = cl => e \in list
  BY <1>2, <1>4, AskedType
<1>6. job' = [job EXCEPT ![r] = k] /\ UNCHANGED <<servers, lastUid>>
  BY <1>2 DEF Fetch
<1> HIDE DEF list
<1>7. /\ k \in Listings /\ k.op = "list" /\ k.caller = j.caller /\ k.scope = j.scope
      /\ k.asked = j.asked /\ k.todo = j.todo \ {cl} /\ k.got = j.got \cup list
      /\ k.must = j.must /\ k.may = j.may
  BY <1>3, <1>5 DEF Listings
<1> HIDE DEF k, j
<1>8. ListOK(k, servers)
  BY <1>1, <1>2, <1>5, <1>7 DEF ListOK
<1>9. DeleteOK(k, servers, lastUid)
  BY <1>7 DEF DeleteOK
<1> QED
  BY <1>6, <1>7, <1>8, <1>9, JobStep DEF Jobs

LEMMA FetchFailsStep ==
  ASSUME ApiInv, NEW r \in Replicas, NEW cl \in Sites, FetchFails(r, cl)
  PROVE  ApiInv'
<1> DEFINE j == job[r]
           k == [j EXCEPT !.todo = @ \ {cl}, !.must = {e \in @ : e.site # cl}]
<1>1. j.op = "list" /\ cl \in j.todo
  BY DEF FetchFails
<1>2. job \in [Replicas -> Jobs] /\ ListOK(j, servers)
  BY DEF ApiInv, TypeOK, JobsOK, Jobs
<1>3. j \in Listings
  BY <1>1, <1>2, Kinds
<1>4. job' = [job EXCEPT ![r] = IF j.strict THEN Idle ELSE k] /\ UNCHANGED <<servers, lastUid>>
  BY DEF FetchFails, Unanswered
<1>5. /\ k \in Listings /\ k.op = "list" /\ k.caller = j.caller /\ k.scope = j.scope
      /\ k.asked = j.asked /\ k.todo = j.todo \ {cl} /\ k.got = j.got
      /\ k.must = {e \in j.must : e.site # cl} /\ k.may = j.may
  BY <1>3 DEF Listings
<1> HIDE DEF k
<1>6. CASE j.strict
  BY <1>4, <1>6, IdleOK, JobStep
<1>7. CASE ~j.strict
  <2>1. job' = [job EXCEPT ![r] = k]
    BY <1>4, <1>7
  <2> HIDE DEF j
  <2>2. ListOK(k, servers) /\ DeleteOK(k, servers, lastUid)
    BY <1>1, <1>2, <1>5 DEF ListOK, DeleteOK
  <2> QED
    BY <1>4, <1>5, <2>1, <2>2, JobStep DEF Jobs
<1> QED
  BY <1>6, <1>7

-----------------------------------------------------------------------------
(* Every step of a request, of another client or of the operator. *)
LEMMA Step ==
  ASSUME ApiInv, [Next]_vars
  PROVE  ApiInv'
<1>1. CASE UNCHANGED vars
  BY <1>1 DEF vars, ApiInv, NewestInv, TypeOK, JobsOK
<1>2. ASSUME NEW r \in Replicas, EndList(r)
      PROVE  ApiInv'
  BY <1>2, IdleOK, JobStep DEF EndList
<1> QED
  BY <1>1, <1>2, CreateStep, OthersStep, BeginDeleteStep, DoDeleteStep, BeginListStep,
     FetchStep, FetchFailsStep DEF Next

LEMMA Inductive == Spec => []ApiInv
<1>1. Init => ApiInv
  <2> SUFFICES ASSUME Init PROVE ApiInv
    OBVIOUS
  <2>1. TypeOK
    BY ApiAssumption DEF Init, TypeOK
  <2>2. JobsOK
    BY IdleOK DEF Init, JobsOK
  <2>3. NewestInv
    BY DEF Init, NewestInv
  <2> QED
    BY <2>1, <2>2, <2>3 DEF ApiInv
<1> QED
  BY <1>1, Step, PTL DEF Spec

(* Every reachable state of the routes is well typed. *)
THEOREM TypeCorrect == Spec => []TypeOK
<1>1. ApiInv => TypeOK
  BY DEF ApiInv
<1> QED
  BY <1>1, Inductive, PTL

(* Whatever other replicas, clients and failing clusters do meanwhile, the *)
(* answer of a listing route is true of the time it took.                  *)
THEOREM TrueAnswers == Spec => []AnswersTrue
<1>1. ApiInv => AnswersTrue
  <2> SUFFICES ASSUME ApiInv, NEW r \in Replicas, Answered(job[r])
               PROVE  LET j == job[r] IN
                      /\ Kept(j) \subseteq j.may
                      /\ \A e \in Kept(j) :
                           \/ j.caller \in Admins
                           \/ CustomerOf[j.caller] # None /\ e.owner = CustomerOf[j.caller]
                      /\ \A e \in j.must :
                           j.scope \in {"visible", e.owner} /\ Visible(j.caller, e.owner)
                             => e \in Kept(j)
    BY DEF AnswersTrue
  <2> DEFINE j == job[r]
  <2>1. j \in Listings /\ ListOK(j, servers) /\ j.todo = {} /\ j.op = "list"
    BY Kinds DEF ApiInv, TypeOK, JobsOK, Answered, Jobs
  <2>2. j.scope # "visible" => j.scope # None /\ j.scope \in Customers
    BY <2>1, ApiAssumption DEF Listings
  <2> HIDE DEF j
  <2>3. Kept(j) \subseteq j.may
    BY <2>1 DEF ListOK, Kept
  <2>4. ASSUME NEW e \in Kept(j)
        PROVE  \/ j.caller \in Admins
               \/ CustomerOf[j.caller] # None /\ e.owner = CustomerOf[j.caller]
    BY <2>1, <2>2, <2>4 DEF ListOK, Kept, Visible, Owns
  <2>5. ASSUME NEW e \in j.must, j.scope \in {"visible", e.owner}, Visible(j.caller, e.owner)
        PROVE  e \in Kept(j)
    BY <2>1, <2>5 DEF ListOK, Kept
  <2> QED
    BY <2>3, <2>4, <2>5 DEF j
<1> QED
  BY <1>1, Inductive, PTL

(* A delete removes what its caller may see, or a server newer than the    *)
(* one the route looked at.                                                *)
THEOREM CheckedDeletes == Spec => DeletesWhatItSaw
<1>1. ASSUME ApiInv, NEW r \in Replicas, DoDelete(r), servers' # servers
      PROVE  LET s == servers[Local][job[r].name] IN
             Visible(job[r].caller, s.owner) \/ s.uid > job[r].uid
  <2>1. DeleteOK(job[r], servers, lastUid) /\ job[r].op = "delete"
    BY <1>1 DEF ApiInv, JobsOK, DoDelete
  <2>2. servers[Local][job[r].name] # None
    BY <1>1 DEF DoDelete
  <2> QED
    BY <2>1, <2>2 DEF DeleteOK
<1>2. ApiInv /\ [Next]_vars =>
        [\A r \in Replicas :
           DoDelete(r) /\ servers' # servers =>
             LET s == servers[Local][job[r].name] IN
             Visible(job[r].caller, s.owner) \/ s.uid > job[r].uid]_vars
  BY <1>1
<1> QED
  BY <1>2, Inductive, PTL DEF Spec, DeletesWhatItSaw
=============================================================================
