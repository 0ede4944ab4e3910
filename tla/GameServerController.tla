------------------------ MODULE GameServerController ------------------------
(***************************************************************************)
(* The kopf operator that reconciles one GameServer resource to its        *)
(* Secret, Service, StatefulSet and PodDisruptionBudget                    *)
(* (operator/quetzel_operator/handlers.py, manifests.py, status.py), with  *)
(* the parts of Kubernetes and kopf its correctness depends on: uids,      *)
(* finalizers, owner-reference garbage collection, strategic-merge patches *)
(* and the retry, resume and timer rules of the framework.                 *)
(*                                                                         *)
(* One server name is modelled.  Every object the operator touches is      *)
(* addressed by that name, so servers with different names never share     *)
(* state; what they share in time is one NAME used by several              *)
(* incarnations of the resource, told apart by uid.                        *)
(*                                                                         *)
(* One step is one Kubernetes API call (or one kopf decision).  Everything *)
(* may happen between two calls of a handler: the user edits or deletes    *)
(* the resource, the collector deletes a child, the pod becomes ready, the *)
(* status timer runs, a call fails, the operator is killed.                *)
(***************************************************************************)
EXTENDS Naturals

CONSTANTS
  Catalog,       \* ids of the games catalog.json lists
  UnknownGames,  \* game ids catalog.get_game does not find
  RconGames,     \* games whose catalog entry has rcon.enabled
  CachedGames,   \* games whose catalog entry has a cachedImageRepo
  GamePorts,     \* game |-> the ports its catalog entry lists
  RconPort,      \* game |-> the port of its rcon entry
  Customers,     \* values of spec.customer
  Versions,      \* values of spec.version
  Baked,         \* versions the image pipeline has built (game-versions.json)
  None,          \* absent object, absent customer, absent version
  UserSpecs,     \* the specs users apply
  CustomerEdits, \* may an edit change spec.customer?
  WaitForGC,     \* is a name reused only once its old children are collected?
  MaxUid,        \* bound: incarnations of the name
  MaxEdits,      \* bound: edits of the spec
  MaxFaults      \* bound: failed API calls, operator crashes, pod failures

Games == Catalog \cup UnknownGames
Port  == [name: STRING, number: Nat]

(* The part of a GameServer spec that control depends on. *)
SpecType == [game: Games, customer: Customers \cup {None},
          version: Versions \cup {None}, rcon: BOOLEAN]

ASSUME ConstantsAssumption ==
  /\ RconGames \subseteq Catalog /\ CachedGames \subseteq Catalog
  /\ Catalog \cap UnknownGames = {}
  /\ GamePorts \in [Catalog -> SUBSET Port] /\ RconPort \in [RconGames -> Port]
  /\ Baked \subseteq Versions
  /\ UserSpecs \subseteq SpecType
  /\ CustomerEdits \in BOOLEAN /\ WaitForGC \in BOOLEAN
  /\ MaxUid \in Nat /\ MaxEdits \in Nat /\ MaxFaults \in Nat

VARIABLES
  cr,        \* the live resource of this name, or None
  lastUid,   \* uid of the newest incarnation
  children,  \* kind |-> the object of that kind and name, or None
  act,       \* <<uid, role>> |-> what the handler thread is doing
  up,        \* is the operator process running?
  resume,    \* has the resource still to be resumed after a restart?
  passwords, \* RCON passwords generated and stored so far
  edits,     \* edits so far
  faults     \* faults so far

vars == <<cr, lastUid, children, act, up, resume, passwords, edits, faults>>

-----------------------------------------------------------------------------
(* Types *)

Kinds   == {"secret", "service", "statefulset", "pdb"}
Uids    == 1..MaxUid
Roles   == {"worker", "timer"}
Actors  == Uids \X Roles
Worker(u) == <<u, "worker">>
Timer(u)  == <<u, "timer">>

Phases  == {"none", "Pending", "Provisioning", "Running", "Stopping", "Error"}
Status  == [phase: Phases, ready: BOOLEAN, address: BOOLEAN]
NoStatus == [phase |-> "none", ready |-> FALSE, address |-> FALSE]

Resource == [uid: Uids, spec: SpecType, deleting: BOOLEAN, finalizer: BOOLEAN,
             handled: SpecType \cup {None}, status: Status]

(* A container of the pod template: its name is the game id; version is    *)
(* the image tag (cached games) or the version variable (the others).      *)
Container == [name: Catalog, version: Versions \cup {None}, rcon: BOOLEAN]

(* What an object of kind k holds: a password, ports, containers, nothing. *)
Body(k) == IF k = "secret" THEN Nat
           ELSE IF k = "service" THEN SUBSET Port
           ELSE IF k = "statefulset" THEN SUBSET Container
           ELSE {0}

(* customer: the label the object was created with, which its selector     *)
(* repeats; up: a ready replica, or an assigned ingress address.           *)
Child(k) == [owner: Uids, customer: Customers \cup {None},
             body: Body(k), up: BOOLEAN]

(* Absence is no customer, version, spec, resource or child. *)
ASSUME NoneAssumption ==
  /\ None \notin Customers \cup Versions \cup SpecType \cup Resource
  /\ \A k \in Kinds : None \notin Child(k)

Ops == {"idle", "read", "patch", "create",
        "observe_statefulset", "observe_service", "commit", "release"}
Act == [op: Ops, kind: Kinds, spec: SpecType \cup {None},
        replica: {"absent", "unready", "ready"}, out: Status]
Idle == [op |-> "idle", kind |-> "secret", spec |-> None,
         replica |-> "absent", out |-> NoStatus]

TypeOK ==
  /\ cr \in Resource \cup {None}
  /\ lastUid \in 0..MaxUid
  /\ children = [k \in Kinds |-> children[k]]
  /\ \A k \in Kinds : children[k] \in Child(k) \cup {None}
  /\ act \in [Actors -> Act]
  /\ up \in BOOLEAN /\ resume \in BOOLEAN
  /\ passwords \in Nat /\ edits \in 0..MaxEdits /\ faults \in 0..MaxFaults

-----------------------------------------------------------------------------
(* What the manifests hold *)

RconOn(s) == s.rcon /\ s.game \in RconGames

Ports(s) ==
  GamePorts[s.game] \cup
  (IF RconOn(s) THEN {RconPort[s.game]} ELSE {})

ContainerOf(s) == [name |-> s.game, version |-> s.version, rcon |-> RconOn(s)]

(* Every child carries an owner reference to the resource it is built for  *)
(* and the customer label.  Mutants: a PDB built without its owner; a PDB  *)
(* built with the default customer=None.                                   *)
OwnerReference_missing(k, u) == IF k = "pdb" THEN None ELSE u
OwnerReference(k, u) == u

Label_missing(k, s) == IF k = "pdb" THEN None ELSE s.customer
Label(k, s) == s.customer

Manifest(k, s, u) ==
  [owner |-> OwnerReference(k, u), customer |-> Label(k, s), up |-> FALSE,
   body |-> IF k = "secret" THEN passwords + 1
            ELSE IF k = "service" THEN Ports(s)
            ELSE IF k = "statefulset" THEN {ContainerOf(s)}
            ELSE 0]

(* A strategic-merge patch: list entries merge by name (containers,        *)
(* environment) or by number (ports), and absent entries stay.             *)
MergePorts(olds, news) ==
  {p \in olds : \A q \in news : q.number # p.number} \cup news

MergeContainer(old, new) ==
  [name    |-> new.name,
   version |-> IF new.version = None /\ new.name \notin CachedGames
               THEN old.version ELSE new.version,
   rcon    |-> old.rcon \/ new.rcon]

MergeContainers(olds, new) ==
  {c \in olds : c.name # new.name} \cup
  (IF \E c \in olds : c.name = new.name
   THEN {MergeContainer(c, new) : c \in {d \in olds : d.name = new.name}}
   ELSE {new})

(* Mutant: _ensure_service keeps an existing Service as it is. *)
PatchedKinds_noService == {"statefulset"}

(* The kinds an existing object of which is patched: the others are kept.  *)
PatchedKinds == {"service", "statefulset"}

Patched(k, s) ==
  LET old == children[k]
      new == MergeContainers(old.body, ContainerOf(s)) IN
  IF k = "service" THEN [old EXCEPT !.body = MergePorts(@, Ports(s))]
  ELSE [old EXCEPT !.body = new, !.up = @ /\ new = old.body]

(* The API refuses (422) a Service two of whose ports have the same name;  *)
(* every game of the catalog calls its first port "game".                  *)
Refused(k, s) ==
  k = "service" /\ \E p, q \in Patched(k, s).body : p.name = q.name /\ p # q

(* Mutant: the "not statefulset_exists" branch is gone. *)
ComputePhase_noGuard(replica, address) ==
  LET live == replica = "ready" /\ address
  IN  [phase |-> IF live THEN "Running" ELSE "Provisioning",
       ready |-> live, address |-> address]

(* Mutant: Running does not wait for the address. *)
ComputePhase_early(replica, address) ==
  IF replica = "absent"
  THEN [phase |-> "Pending", ready |-> FALSE, address |-> FALSE]
  ELSE [phase |-> IF replica = "ready" THEN "Running" ELSE "Provisioning",
        ready |-> replica = "ready", address |-> address]

ComputePhase(replica, address) ==
  IF replica = "absent"
  THEN [phase |-> "Pending", ready |-> FALSE, address |-> FALSE]
  ELSE IF replica = "ready" /\ address
  THEN [phase |-> "Running", ready |-> TRUE, address |-> TRUE]
  ELSE [phase |-> "Provisioning", ready |-> FALSE, address |-> address]

ReplicaSeen == IF children["statefulset"] = None THEN "absent"
               ELSE IF children["statefulset"].up THEN "ready" ELSE "unready"
AddressSeen == children["service"] # None /\ children["service"].up

-----------------------------------------------------------------------------
Init ==
  /\ cr = None /\ lastUid = 0
  /\ children = [k \in Kinds |-> None]
  /\ act = [a \in Actors |-> Idle]
  /\ up = TRUE /\ resume = FALSE
  /\ passwords = 0 /\ edits = 0 /\ faults = 0

(* Users: the backend creates and deletes, kubectl also edits. *)

UserCreate(s) ==
  /\ cr = None /\ lastUid < MaxUid
  /\ WaitForGC => \A k \in Kinds : children[k] = None
  /\ lastUid' = lastUid + 1
  /\ cr' = [uid |-> lastUid + 1, spec |-> s, deleting |-> FALSE,
            finalizer |-> FALSE, handled |-> None, status |-> NoStatus]
  /\ UNCHANGED <<children, act, up, resume, passwords, edits, faults>>

UserEdit(s) ==
  /\ cr # None /\ ~cr.deleting /\ s # cr.spec /\ edits < MaxEdits
  /\ CustomerEdits \/ s.customer = cr.spec.customer
  /\ cr' = [cr EXCEPT !.spec = s]
  /\ edits' = edits + 1
  /\ UNCHANGED <<lastUid, children, act, up, resume, passwords, faults>>

UserDelete ==
  /\ cr # None /\ ~cr.deleting
  /\ cr' = IF cr.finalizer THEN [cr EXCEPT !.deleting = TRUE] ELSE None
  /\ UNCHANGED <<lastUid, children, act, up, resume, passwords, edits, faults>>

-----------------------------------------------------------------------------
(* The cluster *)

GarbageCollect(k) ==
  /\ children[k] # None /\ children[k].owner # None
  /\ cr # None => cr.uid # children[k].owner
  /\ children' = [children EXCEPT ![k] = None]
  /\ UNCHANGED <<cr, lastUid, act, up, resume, passwords, edits, faults>>

(* A container starts when its image exists and its secret is there. *)
Startable(c) == /\ c.name \in CachedGames => c.version \in Baked \cup {None}
                /\ c.rcon => children["secret"] # None

PodReady ==
  /\ children["statefulset"] # None /\ ~children["statefulset"].up
  /\ \A c \in children["statefulset"].body : Startable(c)
  /\ children' = [children EXCEPT !["statefulset"].up = TRUE]
  /\ UNCHANGED <<cr, lastUid, act, up, resume, passwords, edits, faults>>

PodFails ==
  /\ children["statefulset"] # None /\ children["statefulset"].up
  /\ faults < MaxFaults /\ faults' = faults + 1
  /\ children' = [children EXCEPT !["statefulset"].up = FALSE]
  /\ UNCHANGED <<cr, lastUid, act, up, resume, passwords, edits>>

AssignAddress ==
  /\ children["service"] # None /\ ~children["service"].up
  /\ children' = [children EXCEPT !["service"].up = TRUE]
  /\ UNCHANGED <<cr, lastUid, act, up, resume, passwords, edits, faults>>

-----------------------------------------------------------------------------
(* kopf: when handlers run *)

(* on.delete is registered, so kopf adds its finalizer before it handles   *)
(* anything else about the resource.                                       *)
AddFinalizer ==
  /\ up /\ cr # None /\ ~cr.finalizer /\ ~cr.deleting
  /\ cr' = [cr EXCEPT !.finalizer = TRUE]
  /\ UNCHANGED <<lastUid, children, act, up, resume, passwords, edits, faults>>

(* Mutant: @kopf.on.delete(optional=True), no finalizer is waited for. *)
Live_optional(u) == up /\ cr # None /\ cr.uid = u

Live(u) == up /\ cr # None /\ cr.uid = u /\ cr.finalizer

(* secret, service, statefulset, pdb *)
NextKind(k) == IF k = "secret" THEN "service"
               ELSE IF k = "service" THEN "statefulset" ELSE "pdb"

(* Mutant: reconcile forgets _ensure_secret. *)
FirstKind_noSecret(s) == "service"

FirstKind(s) == IF RconOn(s) THEN "secret" ELSE "service"

(* Mutant: reconcile is registered for on.create alone. *)
BeginReconcile_createOnly(u) ==
  /\ Live(u) /\ ~cr.deleting /\ act[Worker(u)] = Idle
  /\ cr.handled = None
  /\ act' = [act EXCEPT ![Worker(u)] =
       IF cr.spec.game \notin Catalog
       THEN [Idle EXCEPT !.op = "commit", !.spec = cr.spec,
                         !.out = [NoStatus EXCEPT !.phase = "Error"]]
       ELSE [Idle EXCEPT !.op = "read", !.spec = cr.spec,
                         !.kind = FirstKind(cr.spec)]]
  /\ UNCHANGED <<cr, lastUid, children, up, resume, passwords, edits, faults>>

(* on.create, on.update and on.resume all call reconcile with a snapshot   *)
(* of the spec.                                                            *)
BeginReconcile(u) ==
  /\ Live(u) /\ ~cr.deleting /\ act[Worker(u)] = Idle
  /\ cr.handled # cr.spec \/ resume
  /\ act' = [act EXCEPT ![Worker(u)] =
       IF cr.spec.game \notin Catalog
       THEN [Idle EXCEPT !.op = "commit", !.spec = cr.spec,
                         !.out = [NoStatus EXCEPT !.phase = "Error"]]
       ELSE [Idle EXCEPT !.op = "read", !.spec = cr.spec,
                         !.kind = FirstKind(cr.spec)]]
  /\ UNCHANGED <<cr, lastUid, children, up, resume, passwords, edits, faults>>

(* The step after the child of kind k is in place. *)
After(a, k) ==
  IF k = "pdb" THEN [act[a] EXCEPT !.op = "observe_statefulset"]
  ELSE [act[a] EXCEPT !.op = "read", !.kind = NextKind(k)]

(* Mutant: an existing Secret is re-applied with a fresh password. *)
ReadChild_regenerates(u) ==
  LET a == Worker(u)  k == act[a].kind  again == k = "secret" /\ children[k] # None IN
  /\ act[a].op = "read"
  /\ act' = [act EXCEPT ![a] =
       IF children[k] = None THEN [@ EXCEPT !.op = "create"]
       ELSE IF k \in PatchedKinds THEN [@ EXCEPT !.op = "patch"]
       ELSE After(a, k)]
  /\ children' = IF again THEN [children EXCEPT ![k].body = passwords + 1] ELSE children
  /\ passwords' = IF again THEN passwords + 1 ELSE passwords
  /\ UNCHANGED <<cr, lastUid, up, resume, edits, faults>>

ReadChild(u) ==
  LET a == Worker(u)  k == act[a].kind IN
  /\ act[a].op = "read"
  /\ act' = [act EXCEPT ![a] =
       IF children[k] = None THEN [@ EXCEPT !.op = "create"]
       ELSE IF k \in PatchedKinds THEN [@ EXCEPT !.op = "patch"]
       ELSE After(a, k)]
  /\ UNCHANGED <<cr, lastUid, children, up, resume, passwords, edits, faults>>

(* The patch is inside the try block of the read: if the object has gone   *)
(* meanwhile, the handler creates it.  A refusal raises: kopf retries the  *)
(* handler from the top.                                                   *)
PatchChild(u) ==
  LET a == Worker(u)  k == act[a].kind IN
  /\ act[a].op = "patch"
  /\ IF children[k] = None
     THEN /\ act' = [act EXCEPT ![a].op = "create"]
          /\ UNCHANGED children
     ELSE IF Refused(k, act[a].spec)
     THEN /\ act' = [act EXCEPT ![a] = Idle]
          /\ UNCHANGED children
     ELSE /\ children' = [children EXCEPT ![k] = Patched(k, act[a].spec)]
          /\ act' = [act EXCEPT ![a] = After(a, k)]
  /\ UNCHANGED <<cr, lastUid, up, resume, passwords, edits, faults>>

(* A conflict (409) raises: kopf retries the handler later. *)
CreateChild(u) ==
  LET a == Worker(u)  k == act[a].kind IN
  /\ act[a].op = "create"
  /\ IF children[k] = None
     THEN /\ children' = [children EXCEPT ![k] = Manifest(k, act[a].spec, u)]
          /\ act' = [act EXCEPT ![a] = After(a, k)]
          /\ passwords' = IF k = "secret" THEN passwords + 1 ELSE passwords
     ELSE /\ act' = [act EXCEPT ![a] = Idle]
          /\ UNCHANGED <<children, passwords>>
  /\ UNCHANGED <<cr, lastUid, up, resume, edits, faults>>

(* _observe_status, called by reconcile and by the timer: two reads. *)
ObserveStatefulSet(a) ==
  /\ act[a].op = "observe_statefulset"
  /\ act' = [act EXCEPT ![a] = [@ EXCEPT !.op = "observe_service",
                                         !.replica = ReplicaSeen]]
  /\ UNCHANGED <<cr, lastUid, children, up, resume, passwords, edits, faults>>

ObserveService(a) ==
  /\ act[a].op = "observe_service"
  /\ act' = [act EXCEPT ![a] =
       [@ EXCEPT !.op = "commit",
                 !.out = ComputePhase(act[a].replica, AddressSeen)]]
  /\ UNCHANGED <<cr, lastUid, children, up, resume, passwords, edits, faults>>

(* kopf patches what the handler put in `patch`, addressing the resource   *)
(* by name; the Error and Stopping branches set the phase alone.           *)
Merge(old, new) == IF new.phase \in {"Error", "Stopping"}
                   THEN [old EXCEPT !.phase = new.phase] ELSE new

CommitReconcile(u) ==
  LET a == Worker(u) IN
  /\ act[a].op = "commit"
  /\ cr' = IF cr = None THEN None
           ELSE [cr EXCEPT !.status = Merge(@, act[a].out),
                           !.handled = act[a].spec]
  /\ act' = [act EXCEPT ![a] = Idle]
  /\ resume' = FALSE
  /\ UNCHANGED <<lastUid, children, up, passwords, edits, faults>>

(* Mutant: the timer does not look the game up. *)
BeginRefresh_anyGame(u) ==
  /\ Live(u) /\ ~cr.deleting /\ act[Timer(u)] = Idle
  /\ act' = [act EXCEPT ![Timer(u)] =
               [Idle EXCEPT !.op = "observe_statefulset"]]
  /\ UNCHANGED <<cr, lastUid, children, up, resume, passwords, edits, faults>>

(* refresh_status, every 10 seconds: it returns early for an unknown game. *)
BeginRefresh(u) ==
  /\ Live(u) /\ ~cr.deleting /\ act[Timer(u)] = Idle
  /\ cr.spec.game \in Catalog
  /\ act' = [act EXCEPT ![Timer(u)] =
               [Idle EXCEPT !.op = "observe_statefulset"]]
  /\ UNCHANGED <<cr, lastUid, children, up, resume, passwords, edits, faults>>

(* Mutant: the timer computes the status and never patches it. *)
CommitRefresh_dropped(u) ==
  /\ act[Timer(u)].op = "commit"
  /\ act' = [act EXCEPT ![Timer(u)] = Idle]
  /\ UNCHANGED <<cr, lastUid, children, up, resume, passwords, edits, faults>>

CommitRefresh(u) ==
  LET a == Timer(u) IN
  /\ act[a].op = "commit"
  /\ cr' = IF cr = None THEN None ELSE [cr EXCEPT !.status = act[a].out]
  /\ act' = [act EXCEPT ![a] = Idle]
  /\ UNCHANGED <<lastUid, children, up, resume, passwords, edits, faults>>

(* Mutant: on_delete waits for the children, which are collected only      *)
(* after the resource is gone.                                             *)
OnDelete_waits(u) ==
  /\ Live(u) /\ cr.deleting /\ act[Worker(u)] = Idle
  /\ \A k \in Kinds : children[k] = None
  /\ cr' = [cr EXCEPT !.status.phase = "Stopping"]
  /\ act' = [act EXCEPT ![Worker(u)] = [Idle EXCEPT !.op = "release"]]
  /\ UNCHANGED <<lastUid, children, up, resume, passwords, edits, faults>>

OnDelete(u) ==
  /\ Live(u) /\ cr.deleting /\ act[Worker(u)] = Idle
  /\ cr' = [cr EXCEPT !.status = Merge(@, [NoStatus EXCEPT !.phase = "Stopping"])]
  /\ act' = [act EXCEPT ![Worker(u)] = [Idle EXCEPT !.op = "release"]]
  /\ UNCHANGED <<lastUid, children, up, resume, passwords, edits, faults>>

(* kopf waits for a timer that is still running, then lifts its finalizer. *)
ReleaseFinalizer(u) ==
  /\ Live(u) /\ act[Worker(u)].op = "release" /\ act[Timer(u)] = Idle
  /\ cr' = None
  /\ act' = [act EXCEPT ![Worker(u)] = Idle]
  /\ UNCHANGED <<lastUid, children, up, resume, passwords, edits, faults>>

-----------------------------------------------------------------------------
(* Faults *)

(* Any other API error ends the handler; kopf calls it again from the top. *)
ApiError(a) ==
  /\ act[a].op # "idle" /\ faults < MaxFaults
  /\ act' = [act EXCEPT ![a] = Idle]
  /\ faults' = faults + 1
  /\ UNCHANGED <<cr, lastUid, children, up, resume, passwords, edits>>

OperatorCrash ==
  /\ up /\ faults < MaxFaults
  /\ up' = FALSE /\ faults' = faults + 1
  /\ act' = [a \in Actors |-> Idle]
  /\ UNCHANGED <<cr, lastUid, children, resume, passwords, edits>>

OperatorRestart ==
  /\ ~up
  /\ up' = TRUE /\ resume' = (cr # None)
  /\ UNCHANGED <<cr, lastUid, children, act, passwords, edits, faults>>

-----------------------------------------------------------------------------
WorkerStep(u) == \/ BeginReconcile(u) \/ ReadChild(u) \/ PatchChild(u)
                 \/ CreateChild(u) \/ ObserveStatefulSet(Worker(u))
                 \/ ObserveService(Worker(u)) \/ CommitReconcile(u)
                 \/ OnDelete(u) \/ ReleaseFinalizer(u)

TimerStep(u) == \/ BeginRefresh(u) \/ ObserveStatefulSet(Timer(u))
                \/ ObserveService(Timer(u)) \/ CommitRefresh(u)

ClusterStep == \/ \E k \in Kinds : GarbageCollect(k)
               \/ PodReady \/ AssignAddress

Next ==
  \/ \E s \in UserSpecs : UserCreate(s) \/ UserEdit(s)
  \/ UserDelete
  \/ ClusterStep \/ PodFails
  \/ AddFinalizer
  \/ \E u \in Uids : WorkerStep(u) \/ TimerStep(u)
  \/ \E a \in Actors : ApiError(a)
  \/ OperatorCrash \/ OperatorRestart

SafeSpec == Init /\ [][Next]_vars

(* Users and faults owe nothing.  The operator is restarted by its         *)
(* Deployment, runs the handlers of a live resource and its timer; the     *)
(* cluster collects orphans, starts pods and assigns addresses.            *)
Fairness ==
  /\ WF_vars(OperatorRestart) /\ WF_vars(AddFinalizer)
  /\ \A u \in Uids : WF_vars(WorkerStep(u)) /\ WF_vars(TimerStep(u))
  /\ \A k \in Kinds : WF_vars(GarbageCollect(k))
  /\ WF_vars(PodReady) /\ WF_vars(AssignAddress)

Spec == SafeSpec /\ Fairness

-----------------------------------------------------------------------------
(* Properties *)

Busy(u) == \E r \in Roles : act[<<u, r>>] # Idle

(* While a handler or the timer of an incarnation is at work, that         *)
(* incarnation is the live resource and holds kopf's finalizer: no thread  *)
(* of a deleted server ever writes the status or the children of its       *)
(* successor of the same name.                                             *)
FinalizerGuard ==
  \A u \in Uids : Busy(u) => cr # None /\ cr.uid = u /\ cr.finalizer

(* If users wait for the collector before they reuse a name, the children  *)
(* the handlers find by name are always their own: they never patch an     *)
(* object the collector is about to delete.                                *)
ChildrenBelong ==
  WaitForGC /\ cr # None =>
    \A k \in Kinds : children[k] # None => children[k].owner = cr.uid

(* However often reconcile is retried, resumed or repeated, an incarnation *)
(* gets at most one RCON password ("generated once, never regenerated").   *)
OnePasswordPerIncarnation == passwords <= lastUid

(* ... and the password in a Secret never changes under the running pod.   *)
SecretStable ==
  [][ children["secret"] # None /\ children'["secret"] # None
      => children'["secret"] = children["secret"] ]_vars

(* A pod template that reads the RCON password finds its Secret.           *)
SecretBeforeStatefulSet ==
  WaitForGC /\ cr # None /\ children["statefulset"] # None =>
    \A c \in children["statefulset"].body :
      c.rcon => children["secret"] # None

(* A status that says more than Pending is about a StatefulSet that exists *)
(* and belongs to this incarnation, however late the status was written.   *)
StatusBacked ==
  WaitForGC /\ cr # None /\ cr.status.phase \in {"Provisioning", "Running"} =>
    /\ children["statefulset"] # None
    /\ children["statefulset"].owner = cr.uid

(* spec.customer is mirrored to the label of every child.                  *)
LabelsMirrorCustomer ==
  WaitForGC /\ cr # None /\ cr.handled = cr.spec =>
    \A k \in Kinds :
      children[k] # None => children[k].customer = cr.spec.customer

(* What the children of a server with spec s hold: its ports, its          *)
(* container, its version if it names one, the RCON password if it asks    *)
(* for it.                                                                 *)
Covers(s) ==
  /\ \A k \in Kinds \ {"secret"} : children[k] # None
  /\ Ports(s) \subseteq children["service"].body
  /\ \E c \in children["statefulset"].body :
       /\ c.name = s.game
       /\ s.version # None => c.version = s.version
       /\ RconOn(s) => c.rcon /\ children["secret"] # None

(* A spec is recorded as handled, after which kopf does not ask for it     *)
(* again, only once every child holds it: whatever was edited meanwhile,   *)
(* and whichever calls failed and were repeated.                           *)
HandledIsBuilt ==
  WaitForGC =>
    \A u \in Uids : LET t == act[Worker(u)] IN
      t.op = "commit" /\ t.spec.game \in Catalog => Covers(t.spec)

Unlisted == cr # None /\ edits = 0 /\ cr.spec.game \notin Catalog

(* A server created with an unknown game never gets a child, not even when *)
(* its name was used before, and never reports anything but the error or   *)
(* its deletion: neither a retry nor the status timer treats it as a       *)
(* server.                                                                 *)
UnknownNeverServed ==
  Unlisted => /\ cr.status.phase \in {"none", "Error", "Stopping"}
              /\ \A k \in Kinds : children[k] # None => children[k].owner # cr.uid

Served == cr # None /\ ~cr.deleting /\ cr.spec.game \in Catalog

(* The Service holds a port of another game under the same name: no patch  *)
(* for the spec is accepted, and none takes the port away.                 *)
PortsClash == children["service"] # None /\ Refused("service", cr.spec)

(* A server whose game is known ends up Running, unless an edit of the     *)
(* game after its Service was created makes the ports clash.               *)
SettledServersRun == <>[](Served /\ ~PortsClash => cr.status.phase = "Running")

(* The status ends up saying what the cluster shows, even if it was first  *)
(* written by a thread that read an older state.                           *)
StatusConverges == <>[](Served => cr.status = ComputePhase(ReplicaSeen, AddressSeen))

(* A server created with an unknown game ends up saying so: the timer does *)
(* not hide the error, a failed call or a crash does not lose it.  After   *)
(* an edit to an unknown game a timer that read before it still can.       *)
UnknownGameErrors ==
  <>[](cr # None /\ ~cr.deleting /\ cr.spec.game \notin Catalog /\ edits = 0
       => cr.status.phase = "Error")

(* An edit ends up in the children, also after a failed call or a crash,   *)
(* unless the ports clash.  A second edit may undo the first while a call  *)
(* for it is being retried: kopf sees nothing to handle then, and the      *)
(* children can keep what the failed call had written.                     *)
ChildrenCoverSpec == Covers(cr.spec)
ChildrenConverge == <>[](Served /\ edits <= 1 /\ ~PortsClash => ChildrenCoverSpec)

(* The children of a deleted server are collected.                         *)
OrphansCollected ==
  \A k \in Kinds : (cr = None) ~> (children[k] = None \/ cr # None)
=============================================================================
