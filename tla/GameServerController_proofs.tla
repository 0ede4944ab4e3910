-------------------- MODULE GameServerController_proofs --------------------
(***************************************************************************)
(* Safety of GameServerController for every catalog, every set of specs    *)
(* and every bound, and its refinement of ServerResource.                  *)
(***************************************************************************)
EXTENDS GameServerRefinement, TLAPS

-----------------------------------------------------------------------------
(* Typing of the operators that build objects *)

(* The ports of a known game are ports. *)
LEMMA PortsType ==
  ASSUME NEW s \in SpecType, s.game \in Catalog
  PROVE  Ports(s) \in SUBSET Port
<1>1. RconOn(s) => RconPort[s.game] \in Port
  BY ConstantsAssumption DEF RconOn
<1>2. GamePorts[s.game] \in SUBSET Port
  BY ConstantsAssumption
<1> QED
  BY <1>1, <1>2 DEF Ports

(* A manifest built for a known game is an object of its kind. *)
LEMMA ManifestType ==
  ASSUME NEW k \in Kinds, NEW s \in SpecType, s.game \in Catalog, NEW u \in Uids,
         passwords \in Nat
  PROVE  Manifest(k, s, u) \in Child(k)
<1>1. Ports(s) \in SUBSET Port
  BY PortsType
<1>2. ContainerOf(s) \in Container
  BY DEF ContainerOf, Container, SpecType, RconOn
<1> QED
  BY <1>1, <1>2 DEF Manifest, Child, Body, Kinds, OwnerReference, Label, SpecType

(* The strategic merge of containers yields containers. *)
LEMMA MergeContainersType ==
  ASSUME NEW olds \in SUBSET Container, NEW new \in Container
  PROVE  MergeContainers(olds, new) \in SUBSET Container
<1>1. ASSUME NEW c \in Container
      PROVE  MergeContainer(c, new) \in Container
  BY <1>1 DEF MergeContainer, Container
<1> QED
  BY <1>1 DEF MergeContainers

(* A patch of a child keeps its kind and its owner. *)
LEMMA PatchedType ==
  ASSUME NEW k \in PatchedKinds, NEW s \in SpecType, s.game \in Catalog,
         children[k] \in Child(k)
  PROVE  /\ Patched(k, s) \in Child(k)
         /\ Patched(k, s).owner = children[k].owner
<1>1. CASE k = "service"
  <2>1. MergePorts(children[k].body, Ports(s)) \in SUBSET Port
    BY <1>1, PortsType DEF MergePorts, Child, Body
  <2> QED
    BY <1>1, <2>1 DEF Patched, Child, Body
<1>2. CASE k = "statefulset"
  <2>1. ContainerOf(s) \in Container
    BY DEF ContainerOf, Container, SpecType, RconOn
  <2> DEFINE new == MergeContainers(children[k].body, ContainerOf(s))
  <2>2. new \in SUBSET Container
    BY <1>2, <2>1, MergeContainersType DEF Child, Body
  <2>3. Patched(k, s) =
          [children[k] EXCEPT !.body = new, !.up = @ /\ new = children[k].body]
    BY <1>2 DEF Patched
  <2> HIDE DEF new
  <2> QED
    BY <1>2, <2>2, <2>3 DEF Child, Body
<1> QED
  BY <1>1, <1>2 DEF PatchedKinds

(* compute_phase yields one of the phases of the CRD.                      *)
LEMMA PhaseType ==
  ASSUME NEW r, NEW b \in BOOLEAN
  PROVE  ComputePhase(r, b) \in Status
  BY DEF ComputePhase, Status, Phases

-----------------------------------------------------------------------------
(* Types *)

(* What a worker between two calls holds: the spec of a known game, and a  *)
(* patch under way only for a kind that is patched.                        *)
WorkerHolds ==
  \A a \in Actors :
    /\ act[a].op \in {"read", "patch", "create"} =>
         act[a].spec \in SpecType /\ act[a].spec.game \in Catalog
    /\ act[a].op = "patch" => act[a].kind \in PatchedKinds

TypeInv == TypeOK /\ WorkerHolds

(* A thread with nothing to do is well typed.                              *)
LEMMA IdleType == Idle \in Act
  BY DEF Idle, Act, Ops, Kinds, NoStatus, Status, Phases

(* The worker and the timer of an incarnation are threads.                 *)
LEMMA ActorsOf ==
  ASSUME NEW u \in Uids
  PROVE  Worker(u) \in Actors /\ Timer(u) \in Actors
  BY DEF Actors, Roles, Worker, Timer

(* Updating one actor with a well-formed record keeps the typing of act. *)
LEMMA ActUpdate ==
  ASSUME TypeInv, NEW a \in Actors, NEW r \in Act,
         r.op \in {"read", "patch", "create"} =>
           r.spec \in SpecType /\ r.spec.game \in Catalog,
         r.op = "patch" => r.kind \in PatchedKinds,
         act' = [act EXCEPT ![a] = r]
  PROVE  act' \in [Actors -> Act] /\ WorkerHolds'
  BY DEF TypeInv, TypeOK, WorkerHolds

(* The first state satisfies the invariant.                                *)
LEMMA InitType == Init => TypeInv
<1> SUFFICES ASSUME Init PROVE TypeInv
  OBVIOUS
<1>1. TypeOK
  <2>1. /\ children = [k \in Kinds |-> children[k]]
        /\ \A k \in Kinds : children[k] = None
    BY DEF Init
  <2>2. act \in [Actors -> Act]
    BY IdleType DEF Init
  <2>3. /\ lastUid \in 0..MaxUid /\ edits \in 0..MaxEdits
        /\ faults \in 0..MaxFaults /\ passwords \in Nat
    BY ConstantsAssumption DEF Init
  <2> QED
    BY <2>1, <2>2, <2>3 DEF Init, TypeOK
<1>2. WorkerHolds
  BY DEF Init, WorkerHolds, Idle
<1> QED
  BY <1>1, <1>2 DEF TypeInv

(* The actions of users and of the cluster. *)
LEMMA OutsideType ==
  ASSUME TypeInv,
         \/ \E s \in UserSpecs : UserCreate(s) \/ UserEdit(s)
         \/ UserDelete \/ ClusterStep \/ PodFails \/ AddFinalizer
         \/ OperatorCrash \/ OperatorRestart
         \/ UNCHANGED vars
  PROVE  TypeInv'
<1> USE DEF TypeInv
<1>1. ASSUME NEW s \in UserSpecs, UserCreate(s)  PROVE TypeInv'
  <2>1. s \in SpecType
    BY ConstantsAssumption
  <2>2. NoStatus \in Status
    BY DEF NoStatus, Status, Phases
  <2>3. lastUid + 1 \in Uids /\ lastUid' \in 0..MaxUid
    BY <1>1, ConstantsAssumption DEF UserCreate, TypeOK, Uids
  <2>4. cr' \in Resource
    BY <1>1, <2>1, <2>2, <2>3 DEF UserCreate, Resource
  <2> QED
    BY <1>1, <2>3, <2>4 DEF UserCreate, TypeOK, WorkerHolds
<1>2. ASSUME NEW s \in UserSpecs, UserEdit(s)  PROVE TypeInv'
  <2>1. s \in SpecType
    BY ConstantsAssumption
  <2>2. cr' \in Resource
    BY <1>2, <2>1 DEF UserEdit, TypeOK, Resource
  <2>3. edits' \in 0..MaxEdits
    BY <1>2, ConstantsAssumption DEF UserEdit, TypeOK
  <2> QED
    BY <1>2, <2>2, <2>3 DEF UserEdit, TypeOK, WorkerHolds
<1>3. CASE UserDelete
  BY <1>3 DEF UserDelete, TypeOK, Resource, WorkerHolds
<1>4. ASSUME NEW k \in Kinds, GarbageCollect(k)  PROVE TypeInv'
  BY <1>4 DEF GarbageCollect, TypeOK, WorkerHolds
<1>5. CASE PodReady \/ AssignAddress \/ PodFails
  <2>1. PICK k \in Kinds, b \in BOOLEAN :
          /\ children[k] # None
          /\ children' = [children EXCEPT ![k].up = b]
    BY <1>5 DEF PodReady, AssignAddress, PodFails, Kinds
  <2>2. children[k] \in Child(k)
    BY <2>1 DEF TypeOK
  <2>3. [children[k] EXCEPT !.up = b] \in Child(k)
    BY <2>2 DEF Child
  <2>4. faults' \in 0..MaxFaults
    BY <1>5, ConstantsAssumption DEF PodReady, AssignAddress, PodFails, TypeOK
  <2>5. UNCHANGED <<cr, lastUid, act, up, resume, passwords, edits>>
    BY <1>5 DEF PodReady, AssignAddress, PodFails
  <2>6. /\ children' = [i \in Kinds |-> children'[i]]
        /\ \A i \in Kinds : children'[i] \in Child(i) \cup {None}
    BY <2>1, <2>3 DEF TypeOK
  <2> QED
    BY <2>4, <2>5, <2>6 DEF TypeOK, WorkerHolds
<1>6. CASE AddFinalizer
  BY <1>6 DEF AddFinalizer, TypeOK, Resource, WorkerHolds
<1>7. CASE OperatorCrash
  <2>1. act' \in [Actors -> Act] /\ faults' \in 0..MaxFaults
    BY <1>7, IdleType, ConstantsAssumption DEF OperatorCrash, TypeOK
  <2>2. WorkerHolds'
    BY <1>7 DEF OperatorCrash, WorkerHolds, Idle
  <2> QED
    BY <1>7, <2>1, <2>2 DEF OperatorCrash, TypeOK
<1>8. CASE OperatorRestart
  BY <1>8 DEF OperatorRestart, TypeOK, WorkerHolds
<1>9. CASE UNCHANGED vars
  BY <1>9 DEF vars, TypeOK, WorkerHolds
<1> QED
  BY <1>1, <1>2, <1>3, <1>4, <1>5, <1>6, <1>7, <1>8, <1>9 DEF ClusterStep

(* The step after a child is in place goes on with the same spec.          *)
LEMMA AfterType ==
  ASSUME TypeInv, NEW a \in Actors, NEW k \in Kinds,
         act[a].op \in {"read", "patch", "create"}
  PROVE  /\ After(a, k) \in Act
         /\ After(a, k).op \in {"read", "observe_statefulset"}
         /\ After(a, k).spec = act[a].spec
  BY DEF After, TypeInv, TypeOK, Act, Ops, Kinds, NextKind

(* The two reads of _observe_status. *)
LEMMA ObserveType ==
  ASSUME TypeInv, NEW a \in Actors, ObserveStatefulSet(a) \/ ObserveService(a)
  PROVE  TypeInv'
<1>1. CASE ObserveStatefulSet(a)
  <2> DEFINE r == [act[a] EXCEPT !.op = "observe_service", !.replica = ReplicaSeen]
  <2>1. ReplicaSeen \in {"absent", "unready", "ready"}
    BY DEF ReplicaSeen
  <2>2. r \in Act /\ r.op = "observe_service"
    BY <2>1 DEF TypeInv, TypeOK, Act, Ops
  <2>3. act' = [act EXCEPT ![a] = r]
    BY <1>1 DEF ObserveStatefulSet
  <2> HIDE DEF r
  <2>4. act' \in [Actors -> Act] /\ WorkerHolds'
    BY <2>2, <2>3, ActUpdate
  <2> QED
    BY <1>1, <2>4 DEF ObserveStatefulSet, TypeInv, TypeOK
<1>2. CASE ObserveService(a)
  <2> DEFINE r == [act[a] EXCEPT !.op = "commit",
                     !.out = ComputePhase(act[a].replica, AddressSeen)]
  <2>1. AddressSeen \in BOOLEAN
    BY DEF AddressSeen, TypeInv, TypeOK, Child, Kinds
  <2>2. r \in Act /\ r.op = "commit"
    BY <2>1, PhaseType DEF TypeInv, TypeOK, Act, Ops
  <2>3. act' = [act EXCEPT ![a] = r]
    BY <1>2 DEF ObserveService
  <2> HIDE DEF r
  <2>4. act' \in [Actors -> Act] /\ WorkerHolds'
    BY <2>2, <2>3, ActUpdate
  <2> QED
    BY <1>2, <2>4 DEF ObserveService, TypeInv, TypeOK
<1> QED
  BY <1>1, <1>2

(* The steps of the worker of one incarnation. *)
LEMMA WorkerType ==
  ASSUME TypeInv, NEW u \in Uids, WorkerStep(u)
  PROVE  TypeInv'
<1> DEFINE a == Worker(u)
<1>a. a \in Actors /\ act[a] \in Act /\ act[a].kind \in Kinds
  BY ActorsOf DEF TypeInv, TypeOK, Act
<1>b. act[a].op \in {"read", "patch", "create"} =>
        act[a].spec \in SpecType /\ act[a].spec.game \in Catalog
  BY <1>a DEF TypeInv, WorkerHolds
<1>c. Idle.op = "idle"
  BY DEF Idle
<1>1. CASE BeginReconcile(u)
  <2>1. cr \in Resource /\ cr.spec \in SpecType
    BY <1>1 DEF BeginReconcile, Live, TypeInv, TypeOK, Resource
  <2>2. FirstKind(cr.spec) \in Kinds
    BY DEF FirstKind, Kinds
  <2> DEFINE r == IF cr.spec.game \notin Catalog
                  THEN [Idle EXCEPT !.op = "commit", !.spec = cr.spec,
                                    !.out = [NoStatus EXCEPT !.phase = "Error"]]
                  ELSE [Idle EXCEPT !.op = "read", !.spec = cr.spec,
                                    !.kind = FirstKind(cr.spec)]
  <2>3. /\ r \in Act /\ r.op \in {"commit", "read"} /\ r.spec \in SpecType
        /\ r.op = "read" => r.spec.game \in Catalog
    BY <2>1, <2>2, IdleType
       DEF Act, Ops, Idle, NoStatus, Status, Phases
  <2>4. act' = [act EXCEPT ![a] = r]
    BY <1>1 DEF BeginReconcile
  <2> HIDE DEF r, a
  <2>5. act' \in [Actors -> Act] /\ WorkerHolds'
    BY <1>a, <2>3, <2>4, ActUpdate
  <2> QED
    BY <1>1, <2>5 DEF BeginReconcile, TypeInv, TypeOK
<1>2. CASE ReadChild(u)
  <2> DEFINE k == act[a].kind
             r == IF children[k] = None THEN [act[a] EXCEPT !.op = "create"]
                  ELSE IF k \in PatchedKinds THEN [act[a] EXCEPT !.op = "patch"]
                  ELSE After(a, k)
  <2>1. act[a].op = "read" /\ act' = [act EXCEPT ![a] = r]
    BY <1>2 DEF ReadChild
  <2>2. /\ r \in Act /\ r.spec = act[a].spec
        /\ r.op = "patch" => r.kind \in PatchedKinds
    BY <1>a, <2>1, AfterType DEF Act, Ops
  <2> HIDE DEF r, a
  <2>3. act' \in [Actors -> Act] /\ WorkerHolds'
    BY <1>a, <1>b, <2>1, <2>2, ActUpdate
  <2> QED
    BY <1>2, <2>3 DEF ReadChild, TypeInv, TypeOK
<1>3. CASE PatchChild(u)
  <2> DEFINE k == act[a].kind
             r == IF children[k] = None THEN [act[a] EXCEPT !.op = "create"]
                  ELSE IF Refused(k, act[a].spec) THEN Idle
                  ELSE After(a, k)
  <2>1. act[a].op = "patch" /\ act' = [act EXCEPT ![a] = r]
    BY <1>3, <1>a DEF PatchChild
  <2>2. r \in Act /\ r.op # "patch" /\ (r.op # "idle" => r.spec = act[a].spec)
    BY <1>a, <2>1, IdleType, AfterType DEF Act, Ops, Idle
  <2>3. k \in PatchedKinds
    BY <1>a, <2>1 DEF TypeInv, WorkerHolds
  <2>4. children[k] # None => Patched(k, act[a].spec) \in Child(k)
    BY <1>a, <1>b, <2>1, <2>3, PatchedType DEF TypeInv, TypeOK
  <2>5. /\ children' = [i \in Kinds |-> children'[i]]
        /\ \A i \in Kinds : children'[i] \in Child(i) \cup {None}
    BY <1>3, <1>a, <2>4 DEF PatchChild, TypeInv, TypeOK
  <2> HIDE DEF r, a
  <2>6. act' \in [Actors -> Act] /\ WorkerHolds'
    BY <1>a, <1>b, <2>1, <2>2, ActUpdate
  <2> QED
    BY <1>3, <2>5, <2>6 DEF PatchChild, TypeInv, TypeOK
<1>4. CASE CreateChild(u)
  <2> DEFINE k == act[a].kind
             r == IF children[k] = None THEN After(a, k) ELSE Idle
  <2>1. act[a].op = "create" /\ act' = [act EXCEPT ![a] = r]
    BY <1>4, <1>a DEF CreateChild
  <2>2. /\ r \in Act /\ r.op \notin {"patch", "create"}
        /\ r.op = "read" => r.spec = act[a].spec
    BY <1>a, <1>c, <2>1, AfterType, IdleType
  <2>3. Manifest(k, act[a].spec, u) \in Child(k)
    BY <1>a, <1>b, <2>1, ManifestType DEF TypeInv, TypeOK
  <2>4. /\ children' = [i \in Kinds |-> children'[i]]
        /\ \A i \in Kinds : children'[i] \in Child(i) \cup {None}
        /\ passwords' \in Nat
    BY <1>4, <1>a, <2>3 DEF CreateChild, TypeInv, TypeOK
  <2> HIDE DEF r, a
  <2>5. act' \in [Actors -> Act] /\ WorkerHolds'
    BY <1>a, <1>b, <2>1, <2>2, ActUpdate
  <2> QED
    BY <1>4, <2>4, <2>5 DEF CreateChild, TypeInv, TypeOK
<1>5. CASE CommitReconcile(u)
  <2>1. cr' \in Resource \cup {None}
    BY <1>5, <1>a DEF CommitReconcile, TypeInv, TypeOK, Resource, Act, Merge,
                      Status, Phases
  <2>2. act' \in [Actors -> Act] /\ WorkerHolds'
    BY <1>5, <1>a, <1>c, IdleType, ActUpdate DEF CommitReconcile
  <2> QED
    BY <1>5, <2>1, <2>2 DEF CommitReconcile, TypeInv, TypeOK
<1>6. CASE OnDelete(u)
  <2>1. cr' \in Resource
    BY <1>6 DEF OnDelete, Live, TypeInv, TypeOK, Resource, Merge, NoStatus,
                Status, Phases
  <2> DEFINE r == [Idle EXCEPT !.op = "release"]
  <2>2. r \in Act /\ r.op = "release" /\ act' = [act EXCEPT ![a] = r]
    BY <1>6, IdleType DEF OnDelete, Act, Ops
  <2> HIDE DEF r, a
  <2>3. act' \in [Actors -> Act] /\ WorkerHolds'
    BY <1>a, <2>2, ActUpdate
  <2> QED
    BY <1>6, <2>1, <2>3 DEF OnDelete, TypeInv, TypeOK
<1>7. CASE ReleaseFinalizer(u)
  <2>1. act' \in [Actors -> Act] /\ WorkerHolds'
    BY <1>7, <1>a, <1>c, IdleType, ActUpdate DEF ReleaseFinalizer
  <2> QED
    BY <1>7, <2>1 DEF ReleaseFinalizer, TypeInv, TypeOK
<1>8. ASSUME ObserveStatefulSet(a) \/ ObserveService(a)  PROVE TypeInv'
  BY <1>8, <1>a, ObserveType
<1> QED
  BY <1>1, <1>2, <1>3, <1>4, <1>5, <1>6, <1>7, <1>8 DEF WorkerStep

(* The steps of the status timer, and a failed call of either thread. *)
LEMMA TimerType ==
  ASSUME TypeInv, NEW u \in Uids, TimerStep(u)
  PROVE  TypeInv'
<1> DEFINE a == Timer(u)
<1>a. a \in Actors /\ act[a] \in Act
  BY ActorsOf DEF TypeInv, TypeOK
<1>1. CASE BeginRefresh(u)
  <2> DEFINE r == [Idle EXCEPT !.op = "observe_statefulset"]
  <2>1. r \in Act /\ r.op = "observe_statefulset" /\ act' = [act EXCEPT ![a] = r]
    BY <1>1, IdleType DEF BeginRefresh, Act, Ops
  <2> HIDE DEF r, a
  <2>2. act' \in [Actors -> Act] /\ WorkerHolds'
    BY <1>a, <2>1, ActUpdate
  <2> QED
    BY <1>1, <2>2 DEF BeginRefresh, TypeInv, TypeOK
<1>2. CASE CommitRefresh(u)
  <2>1. cr' \in Resource \cup {None}
    BY <1>2, <1>a DEF CommitRefresh, TypeInv, TypeOK, Resource, Act
  <2>2. act' \in [Actors -> Act] /\ WorkerHolds'
    <3>1. Idle.op = "idle"
      BY DEF Idle
    <3> QED
      BY <1>2, <1>a, <3>1, IdleType, ActUpdate DEF CommitRefresh
  <2> QED
    BY <1>2, <2>1, <2>2 DEF CommitRefresh, TypeInv, TypeOK
<1>3. ASSUME ObserveStatefulSet(a) \/ ObserveService(a)  PROVE TypeInv'
  BY <1>3, <1>a, ObserveType
<1> QED
  BY <1>1, <1>2, <1>3 DEF TimerStep

(* A failed call leaves its thread idle.                                   *)
LEMMA ApiErrorType ==
  ASSUME TypeInv, NEW a \in Actors, ApiError(a)
  PROVE  TypeInv'
<1>1. Idle.op = "idle"
  BY DEF Idle
<1>2. act' \in [Actors -> Act] /\ WorkerHolds'
  BY <1>1, IdleType, ActUpdate DEF ApiError
<1>3. faults' \in 0..MaxFaults
  BY ConstantsAssumption DEF ApiError, TypeInv, TypeOK
<1> QED
  BY <1>2, <1>3 DEF ApiError, TypeInv, TypeOK

(* Every step preserves the invariant.                                     *)
LEMMA StepType == TypeInv /\ [Next]_vars => TypeInv'
  BY OutsideType, WorkerType, TimerType, ApiErrorType DEF Next

(* Types, with the specs the workers hold.                                 *)
LEMMA TypeInvariant == SafeSpec => []TypeInv
  BY InitType, StepType, PTL DEF SafeSpec

(* Every reachable state is well typed: in particular every child carries  *)
(* an owner reference, and every status is one the CRD enumerates.         *)
THEOREM TypeCorrect == SafeSpec => []TypeOK
<1>1. TypeInv => TypeOK
  BY DEF TypeInv
<1> QED
  BY <1>1, TypeInvariant, PTL

-----------------------------------------------------------------------------
(* The finalizer keeps the threads of one incarnation away from the next *)

(* A thread becomes busy only under the finalizer of its own incarnation,  *)
(* and that finalizer is lifted only when both its threads are idle.       *)
LEMMA StepGuard ==
  ASSUME TypeInv, FinalizerGuard, [Next]_vars
  PROVE  FinalizerGuard'
<1> SUFFICES ASSUME NEW v \in Uids, NEW r \in Roles, act'[<<v, r>>] # Idle
             PROVE  cr' # None /\ cr'.uid = v /\ cr'.finalizer
  BY DEF FinalizerGuard, Busy
<1> DEFINE b == <<v, r>>
<1>a. b \in Actors /\ act \in [Actors -> Act]
  BY DEF Actors, TypeInv, TypeOK
<1>b. act[b] # Idle => cr # None /\ cr.uid = v /\ cr.finalizer
  BY DEF FinalizerGuard, Busy
<1>c. cr # None => cr \in Resource
  BY DEF TypeInv, TypeOK
<1>d. \A u \in Uids : Worker(u) \in Actors /\ Timer(u) \in Actors
  BY ActorsOf
<1> HIDE DEF b
<1>1. ASSUME NEW s \in UserSpecs, UserCreate(s)
      PROVE  cr' # None /\ cr'.uid = v /\ cr'.finalizer
  BY <1>1, <1>b DEF UserCreate, b
<1>2. ASSUME NEW s \in UserSpecs, UserEdit(s)
      PROVE  cr' # None /\ cr'.uid = v /\ cr'.finalizer
  <2>1. act[b] # Idle
    BY <1>2 DEF UserEdit, b
  <2>2. cr' \in Resource /\ cr'.uid = cr.uid /\ cr'.finalizer = cr.finalizer
    BY <1>2, <1>c, ConstantsAssumption DEF UserEdit, Resource
  <2> QED
    BY <1>b, <2>1, <2>2, NoneAssumption
<1>3. CASE UserDelete
  <2>1. act[b] # Idle
    BY <1>3 DEF UserDelete, b
  <2>2. cr' \in Resource /\ cr'.uid = cr.uid /\ cr'.finalizer = cr.finalizer
    BY <1>3, <1>b, <1>c, <2>1 DEF UserDelete, Resource
  <2> QED
    BY <1>b, <2>1, <2>2, NoneAssumption
<1>4. CASE AddFinalizer
  BY <1>4, <1>b DEF AddFinalizer, b
<1>5. CASE ClusterStep \/ PodFails \/ OperatorRestart \/ UNCHANGED vars
  BY <1>5, <1>b DEF ClusterStep, GarbageCollect, PodReady, AssignAddress,
                    PodFails, OperatorRestart, vars, b
<1>6. CASE OperatorCrash
  BY <1>6, <1>a DEF OperatorCrash, b
<1>7. ASSUME NEW u \in Uids, BeginReconcile(u) \/ BeginRefresh(u)
      PROVE  cr' # None /\ cr'.uid = v /\ cr'.finalizer
  <2>1. UNCHANGED cr /\ cr # None /\ cr.uid = u /\ cr.finalizer
    BY <1>7 DEF BeginReconcile, BeginRefresh, Live
  <2>2. CASE b \in {Worker(u), Timer(u)}
    BY <2>1, <2>2 DEF Worker, Timer, b
  <2>3. CASE b \notin {Worker(u), Timer(u)}
    BY <1>7, <1>a, <1>b, <1>d, <2>1, <2>3 DEF BeginReconcile, BeginRefresh, b
  <2> QED
    BY <2>2, <2>3
<1>8. ASSUME NEW u \in Uids, ReadChild(u) \/ PatchChild(u) \/ CreateChild(u)
      PROVE  cr' # None /\ cr'.uid = v /\ cr'.finalizer
  <2>1. UNCHANGED cr /\ act[Worker(u)] # Idle
    BY <1>8 DEF ReadChild, PatchChild, CreateChild, Idle
  <2>2. cr # None /\ cr.uid = u /\ cr.finalizer
    BY <2>1 DEF FinalizerGuard, Busy, Worker, Roles
  <2>3. b # Worker(u) => act'[b] = act[b]
    BY <1>8, <1>a, <1>d DEF ReadChild, PatchChild, CreateChild
  <2> QED
    BY <1>b, <2>1, <2>2, <2>3 DEF Worker, b
<1>9. ASSUME NEW a \in Actors,
             ObserveStatefulSet(a) \/ ObserveService(a) \/ ApiError(a)
      PROVE  cr' # None /\ cr'.uid = v /\ cr'.finalizer
  <2>1. UNCHANGED cr /\ act[a] # Idle
    BY <1>9 DEF ObserveStatefulSet, ObserveService, ApiError, Idle
  <2>2. act[b] # Idle
    BY <1>9, <1>a, <2>1 DEF ObserveStatefulSet, ObserveService, ApiError, b
  <2> QED
    BY <1>b, <2>1, <2>2
<1>10. ASSUME NEW u \in Uids, CommitReconcile(u) \/ CommitRefresh(u)
       PROVE  cr' # None /\ cr'.uid = v /\ cr'.finalizer
  <2>1. act[b] # Idle
    BY <1>10, <1>a, <1>d DEF CommitReconcile, CommitRefresh, b
  <2>2. cr # None /\ cr \in Resource
    BY <1>b, <1>c, <2>1
  <2>3. cr' \in Resource
    <3>1. act[Worker(u)] \in Act /\ act[Timer(u)] \in Act
      BY <1>a, <1>d
    <3>2. CASE CommitReconcile(u)
      BY <3>1, <3>2, <2>2 DEF CommitReconcile, Resource, Act, Merge, Status, Phases
    <3>3. CASE CommitRefresh(u)
      BY <3>1, <3>3, <2>2 DEF CommitRefresh, Resource, Act
    <3> QED
      BY <1>10, <3>2, <3>3
  <2>4. cr'.uid = cr.uid /\ cr'.finalizer = cr.finalizer
    BY <1>10, <2>2 DEF CommitReconcile, CommitRefresh, Resource
  <2> QED
    BY <1>b, <2>1, <2>3, <2>4, NoneAssumption
<1>11. ASSUME NEW u \in Uids, OnDelete(u)
       PROVE  cr' # None /\ cr'.uid = v /\ cr'.finalizer
  <2>1. cr # None /\ cr.uid = u /\ cr.finalizer /\ cr \in Resource
    BY <1>11, <1>c DEF OnDelete, Live
  <2>2. cr' \in Resource /\ cr'.uid = cr.uid /\ cr'.finalizer = cr.finalizer
    BY <1>11, <2>1 DEF OnDelete, Resource, Merge, Status, NoStatus, Phases
  <2>3. b # Worker(u) => act'[b] = act[b]
    BY <1>11, <1>a, <1>d DEF OnDelete
  <2>4. v = u
    BY <1>b, <2>1, <2>3 DEF Worker, b
  <2> QED
    BY <2>1, <2>2, <2>4, NoneAssumption
<1>12. ASSUME NEW u \in Uids, ReleaseFinalizer(u)
       PROVE  FALSE
  <2>1. cr.uid = u /\ act[Timer(u)] = Idle
    BY <1>12 DEF ReleaseFinalizer, Live
  <2>2. act'[b] = IF b = Worker(u) THEN Idle ELSE act[b]
    BY <1>12, <1>a, <1>d DEF ReleaseFinalizer
  <2>3. v = u /\ b # Worker(u)
    BY <1>b, <2>1, <2>2 DEF b
  <2> QED
    BY <2>1, <2>2, <2>3 DEF b, Roles, Worker, Timer
<1> QED
  BY <1>1, <1>2, <1>3, <1>4, <1>5, <1>6, <1>7, <1>8, <1>9, <1>10, <1>11, <1>12, <1>d
     DEF Next, WorkerStep, TimerStep

(* No thread of a deleted server touches its successor.                    *)
THEOREM Guarded == SafeSpec => []FinalizerGuard
<1>1. Init => FinalizerGuard
  BY DEF Init, FinalizerGuard, Busy, Actors
<1> QED
  BY <1>1, StepGuard, TypeInvariant, PTL DEF SafeSpec

-----------------------------------------------------------------------------
(* What one step may do to the resource and to the children *)

(* Only UserCreate starts an incarnation; every other step keeps it or     *)
(* ends it.                                                                *)
LEMMA ResourceStep ==
  ASSUME TypeInv, [Next]_vars, cr' # None
  PROVE  \/ cr # None /\ cr'.uid = cr.uid /\ lastUid' = lastUid
         \/ \E s \in UserSpecs : UserCreate(s)
<1>1. cr # None => cr \in Resource
  BY DEF TypeInv, TypeOK
<1>2. ASSUME NEW s \in UserSpecs, UserEdit(s)
      PROVE  cr # None /\ cr'.uid = cr.uid /\ lastUid' = lastUid
  BY <1>1, <1>2 DEF UserEdit, Resource
<1>3. CASE UserDelete \/ AddFinalizer
  BY <1>1, <1>3 DEF UserDelete, AddFinalizer, Resource
<1>4. CASE ClusterStep \/ PodFails \/ OperatorCrash \/ OperatorRestart \/ UNCHANGED vars
  BY <1>4 DEF ClusterStep, GarbageCollect, PodReady, AssignAddress, PodFails,
              OperatorCrash, OperatorRestart, vars
<1>5. ASSUME NEW u \in Uids, WorkerStep(u) \/ TimerStep(u)
      PROVE  cr # None /\ cr'.uid = cr.uid /\ lastUid' = lastUid
  <2>1. CASE CommitReconcile(u) \/ CommitRefresh(u) \/ OnDelete(u)
    BY <1>1, <2>1 DEF CommitReconcile, CommitRefresh, OnDelete, Live, Resource
  <2>2. CASE ReleaseFinalizer(u)
    BY <2>2 DEF ReleaseFinalizer
  <2>3. CASE UNCHANGED <<cr, lastUid>>
    BY <2>3
  <2> QED
    BY <1>5, <2>1, <2>2, <2>3
       DEF WorkerStep, TimerStep, BeginReconcile, ReadChild, PatchChild,
           CreateChild, ObserveStatefulSet, ObserveService, BeginRefresh
<1>6. ASSUME NEW a \in Actors, ApiError(a)
      PROVE  UNCHANGED <<cr, lastUid>>
  BY <1>6 DEF ApiError
<1> QED
  BY <1>2, <1>3, <1>4, <1>5, <1>6 DEF Next

(* Only a creation takes a new uid.                                        *)
LEMMA UidStep ==
  ASSUME [Next]_vars
  PROVE  lastUid' = lastUid \/ \E s \in UserSpecs : UserCreate(s)
  BY DEF Next, UserEdit, UserDelete, AddFinalizer, ClusterStep, GarbageCollect,
         PodReady, AssignAddress, PodFails, OperatorCrash, OperatorRestart, vars,
         WorkerStep, TimerStep, BeginReconcile, ReadChild, PatchChild, CreateChild,
         ObserveStatefulSet, ObserveService, CommitReconcile, OnDelete,
         ReleaseFinalizer, BeginRefresh, CommitRefresh, ApiError

(* A child of kind k, and the password counter, change in one of four ways *)
(* in a step.                                                              *)
Kept(k) ==      \* unchanged, or patched in place if the kind is patched
  /\ children[k] # None /\ children'[k] # None
  /\ children'[k].owner = children[k].owner
  /\ k = "secret" => children'[k] = children[k]
  /\ UNCHANGED passwords
Made(k) ==      \* created by the worker of the live incarnation
  /\ children[k] = None /\ children'[k] # None
  /\ UNCHANGED <<cr, lastUid>> /\ cr # None /\ children'[k].owner = cr.uid
  /\ passwords' = IF k = "secret" THEN passwords + 1 ELSE passwords
Collected(k) == \* removed as an orphan
  /\ children[k] # None /\ children'[k] = None
  /\ UNCHANGED <<cr, lastUid, passwords>>
  /\ cr # None => cr.uid # children[k].owner

(* A create call makes one child of this incarnation, or none.             *)
LEMMA CreateStep ==
  ASSUME TypeInv, FinalizerGuard, NEW u \in Uids, CreateChild(u)
  PROVE  \/ UNCHANGED <<children, passwords>>
         \/ \E k \in Kinds : Made(k) /\ \A i \in Kinds \ {k} : children'[i] = children[i]
<1> DEFINE a == Worker(u)
           k == act[a].kind
<1>1. k \in Kinds /\ act[a].op = "create"
  BY ActorsOf DEF CreateChild, TypeInv, TypeOK, Act
<1>2. act[a].spec \in SpecType /\ act[a].spec.game \in Catalog
  BY <1>1, ActorsOf DEF TypeInv, WorkerHolds
<1>3. cr # None /\ cr.uid = u
  <2>1. act[a] # Idle
    BY <1>1 DEF Idle
  <2> QED
    BY <2>1 DEF FinalizerGuard, Busy, Worker, Roles
<1>4. Manifest(k, act[a].spec, u) \in Child(k)
  BY <1>1, <1>2, ManifestType DEF TypeInv, TypeOK
<1>5. Manifest(k, act[a].spec, u).owner = u
  BY DEF Manifest, OwnerReference
<1>6. CASE children[k] = None
  <2>1. children' = [children EXCEPT ![k] = Manifest(k, act[a].spec, u)]
    BY <1>6 DEF CreateChild
  <2>2. children'[k] # None /\ children'[k].owner = u
    BY <1>1, <1>4, <1>5, <2>1, NoneAssumption DEF TypeInv, TypeOK
  <2>3. \A i \in Kinds \ {k} : children'[i] = children[i]
    BY <2>1 DEF TypeInv, TypeOK
  <2>4. Made(k)
    BY <1>3, <1>6, <2>2 DEF Made, CreateChild
  <2> QED
    BY <1>1, <2>3, <2>4
<1>7. CASE children[k] # None
  <2>1. children' = children /\ passwords' = passwords
    BY <1>7 DEF CreateChild
  <2> QED
    BY <2>1
<1> QED
  BY <1>6, <1>7

(* Any other step keeps a child, or collects it if it is an orphan. *)
LEMMA ChildStep ==
  ASSUME TypeInv, FinalizerGuard, [Next]_vars
  PROVE  \/ UNCHANGED <<children, passwords>>
         \/ \E k \in Kinds : /\ Kept(k) \/ Made(k) \/ Collected(k)
                             /\ \A i \in Kinds \ {k} : children'[i] = children[i]
<1> DEFINE Goal == \/ UNCHANGED <<children, passwords>>
                   \/ \E k \in Kinds : /\ Kept(k) \/ Made(k) \/ Collected(k)
                                       /\ \A i \in Kinds \ {k} : children'[i] = children[i]
<1>1. ASSUME NEW k \in Kinds, GarbageCollect(k)
      PROVE  Goal
  <2>1. Collected(k)
    BY <1>1 DEF GarbageCollect, Collected, TypeInv, TypeOK
  <2>2. \A i \in Kinds \ {k} : children'[i] = children[i]
    BY <1>1 DEF GarbageCollect, TypeInv, TypeOK
  <2> QED
    BY <2>1, <2>2
<1>2. ASSUME PodReady \/ AssignAddress \/ PodFails
      PROVE  Goal
  <2>1. PICK k \in {"service", "statefulset"}, b \in BOOLEAN :
          children[k] # None /\ children' = [children EXCEPT ![k].up = b]
    BY <1>2 DEF PodReady, AssignAddress, PodFails
  <2>2. children[k] \in Child(k) /\ k \in Kinds
    BY <2>1 DEF TypeInv, TypeOK, Kinds
  <2>3. /\ [children[k] EXCEPT !.up = b] \in Child(k)
        /\ [children[k] EXCEPT !.up = b].owner = children[k].owner
    BY <2>2 DEF Child
  <2>4. children'[k] = [children[k] EXCEPT !.up = b]
    BY <2>1, <2>2 DEF TypeInv, TypeOK
  <2>5. UNCHANGED passwords
    BY <1>2 DEF PodReady, AssignAddress, PodFails
  <2>6. Kept(k)
    BY <2>1, <2>2, <2>3, <2>4, <2>5, NoneAssumption DEF Kept
  <2>7. \A i \in Kinds \ {k} : children'[i] = children[i]
    BY <2>1, <2>2 DEF TypeInv, TypeOK
  <2> QED
    BY <2>2, <2>6, <2>7
<1>3. ASSUME NEW u \in Uids, PatchChild(u)
      PROVE  Goal
  <2> DEFINE a == Worker(u)
             k == act[a].kind
  <2>1. act[a].op = "patch" /\ k \in PatchedKinds
    BY <1>3, ActorsOf DEF PatchChild, TypeInv, WorkerHolds
  <2>2. k \in Kinds /\ k # "secret"
    BY <2>1 DEF PatchedKinds, Kinds
  <2>3. act[a].spec \in SpecType /\ act[a].spec.game \in Catalog
    BY <2>1, ActorsOf DEF TypeInv, WorkerHolds
  <2>4. CASE children[k] = None
    BY <1>3, <2>4 DEF PatchChild
  <2>5. CASE children[k] # None /\ Refused(k, act[a].spec)
    BY <1>3, <2>5 DEF PatchChild
  <2>6. CASE children[k] # None /\ ~Refused(k, act[a].spec)
    <3>1. children' = [children EXCEPT ![k] = Patched(k, act[a].spec)]
      BY <1>3, <2>6 DEF PatchChild
    <3>2. children'[k] = Patched(k, act[a].spec)
      BY <2>2, <3>1 DEF TypeInv, TypeOK
    <3>3. children[k] \in Child(k)
      BY <2>2, <2>6 DEF TypeInv, TypeOK
    <3>4. /\ Patched(k, act[a].spec) \in Child(k)
          /\ Patched(k, act[a].spec).owner = children[k].owner
      BY <2>1, <2>3, <3>3, PatchedType
    <3>5. UNCHANGED passwords
      BY <1>3 DEF PatchChild
    <3>6. Kept(k)
      BY <2>2, <2>6, <3>2, <3>4, <3>5, NoneAssumption DEF Kept
    <3>7. \A i \in Kinds \ {k} : children'[i] = children[i]
      BY <3>1 DEF TypeInv, TypeOK
    <3> QED
      BY <2>2, <3>6, <3>7
  <2> QED
    BY <2>4, <2>5, <2>6
<1>4. ASSUME NEW u \in Uids, CreateChild(u)
      PROVE  Goal
  BY <1>4, CreateStep
<1>5. ASSUME UNCHANGED <<children, passwords>>
      PROVE  Goal
  BY <1>5
<1> HIDE DEF Goal
<1>6. ASSUME \/ \E s \in UserSpecs : UserCreate(s) \/ UserEdit(s)
             \/ UserDelete \/ AddFinalizer \/ OperatorCrash \/ OperatorRestart
             \/ UNCHANGED vars \/ (\E a \in Actors : ApiError(a))
      PROVE  Goal
  BY <1>5, <1>6 DEF UserCreate, UserEdit, UserDelete, AddFinalizer,
                    OperatorCrash, OperatorRestart, vars, ApiError
<1>7. ASSUME NEW u \in Uids, WorkerStep(u) \/ TimerStep(u)
      PROVE  Goal
  <2>1. PatchChild(u) \/ CreateChild(u) \/ UNCHANGED <<children, passwords>>
    BY <1>7
       DEF WorkerStep, TimerStep, BeginReconcile, ReadChild, ObserveStatefulSet,
           ObserveService, CommitReconcile, OnDelete, ReleaseFinalizer,
           BeginRefresh, CommitRefresh
  <2> QED
    BY <1>3, <1>4, <1>5, <2>1
<1>8. Goal
  BY <1>1, <1>2, <1>6, <1>7 DEF Next, ClusterStep
<1> QED
  BY <1>8 DEF Goal

-----------------------------------------------------------------------------
(* Theorems on the children *)

(* If a name is reused only once it is clean, the operator never works on  *)
(* an object of an earlier incarnation.                                    *)
THEOREM Belonging == SafeSpec => []ChildrenBelong
<1>1. Init => ChildrenBelong
  BY DEF Init, ChildrenBelong
<1>2. TypeInv /\ FinalizerGuard /\ ChildrenBelong /\ [Next]_vars => ChildrenBelong'
  <2> SUFFICES ASSUME TypeInv, FinalizerGuard, ChildrenBelong, [Next]_vars,
                      WaitForGC, cr' # None, NEW k \in Kinds, children'[k] # None
               PROVE  children'[k].owner = cr'.uid
    BY DEF ChildrenBelong
  <2>1. CASE \E s \in UserSpecs : UserCreate(s)
    BY <2>1 DEF UserCreate
  <2>2. CASE cr # None /\ cr'.uid = cr.uid
    <3>1. children[k] # None => children[k].owner = cr.uid
      BY <2>2 DEF ChildrenBelong
    <3> QED
      BY <2>2, <3>1, ChildStep DEF Kept, Made, Collected
  <2> QED
    BY <2>1, <2>2, ResourceStep
<1> QED
  BY <1>1, <1>2, TypeInvariant, Guarded, PTL DEF SafeSpec

(* The generated password is never replaced while its Secret exists.       *)
THEOREM PasswordStable == SafeSpec => SecretStable
<1>1. ASSUME TypeInv, FinalizerGuard, [Next]_vars
      PROVE  [children["secret"] # None /\ children'["secret"] # None
              => children'["secret"] = children["secret"]]_vars
  BY <1>1, ChildStep DEF Kept, Made, Collected, Kinds
<1> QED
  BY <1>1, TypeInvariant, Guarded, PTL DEF SafeSpec, SecretStable

(* What OnePasswordPerIncarnation rests on: the live incarnation is the    *)
(* newest, and while it has no Secret of its own a password is in reserve. *)
PasswordInv ==
  /\ passwords <= lastUid
  /\ cr # None =>
       /\ cr.uid = lastUid
       /\ children["secret"] = None \/ children["secret"].owner # cr.uid
            => passwords < lastUid

(* At most one password per incarnation, with or without name reuse.       *)
THEOREM OnePassword == SafeSpec => []OnePasswordPerIncarnation
<1>1. Init => PasswordInv
  BY DEF Init, PasswordInv
<1>2. TypeInv /\ FinalizerGuard /\ PasswordInv /\ [Next]_vars => PasswordInv'
  <2> SUFFICES ASSUME TypeInv, FinalizerGuard, PasswordInv, [Next]_vars
               PROVE  PasswordInv'
    OBVIOUS
  <2>a. passwords \in Nat /\ lastUid \in Nat
    BY ConstantsAssumption DEF TypeInv, TypeOK
  <2>b. "secret" \in Kinds
    BY DEF Kinds
  <2>1. CASE \E s \in UserSpecs : UserCreate(s)
    BY <2>1, <2>a DEF UserCreate, PasswordInv
  <2>2. CASE lastUid' = lastUid /\ (cr' # None => cr # None /\ cr'.uid = cr.uid)
    <3>1. CASE UNCHANGED <<children, passwords>>
      BY <2>2, <3>1 DEF PasswordInv
    <3>2. ASSUME NEW k \in Kinds, Kept(k) \/ Made(k) \/ Collected(k),
                 \A i \in Kinds \ {k} : children'[i] = children[i]
          PROVE  PasswordInv'
      <4>1. CASE k = "secret"
        BY <2>2, <2>a, <3>2, <4>1 DEF PasswordInv, Kept, Made, Collected
      <4>2. CASE k # "secret"
        BY <2>2, <2>a, <2>b, <3>2, <4>2 DEF PasswordInv, Kept, Made, Collected
      <4> QED
        BY <4>1, <4>2
    <3> QED
      BY <3>1, <3>2, ChildStep
  <2>3. lastUid' = lastUid \/ \E s \in UserSpecs : UserCreate(s)
    BY UidStep
  <2> QED
    BY <2>1, <2>2, <2>3, ResourceStep
<1>3. PasswordInv => OnePasswordPerIncarnation
  BY DEF PasswordInv, OnePasswordPerIncarnation
<1> QED
  BY <1>1, <1>2, <1>3, TypeInvariant, Guarded, PTL DEF SafeSpec

-----------------------------------------------------------------------------
(* What one step may do to a thread and to what it builds *)

Building == {"read", "patch", "create"}

(* A thread goes on by a step of its own, ends, or stays as it is.         *)
LEMMA ThreadStep ==
  ASSUME TypeInv, [Next]_vars, NEW b \in Actors
  PROVE  \/ act'[b] = act[b]
         \/ act'[b].op \in {"idle", "release"}
         \/ \E u \in Uids : b = Worker(u) /\ BeginReconcile(u)
         \/ \E u \in Uids : b = Worker(u) /\ (ReadChild(u) \/ PatchChild(u) \/ CreateChild(u))
         \/ \E u \in Uids : b = Timer(u) /\ BeginRefresh(u)
         \/ ObserveStatefulSet(b) \/ ObserveService(b)
<1> DEFINE Goal == \/ act'[b] = act[b]
                   \/ act'[b].op \in {"idle", "release"}
                   \/ \E u \in Uids : b = Worker(u) /\ BeginReconcile(u)
                   \/ \E u \in Uids : b = Worker(u)
                                      /\ (ReadChild(u) \/ PatchChild(u) \/ CreateChild(u))
                   \/ \E u \in Uids : b = Timer(u) /\ BeginRefresh(u)
                   \/ ObserveStatefulSet(b) \/ ObserveService(b)
<1>0. act \in [Actors -> Act] /\ Idle.op = "idle"
  BY DEF TypeInv, TypeOK, Idle
<1>1. ASSUME NEW u \in Uids, BeginReconcile(u) PROVE Goal
  <2>1. b # Worker(u) => act'[b] = act[b]
    BY <1>0, <1>1 DEF BeginReconcile
  <2> QED
    BY <1>1, <2>1
<1>2. ASSUME NEW u \in Uids, ReadChild(u) \/ PatchChild(u) \/ CreateChild(u) PROVE Goal
  <2>1. b # Worker(u) => act'[b] = act[b]
    BY <1>0, <1>2 DEF ReadChild, PatchChild, CreateChild
  <2> QED
    BY <1>2, <2>1
<1>3. ASSUME NEW u \in Uids, BeginRefresh(u) PROVE Goal
  <2>1. b # Timer(u) => act'[b] = act[b]
    BY <1>0, <1>3 DEF BeginRefresh
  <2> QED
    BY <1>3, <2>1
<1>4. ASSUME NEW a \in Actors, ObserveStatefulSet(a) \/ ObserveService(a) PROVE Goal
  <2>1. b # a => act'[b] = act[b]
    BY <1>0, <1>4 DEF ObserveStatefulSet, ObserveService
  <2> QED
    BY <1>4, <2>1
<1>5. ASSUME NEW a \in Actors, NEW r, r.op \in {"idle", "release"},
             act' = [act EXCEPT ![a] = r]
      PROVE  Goal
  BY <1>0, <1>5
<1>6. ASSUME NEW u \in Uids,
             CommitReconcile(u) \/ OnDelete(u) \/ ReleaseFinalizer(u) \/ CommitRefresh(u)
      PROVE  Goal
  <2>1. PICK a \in Actors, r \in {Idle, [Idle EXCEPT !.op = "release"]} :
          act' = [act EXCEPT ![a] = r]
    BY <1>6, ActorsOf DEF CommitReconcile, OnDelete, ReleaseFinalizer, CommitRefresh
  <2>2. r.op \in {"idle", "release"}
    BY DEF Idle
  <2> QED
    BY <1>5, <2>1, <2>2
<1>7. ASSUME NEW a \in Actors, ApiError(a) PROVE Goal
  BY <1>0, <1>5, <1>7 DEF ApiError
<1>8. ASSUME OperatorCrash PROVE Goal
  BY <1>0, <1>8 DEF OperatorCrash
<1>9. ASSUME \/ \E s \in UserSpecs : UserCreate(s) \/ UserEdit(s)
             \/ UserDelete \/ ClusterStep \/ PodFails \/ AddFinalizer
             \/ OperatorRestart \/ UNCHANGED vars
      PROVE  Goal
  <2>1. act' = act
    BY <1>9 DEF UserCreate, UserEdit, UserDelete, ClusterStep, GarbageCollect, PodReady,
                AssignAddress, PodFails, AddFinalizer, OperatorRestart, vars
  <2> QED
    BY <2>1
<1> HIDE DEF Goal
<1>10. ASSUME NEW u \in Uids, WorkerStep(u) PROVE Goal
  BY <1>1, <1>2, <1>4, <1>6, <1>10, ActorsOf DEF WorkerStep
<1>11. ASSUME NEW u \in Uids, TimerStep(u) PROVE Goal
  BY <1>3, <1>4, <1>6, <1>11, ActorsOf DEF TimerStep
<1>12. Goal
  BY <1>7, <1>8, <1>9, <1>10, <1>11 DEF Next
<1> QED
  BY <1>12 DEF Goal

(* A call that writes an object leaves an object of its kind.              *)
LEMMA WrittenType ==
  ASSUME TypeInv, NEW u \in Uids, NEW k \in Kinds, k = act[Worker(u)].kind,
         \/ PatchChild(u) /\ children[k] # None /\ ~Refused(k, act[Worker(u)].spec)
         \/ CreateChild(u) /\ children[k] = None
  PROVE  /\ children'[k] \in Child(k)
         /\ act' = [act EXCEPT ![Worker(u)] = After(Worker(u), k)]
<1> DEFINE a == Worker(u)
<1>1. a \in Actors /\ act[a].op \in {"patch", "create"}
  BY ActorsOf DEF PatchChild, CreateChild
<1>2. act[a].spec \in SpecType /\ act[a].spec.game \in Catalog
  BY <1>1 DEF TypeInv, WorkerHolds
<1>3. CASE PatchChild(u) /\ children[k] # None /\ ~Refused(k, act[a].spec)
  <2>1. children' = [children EXCEPT ![k] = Patched(k, act[a].spec)]
    BY <1>3 DEF PatchChild
  <2>2. k \in PatchedKinds /\ children[k] \in Child(k)
    BY <1>1, <1>3 DEF PatchChild, TypeInv, TypeOK, WorkerHolds
  <2>3. Patched(k, act[a].spec) \in Child(k)
    BY <1>2, <2>2, PatchedType
  <2> QED
    BY <1>3, <2>1, <2>3 DEF PatchChild, TypeInv, TypeOK
<1>4. CASE CreateChild(u) /\ children[k] = None
  <2>1. children' = [children EXCEPT ![k] = Manifest(k, act[a].spec, u)]
    BY <1>4 DEF CreateChild
  <2>2. Manifest(k, act[a].spec, u) \in Child(k)
    BY <1>2, ManifestType DEF TypeInv, TypeOK
  <2> QED
    BY <1>4, <2>1, <2>2 DEF CreateChild, TypeInv, TypeOK
<1> QED
  BY <1>3, <1>4

(* A worker that is building after a step began in it, with the spec of    *)
(* the resource, or goes on, with the spec it had: after the object it was *)
(* at, if it leaves one kind for the next.                                 *)
LEMMA BuildingStep ==
  ASSUME TypeInv, [Next]_vars, NEW u \in Uids, act'[Worker(u)].op \in Building
  PROVE  \/ /\ BeginReconcile(u) /\ cr.spec.game \in Catalog
            /\ act'[Worker(u)].spec = cr.spec /\ act'[Worker(u)].kind = FirstKind(cr.spec)
         \/ /\ act[Worker(u)].op \in Building
            /\ act'[Worker(u)].spec = act[Worker(u)].spec
            /\ \/ act'[Worker(u)].kind = act[Worker(u)].kind
               \/ /\ act'[Worker(u)].kind = NextKind(act[Worker(u)].kind)
                  /\ children'[act[Worker(u)].kind] # None
<1> DEFINE b == Worker(u)
           k == act[b].kind
<1>0. /\ b \in Actors /\ act \in [Actors -> Act] /\ k \in Kinds
      /\ Idle.op = "idle"
  BY ActorsOf DEF TypeInv, TypeOK, Act, Idle
<1>1. CASE BeginReconcile(u)
  <2>1. act'[b] = IF cr.spec.game \notin Catalog
                  THEN [Idle EXCEPT !.op = "commit", !.spec = cr.spec,
                                    !.out = [NoStatus EXCEPT !.phase = "Error"]]
                  ELSE [Idle EXCEPT !.op = "read", !.spec = cr.spec,
                                    !.kind = FirstKind(cr.spec)]
    BY <1>0, <1>1 DEF BeginReconcile
  <2>2. cr.spec.game \in Catalog
    BY <2>1 DEF Idle, Building
  <2> QED
    BY <1>1, <2>1, <2>2 DEF Idle
<1>2. ASSUME ReadChild(u) \/ PatchChild(u) \/ CreateChild(u)
      PROVE  /\ act[b].op \in Building /\ act'[b].spec = act[b].spec
             /\ \/ act'[b].kind = k
                \/ act'[b].kind = NextKind(k) /\ children'[k] # None
  <2>1. act[b].op \in Building
    BY <1>2 DEF ReadChild, PatchChild, CreateChild, Building
  <2>2. act[b] \in Act
    BY <1>0
  <2>3. ASSUME act'[b] = After(b, k), children'[k] # None
        PROVE  act'[b].spec = act[b].spec /\ act'[b].kind = NextKind(k)
    <3>1. k # "pdb"
      BY <2>2, <2>3 DEF After, Act, Building
    <3> QED
      BY <2>2, <2>3, <3>1 DEF After, Act
  <2>4. CASE ReadChild(u)
    <3>1. CASE children[k] = None \/ k \in PatchedKinds
      BY <1>0, <2>1, <2>2, <2>4, <3>1 DEF ReadChild, Act
    <3>2. CASE children[k] # None /\ k \notin PatchedKinds
      BY <1>0, <2>1, <2>3, <2>4, <3>2 DEF ReadChild
    <3> QED
      BY <2>1, <2>3, <3>1, <3>2
  <2>5. CASE PatchChild(u) /\ children[k] = None
    BY <1>0, <2>1, <2>2, <2>5 DEF PatchChild, Act
  <2>6. CASE \/ PatchChild(u) /\ children[k] # None /\ ~Refused(k, act[b].spec)
             \/ CreateChild(u) /\ children[k] = None
    <3>1. children'[k] \in Child(k) /\ act'[b] = After(b, k)
      BY <1>0, <2>6, WrittenType
    <3> QED
      BY <1>0, <2>1, <2>3, <3>1, NoneAssumption
  <2>7. ~(CreateChild(u) /\ children[k] # None)
    BY <1>0 DEF CreateChild, Building
  <2>8. ~(PatchChild(u) /\ children[k] # None /\ Refused(k, act[b].spec))
    BY <1>0 DEF PatchChild, Building
  <2> QED
    BY <1>2, <2>4, <2>5, <2>6, <2>7, <2>8
<1>3. \A v \in Uids : Worker(u) # Timer(v) /\ (Worker(u) = Worker(v) => u = v)
  BY DEF Worker, Timer
<1>4. CASE act'[b] = act[b]
  BY <1>4
<1>5. ~ObserveStatefulSet(b) /\ ~ObserveService(b)
  BY <1>0 DEF ObserveStatefulSet, ObserveService, Act, Building
<1> QED
  BY <1>0, <1>1, <1>2, <1>3, <1>4, <1>5, ThreadStep DEF Building

(* An object that exists after a step is as it was, reports another        *)
(* readiness or address, was patched, or was created.                      *)
LEMMA ObjectStep ==
  ASSUME TypeInv, [Next]_vars, NEW k \in Kinds, children'[k] # None
  PROVE  \/ children'[k] = children[k]
         \/ \E b \in BOOLEAN : children[k] # None /\ children'[k] = [children[k] EXCEPT !.up = b]
         \/ \E u \in Uids : /\ PatchChild(u) /\ k = act[Worker(u)].kind /\ k \in PatchedKinds
                            /\ children[k] # None
                            /\ children'[k] = Patched(k, act[Worker(u)].spec)
         \/ \E u \in Uids : /\ CreateChild(u) /\ k = act[Worker(u)].kind
                            /\ children'[k] = Manifest(k, act[Worker(u)].spec, u)
<1> DEFINE Goal ==
      \/ children'[k] = children[k]
      \/ \E b \in BOOLEAN : children[k] # None /\ children'[k] = [children[k] EXCEPT !.up = b]
      \/ \E u \in Uids : /\ PatchChild(u) /\ k = act[Worker(u)].kind /\ k \in PatchedKinds
                         /\ children[k] # None
                         /\ children'[k] = Patched(k, act[Worker(u)].spec)
      \/ \E u \in Uids : /\ CreateChild(u) /\ k = act[Worker(u)].kind
                         /\ children'[k] = Manifest(k, act[Worker(u)].spec, u)
<1>0. children = [i \in Kinds |-> children[i]]
  BY DEF TypeInv, TypeOK
<1>1. ASSUME NEW i \in Kinds, GarbageCollect(i) PROVE Goal
  BY <1>0, <1>1 DEF GarbageCollect
<1>2. ASSUME PodReady \/ AssignAddress \/ PodFails PROVE Goal
  <2>1. PICK i \in Kinds, b \in BOOLEAN :
          children[i] # None /\ children' = [children EXCEPT ![i].up = b]
    BY <1>2 DEF PodReady, AssignAddress, PodFails, Kinds
  <2>2. CASE i = k
    BY <1>0, <2>1, <2>2
  <2>3. CASE i # k
    BY <1>0, <2>1, <2>3
  <2> QED
    BY <2>2, <2>3
<1>3. ASSUME NEW u \in Uids, PatchChild(u) PROVE Goal
  <2> DEFINE i == act[Worker(u)].kind
  <2>1. i \in PatchedKinds
    BY <1>3, ActorsOf DEF PatchChild, TypeInv, WorkerHolds
  <2>2. CASE i = k /\ children[k] # None /\ ~Refused(k, act[Worker(u)].spec)
    <3>1. children'[k] = Patched(k, act[Worker(u)].spec)
      BY <1>0, <1>3, <2>2 DEF PatchChild
    <3> QED
      BY <1>3, <2>1, <2>2, <3>1
  <2>3. CASE i # k \/ children[k] = None \/ Refused(i, act[Worker(u)].spec)
    BY <1>0, <1>3, <2>3 DEF PatchChild
  <2> QED
    BY <2>2, <2>3
<1>4. ASSUME NEW u \in Uids, CreateChild(u) PROVE Goal
  <2> DEFINE i == act[Worker(u)].kind
  <2>1. CASE i = k /\ children[k] = None
    <3>1. children'[k] = Manifest(k, act[Worker(u)].spec, u)
      BY <1>0, <1>4, <2>1 DEF CreateChild
    <3> QED
      BY <1>4, <2>1, <3>1
  <2>2. CASE i # k \/ children[k] # None
    BY <1>0, <1>4, <2>2 DEF CreateChild
  <2> QED
    BY <2>1, <2>2
<1>5. children' = children => Goal
  OBVIOUS
<1> HIDE DEF Goal
<1>6. ASSUME \/ \E s \in UserSpecs : UserCreate(s) \/ UserEdit(s)
             \/ UserDelete \/ AddFinalizer \/ OperatorCrash \/ OperatorRestart
             \/ UNCHANGED vars \/ (\E a \in Actors : ApiError(a))
      PROVE  Goal
  BY <1>5, <1>6 DEF UserCreate, UserEdit, UserDelete, AddFinalizer,
                    OperatorCrash, OperatorRestart, vars, ApiError
<1>7. ASSUME NEW u \in Uids, WorkerStep(u) \/ TimerStep(u) PROVE Goal
  <2>1. PatchChild(u) \/ CreateChild(u) \/ children' = children
    BY <1>7
       DEF WorkerStep, TimerStep, BeginReconcile, ReadChild, ObserveStatefulSet,
           ObserveService, CommitReconcile, OnDelete, ReleaseFinalizer,
           BeginRefresh, CommitRefresh
  <2> QED
    BY <1>3, <1>4, <1>5, <2>1
<1>8. Goal
  BY <1>1, <1>2, <1>6, <1>7 DEF Next, ClusterStep
<1> QED
  BY <1>8 DEF Goal

(* Only an edit changes the spec of a resource.                            *)
LEMMA SpecStep ==
  ASSUME TypeInv, [Next]_vars, cr # None, cr' # None
  PROVE  \/ cr'.spec = cr.spec /\ edits' = edits
         \/ \E s \in UserSpecs : UserEdit(s) /\ cr'.spec = s
<1>0. cr \in Resource
  BY DEF TypeInv, TypeOK
<1>1. ASSUME NEW s \in UserSpecs, UserEdit(s) PROVE cr'.spec = s
  BY <1>0, <1>1 DEF UserEdit, Resource
<1>2. ASSUME UserDelete \/ AddFinalizer PROVE cr'.spec = cr.spec /\ edits' = edits
  BY <1>0, <1>2 DEF UserDelete, AddFinalizer, Resource
<1>3. ASSUME \/ ClusterStep \/ PodFails \/ OperatorCrash \/ OperatorRestart
             \/ UNCHANGED vars \/ (\E a \in Actors : ApiError(a))
      PROVE  cr'.spec = cr.spec /\ edits' = edits
  BY <1>3 DEF ClusterStep, GarbageCollect, PodReady, AssignAddress, PodFails,
              OperatorCrash, OperatorRestart, vars, ApiError
<1>4. ASSUME NEW u \in Uids, WorkerStep(u) \/ TimerStep(u)
      PROVE  cr'.spec = cr.spec /\ edits' = edits
  <2>1. CASE CommitReconcile(u) \/ CommitRefresh(u) \/ OnDelete(u)
    BY <1>0, <2>1 DEF CommitReconcile, CommitRefresh, OnDelete, Resource
  <2>2. CASE ReleaseFinalizer(u)
    BY <2>2 DEF ReleaseFinalizer
  <2>3. CASE UNCHANGED <<cr, edits>>
    BY <2>3
  <2> QED
    BY <1>4, <2>1, <2>2, <2>3
       DEF WorkerStep, TimerStep, BeginReconcile, ReadChild, PatchChild,
           CreateChild, ObserveStatefulSet, ObserveService, BeginRefresh
<1>5. \A s \in UserSpecs : ~UserCreate(s)
  BY DEF UserCreate
<1> QED
  BY <1>1, <1>2, <1>3, <1>4, <1>5 DEF Next

(* Only handlers and the timer write a phase, the one they have in hand;   *)
(* on_delete writes Stopping.                                              *)
LEMMA PhaseStep ==
  ASSUME TypeInv, [Next]_vars, cr' # None
  PROVE  \/ cr # None /\ cr'.status.phase = cr.status.phase
         \/ cr'.status.phase \in {"none", "Stopping"}
         \/ \E a \in Actors : act[a].op = "commit" /\ cr'.status.phase = act[a].out.phase
<1>0. cr # None => cr \in Resource /\ cr.status \in Status
  BY DEF TypeInv, TypeOK, Resource
<1>a. \A old, new \in Status : Merge(old, new).phase = new.phase
  BY DEF Merge, Status
<1>1. ASSUME NEW s \in UserSpecs, UserCreate(s) PROVE cr'.status.phase = "none"
  BY <1>1 DEF UserCreate, NoStatus
<1>2. ASSUME (\E s \in UserSpecs : UserEdit(s)) \/ UserDelete \/ AddFinalizer
      PROVE  cr # None /\ cr'.status.phase = cr.status.phase
  BY <1>0, <1>2 DEF UserEdit, UserDelete, AddFinalizer, Resource
<1>3. ASSUME \/ ClusterStep \/ PodFails \/ OperatorCrash \/ OperatorRestart
             \/ UNCHANGED vars \/ (\E a \in Actors : ApiError(a))
      PROVE  cr # None /\ cr'.status.phase = cr.status.phase
  BY <1>3 DEF ClusterStep, GarbageCollect, PodReady, AssignAddress, PodFails,
              OperatorCrash, OperatorRestart, vars, ApiError
<1>4. ASSUME NEW u \in Uids, CommitReconcile(u)
      PROVE  \E a \in Actors : act[a].op = "commit" /\ cr'.status.phase = act[a].out.phase
  <2> DEFINE a == Worker(u)
  <2>1. a \in Actors /\ act[a].op = "commit" /\ act[a].out \in Status /\ cr # None
    BY <1>4, ActorsOf DEF CommitReconcile, TypeInv, TypeOK, Act
  <2>2. cr'.status = Merge(cr.status, act[a].out)
    BY <1>0, <1>4, <2>1 DEF CommitReconcile, Resource
  <2> QED
    BY <1>0, <1>a, <2>1, <2>2
<1>5. ASSUME NEW u \in Uids, CommitRefresh(u)
      PROVE  \E a \in Actors : act[a].op = "commit" /\ cr'.status.phase = act[a].out.phase
  BY <1>0, <1>5, ActorsOf DEF CommitRefresh, Resource
<1>6. ASSUME NEW u \in Uids, OnDelete(u) PROVE cr'.status.phase = "Stopping"
  <2> DEFINE st == [NoStatus EXCEPT !.phase = "Stopping"]
  <2>1. st \in Status /\ st.phase = "Stopping"
    BY DEF Status, NoStatus, Phases
  <2>2. cr # None /\ cr'.status = Merge(cr.status, st)
    BY <1>0, <1>6 DEF OnDelete, Live, Resource
  <2> QED
    BY <1>0, <1>a, <2>1, <2>2
<1>7. ASSUME NEW u \in Uids, UNCHANGED cr \/ ReleaseFinalizer(u)
      PROVE  cr # None /\ cr'.status.phase = cr.status.phase
  BY <1>7 DEF ReleaseFinalizer
<1>8. ASSUME NEW u \in Uids, WorkerStep(u) \/ TimerStep(u)
      PROVE  \/ CommitReconcile(u) \/ CommitRefresh(u) \/ OnDelete(u)
             \/ UNCHANGED cr \/ ReleaseFinalizer(u)
  BY <1>8
     DEF WorkerStep, TimerStep, BeginReconcile, ReadChild, PatchChild,
         CreateChild, ObserveStatefulSet, ObserveService, BeginRefresh
<1>9. ASSUME NEW u \in Uids, WorkerStep(u) \/ TimerStep(u)
      PROVE  \/ cr # None /\ cr'.status.phase = cr.status.phase
             \/ cr'.status.phase = "Stopping"
             \/ \E a \in Actors : act[a].op = "commit" /\ cr'.status.phase = act[a].out.phase
  BY <1>4, <1>5, <1>6, <1>7, <1>8, <1>9
<1> QED
  BY <1>1, <1>2, <1>3, <1>9 DEF Next

(* A thread with something to do works for the live resource.              *)
LEMMA BusyLive ==
  ASSUME FinalizerGuard, NEW u \in Uids, NEW r \in Roles, act[<<u, r>>].op # "idle"
  PROVE  cr # None /\ cr.uid = u
<1>1. act[<<u, r>>] # Idle
  BY DEF Idle
<1> QED
  BY <1>1 DEF FinalizerGuard, Busy

(* Every thread is the worker or the timer of an incarnation.              *)
LEMMA ThreadOf ==
  ASSUME NEW a \in Actors
  PROVE  \E u \in Uids, r \in Roles : a = <<u, r>>
  BY DEF Actors

(* The same for the worker, by its name.                                   *)
LEMMA WorkerLive ==
  ASSUME FinalizerGuard, NEW u \in Uids, act[Worker(u)].op # "idle"
  PROVE  cr # None /\ cr.uid = u
  BY BusyLive DEF Worker, Roles

(* While its resource lives, no step takes a child away.                   *)
LEMMA ChildStays ==
  ASSUME TypeInv, FinalizerGuard, ChildrenBelong, [Next]_vars,
         WaitForGC, cr # None, NEW k \in Kinds, children[k] # None
  PROVE  children'[k] # None
<1>1. children[k].owner = cr.uid
  BY DEF ChildrenBelong
<1> QED
  BY <1>1, ChildStep DEF Kept, Made, Collected

-----------------------------------------------------------------------------
(* reconcile goes from kind to kind *)

(* The kinds a worker has left when it is at kind k.                       *)
Earlier(k) == IF k = "secret" THEN {}
              ELSE IF k = "service" THEN {"secret"}
              ELSE IF k = "statefulset" THEN {"secret", "service"}
              ELSE {"secret", "service", "statefulset"}

(* Object o, of kind k, holds spec s.                                      *)
Holds(o, k, s) ==
  /\ k # "secret" \/ RconOn(s) => o # None
  /\ k = "service" => Ports(s) \subseteq o.body
  /\ k = "statefulset" =>
       \E c \in o.body : /\ c.name = s.game
                         /\ s.version # None => c.version = s.version
                         /\ RconOn(s) => c.rcon

Reporting == {"observe_statefulset", "observe_service", "commit"}

(* Every object a worker has left holds its spec; when it reports, all do. *)
Progress ==
  WaitForGC =>
    \A u \in Uids : LET t == act[Worker(u)] IN
      /\ t.op \in Building => \A k \in Earlier(t.kind) : Holds(children[k], k, t.spec)
      /\ t.op \in Reporting /\ t.spec.game \in Catalog
         => \A k \in Kinds : Holds(children[k], k, t.spec)

(* The spec in the worker's hand that a patch or a creation builds from.   *)
LEMMA BuildsFrom ==
  ASSUME TypeInv, NEW u \in Uids, PatchChild(u) \/ CreateChild(u)
  PROVE  /\ act[Worker(u)].op \in Building
         /\ act[Worker(u)].spec \in SpecType /\ act[Worker(u)].spec.game \in Catalog
         /\ ContainerOf(act[Worker(u)].spec) \in Container
<1>1. act[Worker(u)].op \in {"patch", "create"}
  BY DEF PatchChild, CreateChild
<1>2. act[Worker(u)].spec \in SpecType /\ act[Worker(u)].spec.game \in Catalog
  BY <1>1, ActorsOf DEF TypeInv, WorkerHolds
<1> QED
  BY <1>1, <1>2 DEF Building, ContainerOf, Container, SpecType, RconOn

(* A merge yields a container that holds what the new one says.            *)
LEMMA MergeHolds ==
  ASSUME NEW olds \in SUBSET Container, NEW new \in Container
  PROVE  \E c \in MergeContainers(olds, new) :
           /\ c.name = new.name
           /\ new.version # None => c.version = new.version
           /\ new.rcon => c.rcon
<1>1. CASE \E d \in olds : d.name = new.name
  <2>1. PICK d \in olds : d.name = new.name
    BY <1>1
  <2>2. MergeContainer(d, new) \in MergeContainers(olds, new)
    BY <2>1 DEF MergeContainers
  <2>3. /\ MergeContainer(d, new).name = new.name
        /\ new.version # None => MergeContainer(d, new).version = new.version
        /\ new.rcon => MergeContainer(d, new).rcon
    BY DEF MergeContainer
  <2> QED
    BY <2>2, <2>3
<1>2. CASE ~\E d \in olds : d.name = new.name
  BY <1>2 DEF MergeContainers
<1> QED
  BY <1>1, <1>2

(* A patch leaves an object that holds the spec it was made from.          *)
LEMMA PatchHolds ==
  ASSUME TypeInv, NEW k \in PatchedKinds, NEW s \in SpecType, s.game \in Catalog,
         children[k] # None, children'[k] = Patched(k, s)
  PROVE  Holds(children'[k], k, s)
<1>1. ContainerOf(s) \in Container
  BY DEF ContainerOf, Container, SpecType, RconOn
<1>2. k \in Kinds /\ children[k] \in Child(k)
  BY DEF PatchedKinds, Kinds, TypeInv, TypeOK
<1>3. children'[k] # None
  BY <1>2, PatchedType, NoneAssumption
<1>4. CASE k = "service"
  <2>1. children'[k].body = MergePorts(children[k].body, Ports(s))
    BY <1>2, <1>4 DEF Patched, Child
  <2> QED
    BY <1>3, <1>4, <2>1 DEF Holds, MergePorts
<1>5. CASE k = "statefulset"
  <2> DEFINE merged == MergeContainers(children[k].body, ContainerOf(s))
  <2>1. children'[k].body = merged
    BY <1>2, <1>5 DEF Patched, Child
  <2>2. children[k].body \in SUBSET Container
    BY <1>2, <1>5 DEF Child, Body
  <2>3. \E c \in merged : /\ c.name = ContainerOf(s).name
                          /\ ContainerOf(s).version # None => c.version = ContainerOf(s).version
                          /\ ContainerOf(s).rcon => c.rcon
    BY <1>1, <2>2, MergeHolds
  <2>4. \E c \in merged : /\ c.name = s.game
                          /\ s.version # None => c.version = s.version
                          /\ RconOn(s) => c.rcon
    BY <2>3 DEF ContainerOf
  <2> HIDE DEF merged
  <2> QED
    BY <1>3, <1>5, <2>1, <2>4 DEF Holds
<1> QED
  BY <1>4, <1>5 DEF PatchedKinds

(* So does a creation.                                                     *)
LEMMA CreateHolds ==
  ASSUME TypeInv, NEW k \in Kinds, NEW s \in SpecType, s.game \in Catalog, NEW u \in Uids,
         children'[k] = Manifest(k, s, u)
  PROVE  Holds(children'[k], k, s)
<1>1. children'[k] # None
  BY ManifestType, NoneAssumption DEF TypeInv, TypeOK
<1>2. CASE k = "service"
  BY <1>1, <1>2 DEF Manifest, Holds
<1>3. CASE k = "statefulset"
  <2>1. ContainerOf(s) \in children'[k].body
    BY <1>3 DEF Manifest
  <2>2. /\ ContainerOf(s).name = s.game /\ ContainerOf(s).version = s.version
        /\ RconOn(s) => ContainerOf(s).rcon
    BY DEF ContainerOf
  <2> QED
    BY <1>1, <1>3, <2>1, <2>2 DEF Holds
<1>4. CASE k \notin {"service", "statefulset"}
  BY <1>1, <1>4 DEF Holds
<1> QED
  BY <1>2, <1>3, <1>4

(* While a worker is at work, what it has done for its spec stays done: no *)
(* other worker patches, and nobody takes a child away.                    *)
LEMMA HoldsKept ==
  ASSUME TypeInv, FinalizerGuard, ChildrenBelong, [Next]_vars, WaitForGC,
         NEW u \in Uids, act[Worker(u)].op # "idle",
         NEW s, s = act[Worker(u)].spec, NEW k \in Kinds, Holds(children[k], k, s)
  PROVE  Holds(children'[k], k, s)
<1>1. cr # None /\ cr.uid = u
  BY WorkerLive
<1>2. CASE k = "secret" /\ ~RconOn(s)
  BY <1>2 DEF Holds
<1>3. CASE k # "secret" \/ RconOn(s)
  <2>1. children[k] # None
    BY <1>3 DEF Holds
  <2>2. children[k] \in Child(k) /\ children'[k] # None
    BY <1>1, <2>1, ChildStays DEF TypeInv, TypeOK
  <2>3. CASE children'[k] = children[k]
    BY <2>3 DEF Holds
  <2>4. ASSUME NEW b \in BOOLEAN, children'[k] = [children[k] EXCEPT !.up = b]
        PROVE  Holds(children'[k], k, s)
    <3>1. children'[k].body = children[k].body
      BY <2>2, <2>4 DEF Child
    <3> QED
      BY <2>2, <3>1 DEF Holds
  <2>5. ASSUME NEW v \in Uids, PatchChild(v) \/ CreateChild(v)
        PROVE  v = u /\ s \in SpecType /\ s.game \in Catalog
    <3>1. act[Worker(v)].op # "idle"
      BY <2>5 DEF PatchChild, CreateChild
    <3>2. v = u
      BY <1>1, <3>1, WorkerLive
    <3> QED
      BY <2>5, <3>2, BuildsFrom
  <2>6. ASSUME NEW v \in Uids, PatchChild(v), k \in PatchedKinds,
               children'[k] = Patched(k, act[Worker(v)].spec)
        PROVE  Holds(children'[k], k, s)
    BY <2>1, <2>5, <2>6, PatchHolds
  <2>7. ASSUME NEW v \in Uids, CreateChild(v),
               children'[k] = Manifest(k, act[Worker(v)].spec, v)
        PROVE  Holds(children'[k], k, s)
    BY <2>5, <2>7, CreateHolds
  <2> QED
    BY <2>2, <2>3, <2>4, <2>6, <2>7, ObjectStep
<1> QED
  BY <1>2, <1>3

(* A worker leaves a kind only when its object holds the spec.             *)
LEMMA LeavesHolding ==
  ASSUME TypeInv, NEW u \in Uids, ReadChild(u) \/ PatchChild(u) \/ CreateChild(u),
         NEW k, k = act[Worker(u)].kind, NEW s, s = act[Worker(u)].spec
  PROVE  \/ act'[Worker(u)].op = "idle"
         \/ /\ act'[Worker(u)].op \in Building
            /\ act'[Worker(u)].kind = k /\ act'[Worker(u)].spec = s
         \/ act'[Worker(u)] = After(Worker(u), k) /\ Holds(children'[k], k, s)
<1> DEFINE a == Worker(u)
<1>0. /\ a \in Actors /\ act \in [Actors -> Act] /\ act[a] \in Act /\ k \in Kinds
      /\ Idle.op = "idle" /\ act[a].op \in {"read", "patch", "create"}
      /\ children = [i \in Kinds |-> children[i]]
  BY ActorsOf DEF TypeInv, TypeOK, Act, Idle, ReadChild, PatchChild, CreateChild
<1>1. s \in SpecType /\ s.game \in Catalog
  BY <1>0 DEF TypeInv, WorkerHolds
<1>2. ASSUME NEW o \in {"patch", "create"}, act' = [act EXCEPT ![a].op = o]
      PROVE  act'[a].op \in Building /\ act'[a].kind = k /\ act'[a].spec = s
  BY <1>0, <1>2 DEF Building, Act
<1>3. CASE ReadChild(u)
  <2>1. CASE children[k] = None \/ k \in PatchedKinds
    <3>1. \E o \in {"patch", "create"} : act' = [act EXCEPT ![a].op = o]
      BY <1>3, <2>1 DEF ReadChild
    <3> QED
      BY <1>2, <3>1
  <2>2. CASE children[k] # None /\ k \notin PatchedKinds
    <3>1. act'[a] = After(a, k) /\ children' = children
      BY <1>0, <1>3, <2>2 DEF ReadChild
    <3>2. Holds(children'[k], k, s)
      BY <2>2, <3>1 DEF Holds, PatchedKinds
    <3> QED
      BY <3>1, <3>2
  <2> QED
    BY <2>1, <2>2
<1>4. CASE PatchChild(u)
  <2>1. k \in PatchedKinds
    BY <1>0, <1>4 DEF PatchChild, TypeInv, WorkerHolds
  <2>2. CASE children[k] = None
    <3>1. act' = [act EXCEPT ![a].op = "create"]
      BY <1>4, <2>2 DEF PatchChild
    <3> QED
      BY <1>2, <3>1
  <2>3. CASE children[k] # None /\ Refused(k, s)
    BY <1>0, <1>4, <2>3 DEF PatchChild, Idle
  <2>4. CASE children[k] # None /\ ~Refused(k, s)
    <3>1. act'[a] = After(a, k) /\ children'[k] = Patched(k, s)
      BY <1>0, <1>4, <2>4 DEF PatchChild
    <3> QED
      BY <1>1, <2>1, <2>4, <3>1, PatchHolds
  <2> QED
    BY <2>2, <2>3, <2>4
<1>5. CASE CreateChild(u)
  <2>1. CASE children[k] = None
    <3>1. act'[a] = After(a, k) /\ children'[k] = Manifest(k, s, u)
      BY <1>0, <1>5, <2>1 DEF CreateChild
    <3> QED
      BY <1>0, <1>1, <3>1, CreateHolds
  <2>2. CASE children[k] # None
    BY <1>0, <1>5, <2>2 DEF CreateChild
  <2> QED
    BY <2>1, <2>2
<1> QED
  BY <1>3, <1>4, <1>5

(* What a worker has left, kind by kind.                                   *)
LEMMA EarlierKinds ==
  /\ \A k \in Kinds : Earlier(k) \subseteq Kinds
  /\ \A k \in Kinds \ {"pdb"} : Earlier(NextKind(k)) = Earlier(k) \cup {k}
  /\ Kinds = Earlier("pdb") \cup {"pdb"}
  BY DEF Earlier, Kinds, NextKind

(* Every step of a worker keeps its progress.                              *)
LEMMA ProgressStep ==
  ASSUME TypeInv, FinalizerGuard, ChildrenBelong, Progress, [Next]_vars
  PROVE  Progress'
<1> DEFINE Goal(u, s) ==
      /\ act'[Worker(u)].op \in Building
           => \A k \in Earlier(act'[Worker(u)].kind) : Holds(children'[k], k, s)
      /\ act'[Worker(u)].op \in Reporting /\ s.game \in Catalog
           => \A k \in Kinds : Holds(children'[k], k, s)
<1>1. ASSUME WaitForGC, NEW u \in Uids, NEW s, s = act'[Worker(u)].spec
      PROVE  Goal(u, s)
  <2> DEFINE b == Worker(u)
  <2>0. /\ b \in Actors /\ act \in [Actors -> Act] /\ act[b] \in Act
        /\ \A v \in Uids : b # Timer(v) /\ (b = Worker(v) => v = u)
        /\ Building \cap Reporting = {}
        /\ "idle" \notin Building \cup Reporting /\ "release" \notin Building \cup Reporting
    BY ActorsOf DEF TypeInv, TypeOK, Worker, Timer, Building, Reporting
  <2>1. CASE act'[b] = act[b]
    <3>1. act[b].op \in Building \cup Reporting => act[b].op # "idle"
      BY <2>0
    <3>2. s = act[b].spec /\ act[b].kind \in Kinds
      BY <1>1, <2>0, <2>1 DEF Act
    <3> QED
      BY <1>1, <2>1, <3>1, <3>2, HoldsKept, EarlierKinds DEF Progress
  <2>2. CASE act'[b].op \in {"idle", "release"}
    BY <2>0, <2>2
  <2>3. CASE BeginReconcile(u)
    <3>1. act'[b] = IF cr.spec.game \notin Catalog
                    THEN [Idle EXCEPT !.op = "commit", !.spec = cr.spec,
                                      !.out = [NoStatus EXCEPT !.phase = "Error"]]
                    ELSE [Idle EXCEPT !.op = "read", !.spec = cr.spec,
                                      !.kind = FirstKind(cr.spec)]
      BY <2>0, <2>3 DEF BeginReconcile
    <3>2. s = cr.spec
      BY <1>1, <3>1 DEF Idle
    <3>3. CASE cr.spec.game \notin Catalog
      BY <3>1, <3>2, <3>3 DEF Idle, Building
    <3>4. CASE cr.spec.game \in Catalog
      <4>1. act'[b].op = "read" /\ act'[b].kind = FirstKind(s)
        BY <3>1, <3>2, <3>4 DEF Idle
      <4>2. \A k \in Earlier(FirstKind(s)) : Holds(children'[k], k, s)
        BY DEF FirstKind, Earlier, Holds
      <4> QED
        BY <2>0, <4>1, <4>2 DEF Building
    <3> QED
      BY <3>3, <3>4
  <2>4. CASE ReadChild(u) \/ PatchChild(u) \/ CreateChild(u)
    <3> DEFINE k == act[b].kind
    <3>1. /\ k \in Kinds /\ act[b].op \in Building /\ act[b].op # "idle"
          /\ \A i \in Earlier(k) : Holds(children[i], i, act[b].spec)
      BY <1>1, <2>0, <2>4 DEF ReadChild, PatchChild, CreateChild, Building, Progress, Act
    <3>2. ASSUME s = act[b].spec, NEW i \in Earlier(k) PROVE Holds(children'[i], i, s)
      BY <1>1, <3>1, <3>2, HoldsKept, EarlierKinds
    <3>3. CASE act'[b].op = "idle"
      BY <2>0, <3>3
    <3>4. CASE act'[b].op \in Building /\ act'[b].kind = k /\ act'[b].spec = act[b].spec
      BY <1>1, <2>0, <3>2, <3>4
    <3>5. CASE act'[b] = After(b, k) /\ Holds(children'[k], k, act[b].spec)
      <4>1. CASE k = "pdb"
        <5>1. act'[b].op = "observe_statefulset" /\ act'[b].spec = act[b].spec
          BY <2>0, <3>5, <4>1 DEF After, Act
        <5>2. s = act[b].spec
          BY <1>1, <5>1
        <5>3. \A i \in Kinds : Holds(children'[i], i, s)
          BY <3>2, <3>5, <4>1, <5>2, EarlierKinds
        <5> QED
          BY <5>1, <5>3 DEF Building
      <4>2. CASE k # "pdb"
        <5>1. /\ act'[b].op = "read" /\ act'[b].kind = NextKind(k)
              /\ act'[b].spec = act[b].spec
          BY <2>0, <3>5, <4>2 DEF After, Act
        <5>2. s = act[b].spec
          BY <1>1, <5>1
        <5>3. \A i \in Earlier(NextKind(k)) : Holds(children'[i], i, s)
          BY <3>1, <3>2, <3>5, <4>2, <5>2, EarlierKinds
        <5> QED
          BY <5>1, <5>3 DEF Reporting
      <4> QED
        BY <4>1, <4>2
    <3> QED
      BY <2>4, <3>3, <3>4, <3>5, LeavesHolding
  <2>5. CASE ObserveStatefulSet(b) \/ ObserveService(b)
    <3>1. /\ act[b].op \in Reporting /\ act[b].op # "idle" /\ act'[b].op \in Reporting
          /\ act'[b].spec = act[b].spec
      <4>1. CASE ObserveStatefulSet(b)
        BY <2>0, <4>1 DEF ObserveStatefulSet, Reporting, Act
      <4>2. CASE ObserveService(b)
        BY <2>0, <4>2 DEF ObserveService, Reporting, Act
      <4> QED
        BY <2>5, <4>1, <4>2
    <3>2. s = act[b].spec
      BY <1>1, <3>1
    <3>3. s.game \in Catalog => \A k \in Kinds : Holds(children[k], k, s)
      BY <1>1, <3>1, <3>2 DEF Progress
    <3>4. s.game \in Catalog => \A k \in Kinds : Holds(children'[k], k, s)
      BY <1>1, <3>1, <3>2, <3>3, HoldsKept
    <3> QED
      BY <2>0, <3>1, <3>4
  <2> QED
    BY <2>0, <2>1, <2>2, <2>3, <2>4, <2>5, ThreadStep
<1>2. ASSUME WaitForGC, NEW u \in Uids PROVE Goal(u, act'[Worker(u)].spec)
  BY <1>1, <1>2
<1> QED
  BY <1>2 DEF Progress, Holds, Worker, Earlier

(* The progress of workers, in every reachable state.                      *)
LEMMA ProgressInvariant == SafeSpec => []Progress
<1>1. Init => Progress
  BY ActorsOf DEF Init, Progress, Idle, Building, Reporting
<1> QED
  BY <1>1, ProgressStep, TypeInvariant, Guarded, Belonging, PTL DEF SafeSpec

(* Whatever is edited, fails or is retried, a spec is recorded as handled  *)
(* only once every child holds it (names are reused only once clean).      *)
THEOREM BuiltBeforeHandled == SafeSpec => []HandledIsBuilt
<1>1. Progress => HandledIsBuilt
  <2> SUFFICES ASSUME Progress, WaitForGC, NEW u \in Uids, act[Worker(u)].op = "commit",
                      act[Worker(u)].spec.game \in Catalog
               PROVE  Covers(act[Worker(u)].spec)
    BY DEF HandledIsBuilt
  <2>1. \A k \in Kinds : Holds(children[k], k, act[Worker(u)].spec)
    BY DEF Progress, Reporting
  <2> QED
    <3>1. \A k \in Kinds \ {"secret"} : children[k] # None
      BY <2>1 DEF Holds
    <3>2. Ports(act[Worker(u)].spec) \subseteq children["service"].body
      BY <2>1 DEF Holds, Kinds
    <3>3. RconOn(act[Worker(u)].spec) => children["secret"] # None
      BY <2>1 DEF Holds, Kinds
    <3>4. \E c \in children["statefulset"].body :
            /\ c.name = act[Worker(u)].spec.game
            /\ act[Worker(u)].spec.version # None => c.version = act[Worker(u)].spec.version
            /\ RconOn(act[Worker(u)].spec) => c.rcon
      BY <2>1 DEF Holds, Kinds
    <3> QED
      BY <3>1, <3>2, <3>3, <3>4 DEF Covers
<1> QED
  BY <1>1, ProgressInvariant, PTL

-----------------------------------------------------------------------------
(* The Secret comes before the pods that read it *)

(* A worker that is past the Secret, for a spec with RCON, leaves one.     *)
SecretSeen ==
  WaitForGC =>
    \A u \in Uids :
      act[Worker(u)].op \in Building /\ act[Worker(u)].kind # "secret"
        /\ RconOn(act[Worker(u)].spec)
      => children["secret"] # None

(* A merge asks for the RCON password only if the old containers or the    *)
(* new one did.                                                            *)
LEMMA MergeRcon ==
  ASSUME NEW olds \in SUBSET Container, NEW new \in Container,
         NEW c \in MergeContainers(olds, new), c.rcon
  PROVE  new.rcon \/ \E d \in olds : d.rcon
<1>1. CASE c \in olds \/ c = new
  BY <1>1
<1>2. ASSUME NEW d \in olds, c = MergeContainer(d, new)
      PROVE  new.rcon \/ d.rcon
  BY <1>2 DEF MergeContainer
<1> QED
  BY <1>1, <1>2 DEF MergeContainers

(* A container with the password after a step had it before, or is being   *)
(* built by a worker that is past the Secret.                              *)
LEMMA RconStep ==
  ASSUME TypeInv, [Next]_vars, children'["statefulset"] # None,
         NEW c \in children'["statefulset"].body, c.rcon
  PROVE  \/ /\ children["statefulset"] # None
            /\ \E d \in children["statefulset"].body : d.rcon
         \/ \E u \in Uids : /\ act[Worker(u)].op \in Building
                            /\ act[Worker(u)].kind = "statefulset"
                            /\ RconOn(act[Worker(u)].spec)
<1> DEFINE k == "statefulset"
           old == children[k]
<1>0. k \in Kinds /\ (old # None => old \in Child(k) /\ old.body \in SUBSET Container)
  BY DEF Kinds, TypeInv, TypeOK, Child, Body
<1>1. CASE children'[k] = old
  BY <1>1
<1>2. ASSUME NEW b \in BOOLEAN, old # None, children'[k] = [old EXCEPT !.up = b]
      PROVE  \E d \in old.body : d.rcon
  <2>1. children'[k].body = old.body
    BY <1>0, <1>2 DEF Child
  <2> QED
    BY <2>1
<1>3. ASSUME NEW u \in Uids, PatchChild(u), k = act[Worker(u)].kind, old # None,
             children'[k] = Patched(k, act[Worker(u)].spec)
      PROVE  (\E d \in old.body : d.rcon) \/ RconOn(act[Worker(u)].spec)
  <2> DEFINE new == ContainerOf(act[Worker(u)].spec)
  <2>1. new \in Container /\ new.rcon = RconOn(act[Worker(u)].spec)
    BY <1>3, BuildsFrom DEF ContainerOf
  <2>2. children'[k].body = MergeContainers(old.body, new)
    BY <1>0, <1>3 DEF Patched, Child
  <2> HIDE DEF new
  <2>3. c \in MergeContainers(old.body, new)
    BY <2>2
  <2>4. new.rcon \/ \E d \in old.body : d.rcon
    BY <1>0, <1>3, <2>1, <2>3, MergeRcon
  <2> QED
    BY <2>1, <2>4
<1>4. ASSUME NEW u \in Uids, CreateChild(u), k = act[Worker(u)].kind,
             children'[k] = Manifest(k, act[Worker(u)].spec, u)
      PROVE  RconOn(act[Worker(u)].spec)
  <2>1. children'[k].body = {ContainerOf(act[Worker(u)].spec)}
    BY <1>4 DEF Manifest
  <2> QED
    BY <2>1 DEF ContainerOf
<1> QED
  BY <1>0, <1>1, <1>2, <1>3, <1>4, ObjectStep, BuildsFrom

(* Every step keeps the Secret that a pod template reads.                  *)
LEMMA SecretStep ==
  ASSUME TypeInv, FinalizerGuard, ChildrenBelong, SecretSeen,
         SecretBeforeStatefulSet, [Next]_vars
  PROVE  SecretBeforeStatefulSet'
<1> SUFFICES ASSUME WaitForGC, cr' # None, children'["statefulset"] # None,
                    NEW c \in children'["statefulset"].body, c.rcon
             PROVE  children'["secret"] # None
  BY DEF SecretBeforeStatefulSet
<1>0. {"secret", "statefulset"} \subseteq Kinds
  BY DEF Kinds
<1>1. CASE \E s \in UserSpecs : UserCreate(s)
  BY <1>0, <1>1 DEF UserCreate
<1>2. CASE cr # None
  <2>1. children["secret"] # None
    BY <1>2, RconStep DEF SecretBeforeStatefulSet, SecretSeen
  <2> QED
    BY <1>0, <1>2, <2>1, ChildStays
<1> QED
  BY <1>1, <1>2, ResourceStep

(* If a name is reused only once it is clean, no pod template refers to a  *)
(* Secret that is not there, whatever is edited, fails or is retried.      *)
THEOREM SecretFirst == SafeSpec => []SecretBeforeStatefulSet
<1>1. Init => SecretBeforeStatefulSet
  BY DEF Init, SecretBeforeStatefulSet
<1>2. TypeInv /\ Progress => SecretSeen
  <2> SUFFICES ASSUME TypeInv, Progress, WaitForGC, NEW u \in Uids,
                      act[Worker(u)].op \in Building, act[Worker(u)].kind # "secret",
                      RconOn(act[Worker(u)].spec)
               PROVE  children["secret"] # None
    BY DEF SecretSeen
  <2>1. act[Worker(u)].kind \in Kinds
    BY ActorsOf DEF TypeInv, TypeOK, Act
  <2>2. "secret" \in Earlier(act[Worker(u)].kind)
    BY <2>1 DEF Earlier, Kinds
  <2> QED
    BY <2>2 DEF Progress, Holds
<1>3. /\ TypeInv /\ FinalizerGuard /\ ChildrenBelong
      /\ SecretSeen /\ SecretBeforeStatefulSet /\ [Next]_vars
      => SecretBeforeStatefulSet'
  BY SecretStep
<1> QED
  BY <1>1, <1>2, <1>3, TypeInvariant, Guarded, Belonging, ProgressInvariant, PTL DEF SafeSpec

-----------------------------------------------------------------------------
(* A status is backed by a StatefulSet *)

(* What a thread read, or is about to write, about a StatefulSet is about  *)
(* one that is still there.                                                *)
ObservedBacked ==
  WaitForGC =>
    \A a \in Actors :
      \/ act[a].op = "observe_service" /\ act[a].replica # "absent"
      \/ act[a].op = "commit" /\ act[a].out.phase \in {"Provisioning", "Running"}
      => children["statefulset"] # None

(* compute_phase reports more than Pending only for a StatefulSet it saw.  *)
LEMMA PhaseSeen ==
  ASSUME NEW r, NEW b, ComputePhase(r, b).phase \in {"Provisioning", "Running"}
  PROVE  r # "absent"
  BY DEF ComputePhase

(* Any thread with something to do works for the live resource.            *)
LEMMA ActorLive ==
  ASSUME FinalizerGuard, NEW a \in Actors, act[a].op # "idle"
  PROVE  cr # None
  BY ThreadOf, BusyLive

(* A thread that goes on building observes nothing yet.                    *)
LEMMA BuildsOn ==
  ASSUME TypeInv, NEW u \in Uids, ReadChild(u) \/ PatchChild(u) \/ CreateChild(u)
  PROVE  act'[Worker(u)].op \in Building \cup {"idle", "observe_statefulset"}
<1> DEFINE a == Worker(u)
           k == act[a].kind
<1>1. /\ a \in Actors /\ act \in [Actors -> Act] /\ k \in Kinds /\ Idle.op = "idle"
      /\ act[a] \in Act
  BY ActorsOf DEF TypeInv, TypeOK, Act, Idle
<1>2. After(a, k).op \in {"read", "observe_statefulset"}
  BY <1>1, AfterType DEF ReadChild, PatchChild, CreateChild
<1>3. \A o \in Ops : [act[a] EXCEPT !.op = o].op = o
  BY <1>1 DEF Act
<1>4. CASE ReadChild(u)
  BY <1>1, <1>2, <1>3, <1>4 DEF ReadChild, Building, Ops
<1>5. CASE PatchChild(u)
  BY <1>1, <1>2, <1>3, <1>5 DEF PatchChild, Building, Ops
<1>6. CASE CreateChild(u)
  BY <1>1, <1>2, <1>6 DEF CreateChild, Building
<1> QED
  BY <1>4, <1>5, <1>6

(* Every step preserves what threads have in hand.                         *)
LEMMA ObservedStep ==
  ASSUME TypeInv, FinalizerGuard, ChildrenBelong, ObservedBacked, [Next]_vars
  PROVE  ObservedBacked'
<1> SUFFICES ASSUME WaitForGC, NEW b \in Actors,
                    \/ act'[b].op = "observe_service" /\ act'[b].replica # "absent"
                    \/ /\ act'[b].op = "commit"
                       /\ act'[b].out.phase \in {"Provisioning", "Running"}
             PROVE  children'["statefulset"] # None
  BY DEF ObservedBacked
<1>0. "statefulset" \in Kinds /\ act \in [Actors -> Act] /\ act[b] \in Act
  BY DEF Kinds, TypeInv, TypeOK
<1>1. ASSUME children["statefulset"] # None, act[b].op # "idle"
      PROVE  children'["statefulset"] # None
  BY <1>0, <1>1, ActorLive, ChildStays
<1>2. CASE act'[b] = act[b]
  BY <1>1, <1>2 DEF ObservedBacked
<1>3. ASSUME NEW u \in Uids, b = Worker(u), BeginReconcile(u)
      PROVE  FALSE
  <2>1. act'[b] = IF cr.spec.game \notin Catalog
                  THEN [Idle EXCEPT !.op = "commit", !.spec = cr.spec,
                                    !.out = [NoStatus EXCEPT !.phase = "Error"]]
                  ELSE [Idle EXCEPT !.op = "read", !.spec = cr.spec,
                                    !.kind = FirstKind(cr.spec)]
    BY <1>0, <1>3 DEF BeginReconcile
  <2> QED
    BY <2>1 DEF Idle, NoStatus
<1>4. ASSUME NEW u \in Uids, b = Timer(u), BeginRefresh(u)
      PROVE  FALSE
  <2>1. act'[b] = [Idle EXCEPT !.op = "observe_statefulset"]
    BY <1>0, <1>4 DEF BeginRefresh
  <2> QED
    BY <2>1 DEF Idle
<1>5. CASE ObserveStatefulSet(b)
  <2>1. /\ act'[b] = [act[b] EXCEPT !.op = "observe_service", !.replica = ReplicaSeen]
        /\ act[b].op = "observe_statefulset"
    BY <1>0, <1>5 DEF ObserveStatefulSet
  <2>2. act'[b].op = "observe_service" /\ act'[b].replica = ReplicaSeen
    BY <1>0, <2>1 DEF Act
  <2>3. children["statefulset"] # None
    BY <2>2 DEF ReplicaSeen
  <2> QED
    BY <1>1, <2>1, <2>3
<1>6. CASE ObserveService(b)
  <2>1. /\ act'[b] = [act[b] EXCEPT !.op = "commit",
                        !.out = ComputePhase(act[b].replica, AddressSeen)]
        /\ act[b].op = "observe_service"
    BY <1>0, <1>6 DEF ObserveService
  <2>2. act'[b].op = "commit" /\ act'[b].out = ComputePhase(act[b].replica, AddressSeen)
    BY <1>0, <2>1 DEF Act
  <2>3. act[b].replica # "absent"
    BY <2>2, PhaseSeen
  <2> QED
    BY <1>1, <2>1, <2>3 DEF ObservedBacked
<1> QED
  BY <1>2, <1>3, <1>4, <1>5, <1>6, ThreadStep, BuildsOn DEF Building

(* Every step keeps what the status speaks of.                             *)
LEMMA BackedStep ==
  ASSUME TypeInv, FinalizerGuard, ChildrenBelong, ChildrenBelong', ObservedBacked,
         StatusBacked, [Next]_vars
  PROVE  StatusBacked'
<1> SUFFICES ASSUME WaitForGC, cr' # None,
                    cr'.status.phase \in {"Provisioning", "Running"}
             PROVE  /\ children'["statefulset"] # None
                    /\ children'["statefulset"].owner = cr'.uid
  BY DEF StatusBacked
<1>0. "statefulset" \in Kinds
  BY DEF Kinds
<1>1. CASE cr # None /\ cr'.status.phase = cr.status.phase
  BY <1>0, <1>1, ChildStays DEF StatusBacked, ChildrenBelong
<1>2. ASSUME NEW a \in Actors, act[a].op = "commit", cr'.status.phase = act[a].out.phase
      PROVE  /\ children'["statefulset"] # None
             /\ children'["statefulset"].owner = cr'.uid
  <2>1. cr # None
    BY <1>2, ActorLive
  <2>2. children["statefulset"] # None
    BY <1>2 DEF ObservedBacked
  <2> QED
    BY <1>0, <2>1, <2>2, ChildStays DEF ChildrenBelong
<1> QED
  BY <1>1, <1>2, PhaseStep

(* If a name is reused only once it is clean, a status that says more than *)
(* Pending is about a StatefulSet of this incarnation, however many calls  *)
(* ago it was observed.                                                    *)
THEOREM Backed == SafeSpec => []StatusBacked
<1>1. Init => ObservedBacked /\ StatusBacked
  BY DEF Init, ObservedBacked, StatusBacked, Idle
<1>2. /\ TypeInv /\ FinalizerGuard /\ ChildrenBelong /\ ChildrenBelong'
      /\ ObservedBacked /\ StatusBacked /\ [Next]_vars
      => (ObservedBacked /\ StatusBacked)'
  BY ObservedStep, BackedStep
<1> QED
  BY <1>1, <1>2, TypeInvariant, Guarded, Belonging, PTL DEF SafeSpec

-----------------------------------------------------------------------------
(* The customer of a resource is the customer of its children *)

(* Every child, and every object still to be built, has the customer of    *)
(* the resource: a patch never changes the label an object was built with. *)
SameCustomer ==
  WaitForGC /\ ~CustomerEdits /\ cr # None =>
    /\ \A k \in Kinds : children[k] # None => children[k].customer = cr.spec.customer
    /\ \A u \in Uids : act[Worker(u)].op \in Building
                       => act[Worker(u)].spec.customer = cr.spec.customer

(* Without edits of it, a resource keeps its customer.                     *)
LEMMA CustomerStep ==
  ASSUME TypeInv, [Next]_vars, ~CustomerEdits, cr # None, cr' # None
  PROVE  cr'.spec.customer = cr.spec.customer
  BY SpecStep DEF UserEdit

(* An object that exists after a step has the customer of the object that  *)
(* was there, or of the spec a worker built it from.                       *)
LEMMA LabelStep ==
  ASSUME TypeInv, [Next]_vars, NEW k \in Kinds, children'[k] # None
  PROVE  \/ children[k] # None /\ children'[k].customer = children[k].customer
         \/ \E u \in Uids : /\ act[Worker(u)].op \in Building
                            /\ children'[k].customer = act[Worker(u)].spec.customer
<1>0. children[k] # None => children[k] \in Child(k)
  BY DEF TypeInv, TypeOK
<1>1. ASSUME NEW b \in BOOLEAN, children[k] # None,
             children'[k] = [children[k] EXCEPT !.up = b]
      PROVE  children'[k].customer = children[k].customer
  BY <1>0, <1>1 DEF Child
<1>2. ASSUME NEW s, children[k] # None, children'[k] = Patched(k, s)
      PROVE  children'[k].customer = children[k].customer
  BY <1>0, <1>2 DEF Patched, Child
<1>3. ASSUME NEW s, NEW u, children'[k] = Manifest(k, s, u)
      PROVE  children'[k].customer = s.customer
  BY <1>3 DEF Manifest, Label
<1> QED
  BY <1>1, <1>2, <1>3, ObjectStep, BuildsFrom

(* Every step preserves the common customer.                               *)
LEMMA SameCustomerStep ==
  ASSUME TypeInv, FinalizerGuard, SameCustomer, [Next]_vars
  PROVE  SameCustomer'
<1> SUFFICES ASSUME WaitForGC, ~CustomerEdits, cr' # None
             PROVE  /\ \A k \in Kinds : children'[k] # None
                         => children'[k].customer = cr'.spec.customer
                    /\ \A u \in Uids : act'[Worker(u)].op \in Building
                         => act'[Worker(u)].spec.customer = cr'.spec.customer
  BY DEF SameCustomer, Worker
<1>1. CASE \E s \in UserSpecs : UserCreate(s)
  <2>1. cr = None /\ act' = act /\ children' = children /\ \A k \in Kinds : children[k] = None
    BY <1>1 DEF UserCreate
  <2>2. \A u \in Uids : act'[Worker(u)].op \notin Building
    BY <2>1, WorkerLive DEF Building
  <2> QED
    BY <2>1, <2>2
<1>2. CASE cr # None
  <2>1. cr'.spec.customer = cr.spec.customer
    BY <1>2, CustomerStep
  <2>2. ASSUME NEW k \in Kinds, children'[k] # None
        PROVE  children'[k].customer = cr.spec.customer
    BY <1>2, <2>2, LabelStep DEF SameCustomer
  <2>3. ASSUME NEW u \in Uids, act'[Worker(u)].op \in Building
        PROVE  act'[Worker(u)].spec.customer = cr.spec.customer
    BY <1>2, <2>3, BuildingStep DEF SameCustomer
  <2> QED
    BY <2>1, <2>2, <2>3
<1> QED
  BY <1>1, <1>2, ResourceStep

(* If nobody edits the customer of a live resource (no route of the API    *)
(* does) and a name is reused only once it is clean, the label of every    *)
(* child, the selector included, is the customer of its resource: the      *)
(* label on which tenancy and the metrics filter rest.                     *)
THEOREM LabelsTrue == SafeSpec => [](~CustomerEdits => LabelsMirrorCustomer)
<1>1. Init => SameCustomer
  BY DEF Init, SameCustomer
<1>2. TypeInv /\ FinalizerGuard /\ SameCustomer /\ [Next]_vars => SameCustomer'
  BY SameCustomerStep
<1>3. SameCustomer => (~CustomerEdits => LabelsMirrorCustomer)
  BY DEF SameCustomer, LabelsMirrorCustomer
<1> QED
  BY <1>1, <1>2, <1>3, TypeInvariant, Guarded, PTL DEF SafeSpec

-----------------------------------------------------------------------------
(* A game the catalog does not list is never served *)

(* No child is owned by an incarnation still to come.                      *)
OwnersKnown ==
  /\ \A k \in Kinds : children[k] # None => children[k].owner <= lastUid
  /\ cr # None => cr.uid = lastUid

(* The threads of such a server report the error or finish its deletion.   *)
UnlistedThreads ==
  Unlisted => \A a \in Actors :
    /\ act[a].op \in {"idle", "commit", "release"}
    /\ act[a].op = "commit" => act[a].out.phase = "Error"

(* Every step preserves the order of owners.                               *)
LEMMA OwnersStep ==
  ASSUME TypeInv, FinalizerGuard, OwnersKnown, [Next]_vars
  PROVE  OwnersKnown'
<1>0. lastUid \in Nat /\ \A k \in Kinds : children[k] # None => children[k].owner \in Nat
  BY ConstantsAssumption DEF TypeInv, TypeOK, Child, Uids
<1>1. CASE \E s \in UserSpecs : UserCreate(s)
  BY <1>0, <1>1 DEF UserCreate, OwnersKnown
<1>2. CASE lastUid' = lastUid /\ (cr' # None => cr # None /\ cr'.uid = cr.uid)
  <2>1. CASE UNCHANGED <<children, passwords>>
    BY <1>2, <2>1 DEF OwnersKnown
  <2>2. ASSUME NEW k \in Kinds, Kept(k) \/ Made(k) \/ Collected(k),
               \A i \in Kinds \ {k} : children'[i] = children[i]
        PROVE  OwnersKnown'
    BY <1>0, <1>2, <2>2 DEF OwnersKnown, Kept, Made, Collected
  <2> QED
    BY <2>1, <2>2, ChildStep
<1>3. lastUid' = lastUid \/ \E s \in UserSpecs : UserCreate(s)
  BY UidStep
<1> QED
  BY <1>1, <1>2, <1>3, ResourceStep

(* A server is unlisted from its creation on, or not at all.               *)
LEMMA UnlistedStep ==
  ASSUME TypeInv, [Next]_vars, Unlisted'
  PROVE  \/ Unlisted /\ cr'.uid = cr.uid
         \/ \E s \in UserSpecs : UserCreate(s)
<1>1. CASE cr # None /\ cr'.uid = cr.uid
  <2>1. \A s \in UserSpecs : ~UserEdit(s)
    BY DEF UserEdit, Unlisted, TypeInv, TypeOK
  <2>2. cr'.spec = cr.spec /\ edits' = edits
    BY <1>1, <2>1, SpecStep DEF Unlisted
  <2> QED
    BY <1>1, <2>2 DEF Unlisted
<1> QED
  BY <1>1, ResourceStep DEF Unlisted

(* Every step preserves what the threads of an unlisted server do.         *)
LEMMA UnlistedThreadsStep ==
  ASSUME TypeInv, FinalizerGuard, UnlistedThreads, [Next]_vars
  PROVE  UnlistedThreads'
<1> SUFFICES ASSUME Unlisted', NEW b \in Actors
             PROVE  /\ act'[b].op \in {"idle", "commit", "release"}
                    /\ act'[b].op = "commit" => act'[b].out.phase = "Error"
  BY DEF UnlistedThreads
<1>0. act \in [Actors -> Act] /\ act[b] \in Act
  BY DEF TypeInv, TypeOK
<1>1. CASE \E s \in UserSpecs : UserCreate(s)
  <2>1. cr = None /\ act' = act
    BY <1>1 DEF UserCreate
  <2> QED
    BY <2>1, ActorLive
<1>2. CASE Unlisted
  <2>1. /\ act[b].op \in {"idle", "commit", "release"}
        /\ act[b].op = "commit" => act[b].out.phase = "Error"
    BY <1>2 DEF UnlistedThreads
  <2>2. ASSUME NEW u \in Uids, b = Worker(u), BeginReconcile(u)
        PROVE  act'[b].op = "commit" /\ act'[b].out.phase = "Error"
    <3>1. act'[b] = [Idle EXCEPT !.op = "commit", !.spec = cr.spec,
                                 !.out = [NoStatus EXCEPT !.phase = "Error"]]
      BY <1>0, <1>2, <2>2 DEF BeginReconcile, Unlisted
    <3> QED
      BY <3>1 DEF Idle, NoStatus
  <2>3. \A u \in Uids : /\ ~BeginRefresh(u)
                        /\ b = Worker(u) => ~(ReadChild(u) \/ PatchChild(u) \/ CreateChild(u))
    BY <1>2, <2>1 DEF BeginRefresh, Unlisted, ReadChild, PatchChild, CreateChild
  <2>4. ~ObserveStatefulSet(b) /\ ~ObserveService(b)
    BY <2>1 DEF ObserveStatefulSet, ObserveService
  <2> QED
    BY <2>1, <2>2, <2>3, <2>4, ThreadStep
<1> QED
  BY <1>1, <1>2, UnlistedStep

(* Every step keeps an unlisted server without children and without any    *)
(* other phase.                                                            *)
LEMMA UnlistedServedStep ==
  ASSUME TypeInv, FinalizerGuard, OwnersKnown, UnlistedThreads, UnknownNeverServed,
         [Next]_vars
  PROVE  UnknownNeverServed'
<1> SUFFICES ASSUME Unlisted'
             PROVE  /\ cr'.status.phase \in {"none", "Error", "Stopping"}
                    /\ \A k \in Kinds : children'[k] # None => children'[k].owner # cr'.uid
  BY DEF UnknownNeverServed
<1>0. cr' # None
  BY DEF Unlisted
<1>1. CASE \E s \in UserSpecs : UserCreate(s)
  <2>1. /\ cr'.status = NoStatus /\ cr'.uid = lastUid + 1 /\ children' = children
    BY <1>1 DEF UserCreate
  <2>2. lastUid \in Nat /\ \A k \in Kinds : children[k] # None => children[k].owner \in Nat
    BY ConstantsAssumption DEF TypeInv, TypeOK, Child, Uids
  <2> QED
    BY <2>1, <2>2 DEF OwnersKnown, NoStatus
<1>2. CASE Unlisted /\ cr'.uid = cr.uid
  <2>1. cr'.status.phase \in {"none", "Error", "Stopping"}
    BY <1>0, <1>2, PhaseStep DEF UnknownNeverServed, UnlistedThreads
  <2>2. ASSUME NEW u \in Uids PROVE ~PatchChild(u) /\ ~CreateChild(u)
    BY <1>2, ActorsOf DEF UnlistedThreads, PatchChild, CreateChild
  <2>3. ASSUME NEW k \in Kinds, children'[k] # None
        PROVE  children'[k].owner # cr.uid
    <3>1. children[k] \in Child(k) \cup {None}
      BY DEF TypeInv, TypeOK
    <3>2. CASE children'[k] = children[k]
      BY <1>2, <2>3, <3>2 DEF UnknownNeverServed
    <3>3. ASSUME NEW b \in BOOLEAN, children[k] # None,
                 children'[k] = [children[k] EXCEPT !.up = b]
          PROVE  children'[k].owner # cr.uid
      BY <1>2, <3>1, <3>3 DEF UnknownNeverServed, Child
    <3> QED
      BY <2>2, <2>3, <3>2, <3>3, ObjectStep
  <2> QED
    BY <1>2, <2>1, <2>3
<1> QED
  BY <1>1, <1>2, UnlistedStep

(* The safety half of UnknownGameErrors, with or without name reuse.       *)
THEOREM NeverServed == SafeSpec => []UnknownNeverServed
<1>1. Init => OwnersKnown /\ UnlistedThreads /\ UnknownNeverServed
  BY DEF Init, OwnersKnown, UnlistedThreads, UnknownNeverServed, Unlisted
<1>2. /\ TypeInv /\ FinalizerGuard /\ [Next]_vars
      /\ OwnersKnown /\ UnlistedThreads /\ UnknownNeverServed
      => (OwnersKnown /\ UnlistedThreads /\ UnknownNeverServed)'
  BY OwnersStep, UnlistedThreadsStep, UnlistedServedStep
<1> QED
  BY <1>1, <1>2, TypeInvariant, Guarded, PTL DEF SafeSpec

-----------------------------------------------------------------------------
(* The operator implements ServerResource: initial states map to initial   *)
(* states and every step maps to a step or to none.                        *)


Coherent(st) ==
  /\ st.phase = "Running" => st.ready /\ st.address
  /\ st.phase \in {"none", "Pending"} => ~st.ready /\ ~st.address

StatusCoherent ==
  cr # None => /\ Coherent(cr.status)
               /\ cr.status.phase = "Stopping" => cr.deleting

(* What a thread is about to write is coherent and is not Stopping, which  *)
(* on_delete alone writes.                                                 *)
OutCoherent ==
  \A a \in Actors : act[a].op = "commit" =>
    Coherent(act[a].out) /\ act[a].out.phase \notin {"none", "Stopping"}

ReleaseDeletes ==
  \A u \in Uids : act[Worker(u)].op = "release" => cr # None /\ cr.deleting

ViewInv == StatusCoherent /\ OutCoherent /\ ReleaseDeletes

(* How one step changes the resource: not at all, in its spec, status or   *)
(* finalizer alone, or by a creation, a deletion request or its end.       *)
LEMMA CrStep ==
  ASSUME TypeInv, [Next]_vars
  PROVE  \/ UNCHANGED <<cr, lastUid>>
         \/ /\ cr # None /\ cr' # None /\ lastUid' = lastUid
            /\ cr'.uid = cr.uid /\ cr'.deleting = cr.deleting
         \/ \E s \in UserSpecs : UserCreate(s)
         \/ UserDelete
         \/ \E u \in Uids : ReleaseFinalizer(u)
<1> DEFINE Same == /\ cr # None /\ cr' # None /\ lastUid' = lastUid
                   /\ cr'.uid = cr.uid /\ cr'.deleting = cr.deleting
<1>0. cr # None => cr \in Resource
  BY DEF TypeInv, TypeOK
<1>a. ASSUME cr # None, NEW x \in SpecType, NEW f \in BOOLEAN, NEW st \in Status,
             NEW h \in SpecType \cup {None},
             cr' = [cr EXCEPT !.spec = x, !.finalizer = f, !.status = st, !.handled = h],
             lastUid' = lastUid
      PROVE  Same
  <2>1. cr' \in Resource /\ cr'.uid = cr.uid /\ cr'.deleting = cr.deleting
    BY <1>a, <1>0 DEF Resource
  <2> QED
    BY <1>a, <2>1, NoneAssumption
<1>b. cr # None => /\ cr.spec \in SpecType /\ cr.finalizer \in BOOLEAN
                   /\ cr.status \in Status /\ cr.handled \in SpecType \cup {None}
  BY <1>0 DEF Resource
<1>c. \A a \in Actors : act[a].out \in Status /\ act[a].spec \in SpecType \cup {None}
  BY DEF TypeInv, TypeOK, Act
<1>d. \A x, y \in Status : Merge(x, y) \in Status
  BY DEF Merge, Status
<1>1. ASSUME NEW s \in UserSpecs, UserEdit(s) PROVE Same
  <2>1. cr # None /\ lastUid' = lastUid /\ s \in SpecType
    BY <1>1, ConstantsAssumption DEF UserEdit
  <2>2. cr' = [cr EXCEPT !.spec = s, !.finalizer = cr.finalizer, !.status = cr.status,
                         !.handled = cr.handled]
    BY <1>1, <2>1, <1>0 DEF UserEdit, Resource
  <2> QED
    BY <2>1, <2>2, <1>a, <1>b
<1>2. ASSUME AddFinalizer PROVE Same
  <2>1. cr # None /\ lastUid' = lastUid
    BY <1>2 DEF AddFinalizer
  <2>2. cr' = [cr EXCEPT !.spec = cr.spec, !.finalizer = TRUE, !.status = cr.status,
                         !.handled = cr.handled]
    BY <1>2, <2>1, <1>0 DEF AddFinalizer, Resource
  <2> QED
    BY <2>1, <2>2, <1>a, <1>b
<1>3. ASSUME NEW u \in Uids, CommitReconcile(u) PROVE Same \/ UNCHANGED <<cr, lastUid>>
  <2>1. CASE cr = None
    BY <1>3, <2>1 DEF CommitReconcile
  <2>2. CASE cr # None
    <3> DEFINE st == Merge(cr.status, act[Worker(u)].out)
               h  == act[Worker(u)].spec
    <3>1. st \in Status /\ h \in SpecType \cup {None}
      BY <2>2, <1>b, <1>c, <1>d, ActorsOf
    <3>2. lastUid' = lastUid /\ cr' = [cr EXCEPT !.status = st, !.handled = h]
      BY <1>3, <2>2 DEF CommitReconcile
    <3> HIDE DEF st, h
    <3>3. cr' = [cr EXCEPT !.spec = cr.spec, !.finalizer = cr.finalizer, !.status = st,
                           !.handled = h]
      BY <3>2, <2>2, <1>0 DEF Resource
    <3>4. /\ cr.spec \in SpecType /\ cr.finalizer \in BOOLEAN
          /\ cr.handled \in SpecType \cup {None}
      BY <2>2, <1>b
    <3>5. cr' \in Resource /\ cr'.uid = cr.uid /\ cr'.deleting = cr.deleting
      BY <2>2, <3>1, <3>3, <3>4, <1>0 DEF Resource
    <3>6. Same
      BY <2>2, <3>2, <3>5, NoneAssumption
    <3> QED
      BY <3>6
  <2> QED
    BY <2>1, <2>2
<1>4. ASSUME NEW u \in Uids, CommitRefresh(u) PROVE Same \/ UNCHANGED <<cr, lastUid>>
  <2>1. CASE cr = None
    BY <1>4, <2>1 DEF CommitRefresh
  <2>2. CASE cr # None
    <3> DEFINE st == act[Timer(u)].out
    <3>1. st \in Status
      BY <1>c, ActorsOf
    <3>2. lastUid' = lastUid /\ cr' = [cr EXCEPT !.status = st]
      BY <1>4, <2>2 DEF CommitRefresh
    <3> HIDE DEF st
    <3>3. cr' = [cr EXCEPT !.spec = cr.spec, !.finalizer = cr.finalizer, !.status = st,
                           !.handled = cr.handled]
      BY <3>2, <2>2, <1>0 DEF Resource
    <3>4. /\ cr.spec \in SpecType /\ cr.finalizer \in BOOLEAN
          /\ cr.handled \in SpecType \cup {None}
      BY <2>2, <1>b
    <3>5. cr' \in Resource /\ cr'.uid = cr.uid /\ cr'.deleting = cr.deleting
      BY <2>2, <3>1, <3>3, <3>4, <1>0 DEF Resource
    <3>6. Same
      BY <2>2, <3>2, <3>5, NoneAssumption
    <3> QED
      BY <3>6
  <2> QED
    BY <2>1, <2>2
<1>5. ASSUME NEW u \in Uids, OnDelete(u) PROVE Same
  <2> DEFINE st == Merge(cr.status, [NoStatus EXCEPT !.phase = "Stopping"])
  <2>1. cr # None /\ lastUid' = lastUid /\ cr' = [cr EXCEPT !.status = st]
    BY <1>5 DEF OnDelete, Live
  <2>2. st \in Status
    <3>1. [NoStatus EXCEPT !.phase = "Stopping"] \in Status
      BY DEF Status, NoStatus, Phases
    <3> QED
      BY <3>1, <2>1, <1>b, <1>d
  <2> HIDE DEF st
  <2>3. cr' = [cr EXCEPT !.spec = cr.spec, !.finalizer = cr.finalizer, !.status = st,
                         !.handled = cr.handled]
    BY <2>1, <1>0 DEF Resource
  <2>4. /\ cr.spec \in SpecType /\ cr.finalizer \in BOOLEAN
        /\ cr.handled \in SpecType \cup {None}
    BY <2>1, <1>b
  <2>5. cr' \in Resource /\ cr'.uid = cr.uid /\ cr'.deleting = cr.deleting
    BY <2>1, <2>2, <2>3, <2>4, <1>0 DEF Resource
  <2> QED
    BY <2>1, <2>5, NoneAssumption
<1> HIDE DEF Same
<1>6. ASSUME NEW u \in Uids, WorkerStep(u) \/ TimerStep(u)
      PROVE  Same \/ UNCHANGED <<cr, lastUid>> \/ ReleaseFinalizer(u)
  BY <1>6, <1>3, <1>4, <1>5
     DEF WorkerStep, TimerStep, BeginReconcile, ReadChild, PatchChild, CreateChild,
         ObserveStatefulSet, ObserveService, BeginRefresh
<1>7. ASSUME ClusterStep \/ PodFails \/ (\E a \in Actors : ApiError(a))
               \/ OperatorCrash \/ OperatorRestart \/ UNCHANGED vars
      PROVE  UNCHANGED <<cr, lastUid>>
  BY <1>7 DEF ClusterStep, GarbageCollect, PodReady, AssignAddress, PodFails,
              ApiError, OperatorCrash, OperatorRestart, vars
<1> QED
  BY <1>1, <1>2, <1>6, <1>7 DEF Next, Same

-----------------------------------------------------------------------------
(* The invariant *)

(* What compute_phase yields is coherent.                                  *)
LEMMA PhaseCoherent ==
  ASSUME NEW r, NEW b \in BOOLEAN
  PROVE  /\ Coherent(ComputePhase(r, b))
         /\ ComputePhase(r, b).phase \notin {"none", "Stopping", "Error"}
BY DEF ComputePhase, Coherent

(* A coherent status merged into a coherent one is coherent.               *)
LEMMA MergeCoherent ==
  ASSUME NEW old \in Status, NEW new \in Status, Coherent(old), Coherent(new)
  PROVE  Coherent(Merge(old, new)) /\ Merge(old, new).phase = new.phase
BY DEF Merge, Coherent, Status

(* A thread that is about to write a status has computed it, or reports an *)
(* unknown game.                                                           *)
LEMMA OutStep ==
  ASSUME TypeInv, OutCoherent, [Next]_vars
  PROVE  OutCoherent'
<1> SUFFICES ASSUME NEW b \in Actors, act'[b].op = "commit"
             PROVE  Coherent(act'[b].out) /\ act'[b].out.phase \notin {"none", "Stopping"}
  BY DEF OutCoherent, Coherent
<1> DEFINE Goal == Coherent(act'[b].out) /\ act'[b].out.phase \notin {"none", "Stopping"}
<1>0. act \in [Actors -> Act] /\ Idle.op = "idle" /\ Idle.out = NoStatus
  BY DEF TypeInv, TypeOK, Idle
<1>1. act'[b] = act[b] => Goal
  BY DEF OutCoherent
<1> HIDE DEF Goal
<1>2. ASSUME NEW u \in Uids, BeginReconcile(u) PROVE Goal
  <2>1. CASE b = Worker(u)
    <3>1. cr.spec.game \notin Catalog /\ act'[b].out = [NoStatus EXCEPT !.phase = "Error"]
      BY <1>2, <2>1, <1>0 DEF BeginReconcile, Idle
    <3> QED
      BY <3>1 DEF Goal, Coherent, NoStatus
  <2>2. CASE b # Worker(u)
    BY <1>2, <2>2, <1>0, <1>1 DEF BeginReconcile
  <2> QED
    BY <2>1, <2>2
<1>3. ASSUME NEW a \in Actors, ObserveService(a) PROVE Goal
  <2>1. CASE b = a
    <3>1. act'[b].out = ComputePhase(act[a].replica, AddressSeen)
      BY <1>3, <2>1, <1>0 DEF ObserveService, Act
    <3>2. AddressSeen \in BOOLEAN
      BY DEF AddressSeen, TypeInv, TypeOK, Child
    <3> QED
      BY <3>1, <3>2, PhaseCoherent DEF Goal
  <2>2. CASE b # a
    BY <1>3, <2>2, <1>0, <1>1 DEF ObserveService
  <2> QED
    BY <2>1, <2>2
<1>4. ASSUME NEW u \in Uids, ReadChild(u) \/ PatchChild(u) \/ CreateChild(u) PROVE Goal
  <2> DEFINE a == Worker(u)
  <2>1. a \in Actors /\ act[a].op \in {"read", "patch", "create"} /\ act[a].kind \in Kinds
    BY <1>4, <1>0, ActorsOf DEF ReadChild, PatchChild, CreateChild, Act
  <2>2. After(a, act[a].kind).op \in {"read", "observe_statefulset"}
    BY <2>1, AfterType
  <2>3. CASE b = a
    BY <1>4, <2>1, <2>2, <2>3, <1>0 DEF ReadChild, PatchChild, CreateChild, Act
  <2>4. CASE b # a
    BY <1>4, <2>4, <1>0, <1>1 DEF ReadChild, PatchChild, CreateChild
  <2> QED
    BY <2>3, <2>4
<1>5. ASSUME NEW u \in Uids,
             CommitReconcile(u) \/ OnDelete(u) \/ ReleaseFinalizer(u)
               \/ BeginRefresh(u) \/ CommitRefresh(u)
      PROVE Goal
  <2>1. CASE b \in {Worker(u), Timer(u)}
    BY <1>5, <2>1, <1>0, <1>1
       DEF CommitReconcile, OnDelete, ReleaseFinalizer, BeginRefresh, CommitRefresh,
           Idle, Worker, Timer
  <2>2. CASE b \notin {Worker(u), Timer(u)}
    BY <1>5, <2>2, <1>0, <1>1
       DEF CommitReconcile, OnDelete, ReleaseFinalizer, BeginRefresh, CommitRefresh
  <2> QED
    BY <2>1, <2>2
<1>6. ASSUME NEW a \in Actors, ObserveStatefulSet(a) \/ ApiError(a) PROVE Goal
  <2>1. CASE b = a
    BY <1>6, <2>1, <1>0 DEF ObserveStatefulSet, ApiError, Act
  <2>2. CASE b # a
    BY <1>6, <2>2, <1>0, <1>1 DEF ObserveStatefulSet, ApiError
  <2> QED
    BY <2>1, <2>2
<1>7. ASSUME OperatorCrash PROVE Goal
  BY <1>7, <1>0 DEF OperatorCrash
<1>8. ASSUME \/ \E s \in UserSpecs : UserCreate(s) \/ UserEdit(s)
             \/ UserDelete \/ ClusterStep \/ PodFails \/ AddFinalizer
             \/ OperatorRestart \/ UNCHANGED vars
      PROVE Goal
  <2>1. act' = act
    BY <1>8 DEF UserCreate, UserEdit, UserDelete, ClusterStep, GarbageCollect, PodReady,
                AssignAddress, PodFails, AddFinalizer, OperatorRestart, vars
  <2> QED
    BY <2>1, <1>1
<1>9. Goal
  BY <1>2, <1>3, <1>4, <1>5, <1>6, <1>7, <1>8, ActorsOf DEF Next, WorkerStep, TimerStep
<1> QED
  BY <1>9 DEF Goal

(* A worker that waits to lift the finalizer does so for a resource that   *)
(* is being deleted, and a deletion is never taken back.                   *)
LEMMA ReleaseStep ==
  ASSUME TypeInv, FinalizerGuard, FinalizerGuard', ReleaseDeletes, [Next]_vars
  PROVE  ReleaseDeletes'
<1> SUFFICES ASSUME NEW v \in Uids, act'[Worker(v)].op = "release"
             PROVE  cr' # None /\ cr'.deleting
  BY DEF ReleaseDeletes, Worker
<1> DEFINE b == Worker(v)
<1>0. act \in [Actors -> Act] /\ b \in Actors /\ Idle.op = "idle"
  BY ActorsOf DEF TypeInv, TypeOK, Idle
<1>1. cr' # None /\ cr'.uid = v
  <2>1. act'[b] # Idle
    BY <1>0
  <2> QED
    BY <2>1 DEF FinalizerGuard, Busy, Roles, Worker
<1>2. CASE act[b].op = "release"
  <2>1. cr # None /\ cr.deleting /\ cr.uid = v
    <3>1. act[b] # Idle
      BY <1>2, <1>0
    <3> QED
      BY <1>2, <3>1 DEF ReleaseDeletes, FinalizerGuard, Busy, Roles, Worker
  <2> QED
    BY <1>1, <2>1, CrStep DEF UserCreate, UserDelete, ReleaseFinalizer
<1>3. CASE act[b].op # "release"
  <2>0. act'[b] # act[b]
    BY <1>3
  <2> HIDE DEF b
  <2>1. ASSUME NEW u \in Uids, BeginReconcile(u) PROVE FALSE
    BY <2>1, <2>0, <1>0, ActorsOf DEF BeginReconcile, b
  <2>2. ASSUME NEW u \in Uids, ReadChild(u) \/ PatchChild(u) \/ CreateChild(u) PROVE FALSE
    <3> DEFINE a == Worker(u)
    <3>1. a \in Actors /\ act[a].op \in {"read", "patch", "create"} /\ act[a].kind \in Kinds
      BY <2>2, <1>0, ActorsOf DEF ReadChild, PatchChild, CreateChild, Act
    <3>2. After(a, act[a].kind).op \in {"read", "observe_statefulset"}
      BY <3>1, AfterType
    <3>3. CASE b = a
      BY <2>2, <3>1, <3>2, <3>3, <1>0 DEF ReadChild, PatchChild, CreateChild, Act, b
    <3>4. CASE b # a
      BY <2>2, <3>4, <2>0, <1>0 DEF ReadChild, PatchChild, CreateChild
    <3> QED
      BY <3>3, <3>4
  <2>3. ASSUME NEW a \in Actors, ObserveStatefulSet(a) \/ ObserveService(a) \/ ApiError(a)
        PROVE FALSE
    <3>1. CASE b = a
      BY <2>3, <3>1, <1>0 DEF ObserveStatefulSet, ObserveService, ApiError, Act, b
    <3>2. CASE b # a
      BY <2>3, <3>2, <2>0, <1>0 DEF ObserveStatefulSet, ObserveService, ApiError
    <3> QED
      BY <3>1, <3>2
  <2>4. ASSUME NEW u \in Uids,
               CommitReconcile(u) \/ ReleaseFinalizer(u) \/ BeginRefresh(u) \/ CommitRefresh(u)
        PROVE FALSE
    BY <2>4, <2>0, <1>0, ActorsOf
       DEF CommitReconcile, ReleaseFinalizer, BeginRefresh, CommitRefresh, Idle, b
  <2>5. ASSUME OperatorCrash PROVE FALSE
    BY <2>5, <1>0 DEF OperatorCrash, b
  <2>6. ASSUME \/ \E s \in UserSpecs : UserCreate(s) \/ UserEdit(s)
               \/ UserDelete \/ ClusterStep \/ PodFails \/ AddFinalizer
               \/ OperatorRestart \/ UNCHANGED vars
        PROVE FALSE
    <3>1. act' = act
      BY <2>6 DEF UserCreate, UserEdit, UserDelete, ClusterStep, GarbageCollect, PodReady,
                  AssignAddress, PodFails, AddFinalizer, OperatorRestart, vars
    <3> QED
      BY <3>1, <2>0
  <2>7. PICK u \in Uids : OnDelete(u)
    BY <2>1, <2>2, <2>3, <2>4, <2>5, <2>6, ActorsOf DEF Next, WorkerStep, TimerStep
  <2>8. cr.deleting /\ cr # None
    BY <2>7 DEF OnDelete, Live
  <2>9. ~UserDelete /\ \A x \in Uids : ~ReleaseFinalizer(x)
    BY <2>8, <2>4 DEF UserDelete
  <2> QED
    BY <2>8, <2>9, <1>1, CrStep DEF UserCreate
<1> QED
  BY <1>2, <1>3

-----------------------------------------------------------------------------
(* What is shown stays coherent, whichever thread writes it and however    *)
(* late.                                                                   *)
LEMMA StatusStep ==
  ASSUME TypeInv, FinalizerGuard, StatusCoherent, OutCoherent, [Next]_vars
  PROVE  StatusCoherent'
<1> SUFFICES ASSUME cr' # None
             PROVE  Coherent(cr'.status) /\ (cr'.status.phase = "Stopping" => cr'.deleting)
  BY DEF StatusCoherent, Coherent
<1> DEFINE Goal == Coherent(cr'.status) /\ (cr'.status.phase = "Stopping" => cr'.deleting)
<1>0. /\ cr # None => cr \in Resource /\ cr.status \in Status
      /\ \A a \in Actors : act[a].out \in Status
  BY DEF TypeInv, TypeOK, Resource, Act
<1>1. cr # None /\ cr'.status = cr.status /\ (cr.deleting => cr'.deleting) => Goal
  BY DEF StatusCoherent
<1> HIDE DEF Goal
<1>2. ASSUME NEW s \in UserSpecs, UserCreate(s) PROVE Goal
  <2>1. cr'.status = NoStatus
    BY <1>2 DEF UserCreate
  <2> QED
    BY <2>1 DEF Goal, Coherent, NoStatus
<1>3. ASSUME NEW s \in UserSpecs, UserEdit(s) PROVE Goal
  BY <1>3, <1>1, <1>0 DEF UserEdit, Resource
<1>4. ASSUME UserDelete \/ AddFinalizer PROVE Goal
  BY <1>4, <1>1, <1>0 DEF UserDelete, AddFinalizer, Resource
<1>5. ASSUME NEW u \in Uids, CommitReconcile(u) PROVE Goal
  <2> DEFINE a == Worker(u)
  <2>1. cr # None /\ a \in Actors /\ act[a].op = "commit"
    BY <1>5, ActorsOf DEF CommitReconcile
  <2>2. /\ Coherent(act[a].out) /\ act[a].out.phase \notin {"none", "Stopping"}
        /\ Coherent(cr.status) /\ act[a].out \in Status /\ cr.status \in Status
    BY <2>1, <1>0 DEF OutCoherent, StatusCoherent
  <2>3. cr'.status = Merge(cr.status, act[a].out)
    BY <1>5, <2>1, <1>0 DEF CommitReconcile, Resource
  <2> QED
    BY <2>2, <2>3, MergeCoherent DEF Goal
<1>6. ASSUME NEW u \in Uids, CommitRefresh(u) PROVE Goal
  <2> DEFINE a == Timer(u)
  <2>1. cr # None /\ a \in Actors /\ act[a].op = "commit"
    BY <1>6, ActorsOf DEF CommitRefresh
  <2>2. Coherent(act[a].out) /\ act[a].out.phase \notin {"none", "Stopping"}
    BY <2>1 DEF OutCoherent
  <2>3. cr'.status = act[a].out
    BY <1>6, <2>1, <1>0 DEF CommitRefresh, Resource
  <2> QED
    BY <2>2, <2>3 DEF Goal
<1>7. ASSUME NEW u \in Uids, OnDelete(u) PROVE Goal
  <2> DEFINE st == [NoStatus EXCEPT !.phase = "Stopping"]
  <2>1. cr # None /\ cr.deleting /\ Coherent(cr.status) /\ cr.status \in Status
    BY <1>7, <1>0 DEF OnDelete, Live, StatusCoherent
  <2>2. st \in Status /\ Coherent(st)
    BY DEF NoStatus, Status, Phases, Coherent
  <2>3. cr'.status = Merge(cr.status, st) /\ cr'.deleting = cr.deleting
    BY <1>7, <2>1, <1>0 DEF OnDelete, Resource
  <2> HIDE DEF st
  <2> QED
    BY <2>1, <2>2, <2>3, MergeCoherent DEF Goal
<1>8. ASSUME NEW u \in Uids, ReleaseFinalizer(u) PROVE Goal
  BY <1>8 DEF ReleaseFinalizer
<1>9. ASSUME UNCHANGED cr PROVE Goal
  BY <1>9, <1>1
<1>10. ASSUME NEW u \in Uids, WorkerStep(u) \/ TimerStep(u) PROVE Goal
  BY <1>10, <1>5, <1>6, <1>7, <1>8, <1>9
     DEF WorkerStep, TimerStep, BeginReconcile, ReadChild, PatchChild, CreateChild,
         ObserveStatefulSet, ObserveService, BeginRefresh
<1>11. ASSUME ClusterStep \/ PodFails \/ (\E a \in Actors : ApiError(a))
                \/ OperatorCrash \/ OperatorRestart \/ UNCHANGED vars
       PROVE  UNCHANGED cr
  BY <1>11 DEF ClusterStep, GarbageCollect, PodReady, AssignAddress, PodFails,
               ApiError, OperatorCrash, OperatorRestart, vars
<1>12. Goal
  BY <1>2, <1>3, <1>4, <1>9, <1>10, <1>11 DEF Next
<1> QED
  BY <1>12 DEF Goal

(* Nothing is shown at first.                                              *)
LEMMA InitView == Init => ViewInv
  BY DEF Init, ViewInv, StatusCoherent, OutCoherent, ReleaseDeletes, Idle, Actors, Worker, Roles

(* The invariant holds in every reachable state.                           *)
LEMMA ViewInvariant == SafeSpec => [](TypeInv /\ ViewInv)
<1>1. TypeInv /\ FinalizerGuard /\ FinalizerGuard' /\ ViewInv /\ [Next]_vars => ViewInv'
  BY OutStep, ReleaseStep, StatusStep DEF ViewInv
<1> QED
  BY <1>1, InitView, TypeInvariant, Guarded, PTL DEF SafeSpec

-----------------------------------------------------------------------------
(* The simulation *)

(* A live resource is shown, and never as None.                            *)
LEMMA ShownOf ==
  ASSUME TypeInv, cr # None
  PROVE  /\ Shown \in ShownType /\ Shown # None
         /\ Shown = [uid |-> cr.uid, deleting |-> cr.deleting,
                     status |-> ShownStatus(cr.status)]
<1>1. cr \in Resource
  BY DEF TypeInv, TypeOK
<1>2. Shown = [uid |-> cr.uid, deleting |-> cr.deleting,
               status |-> ShownStatus(cr.status)]
  BY DEF Shown
<1>3. ShownStatus(cr.status) \in Contract!Status
  BY <1>1 DEF Resource, Status, Phases, ShownStatus, Contract!Status, Contract!Phases
<1> QED
  BY <1>1, <1>2, <1>3, ShownAssumption DEF ShownType, Resource

(* A resource that keeps its uid and its deletion mark has, at most,       *)
(* reported a status.                                                      *)
LEMMA ReportStep ==
  ASSUME TypeInv, TypeInv', StatusCoherent', cr # None, cr' # None, lastUid' = lastUid,
         cr'.uid = cr.uid, cr'.deleting = cr.deleting
  PROVE  \E st \in Contract!Status : Contract!Report(st)
<1> DEFINE st == ShownStatus(cr'.status)
<1>1. cr' \in Resource
  BY DEF TypeInv, TypeOK
<1>2. cr'.status \in Status
  BY <1>1 DEF Resource
<1>3. st \in Contract!Status /\ Contract!Coherent(st) /\ (st.phase = "Stopping" => cr.deleting)
  BY <1>2 DEF StatusCoherent, Coherent, Status, Phases, ShownStatus, Contract!Status,
              Contract!Phases, Contract!Coherent
<1>4. Shown # None /\ Shown.deleting = cr.deleting
  BY ShownOf
<1>5. Shown' = [uid |-> cr'.uid, deleting |-> cr'.deleting, status |-> st]
  BY DEF Shown
<1> HIDE DEF st
<1>6. Shown' = [Shown EXCEPT !.status = st]
  BY <1>5, ShownOf
<1> QED
  BY <1>3, <1>4, <1>6 DEF Contract!Report

(* A creation, a deletion request and the end of a deletion are those of   *)
(* the contract.                                                           *)
LEMMA CreateShown ==
  ASSUME TypeInv, NEW s \in UserSpecs, UserCreate(s)
  PROVE  Contract!Create
<1>0. lastUid \in 0..MaxUid /\ MaxUid \in Nat
  BY ConstantsAssumption DEF TypeInv, TypeOK
<1>1. Shown = None
  BY DEF UserCreate, Shown
<1>2. /\ cr' # None /\ lastUid' = lastUid + 1
      /\ cr'.uid = lastUid + 1 /\ cr'.deleting = FALSE /\ cr'.status = NoStatus
  <2>1. s \in SpecType /\ lastUid < MaxUid /\ lastUid + 1 \in Uids
    BY <1>0, ConstantsAssumption DEF UserCreate, Uids
  <2>2. NoStatus \in Status
    BY DEF NoStatus, Status, Phases
  <2>3. cr' = [uid |-> lastUid + 1, spec |-> s, deleting |-> FALSE,
               finalizer |-> FALSE, handled |-> None, status |-> NoStatus]
    BY DEF UserCreate
  <2>4. cr' \in Resource
    BY <2>1, <2>2, <2>3 DEF Resource
  <2>5. cr' # None
    BY <2>4, NoneAssumption
  <2>6. lastUid' = lastUid + 1
    BY DEF UserCreate
  <2> QED
    BY <2>3, <2>5, <2>6
<1>3. Shown' = [uid |-> lastUid + 1, deleting |-> FALSE, status |-> Contract!Fresh]
  <2>1. Shown' = [uid |-> cr'.uid, deleting |-> cr'.deleting,
                  status |-> ShownStatus(cr'.status)]
    BY <1>2 DEF Shown
  <2>2. ShownStatus(NoStatus) = Contract!Fresh
    BY DEF NoStatus, ShownStatus, Contract!Fresh
  <2> QED
    BY <1>2, <2>1, <2>2
<1> QED
  BY <1>1, <1>2, <1>3 DEF Contract!Create

(* A deletion request marks what is shown, or removes it at once.          *)
LEMMA DeleteShown ==
  ASSUME TypeInv, TypeInv', UserDelete
  PROVE  Contract!Delete
<1>1. cr # None /\ ~cr.deleting /\ cr \in Resource /\ lastUid' = lastUid
  BY DEF UserDelete, TypeInv, TypeOK
<1>2. Shown # None /\ ~Shown.deleting
  BY <1>1, ShownOf
<1>3. CASE cr.finalizer
  <2>1. cr' = [cr EXCEPT !.deleting = TRUE]
    BY <1>3 DEF UserDelete
  <2>2. cr' \in Resource /\ cr'.uid = cr.uid /\ cr'.deleting = TRUE /\ cr'.status = cr.status
    BY <1>1, <2>1 DEF Resource
  <2>3. cr' # None
    BY <2>2, NoneAssumption
  <2>4. Shown' = [uid |-> cr.uid, deleting |-> TRUE,
                  status |-> ShownStatus(cr.status)]
    BY <2>2, <2>3 DEF Shown
  <2>5. Shown \in ShownType /\ Shown' \in ShownType
    BY <1>1, <2>4, ShownOf DEF ShownType, Resource
  <2>6. Shown' = [Shown EXCEPT !.deleting = TRUE]
    <3>1. Shown'.uid = Shown.uid /\ Shown'.deleting /\ Shown'.status = Shown.status
      BY <2>4, <1>1, ShownOf
    <3> QED
      BY <2>5, <3>1 DEF ShownType
  <2> QED
    BY <1>1, <1>2, <2>6 DEF Contract!Delete
<1>4. CASE ~cr.finalizer
  <2>1. Shown' = None
    BY <1>4 DEF UserDelete, Shown
  <2> QED
    BY <1>1, <1>2, <2>1 DEF Contract!Delete
<1> QED
  BY <1>3, <1>4

(* The lifted finalizer ends a deletion that was asked for.                *)
LEMMA GoneShown ==
  ASSUME TypeInv, ReleaseDeletes, NEW u \in Uids, ReleaseFinalizer(u)
  PROVE  Contract!Gone
<1>1. cr # None /\ cr.deleting
  BY DEF ReleaseFinalizer, ReleaseDeletes
<1>2. Shown # None /\ Shown.deleting
  BY <1>1, ShownOf
<1>3. Shown' = None /\ lastUid' = lastUid
  BY DEF ReleaseFinalizer, Shown
<1> QED
  BY <1>2, <1>3 DEF Contract!Gone

(* Every step is a step of the contract, or changes nothing it shows.      *)
LEMMA StepShown ==
  ASSUME TypeInv, TypeInv', ViewInv, ViewInv', [Next]_vars
  PROVE  [Contract!Next]_(Contract!vars)
<1>1. CASE UNCHANGED <<cr, lastUid>>
  BY <1>1 DEF Contract!vars, Shown
<1>2. CASE /\ cr # None /\ cr' # None /\ lastUid' = lastUid
           /\ cr'.uid = cr.uid /\ cr'.deleting = cr.deleting
  BY <1>2, ReportStep DEF ViewInv, Contract!Next
<1>3. CASE \E s \in UserSpecs : UserCreate(s)
  BY <1>3, CreateShown DEF Contract!Next
<1>4. CASE UserDelete
  BY <1>4, DeleteShown DEF Contract!Next
<1>5. CASE \E u \in Uids : ReleaseFinalizer(u)
  BY <1>5, GoneShown DEF ViewInv, Contract!Next
<1> QED
  BY <1>1, <1>2, <1>3, <1>4, <1>5, CrStep

(* Whatever the interleaving, the retries and the faults, what users see   *)
(* of a server name is a behaviour of the abstract resource: one           *)
(* incarnation at a time, coherent statuses, Stopping only while it is     *)
(* being deleted, and its end only after a deletion request.               *)
THEOREM Implements == SafeSpec => ResourceSafety
<1>1. Init => Contract!Init
  BY DEF Init, Shown, Contract!Init
<1>2. /\ TypeInv /\ ViewInv /\ TypeInv' /\ ViewInv' /\ [Next]_vars
      => [Contract!Next]_(Contract!vars)
  BY StepShown
<1> QED
  BY <1>1, <1>2, ViewInvariant, PTL DEF SafeSpec, ResourceSafety, Contract!SafeSpec
=============================================================================
