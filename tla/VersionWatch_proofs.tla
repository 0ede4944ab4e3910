------------------------- MODULE VersionWatch_proofs -------------------------
(***************************************************************************)
(* Safety of VersionWatch for every manifest, every list to begin with and *)
(* every bound.                                                            *)
(***************************************************************************)
EXTENDS VersionWatch, SequenceTheorems, WellFoundedInduction, TLAPS

-----------------------------------------------------------------------------
(* The manifest *)

(* The manifest's entries are entries, and so are its releases.            *)
LEMMA DomainOf ==
  ASSUME TypeOK
  PROVE  /\ Len(upstream) \in Nat /\ DOMAIN upstream = 1..Len(upstream)
         /\ Releases \subseteq DOMAIN upstream /\ DOMAIN upstream \subseteq Entries
<1>1. Len(upstream) \in Nat /\ DOMAIN upstream = 1..Len(upstream)
  BY DEF TypeOK
<1> QED
  BY <1>1, WatchAssumption DEF TypeOK, Entries, Releases

(* What is published stays as it is.                                       *)
LEMMA PublishStep ==
  ASSUME TypeOK, Publish
  PROVE  /\ upstream' \in Seq(Kinds) /\ Len(upstream') <= MaxEntries
         /\ DOMAIN upstream \subseteq DOMAIN upstream' /\ Releases \subseteq Releases'
<1>1. PICK k \in Kinds : upstream' = Append(upstream, k)
  BY DEF Publish
<1>2. /\ upstream' \in Seq(Kinds) /\ Len(upstream') = Len(upstream) + 1
      /\ \A v \in 1..Len(upstream) : upstream'[v] = upstream[v]
  BY <1>1, AppendProperties DEF TypeOK
<1>3. DOMAIN upstream' = 1..Len(upstream')
  BY <1>2
<1>4. DOMAIN upstream \subseteq DOMAIN upstream'
  BY <1>2, <1>3, DomainOf
<1> QED
  BY <1>2, <1>4, DomainOf, WatchAssumption DEF Publish, Releases

(* Every other step leaves the manifest alone.                             *)
LEMMA UpstreamStep ==
  ASSUME [Next]_vars
  PROVE  Publish \/ upstream' = upstream
  BY DEF Next, WatchStarts, WatchEnds, WatchFails, Merge, Edit, Close, Dispatch, Bake,
         BakeFails, Create, Start, vars

(* There is at most one newest entry.                                      *)
LEMMA NewestUnique ==
  ASSUME NEW S, S \subseteq Nat, NEW v \in Newest(S)
  PROVE  v \in S /\ Newest(S) = {v}
<1>1. ASSUME NEW w \in Newest(S) PROVE w = v
  BY <1>1 DEF Newest
<1> QED
  BY <1>1 DEF Newest

(* What a watch selects is a release that is not on its list.              *)
LEMMA SelectOne ==
  ASSUME TypeOK, NEW list, NEW v \in SelectNew(list)
  PROVE  v \in Releases \ list /\ SelectNew(list) = {v}
<1>1. Releases \ list \subseteq Nat
  BY DomainOf
<1> QED
  BY <1>1, NewestUnique DEF SelectNew

-----------------------------------------------------------------------------
(* Types *)

(* A run has a job for every version of its list.                          *)
LEMMA StartRunType ==
  ASSUME TypeOK, NEW list \in SUBSET Entries, StartRun(list)
  PROVE  /\ runs' \in Nat /\ jobs' \subseteq Jobs
         /\ \A j \in jobs' : j.run \in 1..runs'
         /\ list \subseteq {j.version : j \in jobs'}
<1> DEFINE J(v) == [run |-> runs + 1, version |-> v]
<1>1. runs \in Nat /\ runs' = runs + 1 /\ jobs' = jobs \cup {J(v) : v \in list}
  BY DEF TypeOK, StartRun
<1>2. \A v \in list : /\ J(v) \in jobs' /\ J(v).version = v
                      /\ J(v) \in Jobs /\ J(v).run \in 1..runs'
  BY <1>1 DEF Jobs
<1>3. \A j \in jobs : j \in Jobs /\ j.run \in 1..runs'
  BY <1>1 DEF TypeOK
<1> HIDE DEF J
<1>4. \A j \in jobs' : j \in Jobs /\ j.run \in 1..runs'
  BY <1>1, <1>2, <1>3
<1>5. list \subseteq {j.version : j \in jobs'}
  BY <1>2
<1> QED
  BY <1>1, <1>4, <1>5

(* A push lists a list and builds what is on it, if it changes anything.   *)
LEMMA PushType ==
  ASSUME TypeOK, NEW list \in SUBSET Entries, Push(list)
  PROVE  /\ known' = list /\ runs' \in Nat /\ jobs' \subseteq Jobs
         /\ \A j \in jobs' : j.run \in 1..runs'
         /\ \/ known' = known /\ jobs' = jobs
            \/ known' \subseteq {j.version : j \in jobs'}
  BY StartRunType DEF Push, TypeOK

(* A merge pushes a list of entries.                                       *)
LEMMA MergeType ==
  ASSUME TypeOK, Merge
  PROVE  /\ pull \in [base: SUBSET Entries, list: SUBSET Entries]
         /\ \E list \in SUBSET Entries :
              /\ list = (known \ (pull.base \ pull.list)) \cup (pull.list \ pull.base)
              /\ Push(list)
<1>1. pull \in [base: SUBSET Entries, list: SUBSET Entries]
  BY DEF Merge, TypeOK
<1> QED
  BY <1>1 DEF Merge, TypeOK

(* So does an edit.                                                        *)
LEMMA EditType ==
  ASSUME TypeOK, Edit
  PROVE  \E list \in SUBSET Entries : Push(list)
  BY DEF Edit, TypeOK

(* What maintainers do is counted.                                         *)
LEMMA ByHandType ==
  ASSUME TypeOK, ByHand
  PROVE  byHand' \in 0..MaxByHand /\ byHand' # byHand
  BY WatchAssumption DEF ByHand, TypeOK

(* A counted fault stays within its bound.                                 *)
LEMMA FaultType ==
  ASSUME TypeOK, faults < MaxFaults, faults' = faults + 1
  PROVE  faults' \in 0..MaxFaults
  BY WatchAssumption DEF TypeOK

(* The first state is well typed.                                          *)
LEMMA InitType == Init => TypeOK
<1> SUFFICES ASSUME Init PROVE TypeOK
  OBVIOUS
<1>1. upstream \in [1..2 -> Kinds] /\ Pinned \subseteq 1..2
  BY DEF Init
<1>2. upstream \in Seq(Kinds) /\ Len(upstream) = 2
  <2>1. upstream \in Seq(Kinds)
    <3>1. upstream \in UNION {[1..n -> Kinds] : n \in Nat}
      BY <1>1, 2 \in Nat, Zenon
    <3> QED
      BY <3>1, SeqDef, Zenon
  <2> QED
    BY <1>1, <2>1
<1>3. Len(upstream) <= MaxEntries
  BY <1>2, WatchAssumption
<1>4. baked \subseteq DOMAIN upstream \ NoJar /\ known \subseteq Entries
  BY <1>1, WatchAssumption DEF Init
<1>5. byHand \in 0..MaxByHand /\ faults \in 0..MaxFaults /\ runs \in Nat
  BY WatchAssumption DEF Init
<1> QED
  BY <1>2, <1>3, <1>4, <1>5 DEF Init, TypeOK

(* Every step preserves the types.                                         *)
LEMMA StepType == TypeOK /\ [Next]_vars => TypeOK'
<1> SUFFICES ASSUME TypeOK, [Next]_vars PROVE TypeOK'
  OBVIOUS
<1>1. CASE Publish
  BY <1>1, PublishStep DEF Publish, TypeOK
<1>2. CASE WatchStarts
  BY <1>2 DEF WatchStarts, TypeOK
<1>3. CASE WatchEnds
  <2> DEFINE new == SelectNew(watch)
             list == WithNew(watch, new)
  <2>1. watch \subseteq Entries /\ watch # None
    BY <1>3 DEF WatchEnds, TypeOK
  <2>2. new \subseteq Entries
    BY SelectOne, DomainOf
  <2>3. [base |-> watch, list |-> list] \in [base: SUBSET Entries, list: SUBSET Entries]
    BY <2>1, <2>2 DEF WithNew
  <2>4. pull' = pull \/ pull' = [base |-> watch, list |-> list]
    BY <1>3 DEF WatchEnds
  <2> HIDE DEF list
  <2>5. pull' \in {None} \cup [base: SUBSET Entries, list: SUBSET Entries]
    BY <2>3, <2>4 DEF TypeOK
  <2> QED
    BY <1>3, <2>5 DEF WatchEnds, TypeOK
<1>4. CASE WatchFails
  BY <1>4, FaultType DEF WatchFails, TypeOK
<1>5. CASE Merge
  <2>1. PICK list \in SUBSET Entries : Push(list)
    BY <1>5, MergeType
  <2> QED
    BY <1>5, <2>1, PushType DEF Merge, TypeOK
<1>6. CASE Edit
  <2>1. PICK list \in SUBSET Entries : Push(list)
    BY <1>6, EditType
  <2> QED
    BY <1>6, <2>1, PushType, ByHandType DEF Edit, TypeOK
<1>7. CASE Close
  BY <1>7, ByHandType DEF Close, TypeOK
<1>8. CASE Dispatch
  <2>1. known \in SUBSET Entries
    BY DEF TypeOK
  <2> QED
    BY <1>8, <2>1, StartRunType, ByHandType DEF Dispatch, TypeOK
<1>9. ASSUME NEW j \in jobs, Bake(j) PROVE TypeOK'
  BY <1>9 DEF Bake, HasJar, TypeOK
<1>10. ASSUME NEW j \in jobs, BakeFails(j) PROVE TypeOK'
  <2>1. faults' \in 0..MaxFaults
    BY <1>10, FaultType DEF BakeFails, TypeOK
  <2>2. j.version \in Entries /\ jobs' \subseteq jobs
    BY <1>10 DEF BakeFails, Without, TypeOK, Jobs
  <2>3. failed' \subseteq Entries
    BY <1>10, <2>2 DEF BakeFails, TypeOK
  <2> QED
    BY <1>10, <2>1, <2>2, <2>3 DEF BakeFails, TypeOK
<1>11. ASSUME NEW s \in Servers, Start(s) PROVE TypeOK'
  BY <1>11 DEF Start, TypeOK
<1>12. ASSUME NEW s \in Servers, NEW v \in Offered \cup {None}, Create(s, v) PROVE TypeOK'
  BY <1>12 DEF Create, TypeOK
<1>13. CASE UNCHANGED vars
  BY <1>13 DEF vars, TypeOK
<1> QED
  BY <1>1, <1>2, <1>3, <1>4, <1>5, <1>6, <1>7, <1>8, <1>9, <1>10, <1>11, <1>12, <1>13
     DEF Next

(* Every reachable state is well typed: in particular only versions that   *)
(* are published with a server download have an image.                     *)
THEOREM TypeCorrect == SafeSpec => []TypeOK
  BY InitType, StepType, PTL DEF SafeSpec

-----------------------------------------------------------------------------
(* No listed version is forgotten *)

(* Every step keeps every listed version built, being built, or failed.    *)
LEMMA StepBuilt == TypeOK /\ ListedIsBuilt /\ [Next]_vars => ListedIsBuilt'
<1> SUFFICES ASSUME TypeOK, ListedIsBuilt, [Next]_vars PROVE ListedIsBuilt'
  OBVIOUS
<1>1. ASSUME NEW list \in SUBSET Entries, Push(list), UNCHANGED <<baked, failed>>
      PROVE  ListedIsBuilt'
  BY <1>1, PushType DEF ListedIsBuilt
<1>2. CASE Merge
  <2>1. PICK list \in SUBSET Entries : Push(list)
    BY <1>2, MergeType
  <2> QED
    BY <1>1, <1>2, <2>1 DEF Merge
<1>3. CASE Edit
  <2>1. PICK list \in SUBSET Entries : Push(list)
    BY <1>3, EditType
  <2> QED
    BY <1>1, <1>3, <2>1 DEF Edit
<1>4. CASE Dispatch
  <2>1. known \in SUBSET Entries
    BY DEF TypeOK
  <2>2. known' \subseteq {j.version : j \in jobs'}
    BY <1>4, <2>1, StartRunType DEF Dispatch
  <2> QED
    BY <2>2 DEF ListedIsBuilt
<1>5. ASSUME NEW j \in jobs, Bake(j) PROVE ListedIsBuilt'
  BY <1>5 DEF Bake, ListedIsBuilt
<1>6. ASSUME NEW j \in jobs, BakeFails(j) PROVE ListedIsBuilt'
  BY <1>6 DEF BakeFails, Without, ListedIsBuilt
<1>7. CASE UNCHANGED <<known, baked, jobs, failed>>
  BY <1>7 DEF ListedIsBuilt
<1> QED
  BY <1>2, <1>3, <1>4, <1>5, <1>6, <1>7
     DEF Next, Publish, WatchStarts, WatchEnds, WatchFails, Close, Start, Create, vars

(* However runs of the image pipeline overlap and whichever jobs fail,     *)
(* every listed version has its image, a job still to end, or a recorded   *)
(* failure.                                                                *)
THEOREM Built == SafeSpec => []ListedIsBuilt
<1>1. Init => ListedIsBuilt
  BY DEF Init, ListedIsBuilt
<1> QED
  BY <1>1, StepBuilt, TypeCorrect, PTL DEF SafeSpec

-----------------------------------------------------------------------------
(* What a merge does to the list *)

(* An open pull request adds one release to the list it started from.      *)
PullProposes ==
  pull # None => \E v \in Releases : pull.list = pull.base \cup {v}

(* Every step keeps the pull request that of the watch.                    *)
LEMMA StepProposes == TypeOK /\ PullProposes /\ [Next]_vars => PullProposes'
<1> SUFFICES ASSUME TypeOK, PullProposes, [Next]_vars, pull' # None
             PROVE  \E v \in Releases' : pull'.list = pull'.base \cup {v}
  BY DEF PullProposes
<1>1. Releases \subseteq Releases'
  BY UpstreamStep, PublishStep DEF Releases
<1>2. CASE pull' = pull
  BY <1>1, <1>2 DEF PullProposes
<1>3. CASE WatchEnds /\ pull' # pull
  <2> DEFINE new == SelectNew(watch)
  <2>1. pull' = [base |-> watch, list |-> WithNew(watch, new)] /\ new # {}
    BY <1>3 DEF WatchEnds
  <2>2. PICK v \in new : TRUE
    BY <2>1
  <2>3. v \in Releases /\ new = {v}
    BY <2>2, SelectOne
  <2> QED
    BY <1>1, <2>1, <2>3 DEF WithNew
<1> QED
  BY <1>2, <1>3
     DEF Next, Publish, WatchStarts, WatchEnds, WatchFails, Merge, Edit, Close, Dispatch,
         Bake, BakeFails, Start, Create, vars

(* A three-way merge of such a pull request adds its release.              *)
LEMMA StepMerge ==
  ASSUME TypeOK, PullProposes, [Next]_vars, byHand' = byHand
  PROVE  known' = known \/ \E v \in Releases : known' = known \cup {v}
<1>1. ~Edit /\ ~Close /\ ~Dispatch
  BY ByHandType DEF Edit, Close, Dispatch
<1>2. CASE Merge
  <2>1. PICK v \in Releases : pull.list = pull.base \cup {v}
    BY <1>2 DEF Merge, PullProposes
  <2>2. known' = (known \ (pull.base \ pull.list)) \cup (pull.list \ pull.base)
    BY <1>2 DEF Merge, Push
  <2>3. CASE v \in pull.base
    BY <2>1, <2>2, <2>3
  <2>4. CASE v \notin pull.base
    BY <2>1, <2>2, <2>4
  <2> QED
    BY <2>3, <2>4
<1> QED
  BY <1>1, <1>2
     DEF Next, Publish, WatchStarts, WatchEnds, WatchFails, Bake, BakeFails, Start, Create,
         vars

(* Whatever is published, edited or merged between a checkout and the      *)
(* merge, the watch takes nothing off the list and adds releases only.     *)
THEOREM MergesAdd == SafeSpec => MergeAddsRelease
<1>1. Init => PullProposes
  BY DEF Init, PullProposes
<1>2. TypeOK /\ PullProposes /\ [Next]_vars
      => [ byHand' = byHand =>
             known' = known \/ \E v \in Releases : known' = known \cup {v} ]_vars
  BY StepMerge
<1> QED
  BY <1>1, <1>2, StepProposes, TypeCorrect, PTL DEF SafeSpec, MergeAddsRelease

-----------------------------------------------------------------------------
(* The steps of which NewReleasesListed is made *)

(* A set of entries that is not empty has a newest one.                    *)
LEMMA NewestExists ==
  ASSUME NEW n \in Nat, NEW S, S \subseteq 1..n, S # {}
  PROVE  \E v \in S : \A w \in S : w <= v
<1> DEFINE Age(v) == n - v
           Ages == {Age(v) : v \in S}
<1>1. Ages \subseteq Nat /\ Ages # {}
  <2>1. \A v \in S : Age(v) \in Nat
    OBVIOUS
  <2> HIDE DEF Age
  <2> QED
    BY <2>1
<1>2. PICK x \in Ages : \A y \in Ages : <<y, x>> \notin OpToRel(<, Nat)
  <2> DEFINE R == OpToRel(<, Nat)
  <2>1. IsWellFoundedOn(R, Nat)
    BY NatLessThanWellFounded
  <2> HIDE DEF Ages, R
  <2>2. \E x \in Ages : \A y \in Ages : ~ (<<y, x>> \in R)
    BY <1>1, <2>1, WFMin, Zenon
  <2> QED
    BY <2>2 DEF R
<1>3. \A y \in Ages : ~(y < x)
  BY <1>1, <1>2 DEF OpToRel
<1>4. PICK v \in S : x = Age(v)
  BY <1>2
<1>5. ASSUME NEW w \in S PROVE w <= v
  <2>1. ~(Age(w) < Age(v))
    BY <1>3, <1>4
  <2> QED
    BY <2>1
<1> QED
  BY <1>5

(* A watch that ends while a release is missing from the list it checked   *)
(* out leaves a pull request for the newest one that is missing.           *)
WatchProposes ==
  WatchEnds /\ ~(Releases \subseteq watch) =>
    /\ pull' # None /\ pull'.base = watch
    /\ \E v \in Newest(Releases \ watch) : pull'.list = watch \cup {v}

(* A merge of a pull request that applies cleanly lists one release more.  *)
MergeProgresses ==
  Merge /\ pull.base = known => \E v \in Releases \ known : known' = known \cup {v}

(* An open pull request brings a release its list did not have.            *)
PullBrings == pull # None => pull.list # pull.base

(* The selection of a watch is not empty while a release is missing.       *)
LEMMA SelectSome ==
  ASSUME TypeOK, NEW list, ~(Releases \subseteq list)
  PROVE  \E v \in Newest(Releases \ list) : SelectNew(list) = {v}
<1>1. Releases \ list \subseteq 1..Len(upstream) /\ Len(upstream) \in Nat
  BY DomainOf
<1>2. PICK v \in Releases \ list : \A w \in Releases \ list : w <= v
  BY <1>1, NewestExists
<1>3. v \in Newest(Releases \ list)
  BY <1>2 DEF Newest
<1> QED
  BY <1>1, <1>3, SelectOne DEF SelectNew

(* Every step keeps the pull request one that brings a release.            *)
LEMMA StepBrings == TypeOK /\ PullBrings /\ [Next]_vars => PullBrings'
<1> SUFFICES ASSUME TypeOK, PullBrings, [Next]_vars, pull' # None
             PROVE  pull'.list # pull'.base
  BY DEF PullBrings
<1>1. CASE pull' = pull
  BY <1>1 DEF PullBrings
<1>2. CASE WatchEnds /\ pull' # pull
  <2> DEFINE new == SelectNew(watch)
  <2>1. pull' = [base |-> watch, list |-> WithNew(watch, new)] /\ new # {}
    BY <1>2 DEF WatchEnds
  <2>2. PICK v \in new : v \in Releases \ watch
    BY <2>1, SelectOne
  <2> QED
    BY <2>1, <2>2 DEF WithNew
<1> QED
  BY <1>1, <1>2
     DEF Next, Publish, WatchStarts, WatchEnds, WatchFails, Merge, Edit, Close, Dispatch,
         Bake, BakeFails, Start, Create, vars

(* What NewReleasesListed takes of single steps, whatever was published    *)
(* or edited before: no watch passes over a missing release, and no pull   *)
(* request that applies is merged without listing one.                     *)
THEOREM WatchAdvances == SafeSpec => [][WatchProposes /\ MergeProgresses]_vars
<1>1. Init => PullBrings /\ PullProposes
  BY DEF Init, PullBrings, PullProposes
<1>2. TypeOK => WatchProposes
  <2> SUFFICES ASSUME TypeOK, WatchEnds, ~(Releases \subseteq watch)
               PROVE  /\ pull' # None /\ pull'.base = watch
                      /\ \E v \in Newest(Releases \ watch) : pull'.list = watch \cup {v}
    BY DEF WatchProposes
  <2>1. PICK v \in Newest(Releases \ watch) : SelectNew(watch) = {v}
    BY SelectSome
  <2>2. pull' = [base |-> watch, list |-> watch \cup {v}]
    BY <2>1 DEF WatchEnds, WithNew
  <2>3. watch \subseteq Entries /\ v \in Entries
    BY <2>1, DomainOf DEF WatchEnds, TypeOK, Newest
  <2>4. [base |-> watch, list |-> watch \cup {v}]
          \in [base: SUBSET Entries, list: SUBSET Entries]
    BY <2>3
  <2>5. pull' # None
    BY <2>2, <2>4, NoneAssumption
  <2> QED
    BY <2>1, <2>2, <2>5
<1>3. TypeOK /\ PullProposes /\ PullBrings => MergeProgresses
  <2> SUFFICES ASSUME TypeOK, PullProposes, PullBrings, Merge, pull.base = known
               PROVE  \E v \in Releases \ known : known' = known \cup {v}
    BY DEF MergeProgresses
  <2>1. PICK v \in Releases : pull.list = known \cup {v}
    BY DEF Merge, PullProposes
  <2>2. v \notin known
    BY <2>1 DEF Merge, PullBrings
  <2> QED
    BY <2>1, <2>2 DEF Merge, Push
<1> QED
  BY <1>1, <1>2, <1>3, StepBrings, StepProposes, TypeCorrect, PTL DEF SafeSpec
=============================================================================
