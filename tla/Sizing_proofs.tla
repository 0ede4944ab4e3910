---------------------------- MODULE Sizing_proofs ----------------------------
(***************************************************************************)
(* Proofs about Sizing for every catalog, player count and length of run:  *)
(* first the arithmetic, as lemmas about the operators, then the           *)
(* invariants of the specification.                                        *)
(***************************************************************************)
EXTENDS Sizing, TLAPS

-----------------------------------------------------------------------------
(* The arithmetic *)

(* The clamped player count is one the game allows.                        *)
LEMMA ClampRange ==
  ASSUME NEW n \in Int, NEW top \in Nat
  PROVE  Clamp(n, top) \in 0..top
BY DEF Clamp

(* Clamping keeps the order of player counts.                              *)
LEMMA ClampMonotone ==
  ASSUME NEW n \in Int, NEW m \in Int, NEW top \in Nat, n <= m
  PROVE  Clamp(n, top) <= Clamp(m, top)
BY DEF Clamp

(* A ceiling only lowers, and is never exceeded.                           *)
LEMMA CappedRange ==
  ASSUME NEW x \in Nat, NEW c \in Quantity
  PROVE  /\ Capped(x, c) \in Nat /\ Capped(x, c) <= x
         /\ c # None => Capped(x, c) <= c
BY SizingAssumption DEF Capped, Quantity

(* A ceiling keeps the order of quantities.                                *)
LEMMA CappedMonotone ==
  ASSUME NEW x \in Nat, NEW y \in Nat, NEW c \in Quantity, x <= y
  PROVE  Capped(x, c) <= Capped(y, c)
BY SizingAssumption DEF Capped, Quantity

(* A linear need grows with the number of players.                         *)
LEMMA NeedMonotone ==
  ASSUME NEW base \in Nat, NEW per \in Nat, NEW n \in Nat, NEW m \in Nat, n <= m
  PROVE  /\ base + per * n \in Nat /\ base + per * m \in Nat
         /\ base <= base + per * n
         /\ base + per * n <= base + per * m
<1>1. PICK d \in Nat : m = n + d
  <2>1. m - n \in Nat /\ m = n + (m - n)
    OBVIOUS
  <2> QED
    BY <2>1
<1>2. per * n \in Nat /\ per * d \in Nat
  OBVIOUS
<1>3. per * m = per * n + per * d
  BY <1>1
<1> QED
  BY <1>2, <1>3

(* The allocation is a pair of numbers, between the base (capped) and what *)
(* a full server needs, and never above a ceiling.                         *)
LEMMA ComputeBounds ==
  ASSUME NEW s \in SizingType, NEW n \in Int
  PROVE  LET r == ComputeResources(s, n) IN
         /\ r \in ResourceType
         /\ Capped(s.baseMem, s.ceilMem) <= r.mem /\ Capped(s.baseCpu, s.ceilCpu) <= r.cpu
         /\ s.ceilMem # None => r.mem <= s.ceilMem
         /\ s.ceilCpu # None => r.cpu <= s.ceilCpu
         /\ r.mem <= s.baseMem + s.perMem * s.maxPlayers
         /\ r.cpu <= s.baseCpu + s.perCpu * s.maxPlayers
<1> DEFINE k == Clamp(n, s.maxPlayers)
           mem == s.baseMem + s.perMem * k
           cpu == s.baseCpu + s.perCpu * k
<1>1. /\ s.baseMem \in Nat /\ s.perMem \in Nat /\ s.baseCpu \in Nat /\ s.perCpu \in Nat
      /\ s.maxPlayers \in Nat /\ s.ceilMem \in Quantity /\ s.ceilCpu \in Quantity
  BY DEF SizingType
<1>2. k \in Nat /\ k <= s.maxPlayers
  <2>1. Clamp(n, s.maxPlayers) \in 0..s.maxPlayers
    BY <1>1, ClampRange, Zenon
  <2> QED
    BY <1>1, <2>1
<1>3. /\ mem \in Nat /\ s.baseMem <= mem
      /\ mem <= s.baseMem + s.perMem * s.maxPlayers
      /\ s.baseMem + s.perMem * s.maxPlayers \in Nat
  BY <1>1, <1>2, NeedMonotone
<1>4. /\ cpu \in Nat /\ s.baseCpu <= cpu
      /\ cpu <= s.baseCpu + s.perCpu * s.maxPlayers
      /\ s.baseCpu + s.perCpu * s.maxPlayers \in Nat
  BY <1>1, <1>2, NeedMonotone
<1>5. ComputeResources(s, n) = [mem |-> Capped(mem, s.ceilMem), cpu |-> Capped(cpu, s.ceilCpu)]
  BY DEF ComputeResources
<1> HIDE DEF mem, cpu, k
<1>6. /\ Capped(mem, s.ceilMem) \in Nat /\ Capped(mem, s.ceilMem) <= mem
      /\ s.ceilMem # None => Capped(mem, s.ceilMem) <= s.ceilMem
      /\ Capped(s.baseMem, s.ceilMem) <= Capped(mem, s.ceilMem)
  BY <1>1, <1>3, CappedRange, CappedMonotone
<1>7. /\ Capped(cpu, s.ceilCpu) \in Nat /\ Capped(cpu, s.ceilCpu) <= cpu
      /\ s.ceilCpu # None => Capped(cpu, s.ceilCpu) <= s.ceilCpu
      /\ Capped(s.baseCpu, s.ceilCpu) <= Capped(cpu, s.ceilCpu)
  BY <1>1, <1>4, CappedRange, CappedMonotone
<1>8. /\ Capped(mem, s.ceilMem) <= s.baseMem + s.perMem * s.maxPlayers
      /\ Capped(cpu, s.ceilCpu) <= s.baseCpu + s.perCpu * s.maxPlayers
  BY <1>3, <1>4, <1>6, <1>7
<1> QED
  BY <1>5, <1>6, <1>7, <1>8 DEF ResourceType

(* compute_resources is "monotonic non-decreasing in max_players".         *)
THEOREM ComputeMonotone ==
  ASSUME NEW s \in SizingType, NEW n \in Int, NEW m \in Int, n <= m
  PROVE  /\ ComputeResources(s, n).mem <= ComputeResources(s, m).mem
         /\ ComputeResources(s, n).cpu <= ComputeResources(s, m).cpu
<1> DEFINE j == Clamp(n, s.maxPlayers)
           k == Clamp(m, s.maxPlayers)
<1>1. /\ s.baseMem \in Nat /\ s.perMem \in Nat /\ s.baseCpu \in Nat /\ s.perCpu \in Nat
      /\ s.maxPlayers \in Nat /\ s.ceilMem \in Quantity /\ s.ceilCpu \in Quantity
  BY DEF SizingType
<1>2. j \in Nat /\ k \in Nat /\ j <= k
  <2>1. Clamp(n, s.maxPlayers) \in 0..s.maxPlayers /\ Clamp(m, s.maxPlayers) \in 0..s.maxPlayers
    BY <1>1, ClampRange, Zenon
  <2>2. Clamp(n, s.maxPlayers) <= Clamp(m, s.maxPlayers)
    BY <1>1, ClampMonotone, Zenon
  <2> QED
    BY <1>1, <2>1, <2>2
<1>3. /\ Capped(s.baseMem + s.perMem * j, s.ceilMem) <= Capped(s.baseMem + s.perMem * k, s.ceilMem)
      /\ Capped(s.baseCpu + s.perCpu * j, s.ceilCpu) <= Capped(s.baseCpu + s.perCpu * k, s.ceilCpu)
  <2> HIDE DEF j, k
  <2>1. /\ s.baseMem + s.perMem * j \in Nat /\ s.baseMem + s.perMem * k \in Nat
        /\ s.baseMem + s.perMem * j <= s.baseMem + s.perMem * k
    BY <1>1, <1>2, NeedMonotone
  <2>2. /\ s.baseCpu + s.perCpu * j \in Nat /\ s.baseCpu + s.perCpu * k \in Nat
        /\ s.baseCpu + s.perCpu * j <= s.baseCpu + s.perCpu * k
    BY <1>1, <1>2, NeedMonotone
  <2> QED
    BY <1>1, <2>1, <2>2, CappedMonotone
<1> QED
  BY <1>3 DEF ComputeResources

(* The browser's mirror "matches the Python operator exactly".             *)
THEOREM PreviewIsCompute ==
  ASSUME NEW s \in SizingType, NEW n \in Int
  PROVE  Preview(s, n) = ComputeResources(s, n)
<1>1. s.maxPlayers \in Nat /\ s.maxPlayers # 0
  BY DEF SizingType
<1>2. (IF n > s.maxPlayers THEN s.maxPlayers ELSE IF n < 0 THEN 0 ELSE n)
        = Clamp(n, s.maxPlayers)
  BY <1>1 DEF Clamp
<1> QED
  BY <1>2 DEF Preview, ComputeResources, Capped

(* Whatever the spec says, the container gets two quantities.              *)
LEMMA ResourcesType ==
  ASSUME NEW sp \in SpecType, NEW s \in SizingType
  PROVE  Resources(sp, s) \in ResourceType
<1>1. Default \in ResourceType
  BY DEF Default, ResourceType
<1>2. CASE Explicit(sp)
  BY <1>2, <1>1 DEF Resources, ResourceType, SpecType, Quantity, Default
<1>3. CASE ~Explicit(sp) /\ sp.players # None
  <2>1. sp.players \in Int
    BY <1>3 DEF SpecType
  <2> QED
    BY <1>3, <2>1, ComputeBounds DEF Resources
<1> QED
  BY <1>1, <1>2, <1>3 DEF Resources

-----------------------------------------------------------------------------
(* The invariant *)

(* The container's resources are those of the inputs last reconciled, and  *)
(* the number shown is the preview of the inputs it was shown for.         *)
Faithful ==
  /\ applied # None => container.res = Resources(applied.spec, applied.sizing)
  /\ order # None => order.shown = Preview(order.sizing, order.players)

SizingInv == TypeOK /\ Faithful

(* The form shows two quantities.                                          *)
LEMMA PreviewType ==
  ASSUME NEW s \in SizingType, NEW n \in Nat \ {0}
  PROVE  Preview(s, n) \in ResourceType
<1>1. Preview(s, n) = ComputeResources(s, n)
  BY PreviewIsCompute
<1>2. ComputeResources(s, n) \in ResourceType
  <2>1. n \in Int
    OBVIOUS
  <2> QED
    BY <2>1, ComputeBounds
<1> QED
  BY <1>1, <1>2

(* The first state satisfies the invariant.                                *)
LEMMA SizingInit == Init => SizingInv
BY SizingAssumption DEF Init, SizingInv, TypeOK, Faithful

(* Every step preserves the invariant.                                     *)
LEMMA SizingStep == SizingInv /\ [Next]_vars => SizingInv'
<1> SUFFICES ASSUME SizingInv, [Next]_vars PROVE SizingInv'
  OBVIOUS
<1> USE SizingAssumption
<1> USE DEF SizingInv, TypeOK, Faithful
<1>1. CASE LoadPage
  BY <1>1 DEF LoadPage
<1>2. CASE OpenForm
  BY <1>2 DEF OpenForm, SizingType
<1>3. ASSUME NEW n \in Inputs, TypeCount(n) PROVE SizingInv'
  <2>1. page.maxPlayers \in Nat \ {0} /\ n \in Int
    BY DEF SizingType
  <2>2. form' \in Nat \ {0}
    BY <1>3, <2>1 DEF TypeCount
  <2> QED
    BY <1>3, <2>2 DEF TypeCount
<1>4. CASE Submit
  <2>1. form \in Nat \ {0}
    BY <1>4 DEF Submit
  <2>2. Preview(page, form) \in ResourceType
    BY <2>1, PreviewType
  <2>3. order' = [players |-> form, sizing |-> page, shown |-> Preview(page, form)]
    BY <1>4 DEF Submit
  <2>4. order' \in [players: Nat \ {0}, sizing: SizingType, shown: ResourceType]
    BY <2>1, <2>2, <2>3
  <2>5. order'.shown = Preview(order'.sizing, order'.players)
    BY <2>3
  <2>6. spec' \in SpecType
    BY <1>4, <2>1 DEF Submit, SpecType, Quantity
  <2> QED
    BY <1>4, <2>4, <2>5, <2>6 DEF Submit
<1>5. ASSUME NEW p \in Players \cup {None}, ApiCreate(p) PROVE SizingInv'
  <2>1. spec' \in SpecType
    BY <1>5 DEF ApiCreate, SpecType, Quantity
  <2> QED
    BY <1>5, <2>1 DEF ApiCreate
<1>6. ASSUME NEW p \in Players \cup {None}, NEW c \in Quantities \cup {None},
             NEW m \in Quantities \cup {None}, Edit(p, c, m)
      PROVE SizingInv'
  <2>1. spec' \in SpecType
    BY <1>6 DEF Edit, SpecType, Quantity
  <2> QED
    BY <1>6, <2>1 DEF Edit
<1>7. ASSUME NEW s \in Sizings, Upgrade(s) PROVE SizingInv'
  BY <1>7 DEF Upgrade
<1>8. CASE Reconcile
  <2>1. spec \in SpecType
    BY <1>8 DEF Reconcile
  <2>2. Resources(spec, catalog) \in ResourceType
    BY <2>1, ResourcesType
  <2>3. container'.res = Resources(applied'.spec, applied'.sizing)
    BY <1>8 DEF Reconcile
  <2>4. container' \in [res: ResourceType, players: (Nat \ {0}) \cup {None}]
    BY <1>8, <2>1, <2>2 DEF Reconcile, SpecType
  <2>5. applied' \in [spec: SpecType, sizing: SizingType]
    BY <1>8, <2>1 DEF Reconcile
  <2> QED
    BY <1>8, <2>3, <2>4, <2>5 DEF Reconcile
<1>9. CASE UNCHANGED vars
  BY <1>9 DEF vars
<1> QED
  BY <1>1, <1>2, <1>3, <1>4, <1>5, <1>6, <1>7, <1>8, <1>9 DEF Next

(* The invariant holds in every reachable state.                           *)
LEMMA SizingInvariant == Spec => []SizingInv
BY SizingInit, SizingStep, PTL DEF Spec

(* A sized container holds what compute_resources says of its inputs.      *)
LEMMA SizedResources ==
  ASSUME SizingInv, Sized(applied)
  PROVE  /\ applied.sizing \in SizingType
         /\ applied.spec.players \in Nat \ {0} /\ applied.spec.players \in Int
         /\ container.res = ComputeResources(applied.sizing, applied.spec.players)
BY DEF SizingInv, TypeOK, Faithful, Sized, Resources, SpecType

(* Every reachable state is well typed; in particular no player count      *)
(* below one reaches the spec from the form.                               *)
THEOREM TypeCorrect == Spec => []TypeOK
<1>1. SizingInv => TypeOK
  BY DEF SizingInv
<1> QED
  BY <1>1, SizingInvariant, PTL

(* What the deploy form shows is what the container gets.                  *)
THEOREM PreviewHonoured == Spec => []PreviewKept
<1>1. SizingInv => PreviewKept
  <2> SUFFICES ASSUME SizingInv, order # None, Sized(applied),
                      applied.spec.players = order.players,
                      applied.sizing = order.sizing
               PROVE  container.res = order.shown
    BY DEF PreviewKept
  <2>1. container.res = ComputeResources(order.sizing, order.players)
    BY SizedResources
  <2>2. order.shown = Preview(order.sizing, order.players)
    BY DEF SizingInv, Faithful
  <2>3. order.sizing \in SizingType /\ order.players \in Int
    BY SizedResources
  <2> QED
    BY <2>1, <2>2, <2>3, PreviewIsCompute
<1> QED
  BY <1>1, SizingInvariant, PTL

(* Allocations stay within the base, the ceilings and a full server.       *)
THEOREM Bounded == Spec => []SizedWithinBounds
<1>1. SizingInv => SizedWithinBounds
  <2> SUFFICES ASSUME SizingInv, Sized(applied) PROVE SizedWithinBounds
    BY DEF SizedWithinBounds
  <2> DEFINE s == applied.sizing
             n == applied.spec.players
  <2>1. s \in SizingType /\ n \in Int /\ container.res = ComputeResources(s, n)
    BY SizedResources
  <2> HIDE DEF s, n
  <2>2. /\ Capped(s.baseMem, s.ceilMem) <= container.res.mem
        /\ Capped(s.baseCpu, s.ceilCpu) <= container.res.cpu
        /\ s.ceilMem # None => container.res.mem <= s.ceilMem
        /\ s.ceilCpu # None => container.res.cpu <= s.ceilCpu
        /\ container.res.mem <= s.baseMem + s.perMem * s.maxPlayers
        /\ container.res.cpu <= s.baseCpu + s.perCpu * s.maxPlayers
    BY <2>1, ComputeBounds
  <2> QED
    BY <2>2 DEF SizedWithinBounds, s, n
<1> QED
  BY <1>1, SizingInvariant, PTL

(* Raising maxPlayers never takes resources away.                          *)
THEOREM Monotone == Spec => GrowthNeverShrinks
<1>1. SizingInv /\ SizingInv' => Growth
  <2> SUFFICES ASSUME SizingInv, SizingInv', Sized(applied), Sized(applied'),
                      applied'.sizing = applied.sizing,
                      applied.spec.players <= applied'.spec.players
               PROVE  /\ container.res.mem <= container'.res.mem
                      /\ container.res.cpu <= container'.res.cpu
    BY DEF Growth
  <2>1. /\ applied.sizing \in SizingType /\ applied.spec.players \in Int
        /\ container.res = ComputeResources(applied.sizing, applied.spec.players)
    BY SizedResources
  <2>2. /\ applied'.spec.players \in Int
        /\ container'.res = ComputeResources(applied.sizing, applied'.spec.players)
    BY DEF SizingInv, TypeOK, Faithful, Sized, Resources, SpecType
  <2> QED
    BY <2>1, <2>2, ComputeMonotone
<1>2. SizingInv /\ SizingInv' => [Growth]_vars
  BY <1>1
<1> QED
  BY <1>2, SizingInvariant, PTL DEF GrowthNeverShrinks
=============================================================================
