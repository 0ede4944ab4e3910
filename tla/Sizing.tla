------------------------------- MODULE Sizing -------------------------------
(***************************************************************************)
(* Player-based sizing of one server, from the number typed in the deploy  *)
(* form to the resources of its container: the preview in the browser      *)
(* (lib/sizing.ts, DeployModal.tsx), the spec the backend writes and the   *)
(* operator's compute_resources and build_statefulset (manifests.py).      *)
(* Memory is in MiB, CPU in milli.                                         *)
(*                                                                         *)
(* The page keeps the catalog it loaded; an upgrade of the chart replaces  *)
(* the operator's, restarts it and so reconciles every server again.       *)
(***************************************************************************)
EXTENDS Integers

CONSTANTS
  Sizings,    \* sizing blocks of the game in successive releases
  Inputs,     \* numbers typed in the form
  Players,    \* values of spec.maxPlayers set through the API or kubectl
  Quantities, \* explicit cpu and mem values
  None,       \* no ceiling, no value, nothing there
  MaxEdits    \* bound: edits of the spec and upgrades of the chart

Quantity == Nat \cup {None}

(* The catalog's sizing block; ceilings are optional. *)
SizingType == [baseMem: Nat, perMem: Nat, baseCpu: Nat, perCpu: Nat,
               maxPlayers: Nat \ {0}, ceilMem: Quantity, ceilCpu: Quantity]

ASSUME SizingAssumption ==
  /\ None \notin Nat /\ None \notin SizingType
  /\ Sizings \subseteq SizingType
  /\ Inputs \subseteq Int /\ Players \subseteq Nat \ {0}
  /\ Quantities \subseteq Nat /\ MaxEdits \in Nat

VARIABLES
  catalog,   \* the sizing block the operator uses
  page,      \* the sizing block the open page loaded
  form,      \* the player count in the open deploy form, or None
  order,     \* what the form showed when it was submitted, or None
  spec,      \* maxPlayers and resources of the GameServer, or None
  applied,   \* the spec and sizing block last reconciled, or None
  container, \* resources and player limit of the container, or None
  edits

vars == <<catalog, page, form, order, spec, applied, container, edits>>

-----------------------------------------------------------------------------
(* Mutant: a count above the maximum is taken for an invalid one. *)
Clamp_rejects(n, top) == IF n < 0 \/ n > top THEN 0 ELSE n

Clamp(n, top) == IF n < 0 THEN 0 ELSE IF n < top THEN n ELSE top

Capped(x, ceiling) ==
  IF ceiling # None /\ ceiling < x THEN ceiling ELSE x

(* Mutant: the player count is used as it comes. *)
ComputeResources_unclamped(s, n) ==
  [mem |-> Capped(s.baseMem + s.perMem * n, s.ceilMem),
   cpu |-> Capped(s.baseCpu + s.perCpu * n, s.ceilCpu)]

ComputeResources(s, maxPlayers) ==
  LET n == Clamp(maxPlayers, s.maxPlayers)
  IN  [mem |-> Capped(s.baseMem + s.perMem * n, s.ceilMem),
       cpu |-> Capped(s.baseCpu + s.perCpu * n, s.ceilCpu)]

Default == [mem |-> 2048, cpu |-> 1000]

(* Explicit values win, and one explicit value brings the default of the   *)
(* other; then the player count; then the default.                         *)
Explicit(sp) == sp.cpu # None \/ sp.mem # None

Resources(sp, s) ==
  IF Explicit(sp)
  THEN [mem |-> IF sp.mem = None THEN Default.mem ELSE sp.mem,
        cpu |-> IF sp.cpu = None THEN Default.cpu ELSE sp.cpu]
  ELSE IF sp.players # None THEN ComputeResources(s, sp.players) ELSE Default

(* The browser's computeResources.  Mutant: the mirror has no ceilings. *)
Preview_noCeiling(s, n) ==
  LET k == IF n > s.maxPlayers THEN s.maxPlayers ELSE IF n < 0 THEN 0 ELSE n
  IN  [mem |-> s.baseMem + s.perMem * k, cpu |-> s.baseCpu + s.perCpu * k]

Preview(s, n) ==
  LET k   == IF n > s.maxPlayers THEN s.maxPlayers ELSE IF n < 0 THEN 0 ELSE n
      mem == s.baseMem + s.perMem * k
      cpu == s.baseCpu + s.perCpu * k
  IN  [mem |-> IF s.ceilMem # None /\ s.ceilMem < mem THEN s.ceilMem ELSE mem,
       cpu |-> IF s.ceilCpu # None /\ s.ceilCpu < cpu THEN s.ceilCpu ELSE cpu]

-----------------------------------------------------------------------------
SpecType == [players: (Nat \ {0}) \cup {None}, cpu: Quantity, mem: Quantity]
ResourceType == [mem: Nat, cpu: Nat]
Settled == applied = [spec |-> spec, sizing |-> catalog]

TypeOK ==
  /\ catalog \in SizingType /\ page \in SizingType
  /\ form \in (Nat \ {0}) \cup {None}
  /\ order \in [players: Nat \ {0}, sizing: SizingType, shown: ResourceType] \cup {None}
  /\ spec \in SpecType \cup {None}
  /\ applied \in [spec: SpecType, sizing: SizingType] \cup {None}
  /\ container \in [res: ResourceType, players: (Nat \ {0}) \cup {None}] \cup {None}
  /\ edits \in 0..MaxEdits

Init ==
  /\ catalog \in Sizings /\ page = catalog
  /\ form = None /\ order = None /\ spec = None
  /\ applied = None /\ container = None /\ edits = 0

LoadPage ==
  /\ page' = catalog /\ form' = None
  /\ UNCHANGED <<catalog, order, spec, applied, container, edits>>

OpenForm ==
  /\ spec = None /\ form = None
  /\ form' = page.maxPlayers
  /\ UNCHANGED <<catalog, page, order, spec, applied, container, edits>>

TypeCount(n) ==
  /\ form # None
  /\ form' = IF n < 1 THEN 1
             ELSE IF n < page.maxPlayers THEN n ELSE page.maxPlayers
  /\ UNCHANGED <<catalog, page, order, spec, applied, container, edits>>

(* The form sends maxPlayers; the provider writes it to the spec and       *)
(* writes no resources.                                                    *)
Submit ==
  /\ form # None /\ spec = None
  /\ order' = [players |-> form, sizing |-> page, shown |-> Preview(page, form)]
  /\ spec' = [players |-> form, cpu |-> None, mem |-> None]
  /\ form' = None
  /\ UNCHANGED <<catalog, page, applied, container, edits>>

(* POST /servers from another client: maxPlayers is optional. *)
ApiCreate(p) ==
  /\ spec = None
  /\ spec' = [players |-> p, cpu |-> None, mem |-> None]
  /\ UNCHANGED <<catalog, page, form, order, applied, container, edits>>

Edit(p, c, m) ==
  /\ spec # None /\ edits < MaxEdits /\ edits' = edits + 1
  /\ spec' = [players |-> p, cpu |-> c, mem |-> m]
  /\ UNCHANGED <<catalog, page, form, order, applied, container>>

Upgrade(s) ==
  /\ edits < MaxEdits /\ edits' = edits + 1
  /\ catalog' = s
  /\ UNCHANGED <<page, form, order, spec, applied, container>>

(* The StatefulSet is created, or its container patched: resources are     *)
(* replaced, the player limit is an environment entry, which a patch       *)
(* changes or adds and never removes.                                      *)
Reconcile ==
  /\ spec # None /\ ~Settled
  /\ container' = [res |-> Resources(spec, catalog),
                   players |-> IF spec.players = None /\ container # None
                               THEN container.players ELSE spec.players]
  /\ applied' = [spec |-> spec, sizing |-> catalog]
  /\ UNCHANGED <<catalog, page, form, order, spec, edits>>

Next ==
  \/ LoadPage \/ OpenForm \/ Submit \/ Reconcile
  \/ \E n \in Inputs : TypeCount(n)
  \/ \E p \in Players \cup {None} : ApiCreate(p)
  \/ \E p \in Players \cup {None}, c, m \in Quantities \cup {None} : Edit(p, c, m)
  \/ \E s \in Sizings : Upgrade(s)

Spec == Init /\ [][Next]_vars

-----------------------------------------------------------------------------
Sized(a) == a # None /\ ~Explicit(a.spec) /\ a.spec.players # None

(* The container gets what the deploy form showed, as long as neither the  *)
(* player count nor the catalog has changed since.                         *)
PreviewKept ==
  order # None /\ Sized(applied)
    /\ applied.spec.players = order.players /\ applied.sizing = order.sizing
  => container.res = order.shown

(* A sized container has room for the base, unless the ceiling is lower,   *)
(* never exceeds the ceiling, and never exceeds a full server's needs,     *)
(* whatever player count was asked for.                                    *)
SizedWithinBounds ==
  Sized(applied) =>
    LET s == applied.sizing  r == container.res IN
    /\ Capped(s.baseMem, s.ceilMem) <= r.mem /\ Capped(s.baseCpu, s.ceilCpu) <= r.cpu
    /\ s.ceilMem # None => r.mem <= s.ceilMem
    /\ s.ceilCpu # None => r.cpu <= s.ceilCpu
    /\ r.mem <= s.baseMem + s.perMem * s.maxPlayers
    /\ r.cpu <= s.baseCpu + s.perCpu * s.maxPlayers

(* Raising the player count of a sized server never takes resources away   *)
(* from it.                                                                *)
Growth ==
  /\ Sized(applied) /\ Sized(applied') /\ applied'.sizing = applied.sizing
  /\ applied.spec.players <= applied'.spec.players
  => /\ container.res.mem <= container'.res.mem
     /\ container.res.cpu <= container'.res.cpu
GrowthNeverShrinks == [][Growth]_vars
=============================================================================
