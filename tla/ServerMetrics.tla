---------------------------- MODULE ServerMetrics ----------------------------
(***************************************************************************)
(* CPU, memory and disk of one running server: K8sMetricsProvider's        *)
(* server_metrics with the arithmetic of metrics/classify.py, the route    *)
(* (routers/metrics.py) and MetricsPanel, which polls it.                  *)
(*                                                                         *)
(* A request is three reads: the pod (its limits, its node), the usage     *)
(* metrics-server has for the pod's name, the volume statistics of that    *)
(* node's kubelet.  Each may fail, and the pod may be replaced between two *)
(* of them.  CPU and memory are read and computed alike: one number stands *)
(* for both.                                                               *)
(***************************************************************************)
EXTENDS Integers

CONSTANTS
  Limits,     \* limits of a pod, per container
  Samples,    \* usages metrics-server reports, per container
  Volumes,    \* used and capacity of the world's volume
  Nodes,      \* nodes of the cluster
  Polls,      \* requests of the panel that may be in flight
  None,       \* nothing: no pod, no value, no panel
  MaxChanges, \* bound: changes of the pod, of its sample, of what is mounted
  MaxFaults   \* bound: failed reads and lost answers

Amount == Nat \cup {None}

(* A pod has the game's container and maybe another one that the cluster   *)
(* adds to it.                                                             *)
PerContainer == [game: Amount, other: Amount]
PodType == [limits: PerContainer, node: Nodes \cup {None},
            volume: [used: Nat, capacity: Nat]]

ASSUME MetricsAssumption ==
  /\ None \notin Nat \cup Nodes /\ None \notin PodType
  /\ None \notin PerContainer
  /\ Limits \subseteq PerContainer /\ Samples \subseteq PerContainer
  /\ Volumes \subseteq [used: Nat, capacity: Nat]
  /\ MaxChanges \in Nat /\ MaxFaults \in Nat

VARIABLES
  pod,     \* the pod named after the server, or None
  sample,  \* what metrics-server has under that name, or None
  fetches, \* the panel's requests
  scan,    \* the request being served, or None
  panel,   \* metrics and error of the mounted panel, or None
  changes, faults

metricsVars == <<pod, sample, fetches, scan, panel, changes, faults>>

-----------------------------------------------------------------------------
(* Usage and limits are summed over the containers that state one.         *)
Total(v) ==
  IF v.game = None THEN v.other
  ELSE IF v.other = None THEN v.game ELSE v.game + v.other

(* Mutant: without a limit, nothing is used of it. *)
Percent_zero(used, limit) ==
  IF used = None \/ limit = None \/ limit = 0 THEN 0
  ELSE LET tenths == (2000 * used + limit) \div (2 * limit)
       IN  IF tenths < 1000 THEN tenths ELSE 1000

(* A percentage in tenths, rounded to the nearest, at most 100.            *)
Percent(used, limit) ==
  IF used = None \/ limit = None \/ limit = 0 THEN None
  ELSE LET tenths == (2000 * used + limit) \div (2 * limit)
       IN  IF tenths < 1000 THEN tenths ELSE 1000

-----------------------------------------------------------------------------
Share == 0..1000 \cup {None}

LimitOf(pd) == IF pd = None THEN None ELSE Total(pd.limits)
UsageOf(sm) == IF sm = None THEN None ELSE Total(sm)
DiskOf(pd)  == IF pd = None THEN None ELSE Percent(pd.volume.used, pd.volume.capacity)

(* What stood under the name while a request was served (history).         *)
Seen == [pods: SUBSET PodType, samples: SUBSET PerContainer]

Sees(seen, pd, sm) ==
  [pods |-> seen.pods \cup ({pd} \ {None}), samples |-> seen.samples \cup ({sm} \ {None})]
Nothing == [pods |-> {}, samples |-> {}]

Metrics == [usage: Amount, percent: Share, disk: Share, seen: Seen]

PanelType == [metrics: Metrics \cup {None}, error: BOOLEAN]

ASSUME PanelAssumption == None \notin PanelType

Idle == [op |-> "idle"]
Sent == [op |-> "sent"]
Failed == [op |-> "failed"]

MetricsTypeOK ==
  /\ pod \in PodType \cup {None} /\ sample \in PerContainer \cup {None}
  /\ fetches \in [Polls -> {Idle, Sent, Failed} \cup [op: {"ok"}, metrics: Metrics]]
  /\ scan \in {None} \cup [poll: Polls, step: {"pod", "usage", "summary"}, limit: Amount,
                           node: Nodes \cup {None}, usage: Amount, seen: Seen]
  /\ panel \in {None} \cup PanelType
  /\ changes \in 0..MaxChanges /\ faults \in 0..MaxFaults

(* The pods the StatefulSet creates, bound to a node or not yet.           *)
Pods == [limits: Limits, node: Nodes \cup {None}, volume: Volumes]

MetricsInit ==
  /\ pod \in Pods \cup {None} /\ sample \in Samples \cup {None}
  /\ fetches = [p \in Polls |-> Idle] /\ scan = None /\ panel = None
  /\ changes = 0 /\ faults = 0

-----------------------------------------------------------------------------
(* The provider *)

Serve(p) ==
  /\ fetches[p] = Sent /\ scan = None
  /\ scan' = [poll |-> p, step |-> "pod", limit |-> None, node |-> None, usage |-> None,
              seen |-> Sees(Nothing, pod, sample)]
  /\ UNCHANGED <<pod, sample, fetches, panel, changes, faults>>

Reads(step, ok) ==
  /\ scan # None /\ scan.step = step
  /\ ok \/ faults < MaxFaults
  /\ faults' = IF ok THEN faults ELSE faults + 1

Answer(a) ==
  /\ fetches' = [fetches EXCEPT ![scan.poll] = a]
  /\ scan' = None

(* Without a pod there are no metrics: the route answers 404.              *)
ReadPod(ok) ==
  /\ Reads("pod", ok)
  /\ IF ok /\ pod # None
     THEN /\ scan' = [scan EXCEPT !.step = "usage", !.limit = LimitOf(pod), !.node = pod.node]
          /\ UNCHANGED fetches
     ELSE Answer(Failed)
  /\ UNCHANGED <<pod, sample, panel, changes>>

ReadUsage(ok) ==
  /\ Reads("usage", ok)
  /\ scan' = [scan EXCEPT !.step = "summary",
                          !.usage = IF ok THEN UsageOf(sample) ELSE None]
  /\ UNCHANGED <<pod, sample, fetches, panel, changes>>

(* The kubelet knows the volume of the pods that run on its node; it is    *)
(* read directly or, if that fails, through the API server.                *)
ReadSummary(ok) ==
  /\ Reads("summary", ok)
  /\ Answer([op |-> "ok", metrics |->
       [usage |-> scan.usage, percent |-> Percent(scan.usage, scan.limit), seen |-> scan.seen,
        disk |-> IF ok /\ pod # None /\ scan.node # None /\ pod.node = scan.node
                 THEN DiskOf(pod) ELSE None]])
  /\ UNCHANGED <<pod, sample, panel, changes>>

-----------------------------------------------------------------------------
(* The panel *)

Poll(p) ==
  /\ panel # None /\ fetches[p] = Idle
  /\ fetches' = [fetches EXCEPT ![p] = Sent]
  /\ UNCHANGED <<pod, sample, scan, panel, changes, faults>>

(* Mutant: the error of an earlier poll is not cleared. *)
Shown_sticky(a) ==
  IF a = Failed THEN [panel EXCEPT !.error = TRUE]
  ELSE [panel EXCEPT !.metrics = a.metrics]

Shown(a) ==
  IF a = Failed THEN [panel EXCEPT !.error = TRUE]
  ELSE [metrics |-> a.metrics, error |-> FALSE]

Apply(p) ==
  /\ fetches[p] \notin {Idle, Sent}
  /\ panel' = Shown(fetches[p])
  /\ fetches' = [fetches EXCEPT ![p] = Idle]
  /\ UNCHANGED <<pod, sample, scan, changes, faults>>

Lose(p) ==
  /\ fetches[p] \notin {Idle, Sent, Failed} /\ faults < MaxFaults
  /\ faults' = faults + 1
  /\ fetches' = [fetches EXCEPT ![p] = Failed]
  /\ UNCHANGED <<pod, sample, scan, panel, changes>>

(* The panel is on the card while the list, which may lag, says that the   *)
(* server is Running.  An unmounted panel is cancelled: its answers change *)
(* nothing any more.                                                       *)
Mount ==
  /\ panel = None
  /\ panel' = [metrics |-> None, error |-> FALSE]
  /\ UNCHANGED <<pod, sample, fetches, scan, changes, faults>>

Cancel == panel' = None /\ fetches' = [p \in Polls |-> Idle] /\ scan' = None

Unmount ==
  /\ panel # None /\ changes < MaxChanges /\ changes' = changes + 1
  /\ Cancel
  /\ UNCHANGED <<pod, sample, faults>>

-----------------------------------------------------------------------------
(* The cluster *)

World(pd, sm) ==
  /\ changes < MaxChanges /\ changes' = changes + 1
  /\ pod' = pd /\ sample' = sm
  /\ scan' = IF scan = None THEN None ELSE [scan EXCEPT !.seen = Sees(@, pd, sm)]
  /\ UNCHANGED <<fetches, panel, faults>>

(* The StatefulSet's pod is created, with the limits of its time; replaced *)
(* by another one; deleted; bound to a node.                               *)
PodChanges ==
  \/ pod # None /\ World(None, sample)
  \/ \E pd \in Pods : World(pd, sample)

Sampled == \E s \in Samples \cup {None} : World(pod, s)

-----------------------------------------------------------------------------
Read(ok) == ReadPod(ok) \/ ReadUsage(ok) \/ ReadSummary(ok)

MetricsNext ==
  \/ \E p \in Polls : Poll(p) \/ Serve(p) \/ Apply(p) \/ Lose(p)
  \/ \E ok \in BOOLEAN : Read(ok)
  \/ Mount \/ Unmount \/ PodChanges \/ Sampled

-----------------------------------------------------------------------------
(* Reference definitions: the sum of what is stated, if anything is; the   *)
(* nearest tenth of a percentage, full from the limit on.                  *)
Stated(v) == \E c \in DOMAIN v : v[c] # None
SumOf(v) ==
  (IF v.game = None THEN 0 ELSE v.game) + (IF v.other = None THEN 0 ELSE v.other)

IsShare(tenths, used, limit) ==
  /\ limit > 0
  /\ IF used >= limit THEN tenths = 1000
     ELSE /\ 2 * (tenths * limit - 1000 * used) <= limit
          /\ 2 * (1000 * used - tenths * limit) <= limit

(* What is shown was stated while the request was served: a usage, its     *)
(* share of a limit, a share of a volume.  A value that is missing or      *)
(* could not be read is never taken for 0%, whatever was replaced between  *)
(* the reads.                                                              *)
Honest(m) ==
  /\ m.usage # None => \E sm \in m.seen.samples : Stated(sm) /\ m.usage = SumOf(sm)
  /\ m.percent # None =>
       \E pd \in m.seen.pods, sm \in m.seen.samples :
         /\ Stated(pd.limits) /\ Stated(sm)
         /\ IsShare(m.percent, SumOf(sm), SumOf(pd.limits))
  /\ m.disk # None =>
       \E pd \in m.seen.pods : IsShare(m.disk, pd.volume.used, pd.volume.capacity)

MetricsHonest == panel # None /\ panel.metrics # None => Honest(panel.metrics)

Measured(m) ==
  /\ m.usage = UsageOf(sample)
  /\ m.percent = Percent(UsageOf(sample), LimitOf(pod))
  /\ m.disk = IF pod.node = None THEN None ELSE DiskOf(pod)

(* While the pod and its sample stay, the panel ends up showing them, or   *)
(* that there is no pod, whatever answers failed or arrived late.          *)
MetricsConverge ==
  <>[](panel # None =>
         IF pod = None THEN panel.error
         ELSE ~panel.error /\ panel.metrics # None /\ Measured(panel.metrics))
=============================================================================
