-------------------------- MODULE PanelViews_proofs --------------------------
(***************************************************************************)
(* Proofs about PanelViews for every cluster, customer, pod, sample and    *)
(* volume, any number of requests, and any bounds: first the arithmetic of *)
(* the metrics, then the metrics panel, then the dashboard.                *)
(***************************************************************************)
EXTENDS PanelViews, TLAPS

-----------------------------------------------------------------------------
(* The arithmetic *)

(* A total is the sum of what is stated, and nothing if nothing is.        *)
LEMMA TotalOf ==
  ASSUME NEW v \in PerContainer
  PROVE  /\ Total(v) \in Amount
         /\ Total(v) # None => Stated(v) /\ Total(v) = SumOf(v)
<1>1. /\ v.game \in Amount /\ v.other \in Amount
      /\ DOMAIN v = {"game", "other"}
  BY DEF PerContainer
<1>2. v.game # None \/ v.other # None => Stated(v)
  <2>1. v["game"] = v.game /\ v["other"] = v.other
    BY <1>1
  <2> QED
    BY <1>1, <2>1 DEF Stated
<1>3. None \notin Nat
  BY MetricsAssumption
<1> QED
  BY <1>1, <1>2, <1>3 DEF Total, SumOf, Amount

LEMMA Quotient ==
  ASSUME NEW a \in Nat, NEW b \in Nat \ {0}
  PROVE  /\ a \div b \in Nat
         /\ b * (a \div b) <= a
         /\ a < b * (a \div b) + b
OBVIOUS

(* A percentage is the nearest tenth, full from the limit on.              *)
LEMMA PercentOf ==
  ASSUME NEW u \in Amount, NEW l \in Amount
  PROVE  /\ Percent(u, l) \in Share
         /\ Percent(u, l) # None
            => u \in Nat /\ l \in Nat /\ IsShare(Percent(u, l), u, l)
<1>1. None \notin Nat /\ 1000 \in Nat
  BY MetricsAssumption
<1>2. CASE u = None \/ l = None \/ l = 0
  BY <1>2 DEF Percent, Share
<1>3. CASE u \in Nat /\ l \in Nat \ {0}
  <2> DEFINE a == 2000 * u + l
             b == 2 * l
             t == a \div b
  <2>1. a \in Nat /\ b \in Nat \ {0}
    BY <1>3
  <2>2. t \in Nat /\ b * t <= a /\ a < b * t + b
    <3> HIDE DEF a, b
    <3> QED
      BY <2>1, Quotient
  <2>3. Percent(u, l) = IF t < 1000 THEN t ELSE 1000
    BY <1>1, <1>3 DEF Percent
  <2> HIDE DEF t
  <2>4. b * t = 2 * (t * l) /\ t * l \in Nat
    BY <1>3, <2>2
  <2>5. /\ 2 * (t * l) <= 2000 * u + l
        /\ 2000 * u + l < 2 * (t * l) + 2 * l
    BY <2>2, <2>4
  <2>6. CASE t < 1000
    <3>1. t + 1 <= 1000 /\ t * l + l <= 1000 * l
      <4>1. t + 1 <= 1000
        BY <2>2, <2>6
      <4>2. PICK d \in Nat : 1000 = t + 1 + d
        <5>1. 1000 - (t + 1) \in Nat
          BY <2>2, <4>1
        <5> QED
          BY <2>2, <5>1
      <4>3. 1000 * l = t * l + l + d * l /\ d * l \in Nat
        BY <1>3, <2>2, <4>2
      <4> QED
        BY <1>3, <2>4, <4>1, <4>3
    <3>2. u < l
      <4> DEFINE x == t * l
      <4>1. x \in Nat /\ 2000 * u + l < 2 * x + 2 * l /\ x + l <= 1000 * l
        BY <2>4, <2>5, <3>1
      <4> HIDE DEF x
      <4> QED
        BY <1>3, <4>1
    <3>3. /\ 2 * (t * l - 1000 * u) <= l
          /\ 2 * (1000 * u - t * l) <= l
      <4> DEFINE x == t * l
      <4>1. x \in Nat /\ 2 * x <= 2000 * u + l /\ 2000 * u + l < 2 * x + 2 * l
        BY <2>4, <2>5
      <4> HIDE DEF x
      <4>2. 2 * (x - 1000 * u) <= l /\ 2 * (1000 * u - x) <= l
        BY <1>3, <4>1
      <4> QED
        BY <4>2 DEF x
    <3>4. Percent(u, l) = t /\ t \in Share
      BY <2>2, <2>3, <2>6 DEF Share
    <3> QED
      BY <1>3, <3>2, <3>3, <3>4 DEF IsShare
  <2>7. CASE ~(t < 1000)
    <3>1. Percent(u, l) = 1000 /\ 1000 \in Share
      BY <2>3, <2>7 DEF Share
    <3>2. 1000 * l <= t * l
      <4>1. PICK d \in Nat : t = 1000 + d
        <5>1. t - 1000 \in Nat
          BY <2>2, <2>7
        <5> QED
          BY <2>2, <5>1
      <4>2. t * l = 1000 * l + d * l /\ d * l \in Nat
        BY <1>3, <4>1
      <4> QED
        BY <1>3, <4>2
    <3>3. 2 * (1000 * l) <= 2000 * u + l
      <4> DEFINE x == t * l
      <4>1. x \in Nat /\ 2 * x <= 2000 * u + l /\ 1000 * l <= x
        BY <2>4, <2>5, <3>2
      <4> HIDE DEF x
      <4> QED
        BY <1>3, <4>1
    <3>4. u < l => /\ 2 * (1000 * l - 1000 * u) <= l
                   /\ 2 * (1000 * u - 1000 * l) <= l
      BY <1>3, <3>3
    <3> QED
      BY <1>3, <3>1, <3>4 DEF IsShare
  <2> QED
    BY <2>6, <2>7
<1> QED
  BY <1>2, <1>3 DEF Amount

-----------------------------------------------------------------------------
(* The metrics panel *)

(* A number is the sum of what one of the pods, one of the samples states. *)
LimitSeen(x, seen) ==
  x # None => \E pd \in seen.pods : Stated(pd.limits) /\ x = SumOf(pd.limits)
UsageSeen(x, seen) ==
  x # None => \E sm \in seen.samples : Stated(sm) /\ x = SumOf(sm)

(* What stands under the name now is among what the request has seen, and  *)
(* what it has read so far is of that.                                     *)
ScanTrue ==
  scan # None =>
    /\ pod # None => pod \in scan.seen.pods
    /\ sample # None => sample \in scan.seen.samples
    /\ LimitSeen(scan.limit, scan.seen)
    /\ UsageSeen(scan.usage, scan.seen)

AnswersHonest ==
  \A p \in Polls : fetches[p].op = "ok" => Honest(fetches[p].metrics)

(* Only a panel that is there waits for something.                         *)
SomebodyWaits ==
  scan # None \/ (\E p \in Polls : fetches[p] # Idle) => panel # None

MetricsInv ==
  MetricsTypeOK /\ SomebodyWaits /\ ScanTrue /\ AnswersHonest /\ MetricsHonest

LEMMA MetricsInitially ==
  ASSUME MetricsInit
  PROVE  MetricsInv
<1>1. MetricsTypeOK
  BY MetricsAssumption DEF MetricsInit, MetricsTypeOK, Pods, PodType
<1>2. AnswersHonest
  BY DEF MetricsInit, AnswersHonest, Idle
<1> QED
  BY <1>1, <1>2 DEF MetricsInit, MetricsInv, SomebodyWaits, ScanTrue, MetricsHonest

LEMMA LimitOfType ==
  ASSUME NEW pd \in PodType \cup {None}
  PROVE  /\ LimitOf(pd) \in Amount
         /\ \A seen : (pd # None => pd \in seen.pods) => LimitSeen(LimitOf(pd), seen)
<1>1. CASE pd = None
  BY <1>1 DEF LimitOf, Amount, LimitSeen
<1>2. CASE pd # None
  <2>1. pd.limits \in PerContainer
    BY <1>2 DEF PodType
  <2> QED
    BY <1>2, <2>1, TotalOf DEF LimitOf, LimitSeen
<1> QED
  BY <1>1, <1>2

LEMMA UsageOfType ==
  ASSUME NEW sm \in PerContainer \cup {None}
  PROVE  /\ UsageOf(sm) \in Amount
         /\ \A seen : (sm # None => sm \in seen.samples) => UsageSeen(UsageOf(sm), seen)
<1>1. CASE sm = None
  BY <1>1 DEF UsageOf, Amount, UsageSeen
<1>2. CASE sm # None
  BY <1>2, TotalOf DEF UsageOf, UsageSeen
<1> QED
  BY <1>1, <1>2

LEMMA DiskOfType ==
  ASSUME NEW pd \in PodType \cup {None}
  PROVE  /\ DiskOf(pd) \in Share
         /\ DiskOf(pd) # None
            => pd # None /\ IsShare(DiskOf(pd), pd.volume.used, pd.volume.capacity)
<1>1. CASE pd = None
  BY <1>1 DEF DiskOf, Share
<1>2. CASE pd # None
  <2>1. pd.volume.used \in Amount /\ pd.volume.capacity \in Amount
    BY <1>2 DEF PodType, Amount
  <2> QED
    BY <1>2, <2>1, PercentOf DEF DiskOf
<1> QED
  BY <1>1, <1>2

(* Seen only grows.                                                        *)
LEMMA SeesGrows ==
  ASSUME NEW seen \in Seen, NEW pd \in PodType \cup {None},
         NEW sm \in PerContainer \cup {None}
  PROVE  /\ Sees(seen, pd, sm) \in Seen
         /\ pd # None => pd \in Sees(seen, pd, sm).pods
         /\ sm # None => sm \in Sees(seen, pd, sm).samples
         /\ seen.pods \subseteq Sees(seen, pd, sm).pods
         /\ seen.samples \subseteq Sees(seen, pd, sm).samples
BY DEF Seen, Sees

LEMMA PollStep ==
  ASSUME MetricsInv, NEW p \in Polls, Poll(p) \/ Lose(p)
  PROVE  MetricsInv'
<1>1. MetricsTypeOK' /\ UNCHANGED <<pod, sample, panel>>
  BY MetricsAssumption DEF MetricsInv, MetricsTypeOK, Poll, Lose
<1>2. scan' = scan
  BY DEF Poll, Lose
<1>3. AnswersHonest'
  BY DEF MetricsInv, MetricsTypeOK, AnswersHonest, Poll, Lose, Sent, Failed
<1>4. SomebodyWaits'
  BY DEF MetricsInv, MetricsTypeOK, SomebodyWaits, PanelType, Poll, Lose, Idle
<1> QED
  BY <1>1, <1>2, <1>3, <1>4
     DEF MetricsInv, ScanTrue, MetricsHonest, LimitSeen, UsageSeen

LEMMA ServeStep ==
  ASSUME MetricsInv, NEW p \in Polls, Serve(p)
  PROVE  MetricsInv'
<1> DEFINE seen == Sees(Nothing, pod, sample)
<1>1. /\ seen \in Seen
      /\ pod # None => pod \in seen.pods
      /\ sample # None => sample \in seen.samples
  <2>1. Nothing \in Seen
    BY DEF Nothing, Seen
  <2> QED
    BY <2>1, SeesGrows DEF MetricsInv, MetricsTypeOK
<1>2. /\ scan' = [poll |-> p, step |-> "pod", limit |-> None, node |-> None,
                  usage |-> None, seen |-> seen]
      /\ UNCHANGED <<pod, sample, fetches, panel, changes, faults>>
  BY DEF Serve
<1> HIDE DEF seen
<1>3. MetricsTypeOK'
  BY <1>1, <1>2 DEF MetricsInv, MetricsTypeOK, Amount
<1>4. ScanTrue'
  BY <1>1, <1>2 DEF ScanTrue, LimitSeen, UsageSeen
<1>5. panel # None
  BY DEF MetricsInv, SomebodyWaits, Serve, Sent, Idle
<1> QED
  BY <1>2, <1>3, <1>4, <1>5 DEF MetricsInv, SomebodyWaits, AnswersHonest, MetricsHonest

LEMMA ReadPodStep ==
  ASSUME MetricsInv, NEW ok \in BOOLEAN, ReadPod(ok)
  PROVE  MetricsInv'
<1>1. /\ scan # None /\ panel # None /\ UNCHANGED <<pod, sample, panel, changes>>
      /\ faults' \in 0..MaxFaults
  BY MetricsAssumption DEF MetricsInv, MetricsTypeOK, SomebodyWaits, ReadPod, Reads
<1>2. CASE ok /\ pod # None
  <2>1. /\ scan' = [scan EXCEPT !.step = "usage", !.limit = LimitOf(pod), !.node = pod.node]
        /\ fetches' = fetches
    BY <1>2 DEF ReadPod
  <2>2. LimitOf(pod) \in Amount /\ LimitSeen(LimitOf(pod), scan.seen)
    BY <1>1, LimitOfType DEF MetricsInv, MetricsTypeOK, ScanTrue
  <2>3. pod.node \in Nodes \cup {None}
    BY <1>2 DEF MetricsInv, MetricsTypeOK, PodType
  <2>4. MetricsTypeOK'
    BY <1>1, <2>1, <2>2, <2>3 DEF MetricsInv, MetricsTypeOK
  <2>5. /\ scan'.limit = LimitOf(pod) /\ scan'.usage = scan.usage /\ scan'.seen = scan.seen
    BY <1>1, <2>1 DEF MetricsInv, MetricsTypeOK
  <2>6. ScanTrue'
    BY <1>1, <2>2, <2>5 DEF MetricsInv, ScanTrue, LimitSeen, UsageSeen
  <2> QED
    BY <1>1, <2>1, <2>4, <2>6 DEF MetricsInv, SomebodyWaits, AnswersHonest, MetricsHonest
<1>3. CASE ~(ok /\ pod # None)
  <2>1. fetches' = [fetches EXCEPT ![scan.poll] = Failed] /\ scan' = None
    BY <1>3 DEF ReadPod, Answer
  <2>2. MetricsTypeOK'
    BY <1>1, <2>1 DEF MetricsInv, MetricsTypeOK
  <2>3. AnswersHonest'
    BY <2>1 DEF MetricsInv, MetricsTypeOK, AnswersHonest, Failed
  <2> QED
    BY <1>1, <2>1, <2>2, <2>3 DEF MetricsInv, SomebodyWaits, ScanTrue, MetricsHonest
<1> QED
  BY <1>2, <1>3

LEMMA ReadUsageStep ==
  ASSUME MetricsInv, NEW ok \in BOOLEAN, ReadUsage(ok)
  PROVE  MetricsInv'
<1> DEFINE u == IF ok THEN UsageOf(sample) ELSE None
<1>1. /\ scan # None /\ panel # None /\ UNCHANGED <<pod, sample, fetches, panel, changes>>
      /\ faults' \in 0..MaxFaults
      /\ scan' = [scan EXCEPT !.step = "summary", !.usage = u]
  BY MetricsAssumption DEF MetricsInv, MetricsTypeOK, SomebodyWaits, ReadUsage, Reads
<1>2. u \in Amount /\ UsageSeen(u, scan.seen)
  <2>1. UsageOf(sample) \in Amount /\ UsageSeen(UsageOf(sample), scan.seen)
    BY <1>1, UsageOfType DEF MetricsInv, MetricsTypeOK, ScanTrue
  <2> QED
    BY <2>1 DEF Amount, UsageSeen
<1> HIDE DEF u
<1>3. MetricsTypeOK'
  BY <1>1, <1>2 DEF MetricsInv, MetricsTypeOK
<1>4. scan'.limit = scan.limit /\ scan'.usage = u /\ scan'.seen = scan.seen
  BY <1>1 DEF MetricsInv, MetricsTypeOK
<1>5. ScanTrue'
  BY <1>1, <1>2, <1>4 DEF MetricsInv, ScanTrue, LimitSeen, UsageSeen
<1> QED
  BY <1>1, <1>3, <1>5 DEF MetricsInv, SomebodyWaits, AnswersHonest, MetricsHonest

(* The answer: the share is of a limit and a usage that were both seen,    *)
(* the disk is of the pod that is there now.                               *)
LEMMA ReadSummaryStep ==
  ASSUME MetricsInv, NEW ok \in BOOLEAN, ReadSummary(ok)
  PROVE  MetricsInv'
<1> DEFINE disk == IF ok /\ pod # None /\ scan.node # None /\ pod.node = scan.node
                   THEN DiskOf(pod) ELSE None
           percent == Percent(scan.usage, scan.limit)
           m == [usage |-> scan.usage, percent |-> percent, seen |-> scan.seen,
                 disk |-> disk]
           a == [op |-> "ok", metrics |-> m]
<1>1. /\ scan # None /\ panel # None /\ UNCHANGED <<pod, sample, panel, changes>>
      /\ faults' \in 0..MaxFaults
      /\ fetches' = [fetches EXCEPT ![scan.poll] = a] /\ scan' = None
  BY MetricsAssumption DEF MetricsInv, MetricsTypeOK, SomebodyWaits, ReadSummary, Reads, Answer
<1>2. /\ scan.usage \in Amount /\ scan.limit \in Amount /\ scan.seen \in Seen
      /\ scan.poll \in Polls
  BY <1>1 DEF MetricsInv, MetricsTypeOK
<1>3. /\ disk \in Share
      /\ disk # None => \E pd \in scan.seen.pods :
                          IsShare(disk, pd.volume.used, pd.volume.capacity)
  <2>1. /\ DiskOf(pod) \in Share
        /\ DiskOf(pod) # None
           => pod # None /\ IsShare(DiskOf(pod), pod.volume.used, pod.volume.capacity)
    BY DiskOfType DEF MetricsInv, MetricsTypeOK
  <2>2. pod # None => pod \in scan.seen.pods
    BY <1>1 DEF MetricsInv, ScanTrue
  <2>3. CASE disk = None
    BY <2>3 DEF Share
  <2>4. CASE disk # None
    <3>1. disk = DiskOf(pod)
      BY <2>4
    <3> HIDE DEF disk
    <3> QED
      BY <2>1, <2>2, <2>4, <3>1
  <2> QED
    BY <2>3, <2>4
<1>4. /\ percent \in Share
      /\ percent # None => /\ scan.usage # None /\ scan.limit # None
                           /\ IsShare(percent, scan.usage, scan.limit)
  BY <1>2, PercentOf, MetricsAssumption
<1> HIDE DEF disk, percent
<1>5. m \in Metrics /\ a \in [op: {"ok"}, metrics: Metrics]
  BY <1>2, <1>3, <1>4 DEF Metrics
<1>6. Honest(m)
  <2>1. LimitSeen(scan.limit, scan.seen) /\ UsageSeen(scan.usage, scan.seen)
    BY <1>1 DEF MetricsInv, ScanTrue
  <2>2. /\ m.usage = scan.usage /\ m.percent = percent /\ m.disk = disk
        /\ m.seen = scan.seen
    OBVIOUS
  <2> HIDE DEF m
  <2>3. m.usage # None => \E sm \in m.seen.samples : Stated(sm) /\ m.usage = SumOf(sm)
    BY <2>1, <2>2 DEF UsageSeen
  <2>4. m.percent # None =>
          \E pd \in m.seen.pods, sm \in m.seen.samples :
            /\ Stated(pd.limits) /\ Stated(sm)
            /\ IsShare(m.percent, SumOf(sm), SumOf(pd.limits))
    <3> SUFFICES ASSUME percent # None
                 PROVE  \E pd \in m.seen.pods, sm \in m.seen.samples :
                          /\ Stated(pd.limits) /\ Stated(sm)
                          /\ IsShare(percent, SumOf(sm), SumOf(pd.limits))
      BY <2>2
    <3>1. PICK pd \in m.seen.pods : Stated(pd.limits) /\ scan.limit = SumOf(pd.limits)
      BY <1>4, <2>1, <2>2 DEF LimitSeen
    <3>2. PICK sm \in m.seen.samples : Stated(sm) /\ scan.usage = SumOf(sm)
      BY <1>4, <2>1, <2>2 DEF UsageSeen
    <3>3. IsShare(percent, SumOf(sm), SumOf(pd.limits))
      BY <1>4, <3>1, <3>2
    <3> QED
      BY <3>1, <3>2, <3>3
  <2> QED
    BY <1>3, <2>2, <2>3, <2>4 DEF Honest
<1>7. a.op = "ok" /\ a.metrics = m
  OBVIOUS
<1> HIDE DEF m, a
<1>8. MetricsTypeOK'
  BY <1>1, <1>2, <1>5 DEF MetricsInv, MetricsTypeOK
<1>9. AnswersHonest'
  BY <1>1, <1>6, <1>7 DEF MetricsInv, MetricsTypeOK, AnswersHonest
<1> QED
  BY <1>1, <1>8, <1>9 DEF MetricsInv, SomebodyWaits, ScanTrue, MetricsHonest

LEMMA ApplyStep ==
  ASSUME MetricsInv, NEW p \in Polls, Apply(p)
  PROVE  MetricsInv'
<1>1. /\ UNCHANGED <<pod, sample, scan, changes, faults>>
      /\ panel' = Shown(fetches[p]) /\ fetches' = [fetches EXCEPT ![p] = Idle]
      /\ fetches[p] \notin {Idle, Sent} /\ panel # None
  BY DEF MetricsInv, SomebodyWaits, Apply
<1>2. AnswersHonest'
  BY <1>1 DEF MetricsInv, MetricsTypeOK, AnswersHonest, Idle
<1>3. ScanTrue'
  BY <1>1 DEF MetricsInv, ScanTrue, LimitSeen, UsageSeen
<1>4. /\ panel' \in PanelType
      /\ panel'.metrics # None => Honest(panel'.metrics)
  <2>1. CASE fetches[p] = Failed
    <3>1. panel' = [panel EXCEPT !.error = TRUE]
      BY <1>1, <2>1 DEF Shown
    <3>2. /\ panel' \in PanelType
          /\ panel'.metrics = panel.metrics
      BY <1>1, <3>1 DEF MetricsInv, MetricsTypeOK, PanelType
    <3> QED
      BY <1>1, <3>2 DEF MetricsInv, MetricsHonest
  <2>2. CASE fetches[p] # Failed
    <3> DEFINE a == fetches[p]
    <3>1. a.op = "ok" /\ a.metrics \in Metrics
      BY <1>1, <2>2 DEF MetricsInv, MetricsTypeOK
    <3>2. Honest(a.metrics)
      BY <3>1 DEF MetricsInv, AnswersHonest
    <3>3. panel' = [metrics |-> a.metrics, error |-> FALSE]
      BY <1>1, <2>2 DEF Shown
    <3> HIDE DEF a
    <3>4. panel'.metrics = a.metrics
      BY <3>3
    <3> QED
      BY <3>1, <3>2, <3>3, <3>4 DEF PanelType
  <2> QED
    BY <2>1, <2>2
<1>5. MetricsTypeOK'
  BY <1>1, <1>4 DEF MetricsInv, MetricsTypeOK, PanelType
<1>6. SomebodyWaits'
  BY <1>4, PanelAssumption DEF SomebodyWaits
<1> QED
  BY <1>2, <1>3, <1>4, <1>5, <1>6 DEF MetricsInv, MetricsHonest

LEMMA MountStep ==
  ASSUME MetricsInv, Mount
  PROVE  MetricsInv'
<1>1. MetricsTypeOK'
  BY DEF MetricsInv, MetricsTypeOK, PanelType, Mount
<1>2. SomebodyWaits' /\ panel'.metrics = None
  BY PanelAssumption DEF MetricsInv, SomebodyWaits, Mount
<1> QED
  BY <1>1, <1>2 DEF MetricsInv, Mount, ScanTrue, AnswersHonest, MetricsHonest,
                    LimitSeen, UsageSeen

LEMMA CancelStep ==
  ASSUME MetricsInv, Cancel, UNCHANGED <<pod, sample>>,
         changes' \in 0..MaxChanges, faults' \in 0..MaxFaults
  PROVE  MetricsInv'
<1>1. MetricsTypeOK'
  BY DEF MetricsInv, MetricsTypeOK, Cancel
<1>2. AnswersHonest'
  BY DEF AnswersHonest, Cancel, Idle
<1> QED
  BY <1>1, <1>2 DEF MetricsInv, SomebodyWaits, ScanTrue, MetricsHonest, Cancel

(* Whatever replaces the pod or its sample, a request that is being served *)
(* has seen it too; what it had seen remains.                              *)
LEMMA WorldStep ==
  ASSUME MetricsInv, NEW pd \in PodType \cup {None}, NEW sm \in PerContainer \cup {None},
         World(pd, sm)
  PROVE  MetricsInv'
<1> DEFINE seen == Sees(scan.seen, pd, sm)
<1>1. /\ pod' = pd /\ sample' = sm
      /\ scan' = IF scan = None THEN None ELSE [scan EXCEPT !.seen = Sees(@, pd, sm)]
      /\ UNCHANGED <<fetches, panel, faults>> /\ changes' \in 0..MaxChanges
  BY MetricsAssumption DEF MetricsInv, MetricsTypeOK, World
<1>2. CASE scan = None
  BY <1>1, <1>2 DEF MetricsInv, MetricsTypeOK, SomebodyWaits, ScanTrue, AnswersHonest,
                    MetricsHonest
<1>3. CASE scan # None
  <2>1. /\ seen \in Seen
        /\ pd # None => pd \in seen.pods
        /\ sm # None => sm \in seen.samples
        /\ scan.seen.pods \subseteq seen.pods /\ scan.seen.samples \subseteq seen.samples
    <3>1. scan.seen \in Seen
      BY <1>3 DEF MetricsInv, MetricsTypeOK
    <3> QED
      BY <3>1, SeesGrows
  <2>2. scan' = [scan EXCEPT !.seen = seen]
    BY <1>1, <1>3
  <2> HIDE DEF seen
  <2>3. MetricsTypeOK'
    BY <1>1, <1>3, <2>1, <2>2 DEF MetricsInv, MetricsTypeOK
  <2>4. scan'.seen = seen /\ scan'.limit = scan.limit /\ scan'.usage = scan.usage
    BY <1>3, <2>2 DEF MetricsInv, MetricsTypeOK
  <2>5. LimitSeen(scan.limit, seen) /\ UsageSeen(scan.usage, seen)
    BY <1>3, <2>1 DEF MetricsInv, ScanTrue, LimitSeen, UsageSeen
  <2>6. ScanTrue'
    BY <1>1, <2>1, <2>4, <2>5 DEF ScanTrue, LimitSeen, UsageSeen
  <2> QED
    BY <1>1, <1>3, <2>3, <2>6 DEF MetricsInv, SomebodyWaits, AnswersHonest, MetricsHonest
<1> QED
  BY <1>2, <1>3

LEMMA MetricsStep ==
  ASSUME MetricsInv, MetricsNext
  PROVE  MetricsInv'
<1>1. CASE \E p \in Polls : Poll(p) \/ Serve(p) \/ Apply(p) \/ Lose(p)
  BY <1>1, PollStep, ServeStep, ApplyStep
<1>2. CASE \E ok \in BOOLEAN : Read(ok)
  BY <1>2, ReadPodStep, ReadUsageStep, ReadSummaryStep DEF Read
<1>3. CASE Mount
  BY <1>3, MountStep
<1>4. CASE Unmount
  BY <1>4, CancelStep, MetricsAssumption DEF Unmount, MetricsInv, MetricsTypeOK
<1>5. CASE PodChanges
  <2>1. sample \in PerContainer \cup {None}
    BY DEF MetricsInv, MetricsTypeOK
  <2>2. Pods \subseteq PodType
    BY MetricsAssumption DEF Pods, PodType
  <2> QED
    BY <1>5, <2>1, <2>2, WorldStep DEF PodChanges
<1>6. CASE Sampled
  <2>1. pod \in PodType \cup {None} /\ Samples \subseteq PerContainer
    BY MetricsAssumption DEF MetricsInv, MetricsTypeOK
  <2> QED
    BY <1>6, <2>1, WorldStep DEF Sampled
<1> QED
  BY <1>1, <1>2, <1>3, <1>4, <1>5, <1>6 DEF MetricsNext

LEMMA MetricsStutter ==
  ASSUME MetricsInv, UNCHANGED metricsVars
  PROVE  MetricsInv'
BY DEF MetricsInv, MetricsTypeOK, SomebodyWaits, ScanTrue, AnswersHonest, MetricsHonest,
       LimitSeen, UsageSeen, metricsVars

-----------------------------------------------------------------------------
(* The dashboard *)

LEMMA RequestKinds ==
  ASSUME NEW r \in Requests
  PROVE  /\ r.op = "clusters" => r = [op |-> "clusters"]
         /\ r.op = "health" => r.key \in Clusters
         /\ r.op = "servers" => /\ r \in TableRequest /\ r.table \in Tables
                                /\ r.key \in Keys(r.table) /\ r.n \in 0..MaxSelects
BY DEF Requests, ListRequest, HealthRequest, TableRequest, Tables, Keys

Of(r, t) == r.op = "servers" /\ r.table = t

(* No request is younger than the last selection.                          *)
Numbered ==
  /\ \A r \in flight : r.op = "servers" => r.n <= selects
  /\ \A t \in Tables : newest[t] <= selects /\ (rows[t] # Unset => rows[t].n <= selects)

(* Until the clusters arrive, none is selected and nothing asked of one.   *)
BeforeClusters ==
  \A r \in flight : r.op = "clusters" =>
    /\ "clusters" \notin listed
    /\ \A q \in flight : ~Of(q, "cluster")
    /\ rows["cluster"] = Unset /\ newest["cluster"] = 0

(* Request n is the last one of table t: it asks for what is selected, and *)
(* it is under way, or answered, and nothing newer is.                     *)
LastAsked(t, n) ==
  /\ \A r \in flight : Of(r, t) => r.n <= n /\ (r.n = n => r.key = selected[t])
  /\ rows[t] # Unset => rows[t].n <= n /\ (rows[t].n = n => rows[t].key = selected[t])
  /\ newest[t] <= n
  /\ \/ \E r \in flight : Of(r, t) /\ r.n = n
     \/ newest[t] = n /\ rows[t] # Unset

(* Every table with a heading has a last request, unless one failed.       *)
LastKnown ==
  ~error => \A t \in Tables : selected[t] # Unset => \E n \in Nat : LastAsked(t, n)

DashboardInv == DashboardTypeOK /\ Numbered /\ BeforeClusters /\ LastKnown

(* Without a request under way the last one is answered, and if no older   *)
(* answer came after it, it is what the table shows.                       *)
LEMMA TableIsTrue ==
  ASSUME DashboardInv
  PROVE  TableOfSelection
<1> SUFFICES ASSUME NEW t \in Tables, selected[t] # Unset, Quiet(t), ~error, ~Overtaken(t)
             PROVE  rows[t] # Unset /\ rows[t].key = selected[t]
  BY DEF TableOfSelection
<1>1. PICK n \in Nat : LastAsked(t, n)
  BY DEF DashboardInv, LastKnown
<1>2. newest[t] = n /\ rows[t] # Unset
  BY <1>1 DEF LastAsked, Quiet, Of
<1>3. rows[t].n \in Nat /\ rows[t].n <= n /\ ~(rows[t].n < n)
  <2>1. rows[t].n \in Nat
    BY <1>2 DEF DashboardInv, DashboardTypeOK, TableRequest
  <2> QED
    BY <1>1, <1>2, <2>1 DEF LastAsked, Overtaken
<1>4. rows[t].n = n
  BY <1>3
<1> QED
  BY <1>1, <1>2, <1>4 DEF LastAsked

LEMMA RemountedStep ==
  ASSUME NEW asked \in {{}, ListRequest}, Remounted(asked)
  PROVE  DashboardInv'
<1>1. \A r \in ListRequest : r \in Requests /\ r.op # "servers"
  BY DEF ListRequest, Requests
<1>2. DashboardTypeOK'
  <2>1. 0 \in 0..MaxSelects /\ flight' \subseteq Requests
    BY <1>1, DashboardAssumption DEF Remounted
  <2> QED
    BY <2>1 DEF Remounted, DashboardTypeOK
<1>3. Numbered'
  BY <1>1 DEF Remounted, Numbered, Tables
<1>4. BeforeClusters'
  BY <1>1 DEF Remounted, BeforeClusters, Of, Tables
<1>5. LastKnown'
  BY DEF Remounted, LastKnown
<1> QED
  BY <1>2, <1>3, <1>4, <1>5 DEF DashboardInv

(* A request of no table leaves the last requests of both as they are.     *)
LEMMA OthersKeep ==
  ASSUME NEW t, NEW n, LastAsked(t, n), NEW r, ~Of(r, t), flight' = flight \ {r},
         selected'[t] = selected[t], rows'[t] = rows[t], newest'[t] = newest[t]
  PROVE  LastAsked(t, n)'
BY DEF LastAsked, Of

LEMMA ListDone ==
  ASSUME DashboardInv, NEW r \in flight, CustomersDone(r) \/ HealthDone(r)
  PROVE  DashboardInv'
<1>1. /\ flight' = flight \ {r} /\ r.op # "servers"
      /\ UNCHANGED <<selected, rows, loading, error, selects, newest>>
      /\ "clusters" \in listed' => "clusters" \in listed
  BY DEF CustomersDone, HealthDone
<1>2. DashboardTypeOK'
  BY RequestKinds DEF DashboardInv, DashboardTypeOK, CustomersDone, HealthDone
<1>3. Numbered' /\ BeforeClusters'
  BY <1>1 DEF DashboardInv, Numbered, BeforeClusters, Of
<1>4. \A t \in Tables, n \in Nat : LastAsked(t, n) => LastAsked(t, n)'
  BY <1>1, OthersKeep DEF Of
<1>5. LastKnown'
  BY <1>1, <1>4 DEF DashboardInv, LastKnown
<1> QED
  BY <1>2, <1>3, <1>5 DEF DashboardInv

(* The clusters are there: the first selection of that table is request 0, *)
(* and there was none before it.                                           *)
LEMMA ClustersStep ==
  ASSUME DashboardInv, NEW r \in flight, ClustersDone(r)
  PROVE  DashboardInv'
<1> DEFINE q == Ask("cluster", First, 0)
<1>1. /\ flight' = (flight \ {r}) \cup HealthRequest \cup {q}
      /\ selected' = [selected EXCEPT !["cluster"] = First]
      /\ loading' = [loading EXCEPT !["cluster"] = TRUE]
      /\ listed' = listed \cup {"clusters"}
      /\ UNCHANGED <<healths, rows, error, selects, newest>>
      /\ r.op = "clusters" /\ r \in Requests
  BY DEF ClustersDone, DashboardInv, DashboardTypeOK
<1>2. /\ q \in Requests /\ q.op = "servers" /\ q.table = "cluster"
      /\ q.key = First /\ q.n = 0
  <2>1. 0 \in 0..MaxSelects /\ First \in Clusters
    BY DashboardAssumption
  <2> QED
    BY <2>1 DEF Ask, Requests, TableRequest
<1>3. \A h \in HealthRequest : h \in Requests /\ h.op = "health"
  BY DEF HealthRequest, Requests
<1>4. \A x \in flight' : x \in flight \/ x \in HealthRequest \/ x = q
  BY <1>1
<1>5. \A x \in flight' : x.op # "clusters"
  <2>1. SUFFICES ASSUME NEW x \in flight', x.op = "clusters" PROVE FALSE
    OBVIOUS
  <2>2. x \in flight /\ x # r
    BY <1>1, <1>2, <1>3, <2>1
  <2>3. x \in Requests
    BY <2>2 DEF DashboardInv, DashboardTypeOK
  <2> QED
    BY <1>1, <2>1, <2>2, <2>3, RequestKinds
<1> HIDE DEF q
<1>6. DashboardTypeOK'
  BY <1>1, <1>2, <1>3, DashboardAssumption
     DEF DashboardInv, DashboardTypeOK, Tables
<1>7. Numbered'
  BY <1>1, <1>2, <1>3, <1>4 DEF DashboardInv, DashboardTypeOK, Numbered
<1>8. BeforeClusters'
  BY <1>5 DEF BeforeClusters
<1>9. ASSUME ~error', NEW t \in Tables, selected'[t] # Unset
      PROVE  \E n \in Nat : LastAsked(t, n)'
  <2>1. CASE t = "cluster"
    <3>1. /\ \A x \in flight : ~Of(x, "cluster")
          /\ rows["cluster"] = Unset /\ newest["cluster"] = 0
      BY <1>1 DEF DashboardInv, BeforeClusters
    <3>2. selected'["cluster"] = First
      BY <1>1, <2>1 DEF DashboardInv, DashboardTypeOK
    <3>3. \A x \in flight' : Of(x, "cluster") => x = q
      BY <1>3, <1>4, <3>1 DEF Of
    <3>4. q \in flight' /\ Of(q, "cluster")
      BY <1>1, <1>2 DEF Of
    <3>5. LastAsked("cluster", 0)'
      BY <1>1, <1>2, <3>1, <3>2, <3>3, <3>4 DEF LastAsked, Of
    <3> QED
      BY <2>1, <3>5
  <2>2. CASE t # "cluster"
    <3>1. selected'[t] = selected[t]
      BY <1>1, <2>2 DEF DashboardInv, DashboardTypeOK
    <3>2. PICK n \in Nat : LastAsked(t, n)
      BY <1>1, <1>9, <3>1 DEF DashboardInv, LastKnown
    <3>3. \A x \in flight' : Of(x, t) => x \in flight
      BY <1>2, <1>3, <1>4, <2>2 DEF Of
    <3>4. \A x \in flight : Of(x, t) => x \in flight'
      BY <1>1 DEF Of
    <3>5. LastAsked(t, n)'
      BY <1>1, <3>1, <3>2, <3>3, <3>4 DEF LastAsked, Of
    <3> QED
      BY <3>5
  <2> QED
    BY <2>1, <2>2
<1> QED
  BY <1>6, <1>7, <1>8, <1>9 DEF DashboardInv, LastKnown

LEMMA ServersStep ==
  ASSUME DashboardInv, NEW r \in flight, ServersDone(r)
  PROVE  DashboardInv'
<1>1. /\ r.op = "servers" /\ flight' = flight \ {r}
      /\ rows' = [rows EXCEPT ![r.table] = r]
      /\ loading' = [loading EXCEPT ![r.table] = FALSE]
      /\ newest' = [newest EXCEPT ![r.table] = IF r.n > @ THEN r.n ELSE @]
      /\ UNCHANGED <<listed, healths, selected, error, selects>>
  BY DEF ServersDone
<1>2. /\ r \in TableRequest /\ r.table \in Tables /\ r.n \in 0..MaxSelects
      /\ r # Unset /\ r.n <= selects
  <2>1. r \in Requests
    BY DEF DashboardInv, DashboardTypeOK
  <2>2. r \in TableRequest /\ r.table \in Tables /\ r.n \in 0..MaxSelects
    BY <1>1, <2>1, RequestKinds
  <2> QED
    BY <1>1, <2>2, DashboardAssumption DEF DashboardInv, Numbered
<1>3. DashboardTypeOK'
  BY <1>1, <1>2 DEF DashboardInv, DashboardTypeOK
<1>4. Numbered'
  BY <1>1, <1>2 DEF DashboardInv, DashboardTypeOK, Numbered
<1>5. BeforeClusters'
  <2>1. ASSUME NEW x \in flight', x.op = "clusters"
        PROVE  /\ "clusters" \notin listed'
               /\ \A q \in flight' : ~Of(q, "cluster")
               /\ rows'["cluster"] = Unset /\ newest'["cluster"] = 0
    <3>1. /\ "clusters" \notin listed
          /\ \A q \in flight : ~Of(q, "cluster")
          /\ rows["cluster"] = Unset /\ newest["cluster"] = 0
      BY <1>1, <2>1 DEF DashboardInv, BeforeClusters
    <3>2. r.table # "cluster"
      BY <1>1, <3>1 DEF Of
    <3> QED
      BY <1>1, <1>2, <3>1, <3>2 DEF DashboardInv, DashboardTypeOK, Tables
  <2> QED
    BY <2>1 DEF BeforeClusters, Of
<1>6. ASSUME ~error', NEW t \in Tables, selected'[t] # Unset
      PROVE  \E n \in Nat : LastAsked(t, n)'
  <2>1. PICK n \in Nat : LastAsked(t, n)
    BY <1>1, <1>6 DEF DashboardInv, LastKnown
  <2>2. CASE t # r.table
    <3>1. rows'[t] = rows[t] /\ newest'[t] = newest[t] /\ ~Of(r, t)
      BY <1>1, <2>2 DEF DashboardInv, DashboardTypeOK, Of
    <3>2. LastAsked(t, n)'
      BY <1>1, <2>1, <3>1, OthersKeep
    <3> QED
      BY <3>2
  <2>3. CASE t = r.table
    <3>1. /\ rows'[t] = r /\ newest'[t] = IF r.n > newest[t] THEN r.n ELSE newest[t]
          /\ newest[t] \in Nat /\ r.n \in Nat
      BY <1>1, <1>2, <2>3 DEF DashboardInv, DashboardTypeOK
    <3>2. Of(r, t) /\ r.n <= n /\ (r.n = n => r.key = selected[t]) /\ newest[t] <= n
      BY <1>1, <2>1, <2>3 DEF LastAsked, Of
    <3>3. newest'[t] <= n
      BY <3>1, <3>2
    <3>4. \/ \E x \in flight' : Of(x, t) /\ x.n = n
          \/ newest'[t] = n
      <4>1. CASE r.n = n \/ newest[t] = n
        BY <3>1, <3>2, <4>1
      <4>2. CASE ~(r.n = n \/ newest[t] = n)
        <5>1. PICK x \in flight : Of(x, t) /\ x.n = n
          BY <2>1, <4>2 DEF LastAsked
        <5> QED
          BY <1>1, <4>2, <5>1
      <4> QED
        BY <4>1, <4>2
    <3>5. \A x \in flight' : Of(x, t) => x.n <= n /\ (x.n = n => x.key = selected'[t])
      BY <1>1, <2>1 DEF LastAsked
    <3>6. LastAsked(t, n)'
      BY <1>1, <1>2, <3>1, <3>2, <3>3, <3>4, <3>5 DEF LastAsked, Of
    <3> QED
      BY <3>6
  <2> QED
    BY <2>2, <2>3
<1> QED
  BY <1>3, <1>4, <1>5, <1>6 DEF DashboardInv, LastKnown

(* A failure of a table's request is the case the banner reports.          *)
LEMMA FailsStep ==
  ASSUME DashboardInv, NEW r \in flight, Fails(r)
  PROVE  DashboardInv'
<1>1. /\ flight' = flight \ {r} /\ error' = (error \/ r.op # "health")
      /\ UNCHANGED <<listed, healths, selected, rows, selects, newest>>
  BY DEF Fails
<1>2. r.op = "servers" => r.table \in Tables
  BY RequestKinds DEF DashboardInv, DashboardTypeOK
<1>3. DashboardTypeOK'
  BY <1>1, <1>2 DEF DashboardInv, DashboardTypeOK, Fails
<1>4. Numbered' /\ BeforeClusters'
  BY <1>1 DEF DashboardInv, Numbered, BeforeClusters, Of
<1>5. LastKnown'
  <2>1. SUFFICES ASSUME ~error' PROVE LastKnown'
    BY DEF LastKnown
  <2>2. ~error /\ r.op = "health"
    BY <1>1, <2>1
  <2>3. \A t \in Tables, n \in Nat : LastAsked(t, n) => LastAsked(t, n)'
    BY <1>1, <2>2, OthersKeep DEF Of
  <2> QED
    BY <1>1, <2>2, <2>3 DEF DashboardInv, LastKnown
<1> QED
  BY <1>3, <1>4, <1>5 DEF DashboardInv

(* A selection asks with a number no request of the table has.             *)
LEMMA SelectStep ==
  ASSUME DashboardInv, NEW t \in Tables, NEW k \in Keys(t), Select(t, k),
         t = "cluster" => "clusters" \in listed
  PROVE  DashboardInv'
<1> DEFINE q == Ask(t, k, selects + 1)
<1>1. /\ flight' = flight \cup {q} /\ selects' = selects + 1
      /\ selected' = [selected EXCEPT ![t] = k]
      /\ loading' = [loading EXCEPT ![t] = TRUE]
      /\ UNCHANGED <<listed, healths, rows, error, newest>>
      /\ selects \in Nat /\ selects + 1 \in 0..MaxSelects
  BY DashboardAssumption DEF Select, DashboardInv, DashboardTypeOK
<1>2. /\ q \in Requests /\ q.op = "servers" /\ q.table = t
      /\ q.key = k /\ q.n = selects + 1
  BY <1>1 DEF Ask, Requests, TableRequest, Tables, Keys
<1>3. k \in Clusters \cup Customers /\ k # Unset
  BY DashboardAssumption DEF Keys
<1> HIDE DEF q
<1>4. \A x \in flight : x.op = "servers" => x.n \in Nat /\ x.n <= selects
  BY RequestKinds DEF DashboardInv, DashboardTypeOK, Numbered
<1>5. \A u \in Tables : /\ newest[u] \in Nat /\ newest[u] <= selects
                        /\ rows[u] # Unset => rows[u].n \in Nat /\ rows[u].n <= selects
  BY DEF DashboardInv, DashboardTypeOK, TableRequest, Numbered
<1>6. DashboardTypeOK'
  BY <1>1, <1>2, <1>3 DEF DashboardInv, DashboardTypeOK
<1>7. Numbered'
  BY <1>1, <1>2, <1>4, <1>5 DEF Numbered
<1>8. BeforeClusters'
  BY <1>1, <1>2 DEF DashboardInv, BeforeClusters, Of, Tables
<1>9. ASSUME ~error', NEW u \in Tables, selected'[u] # Unset
      PROVE  \E n \in Nat : LastAsked(u, n)'
  <2>1. CASE u = t
    <3>1. selected'[t] = k /\ q \in flight' /\ Of(q, t)
      BY <1>1, <1>2 DEF DashboardInv, DashboardTypeOK, Of
    <3>2. \A x \in flight' : Of(x, t) => x.n <= selects + 1
                                         /\ (x.n = selects + 1 => x.key = k)
      BY <1>1, <1>2, <1>4 DEF Of
    <3>3. /\ newest[t] <= selects + 1
          /\ rows[t] # Unset => rows[t].n <= selects + 1 /\ rows[t].n # selects + 1
      BY <1>1, <1>5
    <3>4. PICK n \in Nat : n = selects + 1
      BY <1>1
    <3>5. LastAsked(t, n)'
      BY <1>1, <1>2, <3>1, <3>2, <3>3, <3>4 DEF LastAsked, Of
    <3> QED
      BY <2>1, <3>5
  <2>2. CASE u # t
    <3>1. selected'[u] = selected[u] /\ ~Of(q, u)
      BY <1>1, <1>2, <2>2 DEF DashboardInv, DashboardTypeOK, Of
    <3>2. PICK n \in Nat : LastAsked(u, n)
      BY <1>1, <1>9, <3>1 DEF DashboardInv, LastKnown
    <3>3. LastAsked(u, n)'
      BY <1>1, <3>1, <3>2 DEF LastAsked, Of
    <3> QED
      BY <3>3
  <2> QED
    BY <2>1, <2>2
<1> QED
  BY <1>6, <1>7, <1>8, <1>9 DEF DashboardInv, LastKnown

LEMMA DashboardStep ==
  ASSUME DashboardInv, DashboardNext
  PROVE  DashboardInv'
<1>1. CASE \E r \in flight : Settle(r)
  BY <1>1, ClustersStep, ListDone, ServersStep, FailsStep DEF Settle, Done
<1>2. CASE \E k \in Clusters : SelectCluster(k)
  BY <1>2, SelectStep DEF SelectCluster, Tables, Keys
<1>3. CASE \E k \in Customers : SelectCustomer(k)
  BY <1>3, SelectStep DEF SelectCustomer, Tables, Keys
<1> QED
  BY <1>1, <1>2, <1>3 DEF DashboardNext

LEMMA DashboardStutter ==
  ASSUME DashboardInv, UNCHANGED dashboardVars
  PROVE  DashboardInv'
BY DEF DashboardInv, DashboardTypeOK, Numbered, BeforeClusters, LastKnown, LastAsked,
       dashboardVars

-----------------------------------------------------------------------------
(* The two views *)

IInv ==
  /\ view \in {"servers", "enterprise"} /\ clicks \in 0..MaxClicks
  /\ MetricsInv /\ DashboardInv

LEMMA Initially == Init => IInv
<1> SUFFICES ASSUME Init PROVE IInv
  OBVIOUS
<1>1. DashboardInv
  <2>1. 0 \in 0..MaxSelects
    BY DashboardAssumption
  <2>2. DashboardTypeOK
    BY <2>1 DEF Init, Closed, DashboardTypeOK
  <2> QED
    BY <2>2 DEF Init, Closed, DashboardInv, Numbered, BeforeClusters, LastKnown
<1>2. clicks \in 0..MaxClicks
  BY ViewsAssumption DEF Init
<1> QED
  BY <1>1, <1>2, MetricsInitially DEF Init, IInv

LEMMA Inductive == IInv /\ [Next]_vars => IInv'
<1> SUFFICES ASSUME IInv, [Next]_vars PROVE IInv'
  OBVIOUS
<1>1. CASE InServers /\ MetricsNext
  BY <1>1, MetricsStep, DashboardStutter DEF IInv, InServers
<1>2. CASE InEnterprise /\ DashboardNext
  BY <1>2, DashboardStep, MetricsStutter DEF IInv, InEnterprise
<1>3. CASE ShowEnterprise
  <2>1. MetricsInv'
    BY <1>3, CancelStep DEF IInv, MetricsInv, MetricsTypeOK, ShowEnterprise
  <2>2. DashboardInv'
    BY <1>3, RemountedStep DEF ShowEnterprise
  <2> QED
    BY <1>3, <2>1, <2>2, ViewsAssumption DEF IInv, ShowEnterprise, Click
<1>4. CASE ShowServers
  <2>1. DashboardInv'
    BY <1>4, RemountedStep DEF ShowServers
  <2> QED
    BY <1>4, <2>1, MetricsStutter, ViewsAssumption DEF IInv, ShowServers, Click
<1>5. CASE UNCHANGED vars
  BY <1>5, MetricsStutter, DashboardStutter DEF IInv, vars
<1> QED
  BY <1>1, <1>2, <1>3, <1>4, <1>5 DEF Next

THEOREM Invariance == SafeSpec => []IInv
BY Initially, Inductive, PTL DEF SafeSpec

(* Every variable keeps its type (TypeOK): the answers of the metrics      *)
(* route, the requests of the dashboard and what both views show.          *)
THEOREM TypeCorrect == SafeSpec => []TypeOK
<1>1. IInv => TypeOK
  BY DEF IInv, TypeOK, MetricsInv, DashboardInv
<1> QED
  BY <1>1, Invariance, PTL

(* A metrics panel shows only what was stated while its request was        *)
(* served (MetricsHonest): never a value that is missing as 0%, and the    *)
(* shares are of a usage and a limit that were both seen, whatever         *)
(* server_metrics read before and after the pod was replaced.              *)
THEOREM HonestMetrics == SafeSpec => []MetricsHonest
<1>1. IInv => MetricsHonest
  BY DEF IInv, MetricsInv
<1> QED
  BY <1>1, Invariance, PTL

(* A table of the dashboard that waits for nothing and that no older       *)
(* answer has overtaken lists the servers of the cluster or customer in    *)
(* its heading, unless the banner reports a failure (TableOfSelection).    *)
THEOREM TrueTables == SafeSpec => []TableOfSelection
<1>1. IInv => TableOfSelection
  BY TableIsTrue DEF IInv
<1> QED
  BY <1>1, Invariance, PTL
=============================================================================
