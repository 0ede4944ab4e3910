------------------------ MODULE ClusterHealth_proofs ------------------------
(***************************************************************************)
(* Safety of ClusterHealth, for any servers, nodes, polls, threshold and   *)
(* number of faults.  A pod that has not been hurt has nothing to be       *)
(* blamed for (PodsInnocent), and while a request is served its history    *)
(* covers what is wrong (ScanCovers).                                      *)
(***************************************************************************)
EXTENDS ClusterHealth, TLAPS

PodsInnocent ==
  \A n \in Names : pods[n] # None /\ n \notin hurt =>
    /\ pods[n].restarts = 0
    /\ pods[n].phase \in {"Pending", "Running"}
    /\ pods[n].waiting \in {None, "ContainerCreating"}
    /\ pods[n].phase = "Running" => pods[n].waiting = None

ScanCovers == scan # None => Wrong(hurt, nodes, phases) \subseteq scan.may

HealthInv == TypeOK /\ PodsInnocent /\ ScanCovers /\ NoFalseAlarm

-----------------------------------------------------------------------------
LEMMA WrongType ==
  ASSUME NEW h \in SUBSET Names, NEW nd \in SUBSET Nodes, NEW ph
  PROVE  Wrong(h, nd, ph) \in SUBSET Problems
<1>1. [kind: {"pod"}, name: h] \subseteq Problems
  BY DEF Problems
<1>2. [kind: {"node"}, name: Nodes \ nd] \subseteq Problems
  BY DEF Problems
<1>3. [kind: {"server"}, name: {n \in Names : ph[n] \in {"Stopping", "Error"}}] \subseteq Problems
  BY DEF Problems
<1> QED
  BY <1>1, <1>2, <1>3 DEF Wrong

(* Only a pod that has been hurt is classified as bad. *)
LEMMA BadIsHurt ==
  ASSUME HealthInv, NEW n \in Names, pods[n] # None, Bad(pods[n])
  PROVE  n \in hurt
<1> SUFFICES ASSUME n \notin hurt PROVE FALSE
  OBVIOUS
<1>1. /\ pods[n].restarts = 0 /\ pods[n].phase \in {"Pending", "Running"}
      /\ pods[n].waiting \in {None, "ContainerCreating"}
      /\ pods[n].phase = "Running" => pods[n].waiting = None
  BY DEF HealthInv, PodsInnocent
<1>2. ~(0 >= Threshold)
  BY HealthAssumption
<1> QED
  BY <1>1, <1>2, HealthNone DEF Bad, CrashLooping, Erroneous, TerminalWaiting

(* A step of the cluster that keeps pods typed and innocent. *)
LEMMA WorldStep ==
  ASSUME HealthInv, NEW pd \in [Names -> Pod \cup {None}], NEW h \in SUBSET Names,
         NEW nd \in SUBSET Nodes, NEW ph \in [Names -> Phases \cup {None}],
         World(pd, h, nd, ph),
         \A n \in Names : pd[n] # None /\ n \notin h =>
           /\ pd[n].restarts = 0
           /\ pd[n].phase \in {"Pending", "Running"}
           /\ pd[n].waiting \in {None, "ContainerCreating"}
           /\ pd[n].phase = "Running" => pd[n].waiting = None
  PROVE  HealthInv'
<1> DEFINE now == Wrong(h, nd, ph)
<1>1. now \in SUBSET Problems
  BY WrongType
<1>2. Wrong(hurt, nodes, phases)' = now
  BY DEF World, Wrong
<1> HIDE DEF now
<1>3. /\ pods' = pd /\ hurt' = h /\ nodes' = nd /\ phases' = ph
      /\ scan' = IF scan = None THEN None ELSE [scan EXCEPT !.may = @ \cup now]
      /\ UNCHANGED <<reqs, panel, faults>>
  BY DEF World, now
<1>4. scan # None =>
        /\ scan' \in Scan /\ scan'.report = scan.report /\ scan'.may = scan.may \cup now
  BY <1>1, <1>3 DEF HealthInv, TypeOK, Scan
<1>5. TypeOK'
  BY <1>3, <1>4 DEF HealthInv, TypeOK
<1>6. PodsInnocent'
  BY <1>3 DEF PodsInnocent
<1>7. ScanCovers' /\ NoFalseAlarm'
  BY <1>2, <1>3, <1>4 DEF HealthInv, ScanCovers, NoFalseAlarm
<1> QED
  BY <1>5, <1>6, <1>7 DEF HealthInv

(* The same for a step that changes one pod. *)
LEMMA PodStep ==
  ASSUME HealthInv, NEW n \in Names, NEW p \in Pod \cup {None}, NEW h \in SUBSET Names,
         World([pods EXCEPT ![n] = p], h, nodes, phases),
         hurt \ {n} \subseteq h,
         p # None /\ n \notin h =>
           /\ p.restarts = 0
           /\ p.phase \in {"Pending", "Running"}
           /\ p.waiting \in {None, "ContainerCreating"}
           /\ p.phase = "Running" => p.waiting = None
  PROVE  HealthInv'
<1> DEFINE pd == [pods EXCEPT ![n] = p]
<1>1. /\ pd \in [Names -> Pod \cup {None}] /\ pd[n] = p
      /\ \A m \in Names : m # n => pd[m] = pods[m]
  BY DEF HealthInv, TypeOK
<1>2. World(pd, h, nodes, phases)
  OBVIOUS
<1> HIDE DEF pd
<1>3. \A m \in Names : pd[m] # None /\ m \notin h =>
        /\ pd[m].restarts = 0
        /\ pd[m].phase \in {"Pending", "Running"}
        /\ pd[m].waiting \in {None, "ContainerCreating"}
        /\ pd[m].phase = "Running" => pd[m].waiting = None
  BY <1>1 DEF HealthInv, PodsInnocent
<1>4. nodes \in SUBSET Nodes /\ phases \in [Names -> Phases \cup {None}]
  BY DEF HealthInv, TypeOK
<1> QED
  BY <1>1, <1>2, <1>3, <1>4, WorldStep

LEMMA HurtStep ==
  ASSUME HealthInv, NEW n \in Names, NEW p \in Pod, PodHurt(n, p)
  PROVE  HealthInv'
<1> DEFINE h == hurt \cup {n}
<1>1. h \in SUBSET Names /\ hurt \ {n} \subseteq h /\ n \in h
  BY DEF HealthInv, TypeOK
<1>2. World([pods EXCEPT ![n] = p], h, nodes, phases)
  BY DEF PodHurt
<1> HIDE DEF h
<1> QED
  BY <1>1, <1>2, PodStep

LEMMA EnvStep ==
  ASSUME HealthInv, Env
  PROVE  HealthInv'
<1> USE DEF HealthInv
<1>1. /\ hurt \in SUBSET Names /\ nodes \in SUBSET Nodes
      /\ pods \in [Names -> Pod \cup {None}] /\ phases \in [Names -> Phases \cup {None}]
  BY DEF TypeOK
<1>2. ASSUME NEW n \in Names, PodAppears(n)
      PROVE  HealthInv'
  <2> DEFINE p == [phase |-> "Pending", ready |-> FALSE, restarts |-> 0,
                   waiting |-> "ContainerCreating"]
  <2>1. p \in Pod /\ p.restarts = 0 /\ p.phase = "Pending" /\ p.waiting = "ContainerCreating"
    BY HealthAssumption DEF Pod, PodPhases, Reasons
  <2>2. World([pods EXCEPT ![n] = p], hurt, nodes, phases)
    BY <1>2 DEF PodAppears, PodIs
  <2> HIDE DEF p
  <2> QED
    BY <1>1, <2>1, <2>2, PodStep
<1>3. ASSUME NEW n \in Names, PodGoes(n)
      PROVE  HealthInv'
  <2> DEFINE h == hurt \ {n}
  <2>1. h \in SUBSET Names /\ hurt \ {n} \subseteq h
    BY <1>1
  <2>2. World([pods EXCEPT ![n] = None], h, nodes, phases)
    BY <1>3 DEF PodGoes
  <2> HIDE DEF h
  <2> QED
    BY <2>1, <2>2, PodStep
<1>4. ASSUME NEW n \in Names, PullFails(n)
      PROVE  HealthInv'
  <2> DEFINE p == [pods[n] EXCEPT !.waiting = "ErrImagePull"]
  <2>1. p \in Pod
    BY <1>1, <1>4 DEF PullFails, Pod, Reasons
  <2>2. PodHurt(n, p)
    BY <1>4 DEF PullFails
  <2> HIDE DEF p
  <2> QED
    BY <2>1, <2>2, HurtStep
<1>5. ASSUME NEW n \in Names, Starts(n)
      PROVE  HealthInv'
  <2> DEFINE old == pods[n]
             p == [phase |-> "Running", ready |-> FALSE, waiting |-> None,
                   restarts |-> IF old.phase = "Running" /\ old.restarts < Threshold
                                  THEN old.restarts + 1 ELSE old.restarts]
  <2>1. old \in Pod /\ old # None /\ old.waiting # None /\ old.restarts \in 0..Threshold
    BY <1>1, <1>5 DEF Starts, Pod
  <2>2. World([pods EXCEPT ![n] = p], hurt, nodes, phases)
    BY <1>5 DEF Starts, PodIs
  <2>3. n \notin hurt => old.restarts = 0 /\ old.phase # "Running"
    BY <2>1 DEF PodsInnocent
  <2> HIDE DEF old
  <2>4. p \in Pod /\ p.phase = "Running" /\ p.waiting = None /\ (n \notin hurt => p.restarts = 0)
    BY <2>1, <2>3, HealthAssumption DEF Pod, PodPhases
  <2> HIDE DEF p
  <2> QED
    BY <1>1, <2>2, <2>4, PodStep
<1>6. ASSUME NEW n \in Names, Probe(n)
      PROVE  HealthInv'
  <2>1. PICK b \in BOOLEAN : PodIs(n, [pods[n] EXCEPT !.ready = b])
    BY <1>6 DEF Probe
  <2> DEFINE p == [pods[n] EXCEPT !.ready = b]
  <2>2. pods[n] \in Pod /\ pods[n] # None
    BY <1>1, <1>6 DEF Probe, Up
  <2>3. /\ p \in Pod /\ p.restarts = pods[n].restarts /\ p.phase = pods[n].phase
        /\ p.waiting = pods[n].waiting
    BY <2>2 DEF Pod
  <2>4. World([pods EXCEPT ![n] = p], hurt, nodes, phases)
    BY <2>1 DEF PodIs
  <2> HIDE DEF p
  <2> QED
    BY <1>1, <2>2, <2>3, <2>4, PodStep DEF PodsInnocent
<1>7. ASSUME NEW n \in Names, Crashes(n)
      PROVE  HealthInv'
  <2> DEFINE p == [pods[n] EXCEPT !.ready = FALSE, !.waiting = "CrashLoopBackOff"]
  <2>1. p \in Pod
    BY <1>1, <1>7 DEF Crashes, Up, Pod, Reasons
  <2>2. PodHurt(n, p)
    BY <1>7 DEF Crashes
  <2> HIDE DEF p
  <2> QED
    BY <2>1, <2>2, HurtStep
<1>8. ASSUME NEW n \in Names, Evicted(n)
      PROVE  HealthInv'
  <2>1. PICK ph \in {"Failed", "Unknown"} :
          PodHurt(n, [pods[n] EXCEPT !.phase = ph, !.ready = FALSE])
    BY <1>8 DEF Evicted
  <2> DEFINE p == [pods[n] EXCEPT !.phase = ph, !.ready = FALSE]
  <2>2. p \in Pod
    BY <1>1, <1>8 DEF Evicted, Up, Pod, PodPhases
  <2> HIDE DEF p
  <2> QED
    BY <2>1, <2>2, HurtStep DEF p
<1>9. ASSUME NEW n \in Names, ServerReported(n)
      PROVE  HealthInv'
  <2>1. PICK ph \in Phases \cup {None} : PhaseIs(n, ph)
    BY <1>9 DEF ServerReported, Phases
  <2>2. [phases EXCEPT ![n] = ph] \in [Names -> Phases \cup {None}]
    BY <1>1
  <2> QED
    BY <1>1, <2>1, <2>2, WorldStep DEF PhaseIs, PodsInnocent
<1>10. ASSUME NEW x \in Nodes, NodeFlips(x)
       PROVE  HealthInv'
  <2> DEFINE nd == IF x \in nodes THEN nodes \ {x} ELSE nodes \cup {x}
  <2>1. nd \in SUBSET Nodes
    BY <1>1
  <2> QED
    BY <1>1, <1>10, <2>1, WorldStep DEF NodeFlips, PodsInnocent
<1> QED
  BY <1>2, <1>3, <1>4, <1>5, <1>6, <1>7, <1>8, <1>9, <1>10 DEF Env

-----------------------------------------------------------------------------
(* What each read adds to the report. *)
LEMMA NodesRead ==
  ASSUME HealthInv, NEW rep \in Report, NEW ok \in BOOLEAN
  PROVE  LET new == NodesPart(rep, ok) IN
         /\ new \in Report
         /\ new.problems \subseteq rep.problems \cup Wrong(hurt, nodes, phases)
<1> DEFINE add == [kind: {"node"}, name: Nodes \ nodes]
<1>1. add \subseteq Wrong(hurt, nodes, phases)
  BY DEF Wrong
<1>2. Wrong(hurt, nodes, phases) \in SUBSET Problems /\ nodes \in SUBSET Nodes
  BY WrongType DEF HealthInv, TypeOK
<1> DEFINE new == [rep EXCEPT !.nodes = Nodes, !.nodesReady = nodes, !.problems = @ \cup add]
<1>3. NodesPart(rep, ok) = IF ~ok THEN rep ELSE new
  BY DEF NodesPart
<1> HIDE DEF add
<1>4. /\ new \in Report
      /\ new.problems = rep.problems \cup add
  BY <1>1, <1>2 DEF Report
<1> HIDE DEF new
<1> QED
  BY <1>1, <1>3, <1>4

LEMMA PodsRead ==
  ASSUME HealthInv, NEW rep \in Report, NEW ok \in BOOLEAN
  PROVE  LET new == PodsPart(rep, ok) IN
         /\ new \in Report
         /\ new.problems \subseteq rep.problems \cup Wrong(hurt, nodes, phases)
<1> DEFINE there == {n \in Names : pods[n] # None}
           bad == {n \in there : Bad(pods[n])}
           add == [kind: {"pod"}, name: bad]
<1>1. bad \subseteq hurt
  BY BadIsHurt
<1>2. bad \subseteq Names
  OBVIOUS
<1>3. add \subseteq Wrong(hurt, nodes, phases)
  <2> HIDE DEF bad
  <2> QED
    BY <1>1 DEF Wrong
<1>4. Wrong(hurt, nodes, phases) \in SUBSET Problems
  BY WrongType DEF HealthInv, TypeOK
<1> DEFINE new == [rep EXCEPT !.podsError = bad, !.problems = @ \cup add]
<1>5. PodsPart(rep, ok) = IF ~ok THEN rep ELSE new
  BY DEF PodsPart
<1> HIDE DEF bad, add
<1>6. /\ new \in Report
      /\ new.problems = rep.problems \cup add
  BY <1>2, <1>3, <1>4 DEF Report
<1> HIDE DEF new
<1> QED
  BY <1>2, <1>3, <1>5, <1>6

LEMMA ServersRead ==
  ASSUME HealthInv, NEW rep \in Report, NEW ok \in BOOLEAN
  PROVE  LET new == ServersPart(rep, ok) IN
         /\ new \in Report
         /\ new.problems \subseteq rep.problems \cup Wrong(hurt, nodes, phases)
<1> DEFINE wrong == {n \in Names : phases[n] # None /\ phases[n] \notin Benign}
           add == [kind: {"server"}, name: wrong]
<1>1. wrong \subseteq {n \in Names : phases[n] \in {"Stopping", "Error"}}
  BY DEF HealthInv, TypeOK, Phases, Benign
<1>2. add \subseteq Wrong(hurt, nodes, phases)
  <2> HIDE DEF wrong
  <2> QED
    BY <1>1 DEF Wrong
<1>3. Wrong(hurt, nodes, phases) \in SUBSET Problems
  BY WrongType DEF HealthInv, TypeOK
<1> DEFINE new == [rep EXCEPT !.problems = @ \cup add]
<1>4. ServersPart(rep, ok) = IF ~ok THEN rep ELSE new
  BY DEF ServersPart
<1> HIDE DEF add
<1>5. /\ new \in Report
      /\ new.problems = rep.problems \cup add
  BY <1>2, <1>3 DEF Report
<1> HIDE DEF new
<1> QED
  BY <1>2, <1>4, <1>5

LEMMA ReadStep ==
  ASSUME HealthInv, NEW ok \in BOOLEAN, Read(ok)
  PROVE  HealthInv'
<1>1. /\ scan # None /\ scan \in Scan /\ scan.report \in Report
      /\ scan.report.problems \subseteq scan.may
      /\ Wrong(hurt, nodes, phases) \subseteq scan.may
  BY DEF HealthInv, TypeOK, ScanCovers, NoFalseAlarm, Scan, Read, ReadNodes, ReadPods,
         ReadServers, ReadResult
<1>2. \E new \in Report, to \in {"pods", "servers", "answer"} :
        /\ scan' = [scan EXCEPT !.step = to, !.report = new]
        /\ new.problems \subseteq scan.report.problems \cup Wrong(hurt, nodes, phases)
  <2>1. CASE ReadNodes(ok)
    <3> DEFINE new == NodesPart(scan.report, ok)
    <3>1. scan' = [scan EXCEPT !.step = "pods", !.report = new]
      BY <2>1 DEF ReadNodes, ReadResult
    <3>2. /\ new \in Report
          /\ new.problems \subseteq scan.report.problems \cup Wrong(hurt, nodes, phases)
      BY <1>1, NodesRead
    <3> HIDE DEF new
    <3> QED
      BY <3>1, <3>2
  <2>2. CASE ReadPods(ok)
    <3> DEFINE new == PodsPart(scan.report, ok)
    <3>1. scan' = [scan EXCEPT !.step = "servers", !.report = new]
      BY <2>2 DEF ReadPods, ReadResult
    <3>2. /\ new \in Report
          /\ new.problems \subseteq scan.report.problems \cup Wrong(hurt, nodes, phases)
      BY <1>1, PodsRead
    <3> HIDE DEF new
    <3> QED
      BY <3>1, <3>2
  <2>3. CASE ReadServers(ok)
    <3> DEFINE new == ServersPart(scan.report, ok)
    <3>1. scan' = [scan EXCEPT !.step = "answer", !.report = new]
      BY <2>3 DEF ReadServers, ReadResult
    <3>2. /\ new \in Report
          /\ new.problems \subseteq scan.report.problems \cup Wrong(hurt, nodes, phases)
      BY <1>1, ServersRead
    <3> HIDE DEF new
    <3> QED
      BY <3>1, <3>2
  <2> QED
    BY <2>1, <2>2, <2>3 DEF Read
<1>3. UNCHANGED <<pods, hurt, nodes, phases, reqs, panel>> /\ faults' \in 0..MaxFaults
  BY HealthAssumption
  DEF HealthInv, TypeOK, Read, ReadNodes, ReadPods, ReadServers, ReadResult, world
<1>4. Wrong(hurt, nodes, phases)' = Wrong(hurt, nodes, phases)
  BY <1>3 DEF Wrong
<1>5. /\ scan' \in Scan /\ scan'.may = scan.may
      /\ scan'.report.problems \subseteq scan.may
  BY <1>1, <1>2 DEF Scan
<1> QED
  BY <1>1, <1>3, <1>4, <1>5 DEF HealthInv, TypeOK, PodsInnocent, ScanCovers, NoFalseAlarm

(* Steps that leave the cluster alone and no request half served. *)
LEMMA ServeStep ==
  ASSUME HealthInv, NEW p \in Polls, Serve(p)
  PROVE  HealthInv'
<1> DEFINE now == Wrong(hurt, nodes, phases)
<1>1. now \in SUBSET Problems
  BY WrongType DEF HealthInv, TypeOK
<1>2. now' = now /\ UNCHANGED <<pods, hurt, nodes, phases, reqs, panel, faults>>
  BY DEF Serve, world, Wrong
<1>3. scan' = [poll |-> p, step |-> "nodes", report |-> EmptyReport, may |-> now]
  BY DEF Serve
<1> HIDE DEF now
<1>4. EmptyReport \in Report /\ EmptyReport.problems = {}
  BY DEF EmptyReport, Report
<1>5. scan' \in Scan /\ scan'.report = EmptyReport /\ scan'.may = now
  BY <1>1, <1>3, <1>4 DEF Scan
<1>6. ScanCovers' /\ NoFalseAlarm'
  BY <1>2, <1>4, <1>5 DEF ScanCovers, NoFalseAlarm, now
<1> QED
  BY <1>2, <1>4, <1>5, <1>6 DEF HealthInv, TypeOK, PodsInnocent

LEMMA PageStep ==
  ASSUME HealthInv, NEW p \in Polls, Poll(p) \/ Apply(p) \/ Lose(p)
  PROVE  HealthInv'
<1>1. UNCHANGED <<pods, hurt, nodes, phases, scan>>
  BY DEF Poll, Apply, Lose, world
<1>2. /\ reqs \in [Polls -> {None, "sent", "ok", "bad"}]
      /\ panel \in [health: {None, "ok", "bad"}, error: BOOLEAN] /\ faults \in 0..MaxFaults
  BY DEF HealthInv, TypeOK
<1>3. reqs' \in [Polls -> {None, "sent", "ok", "bad"}]
  BY <1>2 DEF Poll, Apply, Lose
<1>4. panel' \in [health: {None, "ok", "bad"}, error: BOOLEAN]
  <2>1. CASE Poll(p)
    BY <1>2, <2>1 DEF Poll
  <2>2. CASE Apply(p)
    BY <2>2 DEF Apply
  <2>3. CASE Lose(p)
    BY <1>2, <2>3 DEF Lose
  <2> QED
    BY <2>1, <2>2, <2>3
<1>5. faults' \in 0..MaxFaults
  BY <1>2, HealthAssumption DEF Poll, Apply, Lose
<1>6. TypeOK'
  BY <1>1, <1>3, <1>4, <1>5 DEF HealthInv, TypeOK
<1> QED
  BY <1>1, <1>6 DEF HealthInv, PodsInnocent, ScanCovers, NoFalseAlarm, Wrong

LEMMA AnswerStep ==
  ASSUME HealthInv, Answer
  PROVE  HealthInv'
<1>1. UNCHANGED <<pods, hurt, nodes, phases, panel, faults>> /\ scan' = None
  BY DEF Answer, world
<1>2. reqs' \in [Polls -> {None, "sent", "ok", "bad"}]
  BY DEF HealthInv, TypeOK, Answer, Scan
<1> QED
  BY <1>1, <1>2 DEF HealthInv, TypeOK, PodsInnocent, ScanCovers, NoFalseAlarm

LEMMA Inductive == SafeSpec => []HealthInv
<1>1. ASSUME Init
      PROVE  HealthInv
  <2>1. /\ pods \in [Names -> Pod \cup {None}] /\ phases \in [Names -> Phases \cup {None}]
        /\ reqs \in [Polls -> {None, "sent", "ok", "bad"}]
    BY <1>1 DEF Init
  <2>2. faults \in 0..MaxFaults /\ panel \in [health: {None, "ok", "bad"}, error: BOOLEAN]
    BY <1>1, HealthAssumption DEF Init
  <2>3. scan = None /\ hurt = {} /\ nodes = Nodes /\ \A n \in Names : pods[n] = None
    BY <1>1 DEF Init
  <2> QED
    BY <2>1, <2>2, <2>3 DEF HealthInv, TypeOK, PodsInnocent, ScanCovers, NoFalseAlarm
<1>2. ASSUME HealthInv, [Next]_vars
      PROVE  HealthInv'
  <2>1. CASE UNCHANGED vars
    BY <1>2, <2>1 DEF vars, world, HealthInv, TypeOK, PodsInnocent, ScanCovers, NoFalseAlarm, Wrong
  <2> QED
    BY <1>2, <2>1, EnvStep, ReadStep, ServeStep, PageStep, AnswerStep DEF Next
<1> QED
  BY <1>1, <1>2, PTL DEF SafeSpec

-----------------------------------------------------------------------------
(* Every reachable state is well typed (K8sMetricsProvider.cluster_health,  *)
(* ClusterHealthPanel).                                                    *)
THEOREM TypeCorrect == SafeSpec => []TypeOK
<1>1. HealthInv => TypeOK
  BY DEF HealthInv
<1> QED
  BY <1>1, Inductive, PTL

(* A report blames only what was wrong while it was compiled, whatever the *)
(* order of reads, faults and changes of the cluster (cluster_health).     *)
THEOREM BlamesTruly == SafeSpec => []NoFalseAlarm
<1>1. HealthInv => NoFalseAlarm
  BY DEF HealthInv
<1> QED
  BY <1>1, Inductive, PTL
=============================================================================
