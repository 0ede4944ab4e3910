---------------------------- MODULE ClusterHealth ----------------------------
(***************************************************************************)
(* The health report and the panel that polls it.  A request reads nodes,  *)
(* pods and servers one after the other (metrics/provider.py), classifies  *)
(* what it read (metrics/classify.py) and answers; ClusterHealthPanel.tsx  *)
(* polls without waiting for earlier answers and applies each as it comes. *)
(*                                                                         *)
(* The backend serves one request at a time, because no read yields; the   *)
(* kubelet, the nodes and the operator act between two reads.  A number of *)
(* the report is kept as the set of what it counts; that of the running    *)
(* pods, which nothing is decided by, is left out.                         *)
(***************************************************************************)
EXTENDS Naturals

CONSTANTS
  Names,      \* servers, and their pods
  Nodes,
  Polls,      \* bound: requests of the panel in flight
  Threshold,  \* restarts that make a running pod a crash loop
  MaxFaults,  \* bound: failed reads and lost answers
  None

ASSUME HealthAssumption == Threshold \in Nat \ {0} /\ MaxFaults \in Nat
ASSUME HealthNone == None \notin {"ok", "bad", "ContainerCreating", "ErrImagePull", "CrashLoopBackOff"}

VARIABLES
  pods,    \* name |-> Pod or None
  hurt,    \* history: pods that crashed, were evicted or could not be pulled
  nodes,   \* the nodes that are ready
  phases,  \* name |-> status.phase of the server, or None
  reqs,    \* poll |-> None, "sent", "ok", "bad": absent, in flight, answered
  scan,    \* the request that is being served, or None
  panel,   \* what the panel keeps: the last report, and whether the last poll failed
  faults

world == <<pods, hurt, nodes, phases>>
vars == <<world, reqs, scan, panel, faults>>

Reasons == {"ContainerCreating", "ErrImagePull", "CrashLoopBackOff"}
PodPhases == {"Pending", "Running", "Succeeded", "Failed", "Unknown"}
(* Restarts beyond the threshold are not told apart. *)
Pod == [phase: PodPhases, ready: BOOLEAN, restarts: 0..Threshold, waiting: Reasons \cup {None}]

Phases == {"Pending", "Provisioning", "Running", "Stopping", "Error"}

Problems == [kind: {"pod", "server"}, name: Names] \cup [kind: {"node"}, name: Nodes]
Report == [nodes: SUBSET Nodes, nodesReady: SUBSET Nodes,
           podsError: SUBSET Names, problems: SUBSET Problems]

(* may is history: what was wrong at some time since the request began.    *)
Scan == [poll: Polls, step: {"nodes", "pods", "servers", "answer"}, report: Report,
         may: SUBSET Problems]

TypeOK ==
  /\ pods \in [Names -> Pod \cup {None}]
  /\ hurt \subseteq Names /\ nodes \subseteq Nodes
  /\ phases \in [Names -> Phases \cup {None}]
  /\ reqs \in [Polls -> {None, "sent", "ok", "bad"}]
  /\ scan \in Scan \cup {None}
  /\ panel \in [health: {None, "ok", "bad"}, error: BOOLEAN]
  /\ faults \in 0..MaxFaults

Init ==
  /\ pods = [n \in Names |-> None] /\ hurt = {} /\ nodes = Nodes
  /\ phases = [n \in Names |-> None]
  /\ reqs = [p \in Polls |-> None]
  /\ scan = None
  /\ panel = [health |-> None, error |-> FALSE]
  /\ faults = 0

-----------------------------------------------------------------------------
(* Classification. *)
TerminalWaiting == {"CrashLoopBackOff", "ErrImagePull"}

(* Mutant: restarts are not counted. *)
CrashLooping_now(p) == p.waiting = "CrashLoopBackOff"

CrashLooping(p) ==
  \/ p.waiting = "CrashLoopBackOff"
  \/ p.phase = "Running" /\ p.restarts >= Threshold

(* Mutant: whatever waits is an error. *)
Erroneous_anyWait(p) ==
  \/ p.phase \in {"Failed", "Unknown"}
  \/ p.phase \in {"Running", "Pending"} /\ p.waiting # None

Erroneous(p) ==
  \/ p.phase \in {"Failed", "Unknown"}
  \/ p.phase \in {"Running", "Pending"} /\ p.waiting \in TerminalWaiting
  \/ p.phase = "Running" /\ ~p.ready /\ p.waiting # None

Bad(p) == CrashLooping(p) \/ Erroneous(p)

(* Mutant: a server that is being provisioned is a problem. *)
Benign_narrow == {"Running", "Pending"}

Benign == {"Running", "Pending", "Provisioning"}

(* The parts of the report, by the read they come from; a read that fails  *)
(* yields an empty list.                                                   *)
NodesPart(rep, ok) ==
  IF ~ok THEN rep
  ELSE [rep EXCEPT !.nodes = Nodes, !.nodesReady = nodes,
                   !.problems = @ \cup [kind: {"node"}, name: Nodes \ nodes]]

PodsPart(rep, ok) ==
  LET there == {n \in Names : pods[n] # None}
      bad == {n \in there : Bad(pods[n])}
  IN IF ~ok THEN rep
     ELSE [rep EXCEPT !.podsError = bad,
                      !.problems = @ \cup [kind: {"pod"}, name: bad]]

ServersPart(rep, ok) ==
  LET wrong == {n \in Names : phases[n] # None /\ phases[n] \notin Benign}
  IN IF ~ok THEN rep
     ELSE [rep EXCEPT !.problems = @ \cup [kind: {"server"}, name: wrong]]

AllOk(rep) ==
  rep.nodesReady = rep.nodes /\ rep.nodes # {} /\ rep.podsError = {} /\ rep.problems = {}

-----------------------------------------------------------------------------
(* One request: three reads, then the answer. *)
EmptyReport == [nodes |-> {}, nodesReady |-> {}, podsError |-> {},
                problems |-> {}]

(* What is wrong: nodes that are not ready, pods that have been hurt,      *)
(* servers that are stopping or have failed.                               *)
Wrong(h, nd, ph) ==
  [kind: {"pod"}, name: h] \cup [kind: {"node"}, name: Nodes \ nd]
    \cup [kind: {"server"}, name: {n \in Names : ph[n] \in {"Stopping", "Error"}}]

Serve(p) ==
  /\ reqs[p] = "sent" /\ scan = None
  /\ scan' = [poll |-> p, step |-> "nodes", report |-> EmptyReport,
              may |-> Wrong(hurt, nodes, phases)]
  /\ UNCHANGED <<world, reqs, panel, faults>>

ReadResult(from, to, ok, rep) ==
  /\ scan # None /\ scan.step = from
  /\ ok \/ faults < MaxFaults
  /\ faults' = IF ok THEN faults ELSE faults + 1
  /\ scan' = [scan EXCEPT !.step = to, !.report = rep]
  /\ UNCHANGED <<world, reqs, panel>>

ReadNodes(ok) == ReadResult("nodes", "pods", ok, NodesPart(scan.report, ok))
ReadPods(ok) == ReadResult("pods", "servers", ok, PodsPart(scan.report, ok))
ReadServers(ok) == ReadResult("servers", "answer", ok, ServersPart(scan.report, ok))

Answer ==
  /\ scan # None /\ scan.step = "answer"
  /\ reqs' = [reqs EXCEPT ![scan.poll] = IF AllOk(scan.report) THEN "ok" ELSE "bad"]
  /\ scan' = None
  /\ UNCHANGED <<world, panel, faults>>

-----------------------------------------------------------------------------
(* The panel. *)
Poll(p) ==
  /\ reqs[p] = None
  /\ reqs' = [reqs EXCEPT ![p] = "sent"]
  /\ UNCHANGED <<world, scan, panel, faults>>

Apply(p) ==
  /\ reqs[p] \in {"ok", "bad"}
  /\ panel' = [health |-> reqs[p], error |-> FALSE]
  /\ reqs' = [reqs EXCEPT ![p] = None]
  /\ UNCHANGED <<world, scan, faults>>

(* The answer is lost: the panel keeps the last report and says so. *)
Lose(p) ==
  /\ reqs[p] \in {"ok", "bad"} /\ faults < MaxFaults
  /\ faults' = faults + 1
  /\ panel' = [panel EXCEPT !.error = TRUE]
  /\ reqs' = [reqs EXCEPT ![p] = None]
  /\ UNCHANGED <<world, scan>>

(* The dot in the panel's header. *)
Dot ==
  IF panel.error THEN "red" ELSE IF panel.health = "ok" THEN "green" ELSE "amber"

-----------------------------------------------------------------------------
(* The cluster. *)
World(pd, h, nd, ph) ==
  /\ pods' = pd /\ hurt' = h /\ nodes' = nd /\ phases' = ph
  /\ scan' = IF scan = None THEN None
             ELSE [scan EXCEPT !.may = @ \cup Wrong(h, nd, ph)]
  /\ UNCHANGED <<reqs, panel, faults>>

PodIs(n, p) == World([pods EXCEPT ![n] = p], hurt, nodes, phases)
PodHurt(n, p) == World([pods EXCEPT ![n] = p], hurt \cup {n}, nodes, phases)

(* The StatefulSet controller creates a pod; it is deleted or replaced. *)
PodAppears(n) ==
  /\ pods[n] = None /\ phases[n] \notin {None, "Stopping", "Error"}
  /\ PodIs(n, [phase |-> "Pending", ready |-> FALSE, restarts |-> 0, waiting |-> "ContainerCreating"])

PodGoes(n) ==
  pods[n] # None /\ World([pods EXCEPT ![n] = None], hurt \ {n}, nodes, phases)

PullFails(n) ==
  /\ pods[n] # None /\ pods[n].phase = "Pending"
  /\ PodHurt(n, [pods[n] EXCEPT !.waiting = "ErrImagePull"])

(* The container runs; if it ran before, that is a restart. *)
Starts(n) ==
  /\ pods[n] # None /\ pods[n].waiting # None
  /\ PodIs(n, [phase |-> "Running", ready |-> FALSE, waiting |-> None,
               restarts |-> IF pods[n].phase = "Running" /\ pods[n].restarts < Threshold
                              THEN pods[n].restarts + 1 ELSE pods[n].restarts])

Up(n) == pods[n] # None /\ pods[n].phase = "Running" /\ pods[n].waiting = None

Probe(n) ==
  Up(n) /\ \E b \in BOOLEAN : PodIs(n, [pods[n] EXCEPT !.ready = b])

Crashes(n) ==
  Up(n) /\ PodHurt(n, [pods[n] EXCEPT !.ready = FALSE, !.waiting = "CrashLoopBackOff"])

Evicted(n) ==
  /\ Up(n)
  /\ \E ph \in {"Failed", "Unknown"} : PodHurt(n, [pods[n] EXCEPT !.phase = ph, !.ready = FALSE])

NodeFlips(x) ==
  World(pods, hurt, IF x \in nodes THEN nodes \ {x} ELSE nodes \cup {x}, phases)

PhaseIs(n, ph) == World(pods, hurt, nodes, [phases EXCEPT ![n] = ph])

(* A server is created, reported on, marked for deletion, gone. *)
ServerReported(n) ==
  \/ phases[n] = None /\ PhaseIs(n, "Pending")
  \/ /\ phases[n] \notin {None, "Stopping"}
     /\ \E ph \in Phases : PhaseIs(n, ph)
  \/ phases[n] = "Stopping" /\ PhaseIs(n, None)

-----------------------------------------------------------------------------
Read(ok) == ReadNodes(ok) \/ ReadPods(ok) \/ ReadServers(ok)

Env ==
  \/ \E n \in Names : PodAppears(n) \/ PodGoes(n) \/ PullFails(n) \/ Starts(n) \/ Probe(n)
                        \/ Crashes(n) \/ Evicted(n) \/ ServerReported(n)
  \/ \E x \in Nodes : NodeFlips(x)

Next ==
  \/ \E p \in Polls : Poll(p) \/ Serve(p) \/ Apply(p) \/ Lose(p)
  \/ \E ok \in BOOLEAN : Read(ok)
  \/ Answer
  \/ Env

Backend == (\E p \in Polls : Serve(p)) \/ Read(TRUE) \/ Answer

SafeSpec == Init /\ [][Next]_vars

(* The backend works off its requests; each answer reaches the page; the   *)
(* interval fires.  Nothing is assumed of the cluster.                     *)
Spec ==
  /\ SafeSpec
  /\ WF_vars(Backend)
  /\ \A p \in Polls : WF_vars(Poll(p)) /\ WF_vars(Apply(p))

-----------------------------------------------------------------------------
(* A report blames only what was wrong while it was compiled: pods that    *)
(* have crashed, been evicted or failed to pull in their life, nodes that  *)
(* were not ready, servers that were stopping or had failed.  A first      *)
(* start, a slow probe or a provisioning server raises no alarm.           *)
NoFalseAlarm == scan # None => scan.report.problems \subseteq scan.may

(* A server that keeps crashing ends up keeping the panel from green, in   *)
(* the moments when it runs as well, unless its pod is replaced.           *)
CrashLoopShown ==
  \A n \in Names :
    ([]<><<Crashes(n)>>_vars /\ <>[][~PodGoes(n)]_vars) => <>[](Dot # "green")

(* Nothing waits, has failed or has restarted too often; every node is up. *)
Calm ==
  /\ nodes = Nodes
  /\ \A n \in Names :
       /\ pods[n] # None => /\ pods[n].phase \in {"Pending", "Running"}
                            /\ pods[n].waiting \in {None, "ContainerCreating"}
                            /\ pods[n].restarts < Threshold
       /\ phases[n] \notin {"Stopping", "Error"}

(* When the cluster stays calm the panel ends up green, whatever answers   *)
(* of the bad times were still under way.                                  *)
SettlesGreen == <>[]Calm => <>[](Dot = "green")
=============================================================================
