----------------------------- MODULE VersionWatch -----------------------------
(***************************************************************************)
(* How a release of the game becomes an image: the daily watch of Mojang's *)
(* manifest (mc_versions.py, game-version-watch.yml) proposes it for the   *)
(* list on main (deploy/game-versions.json), a merge has every listed      *)
(* version baked (game-images.yml), and a server of that version can start *)
(* (build_statefulset).                                                    *)
(*                                                                         *)
(* Entries of the manifest are numbered by age: the newest is the last.    *)
(***************************************************************************)
EXTENDS Naturals, Sequences

CONSTANTS
  Servers,     \* names of servers
  Offered,     \* versions a server is created with
  NoJar,       \* entries without a server download
  Pinned,      \* versions listed, and baked, to begin with
  None,        \* no version, no watch running, no pull request
  Absent,      \* no server
  MaxEntries,  \* bound: entries of the manifest
  MaxByHand,   \* bound: what maintainers do besides merging
  MaxFaults    \* bound: failed fetches and builds

Entries == 1..MaxEntries
Kinds == {"release", "snapshot"}

ASSUME WatchAssumption ==
  /\ MaxEntries \in Nat \ {0, 1} /\ MaxByHand \in Nat /\ MaxFaults \in Nat
  /\ Offered \subseteq Entries /\ NoJar \subseteq Entries
  /\ Pinned \subseteq Entries \ NoJar
  /\ None \notin Entries /\ Absent \notin Entries \cup {None}

(* None is told apart from a list and from a pull request.                 *)
ASSUME NoneAssumption ==
  /\ \A list \in SUBSET Entries : list # None
  /\ None \notin [base: SUBSET Entries, list: SUBSET Entries]

VARIABLES
  upstream,  \* the kinds of the manifest's entries
  known,     \* the versions listed on main
  watch,     \* the list a running watch has checked out, or None
  pull,      \* the pull request: the list it started from, the list it brings
  runs,      \* runs of game-images so far
  jobs,      \* jobs of their matrices that have not ended
  baked,     \* versions with an image
  failed,    \* versions without one whose last job failed
  servers,   \* server |-> its version, None if it has none, or Absent
  running,   \* servers whose image has been pulled
  byHand, faults

vars == <<upstream, known, watch, pull, runs, jobs, baked, failed, servers, running,
          byHand, faults>>

Jobs == [run: Nat, version: Entries]

TypeOK ==
  /\ upstream \in Seq(Kinds) /\ Len(upstream) <= MaxEntries
  /\ known \subseteq Entries /\ (watch = None \/ watch \subseteq Entries)
  /\ pull \in {None} \cup [base: SUBSET Entries, list: SUBSET Entries]
  /\ runs \in Nat /\ jobs \subseteq Jobs /\ \A j \in jobs : j.run \in 1..runs
  /\ baked \subseteq DOMAIN upstream \ NoJar /\ failed \subseteq Entries
  /\ servers \in [Servers -> Offered \cup {None, Absent}]
  /\ running \subseteq Servers
  /\ byHand \in 0..MaxByHand /\ faults \in 0..MaxFaults

Init ==
  /\ upstream \in {u \in [1..2 -> Kinds] : Pinned \subseteq {v \in 1..2 : u[v] = "release"}}
  /\ known = Pinned /\ baked = Pinned /\ failed = {}
  /\ watch = None /\ pull = None /\ runs = 0 /\ jobs = {}
  /\ servers = [s \in Servers |-> Absent] /\ running = {}
  /\ byHand = 0 /\ faults = 0

-----------------------------------------------------------------------------
(* Mojang publishes a release or a snapshot. *)
Publish ==
  /\ Len(upstream) < MaxEntries
  /\ \E k \in Kinds : upstream' = Append(upstream, k)
  /\ UNCHANGED <<known, watch, pull, runs, jobs, baked, failed, servers, running,
                 byHand, faults>>

-----------------------------------------------------------------------------
(* The watch *)

Releases == {v \in DOMAIN upstream : upstream[v] = "release"}

Newest(S) == {v \in S : \A w \in S : w <= v}

(* Mutant: only the latest release is looked at. *)
SelectNew_latest(list) == Newest(Releases) \ list

(* The newest release that is not listed, if there is one.                 *)
SelectNew(list) == Newest(Releases \ list)

(* Mutant: mc["versions"] = new. *)
WithNew_only(list, new) == new

WithNew(list, new) == list \cup new

WatchStarts ==
  /\ watch = None /\ watch' = known
  /\ UNCHANGED <<upstream, known, pull, runs, jobs, baked, failed, servers, running,
                 byHand, faults>>

(* The pull request is made anew from the list checked out.  If that is up *)
(* to date, an open one stays as it is.                                    *)
WatchEnds ==
  /\ watch # None /\ watch' = None
  /\ LET new == SelectNew(watch)
     IN  pull' = IF new = {} THEN pull
                 ELSE [base |-> watch, list |-> WithNew(watch, new)]
  /\ UNCHANGED <<upstream, known, runs, jobs, baked, failed, servers, running, byHand, faults>>

WatchFails ==
  /\ watch # None /\ watch' = None
  /\ faults < MaxFaults /\ faults' = faults + 1
  /\ UNCHANGED <<upstream, known, pull, runs, jobs, baked, failed, servers, running, byHand>>

-----------------------------------------------------------------------------
(* Main.  A push that changes the list starts a run of game-images, one    *)
(* job for every version on it.                                            *)

StartRun(list) ==
  /\ runs' = runs + 1
  /\ jobs' = jobs \cup {[run |-> runs + 1, version |-> v] : v \in list}

(* Mutant: the list is not among the paths that trigger a run. *)
Push_untriggered(list) == known' = list /\ UNCHANGED <<runs, jobs>>

Push(list) ==
  /\ known' = list
  /\ IF list = known THEN UNCHANGED <<runs, jobs>> ELSE StartRun(list)

(* A three-way merge; the branch is deleted.                               *)
Merge ==
  /\ pull # None /\ pull' = None
  /\ Push((known \ (pull.base \ pull.list)) \cup (pull.list \ pull.base))
  /\ UNCHANGED <<upstream, watch, baked, failed, servers, running, byHand, faults>>

ByHand == byHand < MaxByHand /\ byHand' = byHand + 1

(* Maintainers list a version, published or not, or take one off; close    *)
(* the pull request; run game-images again.                                *)
Edit ==
  /\ ByHand
  /\ \E v \in Entries : \E list \in {known \cup {v}, known \ {v}} : list # known /\ Push(list)
  /\ UNCHANGED <<upstream, watch, pull, baked, failed, servers, running, faults>>

Close ==
  /\ ByHand /\ pull # None /\ pull' = None
  /\ UNCHANGED <<upstream, known, watch, runs, jobs, baked, failed, servers, running, faults>>

Dispatch ==
  /\ ByHand /\ StartRun(known)
  /\ UNCHANGED <<upstream, known, watch, pull, baked, failed, servers, running, faults>>

-----------------------------------------------------------------------------
(* A job of a run: the jar is resolved, the image built and pushed.        *)

HasJar(v) == v \in DOMAIN upstream \ NoJar

Bake(j) ==
  /\ j \in jobs /\ HasJar(j.version)
  /\ jobs' = jobs \ {j}
  /\ baked' = baked \cup {j.version} /\ failed' = failed \ {j.version}
  /\ UNCHANGED <<upstream, known, watch, pull, runs, servers, running, byHand, faults>>

(* Mutant: fail-fast, the other jobs of the run are cancelled. *)
Without_failFast(j) == {k \in jobs : k.run # j.run}

(* fail-fast: false, the other jobs of the run go on.                      *)
Without(j) == jobs \ {j}

BakeFails(j) ==
  /\ j \in jobs
  /\ IF HasJar(j.version) THEN faults < MaxFaults /\ faults' = faults + 1
     ELSE UNCHANGED faults
  /\ jobs' = Without(j)
  /\ failed' = failed \cup ({j.version} \ baked)
  /\ UNCHANGED <<upstream, known, watch, pull, runs, baked, servers, running, byHand>>

-----------------------------------------------------------------------------
(* Servers.  A server with a version gets the image of that version, baked *)
(* or not; one without, the image that downloads the game.                 *)

Create(s, v) ==
  /\ servers[s] = Absent
  /\ servers' = [servers EXCEPT ![s] = v]
  /\ UNCHANGED <<upstream, known, watch, pull, runs, jobs, baked, failed, running,
                 byHand, faults>>

Pullable(v) == v = None \/ v \in baked

(* The kubelet pulls, again and again until it can. *)
Start(s) ==
  /\ s \notin running /\ Pullable(servers[s])
  /\ running' = running \cup {s}
  /\ UNCHANGED <<upstream, known, watch, pull, runs, jobs, baked, failed, servers,
                 byHand, faults>>

-----------------------------------------------------------------------------
Next ==
  \/ Publish \/ WatchStarts \/ WatchEnds \/ WatchFails
  \/ Merge \/ Edit \/ Close \/ Dispatch
  \/ \E j \in jobs : Bake(j) \/ BakeFails(j)
  \/ \E s \in Servers : Start(s) \/ \E v \in Offered \cup {None} : Create(s, v)

SafeSpec == Init /\ [][Next]_vars

(* The watch is a daily cron job, every job of a run ends, the kubelet     *)
(* retries; and maintainers merge a pull request that applies cleanly.     *)
Fairness ==
  /\ WF_vars(WatchStarts) /\ WF_vars(WatchEnds)
  /\ WF_vars(pull # None /\ pull.base = known /\ Merge)
  /\ WF_vars(\E j \in jobs : Bake(j) \/ BakeFails(j))
  /\ \A s \in Servers : WF_vars(Start(s))

Spec == SafeSpec /\ Fairness

-----------------------------------------------------------------------------
(* Every listed version has its image, or a job that has not ended, or its *)
(* last job failed: none is listed and then forgotten, whichever jobs of   *)
(* whichever runs fail and however runs overlap.                           *)
ListedIsBuilt == known \subseteq baked \cup {j.version : j \in jobs} \cup failed

(* Only maintainers unlist a version, and only they list one that is no    *)
(* release: merging a pull request of the watch lists one release more, or *)
(* changes nothing, also when main has changed since the watch checked it  *)
(* out and whatever was published meanwhile.                               *)
MergeAddsRelease ==
  [][ byHand' = byHand =>
        known' = known \/ \E v \in Releases : known' = known \cup {v} ]_vars

(* The versions newer than every one that is listed to begin with. *)
Newer == {v \in Entries : \A w \in Pinned : v > w}

(* When every pull request that applies is merged, a new release gets on   *)
(* the list: also when several appear before the next watch, when a watch  *)
(* fails, and when a pull request is closed or overtaken.  Maintainers may *)
(* take it off again, MergeAddsRelease says that nobody else does.         *)
NewReleasesListed == \A v \in Newer : <>(v \in Releases) => <>(v \in known)

(* A server of a listed version starts, also one created before its image  *)
(* was baked, unless the last bake of that version failed.                 *)
ListedServersStart == <>[](\A s \in Servers : servers[s] \in known \ failed => s \in running)
=============================================================================
