# A formal model of QuetzelPanel

QuetzelPanel hosts game servers on Kubernetes: a React page calls a FastAPI backend, the backend
creates `GameServer` resources, and a kopf operator reconciles each of them to a Secret, a Service,
a StatefulSet and a PodDisruptionBudget. This directory holds TLA+ modules translated from that
code, the TLC configurations that check them on small instances, and TLAPS proofs of their safety
properties for every instance.

Contents: [the system](#1-the-system), [modules](#2-modules), [runs](#3-runs),
[proofs](#4-proofs), [findings](#5-findings), [limits](#6-what-the-models-leave-out),
[plan](#7-plan).

## 1. The system

| Component | State it keeps | Operations | Talks to | What makes it correct |
|---|---|---|---|---|
| Operator: `handlers.py`, `manifests.py`, `status.py` | none of its own; the resource, its status and its four children in the cluster, kopf's "last handled" annotation | `reconcile` (create, update, resume), `refresh_status` (every 10 s), `on_delete` | Kubernetes API, one call at a time | children complete and owned; one RCON password; status follows the cluster; deletion completes |
| CRD `crd.yaml` | spec, status subresource | — | operator, backend | phases are those the operator writes |
| Server routes `routers/servers.py`, `tenancy/scope.py` | none | list, create, get, delete | provider, token verifier | a customer acts on its own servers only |
| Providers `providers/k8s.py`, `mock.py` | mock: records with a clock | the same four operations | Kubernetes, or memory | the mock behaves like the cluster |
| Accounts `auth/*`, `users/*`, `routers/auth.py` | user stores; stateless tokens | login, create user, Google callback, bootstrap at startup | SQLite or memory | usernames are unique, startup survives races |
| Customers, clusters `tenancy/*store.py`, `clusters/registry.py`, `routers/customers.py`, `routers/clusters.py` | customer store, registry of clusters | create, list, rollups over clusters | one provider per cluster | a failing cluster hides nothing of the others |
| Metrics `metrics/*` | none | read usage, limits and volumes of a server; classify pods, build the health report | Kubernetes, metrics-server, kubelets | an unknown value is not taken for 0%; a report blames only what was wrong |
| Frontend `App.tsx`, `useAuth.ts`, `EnterpriseDashboard.tsx`, `MetricsPanel.tsx` | token (in localStorage and in memory), user, server list, selections | restore, login, logout, poll every 2 s, deploy, delete, select | backend, answers in any order | what is shown belongs to the session and the selection |
| Sizing `compute_resources` and its mirror `lib/sizing.ts` | none | pure | — | monotone, bounded, preview equals allocation |
| Version watch `mc_versions.py`, its workflow, `deploy/game-versions.json` | the list of baked versions, one pull request | daily run, merge | Mojang manifest, GitHub | every new release gets listed and baked; no listed version is forgotten |

Where it is hard:

* **Interleaving and staleness in the operator.** A handler is a sequence of API calls. The user,
  the garbage collector, the kubelet, the 10-second timer and an operator restart all act between
  two of them. The children are found by *name*; a name can be used again while the children of
  its previous holder are still there.
* **Failure and retry.** Any API error sends `reconcile` back to its first line; a crash is
  followed by `on.resume`. What was created, patched or generated before must survive that.
* **Patches.** An existing Service or StatefulSet is updated by a strategic-merge patch, which
  never removes a list entry, and which the API may refuse for what it leaves there.
* **Deletion** needs the operator: the finalizer kopf adds is lifted only when `on_delete` is done.
* **Check-then-act in the backend.** Within one process a route runs without interruption (it is a
  coroutine that never suspends between the check and the act); with several replicas or workers
  it does not.
* **The browser** sends requests without sequence numbers and applies the answers as they come.

`PROJECT.json` lists these hazards one by one, with the line and the property that covers each.

## 2. Modules

### GameServerController — the operator, one step per API call

One server *name* and the successive resources that carry it, told apart by their uid. Servers
of different names share no object, so one name is enough; what they can share in time is the
name itself, which is why there may be several incarnations (`MaxUid`).

| Variable | Stands for |
|---|---|
| `cr` | the live `GameServer`: uid, spec, `deletionTimestamp`, finalizer, the spec kopf last handled, status |
| `children` | for each kind, the object of that name: its owner uid, the customer label (and selector) it was created with, its content, and whether it is up (a ready replica, an assigned address) |
| `act` | for each uid, what its worker (`reconcile`/`on_delete`) and its timer (`refresh_status`) are about to do, with the values they read earlier and have still in hand |
| `up`, `resume` | the operator process and the resume that is due after a restart |
| `lastUid`, `passwords`, `edits`, `faults` | counters |

| Action | Code |
|---|---|
| `UserCreate`, `UserDelete` | `K8sProvider.create_server`, `delete_server` (or kubectl) |
| `UserEdit` | a changed spec, by kubectl; the backend has no such operation |
| `BeginReconcile` | `reconcile`, called for create, update and resume: takes the spec kopf hands over, and the unknown-game branch |
| `ReadChild`, `PatchChild`, `CreateChild` | the read, the patch in the same `try`, the create in the `except 404` branch of each `_ensure_*` |
| `ObserveStatefulSet`, `ObserveService` | the two reads of `_observe_status`, then `compute_phase` |
| `CommitReconcile`, `CommitRefresh` | the status patch kopf sends when the handler returns |
| `BeginRefresh` | the timer, with its early return for an unknown game |
| `OnDelete`, `ReleaseFinalizer` | `on_delete`, then kopf |
| `AddFinalizer` | kopf, before it handles anything else, because a delete handler is registered |
| `GarbageCollect`, `PodReady`, `PodFails`, `AssignAddress` | the cluster |
| `ApiError`, `OperatorCrash`, `OperatorRestart` | a failed call (kopf retries the handler from the top), a killed pod, its Deployment |

Data are reduced to what the properties tell apart. A spec is a game, a customer, a version and
`rconEnabled`; a container is its name (the game id), its version and whether it reads the RCON
Secret; a Service is a set of ports with a name and a number; a Secret is the number of the password it
holds; an address is present or absent. The strategic merge is modelled by what it does to those:
containers merge by name, ports by number, nothing is removed, and the version of a game without cached
images is an environment entry that stays when the new spec has none. The API refuses a Service two ports of
which have one name (`Refused`): `PatchChild` then raises, as the handler does, and kopf starts it again.

Operators with a suffix after an underscore, such as `Live_optional`, are mutated forms of the
definition that follows them. No specification uses them: each shows that a property is violated
when the code has that bug.

`MCController` gives the constants their values. Minecraft has RCON and cached images, Valheim has
neither, and `doom` is in no catalog.

### ServerResource and GameServerRefinement — what the backend promises about a name

`ServerResource` is the abstract specification: a name holds nothing or one resource with a uid and a
status; it may be created when absent, given any coherent status while it lives, marked for deletion,
and, once marked, is eventually gone. It says what a reader of the API may rely on: a deleted server
does not come back, a successor never starts with its predecessor's status, a phase never contradicts
`ready` or the address, and deletion completes. `GameServerRefinement` reads `GameServerController`
through the projection of `K8sProvider._to_server` (`Shown`: the metadata and status, with the
defaults for a status not yet written) and states that it implements `ServerResource`.

### Sizing — players to resources, from the form to the container

`ComputeResources` is `compute_resources`, `Preview` its mirror in the browser; `Resources` is the
choice of `build_statefulset` between explicit, sized and default resources. The state is the
catalog the operator has, the one the page loaded, the form, the spec and the container. Actions:
`LoadPage`, `OpenForm`, `TypeCount` (the input is clamped as it is typed), `Submit`, `ApiCreate` (a
client that is not the page), `Edit`, `Upgrade` (a chart upgrade replaces the catalog and restarts
the operator) and `Reconcile` (create, or patch; in a patch a missing player limit stays). CPU and
memory are one integer each per catalog entry; the properties do not tell the units apart.

### Accounts — processes that share a SQLite file

Each backend process runs one handler at a time; a handler is a sequence of store calls, each in a
transaction of its own.

| Variable | Stands for |
|---|---|
| `rows` | the `users` and `customers` tables, by username and customer id; a row has the id of the request that wrote it |
| `state` | each process: down, in its lifespan hook, serving |
| `job` | the handler a process is in, its next store call and the row it means to insert |
| `tokens` | the tokens issued, with the id, role and customer they state |

| Action | Code |
|---|---|
| `Start`, `Find`, `Refetch` | `lifespan`, `bootstrap_admin` and the lookup of `google_callback` |
| `CreateUser`, `GoogleCallback`, `CreateCustomer`, `Login` | the routes, up to their first store call (`Login` makes only one) |
| `Check`, `Insert` | the lookup and the INSERT of `create_user` and `create` |
| `StoreFails`, `Crash` | a database error, a killed process |

### PanelSession — one page of the panel

| Variable | Stands for |
|---|---|
| `storage`, `authToken` | the token in `localStorage`; the module variable of `http.ts` |
| `user`, `loading` | the state of `useAuth` |
| `authRequired`, `servers` | the state of `App` |
| `reqs` | the request in flight per channel, with the token it was sent with and, once served, its answer |
| `boot` | the token the page found when it was loaded (a history variable: no action reads it) |
| `enforced`, `world`, `valid` | the backend: does it verify tokens, whose server stands under each name, which tokens it accepts |

| Action | Code |
|---|---|
| `Init`, `Reload`, `Mount` | the effects of a mount in their order: token from storage, `/auth/me` of `useAuth`, `/auth/me` of the probe, first poll |
| `RestoreDone`, `ProbeDone` | the handlers of the two `/auth/me`: the first drops the session on any failure, the second asks only whether it failed |
| `Login`, `LoginDone`, `Logout` | `LoginPage.submit` and `useAuth` |
| `Poll`, `ListDone` | the interval of two seconds and `refreshServers` |
| `Deploy`, `CreateDone`, `Remove`, `RemoveDone` | `deploy` (which polls at once when it succeeds) and `remove` (which drops the card) |
| `ServeMe`, `ServeLogin`, `ServeList`, `ServeCreate`, `ServeDelete` | the routes, each atomic, scoped by the principal of the token |
| `Others`, `Expire`, `Lose` | other clients and the operator, expiring tokens, a lost request or answer |

Nothing in the page numbers its requests or ties an answer to a session, so an answer may be applied
after any later one and after a logout. A channel holds one request: the page sends one restoration and one
probe per load, its buttons are disabled while their request is under way, and only polls overlap, which is why
they have several channels. Each account that is no administrator is a customer of its own. A reload
drops the answers of the page before it; what its requests still do to the backend is `Others`.

### ServerAPI — routes, tenancy and clusters

| Variable | Stands for |
|---|---|
| `servers` | what the provider of each cluster would list: name, uid, owner, whether it is being deleted |
| `job` | the request each backend replica is serving, with what it read earlier: the server a delete looked up, the servers a listing has merged and the clusters it has yet to ask |
| `lastUid` | counter |

| Action | Code |
|---|---|
| `Create` | `create_server` of `routers/servers.py`, with the customer forced on non-admins that have one |
| `BeginDelete`, `DoDelete` | the two provider calls of `delete_server`: the lookup and its check, then the deletion by name |
| `BeginList`, `Fetch`, `FetchFails`, `EndList` | `GET /servers`, `/clusters/{id}/servers`, `/clusters/rollup/servers` and `/customers/{id}/servers` (`Routes`): the clusters are asked one after the other, one that fails is left out or fails the request, the filter is applied after the merge |
| `Others` | other clients of the clusters, the operator lifting a finalizer |

A replica serves one request at a time, because no provider call yields to the event loop: the
coroutines of `asyncio.gather` run one after the other, too. What a request says is judged by two history fields that nothing
else reads: `may` collects the servers that were listed at some time since it began, `must` those that
were listed throughout in clusters that could be asked.

### ClusterHealth — the health report and its panel

| Variable | Stands for |
|---|---|
| `pods`, `nodes`, `phases` | the pod of each server (phase, readiness, restarts, waiting reason), the nodes that are ready, the phase of each server |
| `reqs` | the panel's requests in flight |
| `scan` | the request the backend is serving: the next read and the report so far |
| `panel` | `health` (reduced to `allOk`) and `error` of `ClusterHealthPanel` |
| `hurt`, `scan.may` | history: pods that crashed, were evicted or could not be pulled; what was wrong while the report was compiled |

| Action | Code |
|---|---|
| `Poll`, `Apply`, `Lose` | the interval and `fetch`, which do not wait for each other |
| `Serve`, `ReadNodes`, `ReadPods`, `ReadServers`, `Answer` | `K8sMetricsProvider.cluster_health`; a read that fails yields nothing. `NodesPart`, `PodsPart` and `ServersPart` are the three loops of `build_cluster_health`, applied when their list has been read: the result is the same and the lists need not be kept |
| `PodAppears` … `Evicted`, `NodeFlips`, `ServerReported` | the kubelet, the StatefulSet controller, the nodes, the operator |

`Threshold` is the literal 5 of `classify_pod`. The numbers of a report are kept as the sets they count; that of the running pods decides nothing and is left out.
Requests that two replicas serve at the same time are modelled one after the other: a report depends on
its own reads alone.

### ServerMetrics, EnterpriseDashboard and PanelViews — what an administrator looks at

`ServerMetrics` follows one running server from its pod to the gauges of its card.

| Variable | Stands for |
|---|---|
| `pod`, `sample` | the pod named after the server (limits per container, node, used and total bytes of its volume); the usage metrics-server has under that name |
| `fetches`, `scan` | the panel's requests, the one the backend is serving: its next read, what it has read so far |
| `panel` | `metrics` and `error` of `MetricsPanel`, while it is mounted |
| `scan.seen` | history: pods and samples that stood under the name while the request was served |

| Action | Code |
|---|---|
| `Poll`, `Apply`, `Lose`, `Mount`, `Unmount` | the interval and `fetch` of `MetricsPanel`, the `cancelled` flag of its effect |
| `Serve`, `ReadPod`, `ReadUsage`, `ReadSummary` | the route and the three reads of `server_metrics`, each of which can fail |
| `PodChanges`, `Sampled` | the StatefulSet controller, the scheduler, metrics-server |

`Total` is the sum the four readers of `classify.py` take over containers, `Percent` the three functions that divide,
round and cap. CPU and memory are computed alike, so one number stands for both. A request blocks the event loop of its backend; two
replicas serve at the same time, but an answer depends on its own reads alone, so one `scan` is enough.

`EnterpriseDashboard` is the state of the dashboard's component. Lists of servers are kept as the request they answer.

| Variable | Stands for |
|---|---|
| `listed`, `healths` | which of the two lists, and the health of which clusters, have arrived |
| `selected`, `rows`, `loading` | for the tables of the cluster and of the customer: the key in the heading, the answer shown, the loading flag |
| `error` | the banner |
| `flight`, `selects` | requests in flight, selections so far |
| `newest` | history: the newest request of each table that was answered |

| Action | Code |
|---|---|
| `ClustersDone`, `CustomersDone`, `HealthDone`, `ServersDone`, `Fails` | the `then`, `catch` and `finally` of each request, in any order |
| `SelectCluster`, `SelectCustomer` | a click on a badge with the effect on `selectedCluster`; a click on a customer |

`PanelViews` composes the two as `App` does: one of them is mounted, a click on the other tab unmounts it with all it was waiting
for and mounts the other afresh (`ShowEnterprise`, `ShowServers`).

### VersionWatch — from a release of the game to its image

| Variable | Stands for |
|---|---|
| `upstream` | Mojang's manifest: releases and snapshots, by age |
| `known` | `minecraft.versions` of `deploy/game-versions.json` on main |
| `watch`, `pull` | a running watch with the list it checked out; the one pull request of branch `auto/game-versions` |
| `runs`, `jobs`, `baked`, `failed` | runs of `game-images.yml`, their jobs under way, the versions with an image, those whose last job failed |
| `servers`, `running` | the version each server was created with, and whether its image has been pulled |

| Action | Code |
|---|---|
| `WatchStarts`, `WatchEnds`, `WatchFails` | `_cmd_watch` and the steps around it in `game-version-watch.yml` |
| `Merge`, `Edit`, `Dispatch` | what changes main or starts `game-images.yml` (`Push`) |
| `Bake`, `BakeFails` | one job of its matrix: `resolve`, build and push |
| `Create`, `Start` | `build_statefulset`'s choice of the image, the kubelet's pull |
| `Publish`, `Close` | Mojang, maintainers |

`MCRefinement`, `MCController`, `MCSizing`, `MCAccounts`, `MCPanel`, `MCServerAPI`, `MCPanelViews` and `MCVersionWatch` are the modules the
runs instantiate; ClusterHealth needs none.

## 3. Runs

| Run | Question | Result |
|---|---|---|
| ControllerSafety | Two incarnations of a name, one edit, one fault, at any API call. Is every working thread that of the live, finalized incarnation? Are the children its own? Does the password of an incarnation never change? The Secret before the pod template that reads it? Does a status beyond Pending rest on a StatefulSet of this incarnation? Does every child carry the customer label? Once a spec is handled, do the children cover it? Does no child serve a resource whose game is unknown? Is every step, as the backend shows it, one `ServerResource` allows? | holds |
| ControllerConverge | One incarnation, one edit, one fault: does it end up Running, with children that cover its last spec (unless its ports clash with those of its former game), with a status that agrees with the cluster, or in Error if its game is unknown? Is what the backend shows a behaviour of `ServerResource`, completion of deletion included? Are the children of a deleted server collected? | holds |
| Sizing | Form, edits and chart upgrades in any order: does the container get what the form showed, between base and ceiling, and does growth never shrink it? | holds |
| Accounts | Two processes starting, restarting and serving: is a committed account or customer never replaced, every token true of its account, no process serving before the administrator exists, and does every process end up serving? | holds |
| PanelSession | A page with late, reordered and lost answers: do the user shown, the token sent and the token stored agree? Is a page loaded without a session walled whenever nobody is signed in? Does the splash end? Does the list end up being what the signed-in user may see? | holds |
| ServerAPI | Two replicas, three clusters, calls that fail, names that change hands. Has a listing every visible server that was there throughout in a cluster that answered, none that never was there, none of another customer? Does a delete remove what its caller may see, or at worst a server created after the lookup? | holds |
| ClusterHealth | Pods that start, crash and are replaced while reports are compiled. Does a report blame only what was wrong meanwhile? Does a server that keeps crashing end up keeping the panel from green, and a calm cluster end up green? | holds |
| PanelViews | Two views, a pod that is replaced, reads that fail, answers out of order. Does a metrics panel show only what was stated while its request was served, and end up showing the pod as it is? Does a quiet table list the selected key, does every loading end? | holds |
| VersionWatch | Releases, merges, manual edits, failing fetches and builds in any order. Is every listed version baked, being baked or known to have failed? Does a merge only ever add a release? Does every new release get listed, and every server of a listed version start? | holds |
| ControllerReuseStuck | A name reused before its old children are gone: does the new server end up Running? | violated |
| PanelLoginWall | Is the login page shown whenever authentication is enforced and nobody is signed in? | violated |
| AccountsBootstrap | Does the loser of the race to create the administrator start all the same? | violated |

**Preconditions.** `WaitForGC` is the assumption that a name is reused only once the collector has
removed its old children. `ChildrenBelong`, `SecretBeforeStatefulSet`, `StatusBacked` and
`LabelsMirrorCustomer` are stated under it; ControllerReuseStuck runs without
it. `CustomerEdits` says whether edits may change `spec.customer`; the runs set it to FALSE, because
labels are fixed at creation and `crd.yaml`'s "mirrored to the quetzel.gg/customer label" is false of
every child after such an edit. `SettledServersRun` and `ChildrenConverge` exclude `PortsClash`, the state
an edit of the game leads to ([findings](#5-findings)).

**Bounds.** They are guards of the actions they limit and nothing else.

| Module | Bounds | Why they are enough |
|---|---|---|
| GameServerController | `MaxUid` 2 in the runs about predecessor and successor (ControllerSafety, ControllerReuseStuck), 1 where only one life matters (ControllerConverge) | a third incarnation would interact with the second as the second does with the first: at most one resource is live and each kind has one slot |
| | `MaxEdits`, `MaxFaults` at most 1 | one edit and one fault fall on any step: before, within and after a handler, and within the retry of the handler they interrupted. `ChildrenConverge` says `edits <= 1` itself, because it is false of an edit that is taken back ([findings](#5-findings)) |
| Sizing | a game in two releases, with and without ceilings; players 1 to 9 of 4, typed numbers from -1 to 7; `MaxEdits` 2 | base, ceiling, step and the clamp are all crossed on both sides |
| Accounts | two processes, three usernames (one of them the administrator, one Google), one customer, five requests that reach a store, one fault | a race needs two processes and one key; a third process meets the same committed row. Requests are counted by the id they would give their row; starts are not limited |
| PanelSession | one customer's user and one administrator; one server name; two poll channels; `MaxClicks` 2, `MaxChanges` 1, `MaxFaults` 1 (0 for the last two in PanelLoginWall) | two polls let an older list arrive after a newer one; two clicks give a logout and a login, a login and a deploy, or a click on either side of a reload, each beside an expired token or a change by others and a lost answer |
| ServerAPI | two replicas (`values-enterprise.yaml`), two uids of one name, the local cluster, a remote one and one without a provider; an administrator, a customer's user and an account without a customer | a delete races with a delete or a creation under the same name; a rollup meets every kind of cluster. Failures are not bounded. The replicas are interchangeable, hence the symmetry set |
| ClusterHealth | one server, one node, two polls in flight, `Threshold` 2, `MaxFaults` 1 | pods do not interact; two polls let an older answer come last; a threshold of 2 tells the first restart from the last |
| PanelViews | a pod that states a limit and one that states none, to begin with or later; a sample of two containers that together are above the limit, or none; a volume a third full; two polls in flight; two clusters, two customers; `MaxChanges` 1, `MaxFaults` 1 (reads and answers of the metrics; requests of the dashboard fail without bound), `MaxSelects` 2, `MaxClicks` 2 | a run begins with any pod and any sample, and the one change replaces either between any two reads (both between the reads of one request is left to `HonestMetrics`); two selections give a table an older and a newer request, answered in either order; two clicks leave and come back |
| VersionWatch | three entries of the manifest, of which the oldest is pinned and the second has no server jar; one server, of the version that is yet to appear; `MaxByHand` 1, `MaxFaults` 1 | with two releases above the pinned one, or the pinned one taken off, the watch has to choose; one manual step overtakes a watch, a pull request or a build |

Deadlock is not checked for GameServerController: with the counters used up and the server deleted,
nothing has to happen any more. Nor is it for PanelSession, where nothing happens any more
when the clicks are used up and the login wall is up. It is checked for Accounts, where a process can always log in,
handle or start, for ServerAPI, ClusterHealth and VersionWatch, but not for PanelViews, where the dashboard has nothing left to do once its
selections are used up and its requests are settled.

**Fairness.** `OperatorRestart` is weakly fair because the operator is a Deployment with one replica
(`templates/operator.yaml`). `WorkerStep` and `TimerStep` are weakly fair per uid: kopf runs the
handlers and the timer of each resource in tasks of their own, and requeues a failed handler. The
collector, the kubelet and the load balancer are weakly fair per object. In Accounts the start of a process is weakly
fair (its Deployment restarts it) and so is the next step of the handler it runs (a handler never
waits). In PanelSession
`Exchange` is weakly fair per channel: the backend answers or the request fails, the browser applies the answer, and the
interval fires; clicks have no fairness. `ListConverges` assumes that the page ends up past the login
wall with a token the backend accepts. In ClusterHealth the backend's next step, each interval and the delivery of each
answer are weakly fair, nothing of the cluster is; `CrashLoopShown` assumes a pod that crashes again and again without being replaced,
`SettlesGreen` a cluster that stays calm. In PanelViews the intervals, the backend's next step and the delivery of each answer or
failure are weakly fair while their view is shown. In VersionWatch the watch is (a daily cron job), so are the jobs of a run (each ends) and the kubelet's
next pull; that maintainers merge a pull request that applies cleanly is an assumption about them, which `NewReleasesListed` and
`ListedServersStart` need and the code cannot justify.
Users, requests, pod failures, errors and crashes have no fairness: they may happen, up to the
bound, and never have to.

## 4. Proofs

Every theorem holds for all constants that satisfy the assumptions named here: any set of games,
customers, specs, usernames and processes, any number of incarnations, edits, requests and
faults.

| Module | Theorem | Statement |
|---|---|---|
| `GameServerController_proofs` (under `ConstantsAssumption`, `NoneAssumption`) | `TypeCorrect` | `SafeSpec => []TypeOK` |
| | `Guarded` | `SafeSpec => []FinalizerGuard` |
| | `Belonging` | `SafeSpec => []ChildrenBelong` |
| | `PasswordStable` | `SafeSpec => SecretStable` |
| | `OnePassword` | `SafeSpec => []OnePasswordPerIncarnation` |
| | `SecretFirst` | `SafeSpec => []SecretBeforeStatefulSet` |
| | `BuiltBeforeHandled` | `SafeSpec => []HandledIsBuilt` |
| | `Backed` | `SafeSpec => []StatusBacked` |
| | `NeverServed` | `SafeSpec => []UnknownNeverServed` |
| | `LabelsTrue` | `SafeSpec => [](~CustomerEdits => LabelsMirrorCustomer)` |
| | `Implements` (also `ShownAssumption`) | `SafeSpec => ResourceSafety`, that is `Contract!SafeSpec` |
| `Sizing_proofs` (`SizingAssumption`) | `ComputeMonotone`, `PreviewIsCompute` | of the operators, for every input |
| | `TypeCorrect`, `PreviewHonoured`, `Bounded`, `Monotone` | the type invariant and the three properties of the run |
| `Accounts_proofs` (`AccountsAssumption`) | `TypeCorrect`, `PermanentRows`, `TokensTrue`, `AdminFirst` | the safety properties of the run |
| `PanelSession_proofs` (`PanelAssumption`, `RequestAssumption`) | `TypeCorrect`, `OneSession`, `Walled` | `SafeSpec => []TypeOK`, `[]SessionAgrees`, `[]FreshPageIsWalled` |
| `ServerAPI_proofs` (`ApiAssumption`, `ServerAssumption`) | `TypeCorrect`, `TrueAnswers`, `CheckedDeletes` | `Spec => []TypeOK`, `[]AnswersTrue`, `DeletesWhatItSaw` |
| `ClusterHealth_proofs` (`HealthAssumption`, `HealthNone`) | `TypeCorrect`, `BlamesTruly` | `SafeSpec => []TypeOK`, `[]NoFalseAlarm` |
| `PanelViews_proofs` (`MetricsAssumption`, `PanelAssumption`, `DashboardAssumption`, `ViewsAssumption`) | `TypeCorrect`, `HonestMetrics`, `TrueTables` | `SafeSpec => []TypeOK`, `[]MetricsHonest`, `[]TableOfSelection` |
| `VersionWatch_proofs` (`WatchAssumption`, `NoneAssumption`) | `TypeCorrect`, `Built`, `MergesAdd` | `SafeSpec => []TypeOK`, `[]ListedIsBuilt`, `MergeAddsRelease` |
| | `WatchAdvances` | `SafeSpec => [][WatchProposes /\ MergeProgresses]_vars` |

*Types and the guard.* `TypeOK` of the controller is not inductive: the step that creates a child of uid `u`
is well typed only if the thread that creates it holds a spec, and that a thread never acts for a dead
resource depends on every earlier step. `TypeInv` adds `WorkerHolds` (a worker in the middle of
`reconcile` holds a spec of a catalogued game). The finalizer is the argument for
`FinalizerGuard`: a thread starts only under it, only the release step lifts it, and that step
requires both threads of the uid to be idle.

*Belonging.* With `WaitForGC`, a resource is created over empty slots, and by `FinalizerGuard` the
only thread that fills a slot afterwards belongs to the live uid.

*One password.* `PasswordInv` counts: at most as many passwords were generated as uids were given, and
strictly fewer while the live incarnation, which is the last one, has no Secret of its own. The difficult case is
name reuse, where the Secret of the predecessor disappears while the successor is being reconciled.

*Progress of a handler.* `Progress` says how far `reconcile` has come: once the worker has left a kind behind, the object of that
name is the live incarnation's own and holds what the spec in the worker's hand asks for (`Covers`, kind by kind), a Secret
being enough if that spec reads one. It is kept because the thread that works is the only one (`FinalizerGuard`: no other uid has one)
and because an own child disappears only with its owner. At the commit the worker has left every kind behind,
hence `HandledIsBuilt`; at the StatefulSet it has left the Secret behind, hence `SecretBeforeStatefulSet`. An edit in between does no
harm: both speak of the spec the handler was given.

*Status.* `ObservedBacked` says of a worker or a timer that has seen a StatefulSet that this incarnation still has one: the values in
hand may be old, but what they report cannot have gone while its owner lives. With it each status write keeps `StatusBacked`.

*Labels.* `LabelsMirrorCustomer` needs the hypothesis `~CustomerEdits`, and is false without it. `SameCustomer` then says that
every spec a thread has in hand, and the one last handled, names the customer the resource was created for, so whichever of them
a child was created from, its label is that customer. No route of the backend edits the customer.

*Unknown games.* For an incarnation created with an unknown game and not edited since, a worker only ever reports the error or finishes
the deletion, and the timer returns early (`UnlistedThreads`). No child is owned by an incarnation still to come
(`OwnersKnown`), so a new one starts without children of its own even where those of its predecessor remain.

*Refinement.* A status write is a legal step of the abstract resource only if the values the thread
read some calls earlier still make a coherent status, and only for the uid it read them for.
`ViewInv` says so of every value a worker or a timer has in hand; `FinalizerGuard` says whose they
are. With both, every action maps to a step of `ServerResource` or to a stutter. The temporal part,
the completion of deletion, is model-checked.

*Sizing.* The invariant relates the container to the spec it was computed from and to the catalog it
was computed with, and the form to the catalog of the page. Monotonicity of the container rests on
`ComputeMonotone`, a lemma of integer arithmetic.

*Accounts.* The invariant behind `TokensTrue` and `AdminFirst` says that a committed row stays, so
that a row read before a race is decided is the row after it.

*PanelSession.* `SessionInv` adds three facts to the properties. While the page restores a session, its request is in
flight with the stored token and an answer to it names that token's account; a restoration under way means that the
splash is up, so no login or logout can come between (`RestoreInv`). An answer to the probe of a page loaded
without a session fails if the backend verifies tokens, because the token it carries is none (`ProbeInv`). A login
in flight was sent from behind the wall and finds nobody signed in when it is answered (`LoginInv`).

*ServerAPI.* `ApiInv` says of a delete under way that the server it looked up was visible to its caller, so that whatever now stands under
the name is that server or has a greater uid (`DeleteOK`, with `NewestInv`: uids grow). Of a listing it says that each entry of `must` is
already merged or belongs to a cluster still to be asked and is listed there now, and that everything merged is in `may` (`ListOK`).

*ClusterHealth.* A pod that has not been hurt has no restarts and waits for nothing but its creation (`PodsInnocent`), so none of the
conditions of `classify_pod` applies to it; while a request is served, its history covers what is wrong now (`ScanCovers`).

*PanelViews.* `MetricsHonest` rests on integer arithmetic (`PercentOf`: the rounded quotient is the nearest tenth, and is cut at 1000 exactly
when usage reaches the limit) and on `ScanTrue`: the limit and the usage a request holds are sums of a pod and of a sample it has seen,
and what stands under the name now is among those. For `TableOfSelection` every table with a heading has a last request
(`LastKnown`, unless the banner is up): it asks for the selected key, nothing is newer, and it is in flight or answered. Request 0 of the
cluster table is unique because the clusters arrive once (`BeforeClusters`).

*VersionWatch.* `Built` is inductive with the types: what takes a version off one side of `ListedIsBuilt` (a job ends) puts it on another in
the same step, and a push that changes the list starts a job for all of it. `MergesAdd` rests on `PullProposes`: the
pull request's list is the one it started from and one release, so the three-way merge adds that release to whatever main has
become, and a release stays one when more is published.
`WatchAdvances` is the part of `NewReleasesListed` that needs no fairness: a watch that ends while a release is missing proposes the newest
missing one (a nonempty set of entries has a newest, by the well-foundedness of `<`), and a merge that applies cleanly makes the list longer.

Model-checked only: liveness (`SettledServersRun`, `StatusConverges`, `ChildrenConverge`, `UnknownGameErrors`,
`OrphansCollected`, `MetricsConverge`, `LoadingEnds`, `NewReleasesListed`, `ListedServersStart`, `AllServe`, `SplashEnds`, `ListConverges`, `CrashLoopShown`, `SettlesGreen`, the fairness of `ServerResource`), which is out of the prover's reach. Every other
property of a passing run is stated by a theorem. `TypeOK` of the controller and of Accounts is proved and no longer checked by a run.

## 5. Findings

Each is a run TLC finds violated, listed with the quoted text in `PROJECT.json`.

1. **A reused name can stay Pending for ever** (ControllerReuseStuck). The new server finds the old
   children by name, patches them, and the collector deletes them afterwards. No event calls
   `reconcile` again; the timer only reports.
2. **The loser of the bootstrap race fails to start** (AccountsBootstrap): the code expects a
   `ValueError` where SQLite raises `IntegrityError`. The Deployment restarts the process, which then
   finds the account (`AllServe` holds).
3. **A restored session disables the login wall** (PanelLoginWall). The probe is sent with the restored
   token and succeeds, which the page takes to mean that the backend enforces nothing. After a logout the panel stays
   up without the session, and until the next reload every user has the Enterprise tab, whose
   data the backend still scopes by principal.

Seen in the models and left without a run:

* An edit of `spec.game` from one known game to another is refused for ever. The patch of the Service keeps the port of the old game
  beside that of the new one (ports merge by number), every game of the catalog calls its first port `game` (`catalog.json:22,67,109,148`),
  and a Service must not have two ports of one name: the API answers 422, `handlers.py:81-82` raises, and so does every retry. The
  StatefulSet keeps the old game, or is never created if the edit came before it, while `handlers.py:16` promises "else
  strategic-merge patch ports/type". Drop `~PortsClash` from `ChildrenConverge` or `SettledServersRun` to see it.
* Patches only add: the RCON port stays on the Service after `rconEnabled` is turned off, and the player limit stays beside default
  resources.
* Customer labels are fixed at creation. If `spec.customer` is edited between the creation of two children, the Service keeps selecting
  the old label and the pod carries the new one (set `CustomerEdits` to TRUE to see it).
* An edit that is taken back can leave the children of the edit. kopf compares the spec with the one last handled: if the handler of the
  edit failed half way and the spec is back at the old one when kopf tries again, there is nothing to handle, and what the failed call
  patched stays as it is (raise `MaxEdits` to 2 in ControllerConverge and drop `edits <= 1` from `ChildrenConverge` to see it). The next
  edit or restart of the operator repairs it.
* The cached image is chosen for every version, also for one the pipeline has not baked, where `catalog.py:27-29` promises the default image
  ("Falls back to `image` otherwise"). The form offers four versions of Minecraft; `game-versions.json` lists two of them.
  In VersionWatch a server of a version that is never listed never starts (drop `known` from `ListedServersStart` to see it).
* The watch proposes older releases, newest first and one a day, once the newest are listed, down to those without a server jar, whose
  build then fails in every run; `mc_versions.py:53-54` says that older versions are left alone and that a new release adds exactly one
  tag, `game-version-watch.yml:3-5` that the watch acts when a new version appears. A version maintainers take off the list comes back
  the same way. `SelectNew` does as the code does; `NewReleasesListed` asks nothing of those releases.
* A pull request stays open when main gets its version by hand: an up-to-date watch does not touch it. A failed bake is repeated only when the
  list changes again or someone starts the workflow.
* The dashboard shows the answer that came last: after two selections the servers of one cluster can stand under the name of another
  (`Overtaken`), and after a failure those of the earlier selection do. The banner never goes away, and the first answer ends "Loading" while a
  later one is still under way.
* The usage of a new pod may be divided by the limit of the one before it (`MetricsHonest` allows a pod and a sample of different moments).
* `on_delete` writes the phase alone, so a Stopping server still says `ready`.
* A timer that read before the game was edited to an unknown one overwrites the Error phase.
* A read of `cluster_health` that fails yields an empty list, so a report can come out green while a pod is crashing; a server that is
  stopping is reported as a problem; `/clusters/{id}/health` reports the local cluster under every id.
* A multi-cluster registry of kind `remote` is never loaded: nothing calls `load_from_secrets`.

## 6. What the models leave out

Assumed of Kubernetes and kopf, which are not in this repository, and marked external in the map:
objects are created and deleted atomically; a uid is never used twice; the collector deletes an
object only when its owner is gone; a Service is refused when two of its ports have one name; kopf processes one handler of a resource at a time
and the timer beside it; it adds its finalizer first, and waits for a running timer before it lifts it. A request that was
already sent when the operator was killed is taken to have been applied or lost, not to arrive after the restart.
The status patch and the removal of the finalizer are two calls in kopf; the model lets the status of `on_delete`
become visible first.

Assumed of SQLite: a transaction is atomic and durable, `UNIQUE` and `PRIMARY KEY` are enforced. The
in-memory stores, which one process owns and a restart empties, are not modelled.

Left out of the operator: environment variables other than the version and the player limit, probes, storage
(without influence on control). Left out of Accounts: password hashing, the encoding and expiry of
tokens, role checks. Left out of PanelSession: toasts, the online indicator, the fields of the deploy form,
two tabs over one `localStorage`, the double effects of React's strict mode in
development. Left out of ServerAPI: status codes, `GET /servers/{name}` (the first step of a delete), the registry's own changes (it is
filled at startup). Left out of ClusterHealth: pods of the
namespace that belong to no server (they are classified alike). Left out of ServerMetrics: the suffixes of
Kubernetes quantities (`parse_cpu_to_nano`, `parse_memory_to_bytes`: strings to numbers), rounding of exact ties, the direct and the proxied path to the kubelet as two
(they return the same summary). Left out of VersionWatch: the Dockerfile, the merge conflicts of Git, which only delay a merge.

Not modelled at all: the mock provider (a development stand-in without concurrency), the Google client (an HTTP exchange, whose outcome Accounts takes as input),
the catalog files and loaders (constants, read once), layout, charts, scripts and load tests. `PROJECT.json` says why of each.

## 7. Plan

Done: the operator and its refinement, Sizing, Accounts, PanelSession, ServerAPI, ClusterHealth, PanelViews, VersionWatch, and a theorem for
every safety property of their passing runs. Next:

1. More lemmas about liveness as theorems of single steps, as `WatchAdvances` is for the watch: a report compiled while a pod was
   crashing throughout, with no failed read, is not green.
2. MockProvider: the mock's clocked records, shown to implement `ServerResource` as the operator does.
