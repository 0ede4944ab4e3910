------------------------------- MODULE Accounts -------------------------------
(***************************************************************************)
(* User accounts and customers in the shared SQLite file, and the backend  *)
(* processes that write them: bootstrap_admin at startup                   *)
(* (auth/bootstrap.py), POST /auth/users, the Google callback and login    *)
(* (routers/auth.py), POST /customers (routers/customers.py), over         *)
(* SQLiteUserStore and SQLiteCustomerStore.                                *)
(*                                                                         *)
(* A process runs one of these handlers at a time: its store calls do not  *)
(* yield to the event loop.  Several processes run beside each other, as   *)
(* replicas or during a rollout, and a store call is a SELECT and an       *)
(* INSERT in transactions of their own.                                    *)
(***************************************************************************)
EXTENDS Naturals

CONSTANTS
  Procs,        \* backend processes
  UserNames,    \* usernames
  Admin,        \* QUETZEL_BOOTSTRAP_ADMIN_USER
  GoogleNames,  \* "google:<sub>" usernames
  CustomerIds,  \* ids given to POST /customers
  Variants,     \* what requests for one key may differ in: role, customer, name
  None,         \* no row
  MaxRequests,  \* bound: requests that reach a store
  MaxFaults     \* bound: killed processes and failed store calls

Keys == UserNames \cup CustomerIds

(* A row is told apart from another attempt to write the same key by id.   *)
Row == [id: Nat, data: Variants \cup {"admin", "unassigned"}]

ASSUME AccountsAssumption ==
  /\ CustomerIds \cap UserNames = {}
  /\ GoogleNames \subseteq UserNames /\ Admin \in UserNames \ GoogleNames
  /\ None \notin Row
  /\ MaxRequests \in Nat /\ MaxFaults \in Nat

VARIABLES
  rows,     \* key |-> the committed row, or None
  state,    \* process |-> "down", "starting", "serving"
  job,      \* process |-> the handler it is running
  tokens,   \* tokens issued
  lastId, faults

vars == <<rows, state, job, tokens, lastId, faults>>

Callers == {"bootstrap", "users", "google", "customers"}
Idle == [op |-> "idle"]
Job == {Idle} \cup
       [op: {"find", "check", "insert", "refetch"}, by: Callers, key: Keys, row: Row]

TypeOK ==
  /\ rows \in [Keys -> Row \cup {None}]
  /\ state \in [Procs -> {"down", "starting", "serving"}]
  /\ job \in [Procs -> Job]
  /\ tokens \subseteq [name: UserNames, row: Row]
  /\ lastId \in Nat /\ faults \in 0..MaxFaults

Init ==
  /\ rows = [k \in Keys |-> None]
  /\ state = [p \in Procs |-> "down"]
  /\ job = [p \in Procs |-> Idle]
  /\ tokens = {} /\ lastId = 0 /\ faults = 0

-----------------------------------------------------------------------------
(* A handler that ends issues a token if it is the Google callback, for    *)
(* the row it has in hand.                                                 *)
Token(j, row) == IF j.by = "google" THEN {[name |-> j.key, row |-> row]} ELSE {}

(* Mutant: a failed startup hangs instead of ending the process. *)
Finish_hangs(p, outcome, issued) ==
  /\ job' = [job EXCEPT ![p] = Idle]
  /\ tokens' = tokens \cup issued
  /\ state' = IF job[p].by = "bootstrap" /\ outcome = "ok"
              THEN [state EXCEPT ![p] = "serving"] ELSE state

(* outcome: "ok", "conflict" (answered 409) or "error" (an exception that  *)
(* nobody catches: 500, and the end of a process that starts).             *)
Finish(p, outcome, issued) ==
  /\ job' = [job EXCEPT ![p] = Idle]
  /\ tokens' = tokens \cup issued
  /\ state' = IF job[p].by # "bootstrap" THEN state
              ELSE [state EXCEPT ![p] = IF outcome = "ok" THEN "serving" ELSE "down"]

Go(p, op) ==
  /\ job' = [job EXCEPT ![p].op = op]
  /\ UNCHANGED <<tokens, state>>

NewJob(op, by, key, data) ==
  [op |-> op, by |-> by, key |-> key, row |-> [id |-> lastId + 1, data |-> data]]

(* The lifespan hook of a process that starts. *)
Start(p) ==
  /\ state[p] = "down"
  /\ state' = [state EXCEPT ![p] = "starting"]
  /\ job' = [job EXCEPT ![p] = NewJob("find", "bootstrap", Admin, "admin")]
  /\ lastId' = lastId + 1
  /\ UNCHANGED <<rows, tokens, faults>>

Accept(p, op, by, key, data) ==
  /\ state[p] = "serving" /\ job[p] = Idle /\ lastId < MaxRequests
  /\ job' = [job EXCEPT ![p] = NewJob(op, by, key, data)]
  /\ lastId' = lastId + 1
  /\ UNCHANGED <<rows, state, tokens, faults>>

CreateUser(p) == \E n \in UserNames, d \in Variants : Accept(p, "check", "users", n, d)

GoogleCallback(p) == \E n \in GoogleNames : Accept(p, "find", "google", n, "unassigned")

CreateCustomer(p) ==
  \E c \in CustomerIds, d \in Variants : Accept(p, "check", "customers", c, d)

(* The accounts the Google callback creates have no usable password. *)
Login(p) ==
  /\ state[p] = "serving" /\ job[p] = Idle
  /\ \E n \in UserNames :
       /\ rows[n] # None /\ rows[n].data # "unassigned"
       /\ tokens' = tokens \cup {[name |-> n, row |-> rows[n]]}
  /\ UNCHANGED <<rows, state, job, lastId, faults>>

(* bootstrap_admin and google_callback look the name up before they create. *)
Find(p) ==
  /\ job[p].op = "find"
  /\ IF rows[job[p].key] # None
     THEN Finish(p, "ok", Token(job[p], rows[job[p].key]))
     ELSE Go(p, "check")
  /\ UNCHANGED <<rows, lastId, faults>>

(* The store's own lookup.  A user that exists is a ValueError: a conflict *)
(* for POST /auth/users, a second lookup for the other two.  A customer    *)
(* that exists is returned.                                                *)
Check(p) ==
  LET j == job[p] IN
  /\ j.op = "check"
  /\ IF rows[j.key] = None THEN Go(p, "insert")
     ELSE IF j.by = "customers" THEN Finish(p, "ok", {})
     ELSE IF j.by = "users" THEN Finish(p, "conflict", {})
     ELSE Go(p, "refetch")
  /\ UNCHANGED <<rows, lastId, faults>>

(* Mutants: no UNIQUE constraint on the username; an insert that is never  *)
(* committed; an IntegrityError that is taken for success.                 *)
Insert_replaces(p) ==
  LET j == job[p] IN
  /\ j.op = "insert"
  /\ rows' = [rows EXCEPT ![j.key] = j.row]
  /\ Finish(p, "ok", Token(j, j.row))
  /\ UNCHANGED <<lastId, faults>>

Insert_uncommitted(p) ==
  LET j == job[p] IN
  /\ j.op = "insert"
  /\ Finish(p, "ok", Token(j, j.row))
  /\ UNCHANGED <<rows, lastId, faults>>

Insert_ignored(p) ==
  LET j == job[p] IN
  /\ j.op = "insert"
  /\ rows' = IF rows[j.key] = None THEN [rows EXCEPT ![j.key] = j.row] ELSE rows
  /\ Finish(p, "ok", Token(j, j.row))
  /\ UNCHANGED <<lastId, faults>>

(* A key taken since the lookup violates the constraint of the table; the  *)
(* IntegrityError is nobody's ValueError: the request is answered 500, a   *)
(* process that starts exits.                                              *)
Insert(p) ==
  LET j == job[p] IN
  /\ j.op = "insert"
  /\ IF rows[j.key] = None
     THEN /\ rows' = [rows EXCEPT ![j.key] = j.row]
          /\ Finish(p, "ok", Token(j, j.row))
     ELSE /\ Finish(p, "error", {})
          /\ UNCHANGED rows
  /\ UNCHANGED <<lastId, faults>>

(* The lookup after a ValueError; without a row bootstrap_admin raises and *)
(* the callback fails.                                                     *)
Refetch(p) ==
  LET j == job[p] IN
  /\ j.op = "refetch"
  /\ IF rows[j.key] # None THEN Finish(p, "ok", Token(j, rows[j.key]))
     ELSE Finish(p, "error", {})
  /\ UNCHANGED <<rows, lastId, faults>>

(* The database is locked or the disk is full. *)
StoreFails(p) ==
  /\ job[p] # Idle /\ faults < MaxFaults
  /\ faults' = faults + 1
  /\ Finish(p, "error", {})
  /\ UNCHANGED <<rows, lastId>>

Crash(p) ==
  /\ state[p] # "down" /\ faults < MaxFaults
  /\ faults' = faults + 1
  /\ state' = [state EXCEPT ![p] = "down"]
  /\ job' = [job EXCEPT ![p] = Idle]
  /\ UNCHANGED <<rows, tokens, lastId>>

-----------------------------------------------------------------------------
Handler(p) == Find(p) \/ Check(p) \/ Insert(p) \/ Refetch(p)

Request(p) == CreateUser(p) \/ GoogleCallback(p) \/ CreateCustomer(p) \/ Login(p)

Next == \E p \in Procs : Start(p) \/ Request(p) \/ Handler(p) \/ StoreFails(p) \/ Crash(p)

SafeSpec == Init /\ [][Next]_vars

(* Handlers run to their end and the Deployment restarts a process that    *)
(* went down.                                                              *)
Spec == SafeSpec /\ \A p \in Procs : WF_vars(Start(p)) /\ WF_vars(Handler(p))

-----------------------------------------------------------------------------
(* An account or a customer, once committed, is never replaced, by         *)
(* whichever processes create the same key at the same time.               *)
Permanent == \A k \in Keys : rows[k] # None => rows'[k] = rows[k]
RowsPermanent == [][Permanent]_vars

(* Every token names an account that exists, with the id, role and         *)
(* customer it has: the loser of a race never signs its own attempt in.    *)
TokensName == \A t \in tokens : rows[t.name] = t.row

(* No process serves before the bootstrap administrator exists.            *)
ServingHasAdmin == \A p \in Procs : state[p] = "serving" => rows[Admin] # None

(* However the processes race, fail and crash, all of them end up serving. *)
AllServe == <>[](\A p \in Procs : state[p] = "serving")

(* A process never fails to start because another one created the admin.   *)
BootstrapSurvivesRace ==
  [][\A p \in Procs : state[p] = "starting" /\ state'[p] = "down" => faults' # faults]_vars
=============================================================================
