--------------------------- MODULE Accounts_proofs ---------------------------
(***************************************************************************)
(* Proofs about Accounts, for any number of processes, keys, requests and  *)
(* faults.                                                                 *)
(***************************************************************************)
EXTENDS Accounts, TLAPS

(* A process that is bootstrapping works on the administrator's row, and a *)
(* token is only issued for a username.                                    *)
JobsKnow ==
  \A p \in Procs : job[p] # Idle =>
    /\ job[p].by = "bootstrap" => job[p].key = Admin
    /\ job[p].by = "google" => job[p].key \in GoogleNames

AccountsInv == TypeOK /\ JobsKnow /\ TokensName /\ ServingHasAdmin

(* A job in progress is a record; an idle process is recognised by its op. *)
LEMMA JobType ==
  ASSUME TypeOK, NEW p \in Procs, job[p].op # "idle"
  PROVE  /\ job[p] # Idle
         /\ job[p] \in [op: {"find", "check", "insert", "refetch"},
                        by: Callers, key: Keys, row: Row]
BY DEF TypeOK, Job, Idle

(* A handler that ends issues tokens only for a username and a row.        *)
LEMMA FinishType ==
  ASSUME TypeOK, NEW p \in Procs, NEW outcome, NEW issued,
         issued \subseteq [name: UserNames, row: Row], Finish(p, outcome, issued)
  PROVE  /\ state' \in [Procs -> {"down", "starting", "serving"}]
         /\ job' \in [Procs -> Job]
         /\ tokens' \subseteq [name: UserNames, row: Row]
BY DEF TypeOK, Finish, Job

(* What a step may do to the tables: nothing, or commit a row for a free   *)
(* key.                                                                    *)
RowsStep == \/ UNCHANGED rows
            \/ \E k \in Keys, r \in Row : rows[k] = None /\ rows' = [rows EXCEPT ![k] = r]

LEMMA RowsKept ==
  ASSUME TypeOK, RowsStep
  PROVE  Permanent /\ rows' \in [Keys -> Row \cup {None}]
BY AccountsAssumption DEF TypeOK, RowsStep, Permanent

(* A handler that ends keeps the invariant, if the tokens it issues name   *)
(* committed rows and a bootstrap that succeeds leaves an administrator.   *)
LEMMA FinishStep ==
  ASSUME AccountsInv, RowsStep, NEW p \in Procs, NEW outcome, NEW issued,
         issued \subseteq [name: UserNames, row: Row],
         \A t \in issued : rows'[t.name] = t.row,
         job[p] # Idle,
         job[p].by = "bootstrap" /\ outcome = "ok" => rows'[Admin] # None,
         Finish(p, outcome, issued), UNCHANGED lastId, faults' \in 0..MaxFaults
  PROVE  AccountsInv'
<1>1. TypeOK'
  <2>1. /\ state' \in [Procs -> {"down", "starting", "serving"}]
        /\ job' \in [Procs -> Job] /\ tokens' \subseteq [name: UserNames, row: Row]
    BY FinishType DEF AccountsInv
  <2>2. rows' \in [Keys -> Row \cup {None}]
    BY RowsKept DEF AccountsInv
  <2> QED
    BY <2>1, <2>2 DEF AccountsInv, TypeOK
<1>2. JobsKnow'
  BY DEF AccountsInv, JobsKnow, TypeOK, Finish
<1>3. Permanent
  BY RowsKept DEF AccountsInv
<1>4. TokensName'
  <2> SUFFICES ASSUME NEW t \in tokens' PROVE rows'[t.name] = t.row
    BY DEF TokensName
  <2>1. CASE t \in issued
    BY <2>1
  <2>2. CASE t \in tokens
    <3>1. t.name \in Keys /\ rows[t.name] = t.row /\ t.row # None
      BY <2>2, AccountsAssumption DEF AccountsInv, TypeOK, TokensName, Keys
    <3> QED
      BY <1>3, <3>1 DEF Permanent
  <2> QED
    BY <2>1, <2>2 DEF Finish
<1>5. ServingHasAdmin'
  <2> SUFFICES ASSUME NEW q \in Procs, state'[q] = "serving" PROVE rows'[Admin] # None
    BY DEF ServingHasAdmin
  <2>1. CASE state[q] = "serving"
    <3>1. rows[Admin] # None /\ Admin \in Keys
      BY <2>1, AccountsAssumption DEF AccountsInv, ServingHasAdmin, Keys
    <3> QED
      BY <1>3, <3>1 DEF Permanent
  <2>2. CASE state[q] # "serving"
    BY <2>2 DEF Finish, AccountsInv, TypeOK
  <2> QED
    BY <2>1, <2>2
<1> QED
  BY <1>1, <1>2, <1>4, <1>5 DEF AccountsInv

(* A handler that goes on with its own store call. *)
LEMMA GoStep ==
  ASSUME AccountsInv, NEW p \in Procs, NEW op \in {"check", "insert", "refetch"},
         job[p].op # "idle", Go(p, op), UNCHANGED <<rows, lastId, faults>>
  PROVE  AccountsInv'
<1>1. job[p] # Idle /\ job[p] \in [op: {"find", "check", "insert", "refetch"},
                                   by: Callers, key: Keys, row: Row]
  BY JobType DEF AccountsInv
<1>2. job' = [job EXCEPT ![p].op = op] /\ UNCHANGED <<tokens, state>>
  BY DEF Go
<1>3. job' \in [Procs -> Job]
  BY <1>1, <1>2 DEF AccountsInv, TypeOK, Job
<1>4. \A q \in Procs : job'[q] # Idle =>
        job[q] # Idle /\ job'[q].by = job[q].by /\ job'[q].key = job[q].key
  BY <1>1, <1>2 DEF AccountsInv, TypeOK
<1>5. TypeOK'
  BY <1>2, <1>3 DEF AccountsInv, TypeOK
<1>6. JobsKnow'
  BY <1>4 DEF AccountsInv, JobsKnow
<1> QED
  BY <1>2, <1>5, <1>6 DEF AccountsInv, TokensName, ServingHasAdmin

(* The token of a handler that holds a row of its key names that row.      *)
LEMMA TokenType ==
  ASSUME AccountsInv, NEW p \in Procs, job[p].op # "idle", NEW r \in Row
  PROVE  /\ Token(job[p], r) \subseteq [name: UserNames, row: Row]
         /\ \A t \in Token(job[p], r) : t.name = job[p].key /\ t.row = r
<1>1. job[p].by = "google" => job[p].key \in UserNames
  BY JobType, AccountsAssumption DEF AccountsInv, JobsKnow
<1> QED
  BY <1>1 DEF Token

-----------------------------------------------------------------------------
(* Each store call of a handler keeps the invariant. *)
LEMMA HandlerStep ==
  ASSUME AccountsInv, NEW p \in Procs, Handler(p)
  PROVE  AccountsInv' /\ Permanent
<1> DEFINE j == job[p]
<1>1. j.op # "idle"
  BY DEF Handler, Find, Check, Insert, Refetch
<1>2. /\ j # Idle /\ j.key \in Keys /\ j.row \in Row
      /\ rows[j.key] # None => rows[j.key] \in Row
      /\ j.row # None
      /\ j.by = "bootstrap" => j.key = Admin
  BY <1>1, JobType, AccountsAssumption DEF AccountsInv, JobsKnow, TypeOK
<1>3. faults \in 0..MaxFaults
  BY DEF AccountsInv, TypeOK
<1>4. CASE UNCHANGED rows
  <2>1. RowsStep /\ Permanent
    BY <1>4 DEF RowsStep, Permanent
  <2>2. ASSUME rows[j.key] # None, Finish(p, "ok", Token(j, rows[j.key])),
               UNCHANGED <<lastId, faults>>
        PROVE  AccountsInv'
    <3>1. /\ Token(j, rows[j.key]) \subseteq [name: UserNames, row: Row]
          /\ \A t \in Token(j, rows[j.key]) : t.name = j.key /\ t.row = rows[j.key]
      BY <1>1, <1>2, <2>2, TokenType
    <3> QED
      BY <1>2, <1>3, <1>4, <2>1, <2>2, <3>1, FinishStep
  <2>3. ASSUME NEW outcome, Finish(p, outcome, {}), UNCHANGED <<lastId, faults>>,
               j.by = "bootstrap" => outcome # "ok"
        PROVE  AccountsInv'
    BY <1>2, <1>3, <2>1, <2>3, FinishStep
  <2>4. ASSUME NEW op \in {"check", "insert", "refetch"}, Go(p, op),
               UNCHANGED <<lastId, faults>>
        PROVE  AccountsInv'
    BY <1>1, <1>4, <2>4, GoStep
  <2>5. CASE Find(p)
    BY <2>1, <2>2, <2>4, <2>5 DEF Find
  <2>6. CASE Check(p)
    BY <2>1, <2>3, <2>4, <2>6 DEF Check
  <2>7. CASE Insert(p)
    <3>1. rows[j.key] # None
      BY <1>2, <1>4, <2>7 DEF Insert, AccountsInv, TypeOK
    <3> QED
      BY <2>1, <2>3, <2>7, <3>1 DEF Insert
  <2>8. CASE Refetch(p)
    BY <2>1, <2>2, <2>3, <2>8 DEF Refetch
  <2> QED
    BY <2>1, <2>5, <2>6, <2>7, <2>8 DEF Handler
<1>5. CASE ~UNCHANGED rows
  <2>1. /\ rows[j.key] = None /\ rows' = [rows EXCEPT ![j.key] = j.row]
        /\ Finish(p, "ok", Token(j, j.row)) /\ UNCHANGED <<lastId, faults>>
    BY <1>5 DEF Handler, Find, Check, Insert, Refetch
  <2>2. RowsStep
    BY <1>2, <2>1 DEF RowsStep
  <2>3. rows'[j.key] = j.row
    BY <1>2, <2>1 DEF AccountsInv, TypeOK
  <2>4. /\ Token(j, j.row) \subseteq [name: UserNames, row: Row]
        /\ \A t \in Token(j, j.row) : t.name = j.key /\ t.row = j.row
    BY <1>1, <1>2, TokenType
  <2>5. AccountsInv'
    BY <1>2, <1>3, <2>1, <2>2, <2>3, <2>4, FinishStep
  <2> QED
    BY <2>2, <2>5, RowsKept DEF AccountsInv
<1> QED
  BY <1>4, <1>5

(* Everything else leaves the tables alone. *)
LEMMA OutsideStep ==
  ASSUME AccountsInv, NEW p \in Procs, Start(p) \/ Request(p) \/ StoreFails(p) \/ Crash(p)
  PROVE  AccountsInv' /\ Permanent
<1>0. UNCHANGED rows
  BY DEF Start, Request, CreateUser, GoogleCallback, CreateCustomer, Accept, Login,
         StoreFails, Crash
<1>1. Permanent
  BY <1>0 DEF Permanent
<1>2. lastId + 1 \in Nat
  BY DEF AccountsInv, TypeOK
<1>3. CASE Start(p)
  <2>1. NewJob("find", "bootstrap", Admin, "admin") \in Job
    BY <1>2, AccountsAssumption DEF NewJob, Job, Callers, Keys, Row
  <2>2. TypeOK'
    BY <1>2, <1>3, <2>1 DEF Start, AccountsInv, TypeOK
  <2>3. JobsKnow'
    BY <1>3 DEF Start, NewJob, AccountsInv, TypeOK, JobsKnow
  <2>4. TokensName' /\ ServingHasAdmin'
    BY <1>3 DEF Start, AccountsInv, TypeOK, TokensName, ServingHasAdmin
  <2> QED
    BY <1>1, <2>2, <2>3, <2>4 DEF AccountsInv
<1>4. ASSUME NEW op \in {"find", "check"}, NEW by \in {"users", "google", "customers"},
             NEW key \in Keys, NEW data \in Variants \cup {"unassigned"},
             by = "google" => key \in GoogleNames,
             Accept(p, op, by, key, data)
      PROVE  AccountsInv'
  <2>1. NewJob(op, by, key, data) \in Job
    BY <1>2, <1>4 DEF NewJob, Job, Callers, Row
  <2>2. TypeOK'
    BY <1>2, <1>4, <2>1 DEF Accept, AccountsInv, TypeOK
  <2>3. JobsKnow'
    BY <1>4 DEF Accept, NewJob, AccountsInv, TypeOK, JobsKnow
  <2>4. TokensName' /\ ServingHasAdmin'
    BY <1>4 DEF Accept, AccountsInv, TokensName, ServingHasAdmin
  <2> QED
    BY <2>2, <2>3, <2>4 DEF AccountsInv
<1>5. CASE Login(p)
  <2>1. PICK n \in UserNames : /\ rows[n] # None
                               /\ tokens' = tokens \cup {[name |-> n, row |-> rows[n]]}
    BY <1>5 DEF Login
  <2>2. rows[n] \in Row
    BY <2>1 DEF AccountsInv, TypeOK, Keys
  <2>3. UNCHANGED <<rows, state, job, lastId, faults>>
    BY <1>5 DEF Login
  <2>4. TypeOK' /\ TokensName'
    BY <2>1, <2>2, <2>3 DEF AccountsInv, TypeOK, TokensName
  <2> QED
    BY <1>1, <2>3, <2>4 DEF AccountsInv, JobsKnow, ServingHasAdmin
<1>6. CASE StoreFails(p)
  <2>1. faults' \in 0..MaxFaults /\ RowsStep
    BY <1>0, <1>6, AccountsAssumption DEF StoreFails, AccountsInv, TypeOK, RowsStep
  <2> QED
    BY <1>1, <1>6, <2>1, FinishStep DEF StoreFails
<1>7. CASE Crash(p)
  <2>1. TypeOK' /\ JobsKnow'
    BY <1>7, AccountsAssumption DEF Crash, AccountsInv, TypeOK, JobsKnow, Job
  <2>2. TokensName' /\ ServingHasAdmin'
    BY <1>7 DEF Crash, AccountsInv, TypeOK, TokensName, ServingHasAdmin
  <2> QED
    BY <1>1, <2>1, <2>2 DEF AccountsInv
<1>8. CASE CreateUser(p)
  BY <1>1, <1>4, <1>8 DEF CreateUser, Keys
<1>9. CASE GoogleCallback(p)
  BY <1>1, <1>4, <1>9, AccountsAssumption DEF GoogleCallback, Keys
<1>10. CASE CreateCustomer(p)
  BY <1>1, <1>4, <1>10 DEF CreateCustomer, Keys
<1> QED
  BY <1>3, <1>5, <1>6, <1>7, <1>8, <1>9, <1>10 DEF Request

(* The invariant holds in every reachable state, and no step replaces a    *)
(* committed row.                                                          *)
LEMMA AccountsStep == AccountsInv /\ [Next]_vars => AccountsInv' /\ Permanent
<1> SUFFICES ASSUME AccountsInv, [Next]_vars PROVE AccountsInv' /\ Permanent
  OBVIOUS
<1>1. CASE UNCHANGED vars
  BY <1>1 DEF vars, AccountsInv, TypeOK, JobsKnow, TokensName, ServingHasAdmin, Permanent
<1>2. CASE Next
  BY <1>2, HandlerStep, OutsideStep DEF Next
<1> QED
  BY <1>1, <1>2

LEMMA AccountsInvariant == SafeSpec => []AccountsInv
<1>1. Init => AccountsInv
  BY AccountsAssumption DEF Init, AccountsInv, TypeOK, JobsKnow, TokensName, ServingHasAdmin, Job
<1> QED
  BY <1>1, AccountsStep, PTL DEF SafeSpec

(* Every reachable state is well typed: only usernames get tokens.         *)
THEOREM TypeCorrect == SafeSpec => []TypeOK
  BY AccountsInvariant, PTL DEF AccountsInv

(* Whatever the processes do at the same time, and whichever of them fail, *)
(* a committed account or customer is never replaced.                      *)
THEOREM PermanentRows == SafeSpec => RowsPermanent
  BY AccountsInvariant, AccountsStep, PTL DEF SafeSpec, RowsPermanent

(* Every token names the committed account of its username.                *)
THEOREM TokensTrue == SafeSpec => []TokensName
  BY AccountsInvariant, PTL DEF AccountsInv

(* A process that serves has an administrator, whoever created it.         *)
THEOREM AdminFirst == SafeSpec => []ServingHasAdmin
  BY AccountsInvariant, PTL DEF AccountsInv
=============================================================================
