----------------------------- MODULE PanelSession -----------------------------
(***************************************************************************)
(* One open page of the panel: the session it restores, the probe that     *)
(* decides whether there is a login wall, login and logout, and the list   *)
(* of servers it polls, with deploys and deletes beside it (App.tsx,       *)
(* auth/useAuth.ts, api/http.ts).                                          *)
(*                                                                         *)
(* Requests are answered and their answers applied in any order; nothing   *)
(* on the page relates an answer to the session that asked for it.  A      *)
(* channel holds one request in flight; the page never has two of the same *)
(* kind but for polls, which have a bounded number of channels.            *)
(***************************************************************************)
EXTENDS Naturals

CONSTANTS
  Accounts,    \* users that can log in; a server belongs to one of them
  Dev,         \* the principal of a backend without a token verifier
  Admins,      \* platform administrators, who see every server
  Names,       \* server names; the channel of a DELETE is the name
  Polls,       \* channels of GET /servers
  None,
  MaxClicks,   \* bound: logins, logouts, deploys, deletes and reloads
  MaxChanges,  \* bound: changes by others, expired tokens
  MaxFaults    \* bound: requests or answers lost

Channels == {"restore", "probe", "login", "create"} \cup Names \cup Polls

Token == [id: Nat, account: Accounts]

ASSUME PanelAssumption ==
  /\ Dev \in Admins \ Accounts /\ Admins \subseteq Accounts \cup {Dev}
  /\ None \notin Accounts \cup {Dev} \cup Names \cup Token
  /\ Names \cap Polls = {}
  /\ {"restore", "probe", "login", "create"} \cap (Names \cup Polls) = {}
  /\ MaxClicks \in Nat /\ MaxChanges \in Nat /\ MaxFaults \in Nat

VARIABLES
  enforced,     \* does the backend verify tokens?
  world,        \* name |-> the owner of the server the backend lists, or None
  valid,        \* tokens the backend accepts
  storage,      \* localStorage: a token or None
  authToken,    \* the token http() sends, or None
  user,         \* the account the page shows as signed in, or None
  loading,      \* useAuth: restoring a session
  authRequired, \* "unknown" until the probe is answered, then "yes" or "no"
  servers,      \* names in the list
  reqs,         \* channel |-> the request in flight, or None
  boot,         \* the token this page found in storage when it was loaded
  clicks, changes, faults

page == <<storage, authToken, user, loading, authRequired, servers, boot>>
backend == <<enforced, world, valid>>
vars == <<backend, page, reqs, clicks, changes, faults>>

Body(c) == IF c \in {"restore", "probe"} THEN Accounts \cup {Dev}
           ELSE IF c = "login" THEN Token
           ELSE IF c \in Polls THEN SUBSET Names
           ELSE {None}

(* An answer has a body only if it is a success. *)
Request(c) ==
  {r \in [token: Token \cup {None}, arg: Accounts \cup Names \cup {None},
          state: {"sent", "ok", "error"}, body: Body(c) \cup {None}] :
     r.body \in IF r.state = "ok" THEN Body(c) ELSE {None}}

ASSUME RequestAssumption == \A c \in Channels : None \notin Request(c)

TypeOK ==
  /\ enforced \in BOOLEAN
  /\ world \in [Names -> Accounts \cup {Dev, None}]
  /\ valid \subseteq Token
  /\ storage \in Token \cup {None} /\ authToken \in Token \cup {None}
  /\ boot \in Token \cup {None}
  /\ user \in Accounts \cup {Dev, None}
  /\ loading \in BOOLEAN
  /\ authRequired \in {"unknown", "yes", "no"}
  /\ servers \subseteq Names
  /\ DOMAIN reqs = Channels
  /\ \A c \in Channels : reqs[c] # None => reqs[c] \in Request(c)
  /\ clicks \in 0..MaxClicks /\ changes \in 0..MaxChanges /\ faults \in 0..MaxFaults

-----------------------------------------------------------------------------
(* What the page renders.                                                  *)
Gated == authRequired = "yes" /\ user = None

(* Mutant: the splash does not wait for the session to be restored. *)
Splash_probeOnly == authRequired = "unknown"

Splash == loading \/ authRequired = "unknown"

Panel == ~Splash /\ ~Gated

(* The Enterprise tab. *)
IsAdmin == authRequired # "yes" \/ user \in Admins

-----------------------------------------------------------------------------
(* Requests.                                                               *)
Sent(token, arg) == [token |-> token, arg |-> arg, state |-> "sent", body |-> None]

(* refreshServers; its request finds no channel only when all are busy.    *)
SendList(rs, token) ==
  IF \E p \in Polls : rs[p] = None
  THEN [rs EXCEPT ![CHOOSE p \in Polls : rs[p] = None] = Sent(token, None)]
  ELSE rs

(* The effect that polls runs again when the login wall goes.              *)
Ungate(rs, token) == IF Gated THEN SendList(rs, token) ELSE rs

(* The effects of a page that loads: restore the stored session, if any,   *)
(* then probe, then poll; all of them already carry the stored token.      *)
Mount(token) ==
  SendList([c \in Channels |-> IF c = "probe" \/ (c = "restore" /\ token # None)
                               THEN Sent(token, None) ELSE None], token)

Init ==
  /\ enforced \in BOOLEAN
  /\ world \in [Names -> Accounts \cup {None}]
  /\ storage \in {None} \cup [id: {0}, account: Accounts]
  /\ valid \in SUBSET {t \in {storage} : t # None}
  /\ authToken = storage /\ boot = storage /\ loading = (storage # None)
  /\ user = None /\ authRequired = "unknown" /\ servers = {}
  /\ reqs = Mount(storage)
  /\ clicks = 0 /\ changes = 0 /\ faults = 0

Click == clicks < MaxClicks /\ clicks' = clicks + 1

-----------------------------------------------------------------------------
(* The user and the timer.                                                 *)
Reload ==
  /\ Click
  /\ authToken' = storage /\ boot' = storage /\ loading' = (storage # None)
  /\ user' = None /\ authRequired' = "unknown" /\ servers' = {}
  /\ reqs' = Mount(storage)
  /\ UNCHANGED <<backend, storage, changes, faults>>

(* Mutant: the interval is not set again once the wall goes. *)
Poll_onceUngated(p) ==
  /\ authRequired # "yes" /\ reqs[p] = None
  /\ reqs' = [reqs EXCEPT ![p] = Sent(authToken, None)]
  /\ UNCHANGED <<backend, page, clicks, changes, faults>>

Poll(p) ==
  /\ ~Gated /\ reqs[p] = None
  /\ reqs' = [reqs EXCEPT ![p] = Sent(authToken, None)]
  /\ UNCHANGED <<backend, page, clicks, changes, faults>>

Login(a) ==
  /\ Click /\ ~Splash /\ Gated /\ reqs["login"] = None
  /\ reqs' = [reqs EXCEPT !["login"] = Sent(authToken, a)]
  /\ UNCHANGED <<backend, page, changes, faults>>

Logout ==
  /\ Click /\ Panel /\ user # None
  /\ storage' = None /\ authToken' = None /\ user' = None
  /\ UNCHANGED <<backend, loading, authRequired, servers, boot, reqs, changes, faults>>

(* The deploy form is disabled while a deploy is in flight, a card while   *)
(* its delete is.                                                          *)
Deploy(n) ==
  /\ Click /\ Panel /\ reqs["create"] = None
  /\ reqs' = [reqs EXCEPT !["create"] = Sent(authToken, n)]
  /\ UNCHANGED <<backend, page, changes, faults>>

Remove(n) ==
  /\ Click /\ Panel /\ n \in servers /\ reqs[n] = None
  /\ reqs' = [reqs EXCEPT ![n] = Sent(authToken, n)]
  /\ UNCHANGED <<backend, page, changes, faults>>

-----------------------------------------------------------------------------
(* The backend.                                                            *)
Principal(token) ==
  IF ~enforced THEN Dev ELSE IF token \in valid THEN token.account ELSE None

Visible(a) == {n \in Names : world[n] # None /\ (a \in Admins \/ world[n] = a)}

Answer(c, ok, body) ==
  reqs' = [reqs EXCEPT ![c] =
             [token |-> reqs[c].token, arg |-> reqs[c].arg,
              state |-> IF ok THEN "ok" ELSE "error", body |-> IF ok THEN body ELSE None]]

Arrived(c) == reqs[c] # None /\ reqs[c].state = "sent"

ServeMe(c) ==
  /\ Arrived(c)
  /\ LET a == Principal(reqs[c].token) IN Answer(c, a # None, a)
  /\ UNCHANGED <<backend, page, clicks, changes, faults>>

ServeList(p) ==
  /\ Arrived(p)
  /\ LET a == Principal(reqs[p].token) IN Answer(p, a # None, Visible(a))
  /\ UNCHANGED <<backend, page, clicks, changes, faults>>

(* The password may be wrong.  Tokens are told apart by id. *)
ServeLogin ==
  /\ Arrived("login")
  /\ LET token == [id |-> clicks, account |-> reqs["login"].arg] IN
     \/ Answer("login", TRUE, token) /\ valid' = valid \cup {token}
     \/ Answer("login", FALSE, None) /\ UNCHANGED valid
  /\ UNCHANGED <<enforced, world, page, clicks, changes, faults>>

ServeCreate ==
  /\ Arrived("create")
  /\ LET a == Principal(reqs["create"].token)
         n == reqs["create"].arg
         ok == a # None /\ world[n] = None
     IN /\ Answer("create", ok, None)
        /\ world' = IF ok THEN [world EXCEPT ![n] = a] ELSE world
  /\ UNCHANGED <<enforced, valid, page, clicks, changes, faults>>

(* The mock drops a deleted server at once; the cluster lists it until its *)
(* finalizer is lifted (Others).                                           *)
ServeDelete(n) ==
  /\ Arrived(n)
  /\ LET a == Principal(reqs[n].token)
         ok == a # None /\ n \in Visible(a)
     IN /\ Answer(n, ok, None)
        /\ \/ ok /\ world' = [world EXCEPT ![n] = None]
           \/ UNCHANGED world
  /\ UNCHANGED <<enforced, valid, page, clicks, changes, faults>>

Serve ==
  \/ \E c \in {"restore", "probe"} : ServeMe(c)
  \/ \E p \in Polls : ServeList(p)
  \/ \E n \in Names : ServeDelete(n)
  \/ ServeLogin \/ ServeCreate

Change == changes < MaxChanges /\ changes' = changes + 1

(* Other clients and the operator. *)
Others ==
  /\ Change
  /\ \E n \in Names, a \in Accounts \cup {None} : world' = [world EXCEPT ![n] = a]
  /\ UNCHANGED <<enforced, valid, page, reqs, clicks, faults>>

Expire ==
  /\ Change
  /\ \E t \in valid : valid' = valid \ {t}
  /\ UNCHANGED <<enforced, world, page, reqs, clicks, faults>>

(* A request or an answer is lost: fetch rejects either way. *)
Lose(c) ==
  /\ reqs[c] # None /\ reqs[c].state # "error" /\ faults < MaxFaults
  /\ faults' = faults + 1
  /\ Answer(c, FALSE, None)
  /\ UNCHANGED <<backend, page, clicks, changes>>

-----------------------------------------------------------------------------
(* Answers.                                                                *)
Delivered(c) == reqs[c] # None /\ reqs[c].state # "sent"

Ok(c) == reqs[c].state = "ok"

Closed(c) == [reqs EXCEPT ![c] = None]

(* Mutant: a session that cannot be restored leaves the splash in place. *)
RestoreDone_stuck ==
  /\ Delivered("restore")
  /\ IF Ok("restore")
     THEN /\ user' = reqs["restore"].body /\ loading' = FALSE
          /\ reqs' = Ungate(Closed("restore"), authToken)
          /\ UNCHANGED <<storage, authToken>>
     ELSE /\ storage' = None /\ authToken' = None
          /\ reqs' = Closed("restore")
          /\ UNCHANGED <<user, loading>>
  /\ UNCHANGED <<backend, authRequired, servers, boot, clicks, changes, faults>>

RestoreDone ==
  /\ Delivered("restore")
  /\ loading' = FALSE
  /\ IF Ok("restore")
     THEN /\ user' = reqs["restore"].body
          /\ reqs' = Ungate(Closed("restore"), authToken)
          /\ UNCHANGED <<storage, authToken>>
     ELSE /\ storage' = None /\ authToken' = None
          /\ reqs' = Closed("restore")
          /\ UNCHANGED user
  /\ UNCHANGED <<backend, authRequired, servers, boot, clicks, changes, faults>>

(* Mutant: only an answer that says 401 counts as required. *)
ProbeDone_open ==
  /\ Delivered("probe")
  /\ \E r \in {"yes", "no"} : (Ok("probe") => r = "no") /\ authRequired' = r
  /\ reqs' = Closed("probe")
  /\ UNCHANGED <<backend, storage, authToken, user, loading, servers, boot, clicks, changes, faults>>

ProbeDone ==
  /\ Delivered("probe")
  /\ authRequired' = IF Ok("probe") THEN "no" ELSE "yes"
  /\ reqs' = Closed("probe")
  /\ UNCHANGED <<backend, storage, authToken, user, loading, servers, boot, clicks, changes, faults>>

ListDone(p) ==
  /\ Delivered(p)
  /\ servers' = IF Ok(p) THEN reqs[p].body ELSE servers
  /\ reqs' = Closed(p)
  /\ UNCHANGED <<backend, storage, authToken, user, loading, authRequired, boot, clicks, changes, faults>>

LoginDone ==
  /\ Delivered("login")
  /\ IF Ok("login")
     THEN LET token == reqs["login"].body IN
          /\ storage' = token /\ authToken' = token /\ user' = token.account
          /\ reqs' = Ungate(Closed("login"), token)
     ELSE /\ reqs' = Closed("login")
          /\ UNCHANGED <<storage, authToken, user>>
  /\ UNCHANGED <<backend, loading, authRequired, servers, boot, clicks, changes, faults>>

CreateDone ==
  /\ Delivered("create")
  /\ reqs' = IF Ok("create") THEN SendList(Closed("create"), authToken) ELSE Closed("create")
  /\ UNCHANGED <<backend, page, clicks, changes, faults>>

RemoveDone(n) ==
  /\ Delivered(n)
  /\ servers' = IF Ok(n) THEN servers \ {n} ELSE servers
  /\ reqs' = Closed(n)
  /\ UNCHANGED <<backend, storage, authToken, user, loading, authRequired, boot, clicks, changes, faults>>

Done ==
  \/ RestoreDone \/ ProbeDone \/ LoginDone \/ CreateDone
  \/ \E p \in Polls : ListDone(p)
  \/ \E n \in Names : RemoveDone(n)

-----------------------------------------------------------------------------
User ==
  \/ Reload \/ Logout
  \/ \E a \in Accounts : Login(a)
  \/ \E n \in Names : Deploy(n) \/ Remove(n)

Next ==
  \/ User \/ Serve \/ Done
  \/ \E p \in Polls : Poll(p)
  \/ Others \/ Expire
  \/ \E c \in Channels : Lose(c)

SafeSpec == Init /\ [][Next]_vars

(* Every request is answered and its answer applied, and the timer fires.  *)
Exchange(c) ==
  \/ c \in {"restore", "probe"} /\ ServeMe(c)
  \/ c = "restore" /\ RestoreDone
  \/ c = "probe" /\ ProbeDone
  \/ c = "login" /\ (ServeLogin \/ LoginDone)
  \/ c = "create" /\ (ServeCreate \/ CreateDone)
  \/ c \in Polls /\ (Poll(c) \/ ServeList(c) \/ ListDone(c))
  \/ c \in Names /\ (ServeDelete(c) \/ RemoveDone(c))

Spec == SafeSpec /\ \A c \in Channels : WF_vars(Exchange(c))

-----------------------------------------------------------------------------
(* Once restored, the session is one: the page shows a user exactly if it  *)
(* sends a token, the token is that user's and the one that a reload finds.*)
SessionAgrees ==
  /\ authToken = storage
  /\ ~loading => (user = None <=> authToken = None)
  /\ user # None => user = authToken.account \/ (user = Dev /\ ~enforced)

(* A page loaded without a session: a backend that verifies tokens puts up *)
(* the login wall, after every logout again, and only administrators get   *)
(* the Enterprise tab.                                                     *)
FreshPageIsWalled ==
  enforced /\ boot = None /\ ~Splash =>
    /\ user = None => Gated
    /\ IsAdmin => user \in Admins

(* The splash always gives way, to the login wall or to the panel.         *)
SplashEnds == <>[]~Splash

(* Whatever answers of earlier sessions, deploys and deletes are still on  *)
(* the way: the list ends up being what the signed-in user may see.        *)
ListConverges ==
  <>[](~Gated /\ Principal(authToken) # None)
    => <>[](servers = Visible(Principal(authToken)))

(* The login page is shown whenever authentication is enforced and nobody  *)
(* is signed in.                                                           *)
LoginPageIfEnforced == enforced /\ ~Splash /\ user = None => Gated
=============================================================================
