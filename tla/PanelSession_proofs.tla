------------------------- MODULE PanelSession_proofs -------------------------
(***************************************************************************)
(* Proofs of the safety properties of PanelSession.  A session can change  *)
(* in three places: the restore that is answered, a login that is          *)
(* answered, a logout.  SessionInv says that no two of them can be under   *)
(* way together: the splash stays up while a session is restored, and a    *)
(* login is in flight only behind the login wall.                          *)
(***************************************************************************)
EXTENDS PanelSession, TLAPS

Fixed == {"restore", "probe", "login", "create"}

ReqsOK(rs) ==
  /\ DOMAIN rs = Channels
  /\ \A c \in Channels : rs[c] # None => rs[c] \in Request(c)

(* What is known of the three requests that decide about the session.      *)
RestoreInv ==
  /\ loading <=> reqs["restore"] # None
  /\ loading => user = None /\ authToken # None
  /\ reqs["restore"] # None =>
       /\ reqs["restore"].token = authToken
       /\ reqs["restore"].state = "ok" =>
            \/ reqs["restore"].body = authToken.account
            \/ reqs["restore"].body = Dev /\ ~enforced

ProbeInv ==
  /\ authRequired = "unknown" <=> reqs["probe"] # None
  /\ reqs["probe"] # None =>
       /\ reqs["probe"].token = boot
       /\ enforced /\ reqs["probe"].state = "ok" => boot # None
  /\ enforced /\ boot = None => authRequired # "no"

LoginInv ==
  reqs["login"] # None => Gated /\ ~loading /\ reqs["login"].arg \in Accounts

SessionInv ==
  /\ TypeOK /\ SessionAgrees
  /\ RestoreInv /\ ProbeInv /\ LoginInv

-----------------------------------------------------------------------------
(* The kinds of channels are told apart. *)
LEMMA ChannelKinds ==
  /\ Fixed \subseteq Channels /\ Names \subseteq Channels /\ Polls \subseteq Channels
  /\ \A p \in Polls : p \notin Fixed /\ p \notin Names
  /\ \A n \in Names : n \notin Fixed /\ n \notin Polls
BY PanelAssumption DEF Fixed, Channels

(* A request that has just been sent fits every channel. *)
LEMMA SentType ==
  ASSUME NEW c \in Channels, NEW t \in Token \cup {None},
         NEW x \in Accounts \cup Names \cup {None}
  PROVE  /\ Sent(t, x) \in Request(c) /\ Sent(t, x) # None
         /\ Sent(t, x).token = t /\ Sent(t, x).arg = x /\ Sent(t, x).state = "sent"
<1>1. Sent(t, x) \in Request(c)
  BY DEF Sent, Request
<1> QED
  BY <1>1, RequestAssumption DEF Sent

(* Filling or clearing one channel. *)
LEMMA PutType ==
  ASSUME NEW rs, ReqsOK(rs), NEW c \in Channels, NEW r, r = None \/ r \in Request(c)
  PROVE  /\ ReqsOK([rs EXCEPT ![c] = r])
         /\ \A d \in Channels : [rs EXCEPT ![c] = r][d] = IF d = c THEN r ELSE rs[d]
BY DEF ReqsOK

(* refreshServers uses a poll channel and no other. *)
LEMMA SendListType ==
  ASSUME NEW rs, ReqsOK(rs), NEW t \in Token \cup {None}
  PROVE  /\ ReqsOK(SendList(rs, t))
         /\ \A c \in Channels \ Polls : SendList(rs, t)[c] = rs[c]
<1>1. CASE \E p \in Polls : rs[p] = None
  <2> DEFINE p == CHOOSE q \in Polls : rs[q] = None
  <2>1. p \in Polls
    <3>1. PICK q \in Polls : rs[q] = None
      BY <1>1
    <3> QED
      BY <3>1, Zenon
  <2>2. p \in Channels
    BY <2>1, ChannelKinds
  <2>3. Sent(t, None) \in Request(p)
    BY <2>2, SentType
  <2>4. SendList(rs, t) = [rs EXCEPT ![p] = Sent(t, None)]
    BY <1>1 DEF SendList
  <2> HIDE DEF p
  <2>5. /\ ReqsOK([rs EXCEPT ![p] = Sent(t, None)])
        /\ \A d \in Channels :
             [rs EXCEPT ![p] = Sent(t, None)][d] = IF d = p THEN Sent(t, None) ELSE rs[d]
    BY <2>2, <2>3, PutType
  <2> QED
    BY <2>1, <2>4, <2>5
<1>2. CASE ~(\E p \in Polls : rs[p] = None)
  BY <1>2 DEF SendList
<1> QED
  BY <1>1, <1>2

(* An answer fits its channel if its body does. *)
LEMMA AnswerType ==
  ASSUME ReqsOK(reqs), NEW c \in Channels, reqs[c] # None, NEW ok \in BOOLEAN, NEW body,
         ok => body \in Body(c), Answer(c, ok, body)
  PROVE  /\ ReqsOK(reqs')
         /\ \A d \in Channels : d # c => reqs'[d] = reqs[d]
         /\ reqs'[c] # None
         /\ reqs'[c].token = reqs[c].token /\ reqs'[c].arg = reqs[c].arg
         /\ reqs'[c].state = IF ok THEN "ok" ELSE "error"
         /\ reqs'[c].body = IF ok THEN body ELSE None
<1> DEFINE r == [token |-> reqs[c].token, arg |-> reqs[c].arg,
                 state |-> IF ok THEN "ok" ELSE "error", body |-> IF ok THEN body ELSE None]
<1>1. reqs[c] \in Request(c)
  BY DEF ReqsOK
<1>2. r \in Request(c)
  BY <1>1 DEF Request
<1>3. r # None
  BY <1>2, RequestAssumption
<1>4. reqs' = [reqs EXCEPT ![c] = r]
  BY DEF Answer
<1>5. /\ r.token = reqs[c].token /\ r.arg = reqs[c].arg
      /\ r.state = (IF ok THEN "ok" ELSE "error") /\ r.body = (IF ok THEN body ELSE None)
  OBVIOUS
<1> HIDE DEF r
<1>6. /\ ReqsOK([reqs EXCEPT ![c] = r])
      /\ \A d \in Channels : [reqs EXCEPT ![c] = r][d] = IF d = c THEN r ELSE reqs[d]
  BY <1>2, PutType
<1>7. ReqsOK(reqs') /\ \A d \in Channels : reqs'[d] = IF d = c THEN r ELSE reqs[d]
  BY <1>4, <1>6
<1> QED
  BY <1>3, <1>5, <1>7

(* A step that leaves the session and its three requests alone. *)
LEMMA Frame ==
  ASSUME SessionInv, TypeOK',
         UNCHANGED <<enforced, storage, authToken, user, loading, authRequired, boot>>,
         \A c \in {"restore", "probe", "login"} : reqs'[c] = reqs[c]
  PROVE  SessionInv'
BY DEF SessionInv, SessionAgrees, RestoreInv, ProbeInv, LoginInv, Gated

(* A principal is an account, or Dev where tokens are not verified. *)
LEMMA PrincipalType ==
  ASSUME TypeOK, NEW t, Principal(t) # None
  PROVE  /\ Principal(t) \in Accounts \cup {Dev}
         /\ enforced => t \in Token /\ Principal(t) = t.account
BY DEF Principal, TypeOK, Token

-----------------------------------------------------------------------------
(* What the invariant says of the whole page, for the steps below. *)
LEMMA Typed ==
  ASSUME SessionInv
  PROVE  /\ ReqsOK(reqs) /\ authToken \in Token \cup {None} /\ storage \in Token \cup {None}
         /\ clicks \in Nat
BY PanelAssumption DEF SessionInv, TypeOK, ReqsOK

(* A step that sends a request of its own on a channel that says nothing of *)
(* the session.                                                            *)
LEMMA SendStep ==
  ASSUME SessionInv, NEW c \in Channels, c \notin {"restore", "probe", "login"},
         NEW x \in Accounts \cup Names \cup {None},
         reqs' = [reqs EXCEPT ![c] = Sent(authToken, x)],
         UNCHANGED <<backend, page, changes, faults>>, clicks' \in 0..MaxClicks
  PROVE  SessionInv'
<1> DEFINE r == Sent(authToken, x)
<1>1. r \in Request(c)
  BY Typed, SentType
<1>2. reqs' = [reqs EXCEPT ![c] = r] /\ ReqsOK(reqs)
  BY Typed
<1> HIDE DEF r
<1>3. ReqsOK(reqs') /\ \A d \in Channels : reqs'[d] = IF d = c THEN r ELSE reqs[d]
  BY <1>1, <1>2 DEF ReqsOK
<1>4. TypeOK'
  BY <1>3 DEF SessionInv, TypeOK, ReqsOK, backend, page
<1>5. \A d \in {"restore", "probe", "login"} : reqs'[d] = reqs[d]
  BY <1>3, ChannelKinds DEF Fixed
<1> QED
  BY <1>4, <1>5, Frame DEF backend, page

(* The requests of a page that loads. *)
LEMMA MountType ==
  ASSUME NEW t \in Token \cup {None}
  PROVE  /\ ReqsOK(Mount(t))
         /\ Mount(t)["probe"] # None /\ Mount(t)["login"] = None
         /\ Mount(t)["probe"].token = t /\ Mount(t)["probe"].state = "sent"
         /\ Mount(t)["restore"] # None <=> t # None
         /\ Mount(t)["restore"] # None =>
              Mount(t)["restore"].token = t /\ Mount(t)["restore"].state = "sent"
<1> DEFINE base == [c \in Channels |->
                      IF c = "probe" \/ (c = "restore" /\ t # None)
                      THEN Sent(t, None) ELSE None]
<1>1. ReqsOK(base)
  BY SentType DEF ReqsOK
<1>2. /\ base["probe"] = Sent(t, None) /\ base["login"] = None
      /\ base["restore"] = IF t # None THEN Sent(t, None) ELSE None
  BY ChannelKinds DEF Fixed
<1>3. Mount(t) = SendList(base, t)
  BY DEF Mount
<1> HIDE DEF base
<1>4. /\ ReqsOK(SendList(base, t))
      /\ \A c \in Channels \ Polls : SendList(base, t)[c] = base[c]
  BY <1>1, SendListType
<1>5. /\ Sent(t, None) # None /\ Sent(t, None).token = t /\ Sent(t, None).state = "sent"
  BY SentType, ChannelKinds DEF Fixed
<1>6. /\ Mount(t)["probe"] = base["probe"] /\ Mount(t)["login"] = base["login"]
      /\ Mount(t)["restore"] = base["restore"]
  BY <1>3, <1>4, ChannelKinds DEF Fixed
<1> QED
  BY <1>2, <1>3, <1>4, <1>5, <1>6

LEMMA InitSession == Init => SessionInv
<1> SUFFICES ASSUME Init PROVE SessionInv
  OBVIOUS
<1>1. /\ storage \in Token \cup {None} /\ valid \subseteq {storage} \ {None}
      /\ authToken = storage /\ boot = storage /\ loading = (storage # None)
      /\ user = None /\ authRequired = "unknown" /\ reqs = Mount(storage)
  BY DEF Init, Token
<1>2. TypeOK
  BY <1>1, MountType, PanelAssumption DEF Init, TypeOK, ReqsOK
<1>3. SessionAgrees /\ LoginInv
  BY <1>1, MountType DEF SessionAgrees, LoginInv
<1>4. RestoreInv /\ ProbeInv
  BY <1>1, MountType DEF RestoreInv, ProbeInv
<1> QED
  BY <1>2, <1>3, <1>4 DEF SessionInv

LEMMA ReloadStep ==
  ASSUME SessionInv, Reload
  PROVE  SessionInv'
<1>1. /\ storage \in Token \cup {None} /\ storage' = storage
      /\ authToken' = storage /\ boot' = storage /\ loading' = (storage # None)
      /\ user' = None /\ authRequired' = "unknown" /\ reqs' = Mount(storage)
  BY Typed DEF Reload
<1>2. TypeOK'
  <2>1. clicks' \in 0..MaxClicks
    BY Typed, PanelAssumption DEF Reload, Click
  <2> QED
    BY <1>1, <2>1, MountType DEF Reload, backend, SessionInv, TypeOK, ReqsOK
<1>3. SessionAgrees' /\ LoginInv'
  BY <1>1, MountType DEF SessionAgrees, LoginInv
<1>4. RestoreInv' /\ ProbeInv'
  BY <1>1, MountType DEF RestoreInv, ProbeInv
<1> QED
  BY <1>2, <1>3, <1>4 DEF SessionInv

-----------------------------------------------------------------------------
(* The backend's answers. *)
LEMMA ServeMeStep ==
  ASSUME SessionInv, NEW c \in {"restore", "probe"}, ServeMe(c)
  PROVE  SessionInv'
<1> DEFINE a == Principal(reqs[c].token)
<1>1. c \in Channels /\ reqs[c] # None /\ ReqsOK(reqs) /\ Answer(c, a # None, a)
      /\ UNCHANGED <<backend, page, clicks, changes, faults>>
  BY Typed, ChannelKinds DEF Fixed, ServeMe, Arrived
<1>2. a # None => a \in Body(c) /\ (enforced => reqs[c].token \in Token
                                           /\ a = reqs[c].token.account)
  BY PrincipalType DEF Body, SessionInv
<1>d. ~enforced => a = Dev
  BY DEF Principal
<1> HIDE DEF a
<1>3. /\ ReqsOK(reqs')
      /\ \A d \in Channels : d # c => reqs'[d] = reqs[d]
      /\ reqs'[c] # None
      /\ reqs'[c].token = reqs[c].token
      /\ reqs'[c].state = IF a # None THEN "ok" ELSE "error"
      /\ reqs'[c].body = IF a # None THEN a ELSE None
  BY <1>1, <1>2, AnswerType
<1>4. TypeOK'
  BY <1>1, <1>3 DEF SessionInv, TypeOK, ReqsOK, backend, page
<1>5. /\ UNCHANGED <<enforced, storage, authToken, user, loading, authRequired, boot>>
      /\ reqs'["login"] = reqs["login"]
  BY <1>1, <1>3, ChannelKinds DEF Fixed, backend, page
<1>6. SessionAgrees' /\ LoginInv'
  BY <1>5 DEF SessionInv, SessionAgrees, LoginInv, Gated
<1>7. CASE c = "restore"
  <2>1. reqs'["probe"] = reqs["probe"]
    BY <1>3, <1>7, ChannelKinds DEF Fixed
  <2>2. ProbeInv'
    BY <1>5, <2>1 DEF SessionInv, ProbeInv
  <2>3. RestoreInv'
    BY <1>1, <1>2, <1>d, <1>3, <1>5, <1>7 DEF SessionInv, RestoreInv
  <2> QED
    BY <1>4, <1>6, <2>2, <2>3 DEF SessionInv
<1>8. CASE c = "probe"
  <2>1. reqs'["restore"] = reqs["restore"]
    BY <1>3, <1>8, ChannelKinds DEF Fixed
  <2>2. RestoreInv'
    BY <1>5, <2>1 DEF SessionInv, RestoreInv
  <2>3. None \notin Token
    BY PanelAssumption
  <2>4. ProbeInv'
    BY <1>1, <1>2, <1>3, <1>5, <1>8, <2>3 DEF SessionInv, ProbeInv
  <2> QED
    BY <1>4, <1>6, <2>2, <2>4 DEF SessionInv
<1> QED
  BY <1>7, <1>8

(* An answer to a request that says nothing of the session. *)
LEMMA OtherAnswer ==
  ASSUME SessionInv, NEW c \in Channels, c \notin {"restore", "probe", "login"}, reqs[c] # None,
         NEW ok \in BOOLEAN, NEW body, ok => body \in Body(c), Answer(c, ok, body),
         world' \in [Names -> Accounts \cup {Dev, None}],
         UNCHANGED <<enforced, valid, page, clicks, changes>>, faults' \in 0..MaxFaults
  PROVE  SessionInv'
<1>1. ReqsOK(reqs') /\ \A d \in Channels : d # c => reqs'[d] = reqs[d]
  BY Typed, AnswerType
<1>2. TypeOK'
  BY <1>1 DEF SessionInv, TypeOK, ReqsOK, page
<1>3. \A d \in {"restore", "probe", "login"} : reqs'[d] = reqs[d]
  BY <1>1, ChannelKinds DEF Fixed
<1> QED
  BY <1>2, <1>3, Frame DEF page

LEMMA ServeListStep ==
  ASSUME SessionInv, NEW p \in Polls, ServeList(p)
  PROVE  SessionInv'
<1> DEFINE a == Principal(reqs[p].token)
<1>1. /\ p \in Channels /\ p \notin {"restore", "probe", "login"}
      /\ reqs[p] # None /\ Answer(p, a # None, Visible(a))
      /\ UNCHANGED <<backend, page, clicks, changes, faults>>
  BY ChannelKinds DEF Fixed, ServeList, Arrived
<1>2. Visible(a) \in Body(p)
  BY ChannelKinds DEF Visible, Body, Fixed
<1>3. /\ world' \in [Names -> Accounts \cup {Dev, None}] /\ faults' \in 0..MaxFaults
      /\ UNCHANGED <<enforced, valid, page, clicks, changes>>
  BY <1>1 DEF SessionInv, TypeOK, backend
<1> HIDE DEF a
<1> QED
  BY <1>1, <1>2, <1>3, OtherAnswer

LEMMA ServeCreateStep ==
  ASSUME SessionInv, ServeCreate
  PROVE  SessionInv'
<1> DEFINE a == Principal(reqs["create"].token)
           n == reqs["create"].arg
           ok == a # None /\ world[n] = None
<1>1. /\ "create" \in Channels /\ "create" \notin {"restore", "probe", "login"}
      /\ reqs["create"] # None /\ Answer("create", ok, None)
      /\ world' = IF ok THEN [world EXCEPT ![n] = a] ELSE world
      /\ UNCHANGED <<enforced, valid, page, clicks, changes, faults>>
  BY ChannelKinds DEF Fixed, ServeCreate, Arrived
<1>2. None \in Body("create")
  BY PanelAssumption DEF Body
<1>3. a # None => a \in Accounts \cup {Dev}
  BY PrincipalType DEF SessionInv
<1>4. ok \in BOOLEAN /\ (ok => a # None)
  OBVIOUS
<1> HIDE DEF a, n, ok
<1>5. world' \in [Names -> Accounts \cup {Dev, None}] /\ faults' \in 0..MaxFaults
  BY <1>1, <1>3, <1>4 DEF SessionInv, TypeOK
<1> QED
  BY <1>1, <1>2, <1>4, <1>5, OtherAnswer

LEMMA ServeDeleteStep ==
  ASSUME SessionInv, NEW n \in Names, ServeDelete(n)
  PROVE  SessionInv'
<1> DEFINE a == Principal(reqs[n].token)
           ok == a # None /\ n \in Visible(a)
<1>1. /\ n \in Channels /\ n \notin {"restore", "probe", "login"}
      /\ reqs[n] # None /\ Answer(n, ok, None)
      /\ world' = [world EXCEPT ![n] = None] \/ UNCHANGED world
      /\ UNCHANGED <<enforced, valid, page, clicks, changes, faults>>
  BY ChannelKinds DEF Fixed, ServeDelete, Arrived
<1>2. None \in Body(n)
  BY ChannelKinds DEF Body, Fixed
<1>3. ok \in BOOLEAN
  OBVIOUS
<1> HIDE DEF ok
<1>4. world' \in [Names -> Accounts \cup {Dev, None}] /\ faults' \in 0..MaxFaults
  BY <1>1 DEF SessionInv, TypeOK
<1> QED
  BY <1>1, <1>2, <1>3, <1>4, OtherAnswer

(* An answer to the login: a fresh token for the account that asked.       *)
LEMMA ServeLoginStep ==
  ASSUME SessionInv, ServeLogin
  PROVE  SessionInv'
<1> DEFINE token == [id |-> clicks, account |-> reqs["login"].arg]
<1>1. /\ "login" \in Channels /\ reqs["login"] # None /\ ReqsOK(reqs) /\ clicks \in Nat
      /\ UNCHANGED <<enforced, world, page, clicks, changes, faults>>
      /\ reqs["login"].arg \in Accounts
  BY Typed, ChannelKinds DEF Fixed, ServeLogin, Arrived, SessionInv, LoginInv
<1>2. token \in Token /\ token \in Body("login")
  BY <1>1 DEF Token, Body
<1>a. \/ Answer("login", TRUE, token) /\ valid' = valid \cup {token}
      \/ Answer("login", FALSE, None) /\ UNCHANGED valid
  BY DEF ServeLogin
<1> HIDE DEF token
<1>3. PICK ok \in BOOLEAN, body \in {token, None} :
        Answer("login", ok, body) /\ (ok => body = token) /\ valid' \subseteq valid \cup {token}
  <2>1. CASE Answer("login", TRUE, token) /\ valid' = valid \cup {token}
    BY <2>1, TRUE \in BOOLEAN
  <2>2. CASE Answer("login", FALSE, None) /\ UNCHANGED valid
    BY <2>2, FALSE \in BOOLEAN
  <2> QED
    BY <1>a, <2>1, <2>2
<1>4. /\ ReqsOK(reqs')
      /\ \A d \in Channels : d # "login" => reqs'[d] = reqs[d]
      /\ reqs'["login"] # None /\ reqs'["login"].arg = reqs["login"].arg
  BY <1>1, <1>2, <1>3, AnswerType
<1>5. TypeOK'
  BY <1>1, <1>2, <1>3, <1>4 DEF SessionInv, TypeOK, ReqsOK, page
<1>6. UNCHANGED <<enforced, storage, authToken, user, loading, authRequired, boot>>
      /\ reqs'["restore"] = reqs["restore"] /\ reqs'["probe"] = reqs["probe"]
  BY <1>1, <1>4, ChannelKinds DEF Fixed, page
<1>7. SessionAgrees' /\ RestoreInv' /\ ProbeInv'
  BY <1>6 DEF SessionInv, SessionAgrees, RestoreInv, ProbeInv
<1>8. LoginInv'
  BY <1>1, <1>4, <1>6 DEF SessionInv, LoginInv, Gated
<1> QED
  BY <1>5, <1>7, <1>8 DEF SessionInv

(* A lost request or answer. *)
LEMMA LoseStep ==
  ASSUME SessionInv, NEW c \in Channels, Lose(c)
  PROVE  SessionInv'
<1>0. faults' \in 0..MaxFaults
  BY PanelAssumption DEF Lose, SessionInv, TypeOK
<1>1. /\ reqs[c] # None /\ Answer(c, FALSE, None) /\ ReqsOK(reqs)
      /\ UNCHANGED <<backend, page, clicks, changes>>
  BY Typed DEF Lose
<1>2. /\ ReqsOK(reqs')
      /\ \A d \in Channels : d # c => reqs'[d] = reqs[d]
      /\ reqs'[c] # None /\ reqs'[c].token = reqs[c].token /\ reqs'[c].arg = reqs[c].arg
      /\ reqs'[c].state = "error"
  BY <1>1, AnswerType
<1>3. TypeOK'
  BY <1>0, <1>1, <1>2 DEF SessionInv, TypeOK, ReqsOK, backend, page
<1>4. UNCHANGED <<enforced, storage, authToken, user, loading, authRequired, boot>>
  BY <1>1 DEF backend, page
<1>5. \A d \in {"restore", "probe", "login"} :
        /\ reqs'[d] # None <=> reqs[d] # None
        /\ reqs[d] # None => /\ reqs'[d].token = reqs[d].token /\ reqs'[d].arg = reqs[d].arg
                             /\ reqs'[d] = reqs[d] \/ reqs'[d].state = "error"
  BY <1>1, <1>2, ChannelKinds DEF Fixed
<1>6. SessionAgrees' /\ LoginInv'
  BY <1>4, <1>5 DEF SessionInv, SessionAgrees, LoginInv, Gated
<1>7. RestoreInv'
  BY <1>4, <1>5 DEF SessionInv, RestoreInv
<1>8. ProbeInv'
  BY <1>4, <1>5 DEF SessionInv, ProbeInv
<1> QED
  BY <1>3, <1>6, <1>7, <1>8 DEF SessionInv

-----------------------------------------------------------------------------
(* What an answer that is applied leaves of the requests. *)
LEMMA ClosedType ==
  ASSUME ReqsOK(reqs), NEW c \in Channels
  PROVE  /\ ReqsOK(Closed(c)) /\ Closed(c)[c] = None
         /\ \A d \in Channels : d # c => Closed(c)[d] = reqs[d]
BY DEF ReqsOK, Closed

LEMMA UngateType ==
  ASSUME NEW rs, ReqsOK(rs), NEW t \in Token \cup {None}
  PROVE  /\ ReqsOK(Ungate(rs, t))
         /\ \A c \in Channels \ Polls : Ungate(rs, t)[c] = rs[c]
BY SendListType DEF Ungate

LEMMA RestoreDoneStep ==
  ASSUME SessionInv, RestoreDone
  PROVE  SessionInv'
<1>1. /\ "restore" \in Channels /\ reqs["restore"] # None /\ reqs["restore"].state # "sent"
      /\ ReqsOK(reqs) /\ authToken \in Token \cup {None} /\ reqs["restore"] \in Request("restore")
      /\ loading' = FALSE
      /\ UNCHANGED <<backend, authRequired, servers, boot, clicks, changes, faults>>
  BY Typed, ChannelKinds DEF Fixed, RestoreDone, Delivered, ReqsOK
<1>2. /\ loading /\ user = None /\ authToken # None /\ authToken = storage
      /\ reqs["login"] = None
  BY <1>1 DEF SessionInv, RestoreInv, LoginInv, SessionAgrees
<1>3. /\ ReqsOK(Closed("restore")) /\ Closed("restore")["restore"] = None
      /\ Closed("restore")["probe"] = reqs["probe"] /\ Closed("restore")["login"] = None
  BY <1>1, <1>2, ClosedType, ChannelKinds DEF Fixed
<1>4. /\ ReqsOK(Ungate(Closed("restore"), authToken))
      /\ \A c \in Channels \ Polls : Ungate(Closed("restore"), authToken)[c] = Closed("restore")[c]
  BY <1>1, <1>3, UngateType
<1>5. /\ ReqsOK(reqs') /\ reqs'["restore"] = None
      /\ reqs'["probe"] = reqs["probe"] /\ reqs'["login"] = None
  BY <1>3, <1>4, ChannelKinds DEF Fixed, RestoreDone
<1>6. CASE Ok("restore")
  <2>1. user' = reqs["restore"].body /\ UNCHANGED <<storage, authToken>>
    BY <1>6 DEF RestoreDone
  <2>2. reqs["restore"].body \in Accounts \cup {Dev}
    BY <1>1, <1>6 DEF Ok, Request, Body
  <2>3. reqs["restore"].body = authToken.account \/ (reqs["restore"].body = Dev /\ ~enforced)
    BY <1>1, <1>6 DEF Ok, SessionInv, RestoreInv
  <2>4. TypeOK'
    BY <1>1, <1>5, <2>1, <2>2 DEF SessionInv, TypeOK, ReqsOK, backend
  <2>5. SessionAgrees'
    BY <1>1, <1>2, <2>1, <2>2, <2>3, PanelAssumption DEF SessionAgrees, backend
  <2> QED
    BY <1>1, <1>5, <2>4, <2>5 DEF SessionInv, RestoreInv, ProbeInv, LoginInv, backend
<1>7. CASE ~Ok("restore")
  <2>1. storage' = None /\ authToken' = None /\ user' = None
    BY <1>2, <1>7 DEF RestoreDone
  <2>2. TypeOK'
    BY <1>1, <1>5, <2>1 DEF SessionInv, TypeOK, ReqsOK, backend
  <2>3. SessionAgrees'
    BY <2>1 DEF SessionAgrees
  <2> QED
    BY <1>1, <1>5, <2>1, <2>2, <2>3 DEF SessionInv, RestoreInv, ProbeInv, LoginInv, backend
<1> QED
  BY <1>6, <1>7

LEMMA ProbeDoneStep ==
  ASSUME SessionInv, ProbeDone
  PROVE  SessionInv'
<1>1. /\ "probe" \in Channels /\ reqs["probe"] # None /\ reqs["probe"].state # "sent"
      /\ ReqsOK(reqs) /\ reqs' = Closed("probe")
      /\ authRequired' = IF reqs["probe"].state = "ok" THEN "no" ELSE "yes"
      /\ UNCHANGED <<backend, storage, authToken, user, loading, servers, boot, clicks, changes, faults>>
  BY Typed, ChannelKinds DEF Fixed, ProbeDone, Delivered, Ok
<1>2. /\ ReqsOK(reqs') /\ reqs'["probe"] = None
      /\ reqs'["restore"] = reqs["restore"] /\ reqs'["login"] = reqs["login"]
  BY <1>1, ClosedType, ChannelKinds DEF Fixed
<1>3. authRequired = "unknown" /\ reqs["login"] = None
  BY <1>1 DEF SessionInv, ProbeInv, LoginInv, Gated
<1>4. TypeOK'
  BY <1>1, <1>2 DEF SessionInv, TypeOK, ReqsOK, backend
<1>5. SessionAgrees' /\ RestoreInv' /\ LoginInv'
  BY <1>1, <1>2, <1>3 DEF SessionInv, SessionAgrees, RestoreInv, LoginInv, backend
<1>6. ProbeInv'
  BY <1>1, <1>2 DEF SessionInv, ProbeInv, backend
<1> QED
  BY <1>4, <1>5, <1>6 DEF SessionInv

LEMMA LoginDoneStep ==
  ASSUME SessionInv, LoginDone
  PROVE  SessionInv'
<1> DEFINE token == reqs["login"].body
<1>1. /\ "login" \in Channels /\ reqs["login"] # None /\ ReqsOK(reqs)
      /\ reqs["login"] \in Request("login")
      /\ UNCHANGED <<backend, loading, authRequired, servers, boot, clicks, changes, faults>>
  BY Typed, ChannelKinds DEF Fixed, LoginDone, Delivered, ReqsOK
<1>2. ~loading /\ reqs["restore"] = None /\ user = None
  BY <1>1 DEF SessionInv, LoginInv, RestoreInv, Gated
<1>3. /\ ReqsOK(Closed("login")) /\ Closed("login")["login"] = None
      /\ Closed("login")["probe"] = reqs["probe"] /\ Closed("login")["restore"] = None
  BY <1>1, <1>2, ClosedType, ChannelKinds DEF Fixed
<1>4. CASE Ok("login")
  <2>1. token \in Token
    BY <1>1, <1>4 DEF Ok, Request, Body
  <2>2. /\ storage' = token /\ authToken' = token /\ user' = token.account
        /\ reqs' = Ungate(Closed("login"), token)
    BY <1>4 DEF LoginDone
  <2> HIDE DEF token
  <2>3. token # None /\ token.account \in Accounts /\ token.account # None
    BY <2>1, PanelAssumption DEF Token
  <2>4. /\ ReqsOK(Ungate(Closed("login"), token))
        /\ \A c \in Channels \ Polls : Ungate(Closed("login"), token)[c] = Closed("login")[c]
    BY <1>3, <2>1, UngateType
  <2>5. /\ ReqsOK(reqs') /\ reqs'["login"] = None
        /\ reqs'["probe"] = reqs["probe"] /\ reqs'["restore"] = None
    BY <1>3, <2>2, <2>4, ChannelKinds DEF Fixed
  <2>6. TypeOK'
    BY <1>1, <2>1, <2>2, <2>3, <2>5 DEF SessionInv, TypeOK, ReqsOK, backend
  <2>7. SessionAgrees'
    BY <2>2, <2>3 DEF SessionAgrees
  <2> QED
    BY <1>1, <1>2, <2>5, <2>6, <2>7 DEF SessionInv, RestoreInv, ProbeInv, LoginInv, backend
<1>5. CASE ~Ok("login")
  <2>1. reqs' = Closed("login") /\ UNCHANGED <<storage, authToken, user>>
    BY <1>5 DEF LoginDone
  <2>2. TypeOK'
    BY <1>1, <1>3, <2>1 DEF SessionInv, TypeOK, ReqsOK, backend
  <2> QED
    BY <1>1, <1>2, <1>3, <2>1, <2>2
    DEF SessionInv, SessionAgrees, RestoreInv, ProbeInv, LoginInv, backend
<1> QED
  BY <1>4, <1>5

(* The answers to polls, deploys and deletes. *)
LEMMA OtherDone ==
  ASSUME SessionInv, NEW c \in Channels, c \notin {"restore", "probe", "login"}, reqs[c] # None,
         reqs' = Closed(c) \/ reqs' = SendList(Closed(c), authToken), servers' \subseteq Names,
         UNCHANGED <<backend, storage, authToken, user, loading, authRequired, boot, clicks, changes, faults>>
  PROVE  SessionInv'
<1>1. /\ ReqsOK(Closed(c)) /\ \A d \in Channels : d # c => Closed(c)[d] = reqs[d]
  BY Typed, ClosedType
<1>2. /\ ReqsOK(SendList(Closed(c), authToken))
      /\ \A d \in Channels \ Polls : SendList(Closed(c), authToken)[d] = Closed(c)[d]
  BY <1>1, Typed, SendListType
<1>3. ReqsOK(reqs') /\ \A d \in {"restore", "probe", "login"} : reqs'[d] = reqs[d]
  BY <1>1, <1>2, ChannelKinds DEF Fixed
<1>4. TypeOK'
  BY <1>3 DEF SessionInv, TypeOK, ReqsOK, backend
<1> QED
  BY <1>3, <1>4, Frame DEF backend

LEMMA ListDoneStep ==
  ASSUME SessionInv, NEW p \in Polls, ListDone(p)
  PROVE  SessionInv'
<1>1. /\ p \in Channels /\ p \notin {"restore", "probe", "login"} /\ reqs[p] # None
      /\ reqs[p] \in Request(p) /\ reqs' = Closed(p)
      /\ UNCHANGED <<backend, storage, authToken, user, loading, authRequired, boot, clicks, changes, faults>>
  BY Typed, ChannelKinds DEF Fixed, ListDone, Delivered, ReqsOK
<1>2. Ok(p) => reqs[p].body \in SUBSET Names
  BY <1>1, ChannelKinds DEF Ok, Request, Body, Fixed
<1>3. servers' \subseteq Names
  BY <1>2 DEF ListDone, SessionInv, TypeOK
<1> QED
  BY <1>1, <1>3, OtherDone

LEMMA RemoveDoneStep ==
  ASSUME SessionInv, NEW n \in Names, RemoveDone(n)
  PROVE  SessionInv'
<1>1. /\ n \in Channels /\ n \notin {"restore", "probe", "login"} /\ reqs[n] # None
      /\ reqs' = Closed(n)
      /\ UNCHANGED <<backend, storage, authToken, user, loading, authRequired, boot, clicks, changes, faults>>
  BY ChannelKinds DEF Fixed, RemoveDone, Delivered
<1>2. servers' \subseteq Names
  BY DEF RemoveDone, SessionInv, TypeOK
<1> QED
  BY <1>1, <1>2, OtherDone

LEMMA CreateDoneStep ==
  ASSUME SessionInv, CreateDone
  PROVE  SessionInv'
<1>1. /\ "create" \in Channels /\ "create" \notin {"restore", "probe", "login"}
      /\ reqs["create"] # None
      /\ reqs' = Closed("create") \/ reqs' = SendList(Closed("create"), authToken)
      /\ UNCHANGED <<backend, storage, authToken, user, loading, authRequired, boot, clicks, changes, faults>>
  BY ChannelKinds DEF Fixed, CreateDone, Delivered, page
<1>2. servers' \subseteq Names
  BY DEF CreateDone, page, SessionInv, TypeOK
<1> QED
  BY <1>1, <1>2, OtherDone

-----------------------------------------------------------------------------
(* The user's steps. *)
LEMMA ClickType ==
  ASSUME SessionInv, Click
  PROVE  clicks' \in 0..MaxClicks
BY PanelAssumption DEF SessionInv, TypeOK, Click

LEMMA LoginStep ==
  ASSUME SessionInv, NEW a \in Accounts, Login(a)
  PROVE  SessionInv'
<1> DEFINE r == Sent(authToken, a)
<1>1. /\ "login" \in Channels /\ Gated /\ ~loading /\ clicks' \in 0..MaxClicks
      /\ UNCHANGED <<backend, page, changes, faults>>
  BY ChannelKinds, ClickType DEF Fixed, Login, Splash
<1>2. r \in Request("login") /\ r.arg = a
  BY <1>1, Typed, SentType
<1>3. reqs' = [reqs EXCEPT !["login"] = r] /\ ReqsOK(reqs)
  BY Typed DEF Login
<1> HIDE DEF r
<1>4. /\ ReqsOK(reqs') /\ reqs'["login"] = r
      /\ reqs'["restore"] = reqs["restore"] /\ reqs'["probe"] = reqs["probe"]
  BY <1>1, <1>2, <1>3, ChannelKinds DEF ReqsOK, Fixed
<1>5. TypeOK'
  BY <1>1, <1>4 DEF SessionInv, TypeOK, ReqsOK, backend, page
<1> QED
  BY <1>1, <1>2, <1>4, <1>5
  DEF SessionInv, SessionAgrees, RestoreInv, ProbeInv, LoginInv, Gated, backend, page

LEMMA LogoutStep ==
  ASSUME SessionInv, Logout
  PROVE  SessionInv'
<1>1. /\ ~loading /\ user # None /\ storage' = None /\ authToken' = None /\ user' = None
      /\ clicks' \in 0..MaxClicks
      /\ UNCHANGED <<backend, loading, authRequired, servers, boot, reqs, changes, faults>>
  BY ClickType DEF Logout, Panel, Splash
<1>2. reqs["restore"] = None /\ reqs["login"] = None
  BY <1>1 DEF SessionInv, RestoreInv, LoginInv, Gated
<1>3. TypeOK'
  BY <1>1 DEF SessionInv, TypeOK, backend
<1> QED
  BY <1>1, <1>2, <1>3 DEF SessionInv, SessionAgrees, RestoreInv, ProbeInv, LoginInv, backend

LEMMA UserStep ==
  ASSUME SessionInv, User
  PROVE  SessionInv'
<1>1. CASE \E n \in Names : Deploy(n) \/ Remove(n)
  <2>1. PICK n \in Names, c \in Channels :
          /\ c \notin {"restore", "probe", "login"}
          /\ reqs' = [reqs EXCEPT ![c] = Sent(authToken, n)]
          /\ Click /\ UNCHANGED <<backend, page, changes, faults>>
    BY <1>1, ChannelKinds DEF Fixed, Deploy, Remove
  <2>2. clicks' \in 0..MaxClicks
    BY <2>1, ClickType
  <2> QED
    BY <2>1, <2>2, SendStep
<1> QED
  BY <1>1, ReloadStep, LogoutStep, LoginStep DEF User

LEMMA PollStep ==
  ASSUME SessionInv, NEW p \in Polls, Poll(p)
  PROVE  SessionInv'
<1>1. /\ p \in Channels /\ p \notin {"restore", "probe", "login"}
      /\ reqs' = [reqs EXCEPT ![p] = Sent(authToken, None)]
      /\ UNCHANGED <<backend, page, clicks, changes, faults>>
  BY ChannelKinds DEF Fixed, Poll
<1>2. clicks' \in 0..MaxClicks
  BY <1>1 DEF SessionInv, TypeOK
<1> QED
  BY <1>1, <1>2, SendStep

(* Servers that come and go, tokens that expire. *)
LEMMA ChangeStep ==
  ASSUME SessionInv, Others \/ Expire
  PROVE  SessionInv'
<1>1. UNCHANGED <<enforced, page, reqs, clicks, faults>>
  BY DEF Others, Expire
<1>2. changes' \in 0..MaxChanges
  BY PanelAssumption DEF Others, Expire, Change, SessionInv, TypeOK
<1>3. world' \in [Names -> Accounts \cup {Dev, None}] /\ valid' \subseteq Token
  BY DEF Others, Expire, SessionInv, TypeOK
<1>4. TypeOK'
  BY <1>1, <1>2, <1>3 DEF SessionInv, TypeOK, page
<1> QED
  BY <1>1, <1>4, Frame DEF page

-----------------------------------------------------------------------------
LEMMA SessionStep ==
  ASSUME SessionInv, [Next]_vars
  PROVE  SessionInv'
<1>1. CASE Serve
  BY <1>1, ServeMeStep, ServeListStep, ServeDeleteStep, ServeLoginStep, ServeCreateStep DEF Serve
<1>2. CASE Done
  BY <1>2, RestoreDoneStep, ProbeDoneStep, LoginDoneStep, CreateDoneStep, ListDoneStep,
     RemoveDoneStep DEF Done
<1>3. CASE UNCHANGED vars
  BY <1>3 DEF vars, backend, page, SessionInv, TypeOK, SessionAgrees,
              RestoreInv, ProbeInv, LoginInv, Gated
<1> QED
  BY <1>1, <1>2, <1>3, UserStep, PollStep, ChangeStep, LoseStep DEF Next

LEMMA SessionAlways == SafeSpec => []SessionInv
<1>1. Init => SessionInv
  BY InitSession
<1>2. SessionInv /\ [Next]_vars => SessionInv'
  BY SessionStep
<1> QED
  BY <1>1, <1>2, PTL DEF SafeSpec

(* Every reachable state of the page and of its requests is well typed.    *)
THEOREM TypeCorrect == SafeSpec => []TypeOK
<1>1. SessionInv => TypeOK
  BY DEF SessionInv
<1> QED
  BY <1>1, SessionAlways, PTL

(* The user shown, the token sent and the token stored are of one session, *)
(* in whatever order answers arrive, are refused or are lost.              *)
THEOREM OneSession == SafeSpec => []SessionAgrees
<1>1. SessionInv => SessionAgrees
  BY DEF SessionInv
<1> QED
  BY <1>1, SessionAlways, PTL

(* A page loaded without a session keeps the login wall up for everybody   *)
(* and the Enterprise tab away from all but administrators.                *)
THEOREM Walled == SafeSpec => []FreshPageIsWalled
<1>1. SessionInv => FreshPageIsWalled
  BY DEF SessionInv, TypeOK, ProbeInv, FreshPageIsWalled, Splash, Gated, IsAdmin
<1> QED
  BY <1>1, SessionAlways, PTL
=============================================================================
