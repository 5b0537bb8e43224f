----------------------------- MODULE GatewayAuth -----------------------------
(***************************************************************************)
(* The cached gateway credentials of one origin, shared by processes:      *)
(* probes that resolve a token and refresh it when it has expired          *)
(* (resolveCachedToken, src/src/client/auth/gatewayAuth.ts), interactive   *)
(* logins (loginToGateway), and logouts (src/src/client/cli.ts), over the  *)
(* SQLite store of tokenStore.ts.                                          *)
(*                                                                         *)
(* The gateway rotates refresh tokens: exchanging one consumes it, and     *)
(* presenting a consumed one revokes its whole rotation family.  A refresh *)
(* token is therefore a family and a generation in it; the gateway keeps   *)
(* the generation each family is at.  Gateway and network are external:    *)
(* they are modelled as the client code and its comments describe them.    *)
(*                                                                         *)
(* SQLite: a transaction begun with BEGIN IMMEDIATE excludes every other   *)
(* writer until COMMIT or ROLLBACK, its write is invisible to others until *)
(* COMMIT, and it is rolled back when its process dies.  A writer that     *)
(* finds the lock taken waits for its busy_timeout, then fails.            *)
(***************************************************************************)
EXTENDS Naturals, Sequences

CONSTANTS
  Probes, Logins, Logouts,   \* the processes, by what they run
  Nobody,                    \* no process
  NoRow,                     \* the store has no row for the origin
  NoToken,                   \* a null refresh token
  MaxFamilies,               \* bound: logins the gateway grants
  MaxGeneration,             \* bound: rotations of a family
  MaxClients                 \* bound: client registrations

Tokens == [family : Nat, generation : Nat]

\* A stored token; the access token itself is left out but for its expiry (minus
\* the safety margin), and client 0 is a null client_id.
Rows == [client : Nat, refresh : Tokens \cup {NoToken}, expired : BOOLEAN]

ASSUME ProcessAssumption == Nobody \notin Probes

ASSUME NullAssumption == NoRow \notin Rows /\ NoToken \notin Tokens

VARIABLES
  row,        \* the committed row of the store
  holder,     \* the process whose transaction is open
  pending,    \* the row that transaction has written
  families,   \* gateway: the rotation families, families[f]
  clients,    \* gateway: the client ids it knows
  registered, \* gateway: how many client ids it has issued
  stray,      \* refresh requests still on their way though their sender gave up
  lost,       \* history: families one of whose refresh replies was abandoned
  pc, seen, reply, result,         \* probes
  loginPc, loginClient, reusing, granted,   \* logins
  logoutPc    \* logouts

storeVars   == << row, holder, pending >>
gatewayVars == << families, clients, registered, stray, lost >>
probeVars   == << pc, seen, reply, result >>
loginVars   == << loginPc, loginClient, reusing, granted >>
vars == << storeVars, gatewayVars, probeVars, loginVars, logoutPc >>

Families == [generation : Nat, revoked : BOOLEAN]

Replies == [kind : {"none", "granted", "invalid_grant", "unknown_client", "transient"},
            refresh : Tokens \cup {NoToken}]

Results == {"running", "none", "cache", "cache-refreshed", "AUTH_LOGIN_REQUIRED",
            "AUTH_TIMEOUT", "failed"}

TypeOK ==
  /\ row \in Rows \cup {NoRow}
  /\ holder \in Probes \cup {Nobody}
  /\ pending \in Rows \cup {NoRow}
  /\ families \in Seq(Families)
  /\ clients \subseteq Nat
  /\ registered \in Nat
  /\ stray \subseteq Tokens
  /\ lost \subseteq Nat
  /\ pc \in [Probes -> {"start", "lock", "discover", "grant", "reply", "commit", "ended"}]
  /\ seen \in [Probes -> Rows \cup {NoRow}]
  /\ reply \in [Probes -> Replies]
  /\ result \in [Probes -> Results]
  /\ loginPc \in [Logins -> {"start", "register", "authorize", "poll", "save", "ended"}]
  /\ loginClient \in [Logins -> Nat]
  /\ reusing \in [Logins -> BOOLEAN]
  /\ granted \in [Logins -> Tokens \cup {NoToken}]
  /\ logoutPc \in [Logouts -> {"start", "ended"}]

NoReply == [kind |-> "none", refresh |-> NoToken]

Init ==
  /\ row = NoRow
  /\ holder = Nobody
  /\ pending = NoRow
  /\ families = << >>
  /\ clients = {}
  /\ registered = 0
  /\ stray = {}
  /\ lost = {}
  /\ pc = [p \in Probes |-> "start"]
  /\ seen = [p \in Probes |-> NoRow]
  /\ reply = [p \in Probes |-> NoReply]
  /\ result = [p \in Probes |-> "running"]
  /\ loginPc = [l \in Logins |-> "start"]
  /\ loginClient = [l \in Logins |-> 0]
  /\ reusing = [l \in Logins |-> FALSE]
  /\ granted = [l \in Logins |-> NoToken]
  /\ logoutPc = [o \in Logouts |-> "start"]

-----------------------------------------------------------------------------
(* The gateway (external).                                                 *)

Refusal(kind) == [kind |-> kind, refresh |-> NoToken]

\* What presenting a token may lead to: the newest token of its family is exchanged,
\* and rotated unless the gateway leaves it be; an older one revokes the family.
Exchanges(token) ==
  LET f == token.family
      next == [token EXCEPT !.generation = @ + 1]
  IN IF families[f].revoked
     THEN {[answer |-> Refusal("invalid_grant"), families |-> families]}
     ELSE IF token.generation < families[f].generation
     THEN {[answer   |-> Refusal("invalid_grant"),
            families |-> [families EXCEPT ![f].revoked = TRUE]]}
     ELSE {[answer |-> [kind |-> "granted", refresh |-> NoToken], families |-> families]}
            \cup (IF token.generation < MaxGeneration
                  THEN {[answer   |-> [kind |-> "granted", refresh |-> next],
                         families |-> [families EXCEPT ![f].generation = @ + 1]]}
                  ELSE {})

\* The refresh request of a probe is answered; a 5xx leaves the token as it was.
GatewayAnswers(p) ==
  /\ pc[p] = "grant"
  /\ pc' = [pc EXCEPT ![p] = "reply"]
  /\ \/ /\ seen[p].client \notin clients
        /\ reply' = [reply EXCEPT ![p] = Refusal("unknown_client")]
        /\ UNCHANGED families
     \/ /\ reply' = [reply EXCEPT ![p] = Refusal("transient")]
        /\ UNCHANGED families
     \/ /\ seen[p].client \in clients
        /\ \E exchange \in Exchanges(seen[p].refresh) :
             /\ reply' = [reply EXCEPT ![p] = exchange.answer]
             /\ families' = exchange.families
  /\ UNCHANGED << storeVars, clients, registered, stray, lost, seen, result, loginVars,
                  logoutPc >>

\* A request whose sender gave up arrives all the same; its reply goes nowhere.
StrayArrives ==
  /\ \E token \in stray :
       /\ stray' = stray \ {token}
       /\ \E exchange \in Exchanges(token) : families' = exchange.families
  /\ UNCHANGED << storeVars, clients, registered, lost, probeVars, loginVars, logoutPc >>

\* The gateway is rebuilt and forgets its clients.
ForgetClients ==
  /\ clients # {}
  /\ clients' = {}
  /\ UNCHANGED << storeVars, families, registered, stray, lost, probeVars, loginVars,
                  logoutPc >>

\* The cached access token comes within the safety margin of its expiry.
TokenExpires ==
  /\ row # NoRow
  /\ ~row.expired
  /\ row' = [row EXCEPT !.expired = TRUE]
  /\ UNCHANGED << holder, pending, gatewayVars, probeVars, loginVars, logoutPc >>

-----------------------------------------------------------------------------
(* The store.                                                              *)

\* BEGIN IMMEDIATE is refused to everybody else while a transaction is open.
LockFree == holder = Nobody

\* COMMIT publishes what the transaction wrote.
CommitTransaction ==
  /\ row' = IF pending = NoRow THEN row ELSE pending
  /\ pending' = NoRow
  /\ holder' = Nobody

\* ROLLBACK, by the store or because the process died.
Rollback ==
  /\ pending' = NoRow
  /\ holder' = Nobody
  /\ UNCHANGED row

-----------------------------------------------------------------------------
(* resolveCachedToken.                                                     *)

Usable == row # NoRow /\ ~row.expired

Refreshable == row # NoRow /\ row.expired /\ row.refresh # NoToken

Unrefreshable == row # NoRow => row.expired /\ row.refresh = NoToken

End(p, how) ==
  /\ pc' = [pc EXCEPT ![p] = "ended"]
  /\ result' = [result EXCEPT ![p] = how]

\* The store is read; only an expired row with a refresh token leads further.
ReadCache(p) ==
  /\ pc[p] = "start"
  /\ seen' = [seen EXCEPT ![p] = row]
  /\ \/ row = NoRow /\ End(p, "none")
     \/ Usable /\ End(p, "cache")
     \/ row # NoRow /\ Unrefreshable /\ End(p, "AUTH_LOGIN_REQUIRED")
     \/ /\ Refreshable
        /\ pc' = [pc EXCEPT ![p] = "lock"]
        /\ UNCHANGED result
  /\ UNCHANGED << storeVars, gatewayVars, reply, loginVars, logoutPc >>

\* Mutant: the wait for the lock has no budget.
LockWaitsForever(p) ==
  /\ pc[p] = "lock"
  /\ ~LockFree
  /\ UNCHANGED vars

\* The lock is not had within the budget.
LockTimesOut(p) ==
  /\ pc[p] = "lock"
  /\ ~LockFree
  /\ End(p, "AUTH_TIMEOUT")
  /\ UNCHANGED << storeVars, gatewayVars, seen, reply, loginVars, logoutPc >>

\* Mutant: the row read before the lock was had is the one that is refreshed.
AcquireWithoutRereading(p) ==
  /\ pc[p] = "lock"
  /\ LockFree
  /\ holder' = p
  /\ pc' = [pc EXCEPT ![p] = "discover"]
  /\ UNCHANGED << row, pending, gatewayVars, seen, reply, result, loginVars, logoutPc >>

\* Mutant: the refresh is not serialized.
AcquireRegardless(p) ==
  /\ pc[p] = "lock"
  /\ Refreshable
  /\ holder' = p
  /\ seen' = [seen EXCEPT ![p] = row]
  /\ pc' = [pc EXCEPT ![p] = "discover"]
  /\ UNCHANGED << row, pending, gatewayVars, reply, result, loginVars, logoutPc >>

\* The lock is had: unless the budget is spent by then, the row is read again, and
\* refreshed only if it still has to be.
Acquire(p) ==
  /\ pc[p] = "lock"
  /\ LockFree
  /\ \/ /\ End(p, "AUTH_TIMEOUT")
        /\ UNCHANGED << holder, seen >>
     \/ /\ Unrefreshable
        /\ End(p, "AUTH_LOGIN_REQUIRED")
        /\ UNCHANGED << holder, seen >>
     \/ /\ Usable
        /\ End(p, "cache-refreshed")
        /\ UNCHANGED << holder, seen >>
     \/ /\ Refreshable
        /\ holder' = p
        /\ seen' = [seen EXCEPT ![p] = row]
        /\ pc' = [pc EXCEPT ![p] = "discover"]
        /\ UNCHANGED result
  /\ UNCHANGED << row, pending, gatewayVars, reply, loginVars, logoutPc >>

\* The endpoints are known; the refresh request is sent.
Discovered(p) ==
  /\ pc[p] = "discover"
  /\ pc' = [pc EXCEPT ![p] = "grant"]
  /\ UNCHANGED << storeVars, gatewayVars, seen, reply, result, loginVars, logoutPc >>

\* Mutant: the refresh token in the reply is not kept.
SaveKeepingOldToken(p) ==
  /\ pc[p] = "reply"
  /\ reply[p].kind = "granted"
  /\ \E expired \in BOOLEAN : pending' = [seen[p] EXCEPT !.expired = expired]
  /\ pc' = [pc EXCEPT ![p] = "commit"]
  /\ UNCHANGED << row, holder, gatewayVars, seen, reply, result, loginVars, logoutPc >>

\* The new tokens are written; a reply without a refresh token keeps the old one.
\* An expires_in below the margin leaves the new access token expired at once.
Save(p) ==
  /\ pc[p] = "reply"
  /\ reply[p].kind = "granted"
  /\ \E expired \in BOOLEAN :
       pending' = [client  |-> seen[p].client,
                   refresh |-> IF reply[p].refresh = NoToken THEN seen[p].refresh
                                                             ELSE reply[p].refresh,
                   expired |-> expired]
  /\ pc' = [pc EXCEPT ![p] = "commit"]
  /\ UNCHANGED << row, holder, gatewayVars, seen, reply, result, loginVars, logoutPc >>

Commit(p) ==
  /\ pc[p] = "commit"
  /\ CommitTransaction
  /\ reply' = [reply EXCEPT ![p] = NoReply]
  /\ End(p, "cache-refreshed")
  /\ UNCHANGED << gatewayVars, seen, loginVars, logoutPc >>

\* The gateway refused: a dead token or client needs a login, a 5xx does not.
Refused(p) ==
  /\ pc[p] = "reply"
  /\ reply[p].kind # "granted"
  /\ Rollback
  /\ reply' = [reply EXCEPT ![p] = NoReply]
  /\ End(p, IF reply[p].kind = "transient" THEN "failed" ELSE "AUTH_LOGIN_REQUIRED")
  /\ UNCHANGED << gatewayVars, seen, loginVars, logoutPc >>

\* The family whose newest token p is about to throw away, or may be.
Abandoned(p) ==
  IF pc[p] = "grant" \/ (pc[p] \in {"reply", "commit"} /\ reply[p].refresh # NoToken)
  THEN {seen[p].refresh.family} ELSE {}

\* The budget runs out during discovery or the request, discovery fails, a reply is
\* malformed, COMMIT fails, or the process dies: the transaction is rolled back.  A
\* request that was sent may still reach the gateway.
GiveUp(p, how) ==
  /\ pc[p] \in {"discover", "grant", "reply", "commit"}
  /\ Rollback
  /\ reply' = [reply EXCEPT ![p] = NoReply]
  /\ lost' = lost \cup Abandoned(p)
  /\ stray' = IF pc[p] = "grant" /\ seen[p].client \in clients
              THEN stray \cup {seen[p].refresh} ELSE stray
  /\ End(p, how)
  /\ UNCHANGED << families, clients, registered, seen, loginVars, logoutPc >>

\* Mutant: the AbortError is not mapped to a result.
AbortUnmapped(p) == pc[p] \in {"discover", "grant"} /\ GiveUp(p, "AbortError")

\* AbortSignal.timeout, which also cuts off the body of a reply that has begun.
Abort(p) ==
  /\ pc[p] \in {"discover", "grant"} \/ reply[p].kind = "granted"
  /\ pc[p] # "commit"
  /\ GiveUp(p, "AUTH_TIMEOUT")

Fail(p) == GiveUp(p, "failed")

\* The command is run again.
Restart(p) ==
  /\ pc[p] = "ended"
  /\ pc' = [pc EXCEPT ![p] = "start"]
  /\ result' = [result EXCEPT ![p] = "running"]
  /\ UNCHANGED << storeVars, gatewayVars, seen, reply, loginVars, logoutPc >>

-----------------------------------------------------------------------------
(* loginToGateway, after endpoint discovery.                               *)

\* The cached client_id is reused, otherwise one is registered.
LoginReadsCache(l) ==
  /\ loginPc[l] = "start"
  /\ reusing' = [reusing EXCEPT ![l] = row # NoRow]
  /\ IF row # NoRow
     THEN /\ loginClient' = [loginClient EXCEPT ![l] = row.client]
          /\ loginPc' = [loginPc EXCEPT ![l] = "authorize"]
     ELSE /\ loginPc' = [loginPc EXCEPT ![l] = "register"]
          /\ UNCHANGED loginClient
  /\ UNCHANGED << storeVars, gatewayVars, probeVars, granted, logoutPc >>

Register(l) ==
  /\ loginPc[l] = "register"
  /\ registered < MaxClients
  /\ registered' = registered + 1
  /\ clients' = clients \cup {registered + 1}
  /\ loginClient' = [loginClient EXCEPT ![l] = registered + 1]
  /\ loginPc' = [loginPc EXCEPT ![l] = "authorize"]
  /\ UNCHANGED << storeVars, families, stray, lost, probeVars, reusing, granted, logoutPc >>

\* requestDeviceAuthorization; a cached client the gateway does not know is replaced once.
Authorize(l) ==
  /\ loginPc[l] = "authorize"
  /\ \/ loginClient[l] \in clients /\ loginPc' = [loginPc EXCEPT ![l] = "poll"]
     \/ /\ loginClient[l] \notin clients
        /\ loginPc' = [loginPc EXCEPT ![l] = IF reusing[l] THEN "register" ELSE "ended"]
  /\ reusing' = [reusing EXCEPT ![l] = FALSE]
  /\ UNCHANGED << storeVars, gatewayVars, probeVars, loginClient, granted, logoutPc >>

\* The user approves and a poll is answered with tokens, with or without a refresh
\* token; until then polls are answered authorization_pending or slow_down.
Poll(l) ==
  /\ loginPc[l] = "poll"
  /\ loginClient[l] \in clients
  /\ Len(families) < MaxFamilies
  /\ \/ /\ families' = Append(families, [generation |-> 1, revoked |-> FALSE])
        /\ granted' = [granted EXCEPT ![l] = [family |-> Len(families) + 1, generation |-> 1]]
     \/ /\ granted' = [granted EXCEPT ![l] = NoToken]
        /\ UNCHANGED families
  /\ loginPc' = [loginPc EXCEPT ![l] = "save"]
  /\ UNCHANGED << storeVars, clients, registered, stray, lost, probeVars, loginClient,
                  reusing, logoutPc >>

\* A single statement, its own transaction.
LoginSaves(l) ==
  /\ loginPc[l] = "save"
  /\ LockFree
  /\ \E expired \in BOOLEAN :
       row' = [client |-> loginClient[l], refresh |-> granted[l], expired |-> expired]
  /\ loginPc' = [loginPc EXCEPT ![l] = "ended"]
  /\ UNCHANGED << holder, pending, gatewayVars, probeVars, loginClient, reusing, granted,
                  logoutPc >>

\* Discovery, registration, authorization or polling fails, the user declines, or
\* the store stays locked for the busy_timeout.
LoginFails(l) ==
  /\ loginPc[l] \in {"start", "register", "authorize", "poll"}
       \/ (loginPc[l] = "save" /\ ~LockFree)
  /\ loginPc' = [loginPc EXCEPT ![l] = "ended"]
  /\ UNCHANGED << storeVars, gatewayVars, probeVars, loginClient, reusing, granted,
                  logoutPc >>

-----------------------------------------------------------------------------
(* --logout.                                                               *)

\* Mutant: the row is deleted under an open transaction.
LogoutRegardless(o) ==
  /\ logoutPc[o] = "start"
  /\ logoutPc' = [logoutPc EXCEPT ![o] = "ended"]
  /\ row' = NoRow
  /\ UNCHANGED << holder, pending, gatewayVars, probeVars, loginVars >>

\* The row is deleted, or the store stays locked and the command fails.
Logout(o) ==
  /\ logoutPc[o] = "start"
  /\ logoutPc' = [logoutPc EXCEPT ![o] = "ended"]
  /\ \/ LockFree /\ row' = NoRow
     \/ ~LockFree /\ UNCHANGED row
  /\ UNCHANGED << holder, pending, gatewayVars, probeVars, loginVars >>

-----------------------------------------------------------------------------
ProbeStep(p) ==
  \/ ReadCache(p) \/ LockTimesOut(p) \/ Acquire(p) \/ Discovered(p) \/ Save(p)
  \/ Commit(p) \/ Refused(p) \/ Abort(p)

LoginStep(l) ==
  \/ LoginReadsCache(l) \/ Register(l) \/ Authorize(l) \/ Poll(l) \/ LoginSaves(l)
  \/ LoginFails(l)

Next ==
  \/ \E p \in Probes : ProbeStep(p) \/ GatewayAnswers(p) \/ Fail(p) \/ Restart(p)
  \/ \E l \in Logins : LoginStep(l)
  \/ \E o \in Logouts : Logout(o)
  \/ StrayArrives \/ ForgetClients \/ TokenExpires

Spec == Init /\ [][Next]_vars

\* A probe is never stuck: waiting for the lock ends in the lock or its timeout, and
\* the AbortSignal ends a request that is not answered.
FairSpec == Spec /\ \A p \in Probes : WF_vars(ProbeStep(p))

-----------------------------------------------------------------------------
(* Properties.                                                             *)

Refreshing(p) == pc[p] \in {"discover", "grant", "reply", "commit"}

\* Only the lock holder refreshes, and the row it refreshes is still the committed
\* one: no login or logout slips in between the second read and COMMIT.
RefreshIsExclusive ==
  \A p \in Probes : Refreshing(p) => holder = p /\ seen[p] = row

\* The gateway never sees a consumed refresh token, whatever the interleaving of
\* probes, logins and logouts, unless a refresh was given up after its request was
\* sent: a family is revoked only after one of its replies was abandoned.
RevokedOnlyAfterLoss ==
  \A f \in DOMAIN families : families[f].revoked => f \in lost

\* AUTH_LOGIN_REQUIRED is never the effect of another process's refresh: the row is
\* gone or has no refresh token, or the gateway forgot the client, or the family
\* suffered an abandoned refresh.
LoginRequiredIsHonest ==
  [][\A p \in Probes :
       result[p] = "running" /\ result'[p] = "AUTH_LOGIN_REQUIRED" =>
         \/ row = NoRow
         \/ row.refresh = NoToken
         \/ row.refresh.family \in lost
         \/ reply[p].kind = "unknown_client"]_vars

\* A refresh that was under way when the user logged out does not bring the
\* credentials back: only a login fills an empty store.
LogoutSticks ==
  [][row = NoRow /\ row' # NoRow =>
       \E l \in Logins : loginPc[l] = "save" /\ loginPc'[l] = "ended"]_vars

\* The stored refresh token is the newest of its family, but for a lost reply or
\* for the rotation the lock holder is about to save.
StoredTokenIsNewest ==
  row # NoRow /\ row.refresh # NoToken /\ LockFree /\ row.refresh.family \notin lost =>
    row.refresh.generation = families[row.refresh.family].generation

\* A probe that waits for the lock, or holds it, gets done: nobody waits for ever.
ProbesEnd == \A p \in Probes : pc[p] = "lock" ~> pc[p] = "ended"
=============================================================================
