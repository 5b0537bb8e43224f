-------------------------- MODULE GatewayAuthProofs --------------------------
(***************************************************************************)
(* The shared gateway credentials, for any number of probes, logins and    *)
(* logouts: refreshing is exclusive, a logout sticks, the stored refresh   *)
(* token is the newest of its family unless a reply was lost, the gateway  *)
(* revokes a family only after such a loss, and a login is asked for only  *)
(* when it is needed.                                                      *)
(***************************************************************************)
EXTENDS GatewayAuth, SequenceTheorems, TLAPS

\* The row holds a refresh token.
Stored == row # NoRow /\ row.refresh # NoToken

\* The gateway has answered p with the next token of the family.
Rotated(p) == pc[p] \in {"reply", "commit"} /\ reply[p].refresh # NoToken

\* A login that has its tokens and has not stored them.
Saving(l) == loginPc[l] = "save" /\ granted[l] # NoToken

\* The newest of its family, as far as the gateway tells; nothing is said of a family
\* one of whose replies was lost.
Newest(token) ==
  token.family \notin lost => token.generation = families[token.family].generation

\* A probe that refreshes holds the lock, and the committed row is the one it read.
LockSound ==
  \A p \in Probes : Refreshing(p) =>
    holder = p /\ seen[p] = row /\ Stored /\ row.expired

\* The stored token is the newest, unless the lock holder has the one after it.
RowSound ==
  Stored => /\ row.refresh.family \in DOMAIN families
            /\ (\A p \in Probes : ~Rotated(p)) => Newest(row.refresh)

\* What the lock holder has been answered, and what it is about to commit.
ReplySound ==
  \A p \in Probes :
    /\ Rotated(p) => reply[p].refresh.family = row.refresh.family /\ Newest(reply[p].refresh)
    /\ pc[p] = "reply" => reply[p].kind # "none"
    /\ pc[p] = "reply" /\ reply[p].kind # "granted" => reply[p].refresh = NoToken
    /\ pc[p] = "reply" /\ reply[p].kind = "invalid_grant" => row.refresh.family \in lost
    /\ pc[p] = "commit" =>
         /\ pending \in Rows
         /\ pending.refresh = IF reply[p].refresh = NoToken THEN row.refresh
                                                           ELSE reply[p].refresh

\* A family that was just granted belongs to one login alone.
GrantSound ==
  \A l \in Logins : Saving(l) =>
    /\ granted[l].family \in DOMAIN families
    /\ Newest(granted[l])
    /\ Stored => row.refresh.family # granted[l].family
    /\ \A m \in Logins \ {l} : Saving(m) => granted[m].family # granted[l].family

\* Requests that arrive late, and revocations, concern lost families only.
LossSound ==
  /\ \A token \in stray : token.family \in DOMAIN families /\ token.family \in lost
  /\ RevokedOnlyAfterLoss

\* The inductive invariant.
IInv == TypeOK /\ LockSound /\ RowSound /\ ReplySound /\ GrantSound /\ LossSound

\* What a step must show besides: the bodies of the action properties.
StepSound ==
  /\ \A p \in Probes :
       result[p] = "running" /\ result'[p] = "AUTH_LOGIN_REQUIRED" =>
         \/ row = NoRow
         \/ row.refresh = NoToken
         \/ row.refresh.family \in lost
         \/ reply[p].kind = "unknown_client"
  /\ row = NoRow /\ row' # NoRow =>
       \E l \in Logins : loginPc[l] = "save" /\ loginPc'[l] = "ended"

-----------------------------------------------------------------------------
\* The invariant holds at the start.
LEMMA InitInv == Init => IInv
<1> SUFFICES ASSUME Init PROVE IInv
  OBVIOUS
<1>1. NoReply \in Replies
  BY DEF NoReply, Replies
<1>2. << >> \in Seq(Families) /\ DOMAIN families = {}
  BY DEF Init
<1>3. TypeOK
  BY <1>1, <1>2 DEF Init, TypeOK, Results
<1>4. LockSound /\ RowSound /\ ReplySound /\ GrantSound
  BY DEF Init, LockSound, Refreshing, RowSound, Stored, ReplySound, Rotated, GrantSound,
         Saving
<1>5. LossSound
  BY <1>2 DEF Init, LossSound, RevokedOnlyAfterLoss
<1> QED
  BY <1>3, <1>4, <1>5 DEF IInv

\* Only one probe refreshes at a time, and nobody does while the lock is free.
LEMMA OneRefreshes ==
  ASSUME IInv, NEW p \in Probes, NEW q \in Probes, Refreshing(q)
  PROVE  ~LockFree /\ (Refreshing(p) => p = q)
BY ProcessAssumption DEF IInv, LockSound, LockFree

\* A stored token is a token, and so is that of a row a refreshing probe has read.
LEMMA StoredToken ==
  ASSUME IInv
  PROVE  /\ Stored => row \in Rows /\ row.refresh \in Tokens
         /\ \A p \in Probes : Refreshing(p) =>
              seen[p] \in Rows /\ seen[p].refresh \in Tokens /\ seen[p] = row
BY DEF IInv, TypeOK, LockSound, Stored, Rows

-----------------------------------------------------------------------------
(* The steps of a probe outside the transaction.                           *)

\* A step that changes what one probe knows, and does not end inside the transaction
\* unless it started there, disturbs nothing else.
LEMMA ProbeMovesInv ==
  ASSUME IInv, NEW p \in Probes, ReadCache(p) \/ LockTimesOut(p) \/ Restart(p) \/ Discovered(p)
  PROVE  IInv' /\ StepSound
<1> USE DEF ReadCache, LockTimesOut, Restart, Discovered, End, storeVars, gatewayVars,
            loginVars
<1>1. TypeOK'
  BY DEF IInv, TypeOK, Results
<1>2. \A q \in Probes : Refreshing(q)' =>
        Refreshing(q) /\ seen'[q] = seen[q] /\ (pc'[q] = pc[q] \/ pc'[q] = "grant")
  BY DEF IInv, TypeOK, Refreshing
<1>3. LockSound'
  BY <1>2 DEF IInv, LockSound, Stored
<1>4. \A q \in Probes : Rotated(q)' <=> Rotated(q)
  BY DEF IInv, TypeOK, Rotated
<1>5. RowSound'
  BY <1>4 DEF IInv, RowSound, Stored, Newest
<1>6. \A q \in Probes : pc'[q] \in {"reply", "commit"} => pc[q] = pc'[q]
  BY DEF IInv, TypeOK
<1>7. ReplySound'
  BY <1>4, <1>6 DEF IInv, ReplySound, Newest
<1>8. GrantSound' /\ LossSound'
  BY DEF IInv, GrantSound, LossSound, Saving, Stored, Newest, RevokedOnlyAfterLoss
<1>9. StepSound
  BY DEF IInv, TypeOK, StepSound, Usable, Unrefreshable
<1> QED
  BY <1>1, <1>3, <1>5, <1>7, <1>8, <1>9 DEF IInv

\* The lock is had; the row read again is the one that will be refreshed.
LEMMA AcquireInv ==
  ASSUME IInv, NEW p \in Probes, Acquire(p)
  PROVE  IInv' /\ StepSound
<1> USE DEF Acquire, End, gatewayVars, loginVars
<1>1. TypeOK'
  BY DEF IInv, TypeOK, Results
<1>2. \A q \in Probes : ~Refreshing(q)
  BY OneRefreshes
<1>3. \A q \in Probes : Refreshing(q)' =>
        q = p /\ holder' = p /\ seen'[q] = row /\ Refreshable
  BY <1>2 DEF IInv, TypeOK, Refreshing
<1>4. LockSound'
  BY <1>3 DEF LockSound, Stored, Refreshable
<1>5. \A q \in Probes : ~Rotated(q) /\ ~Rotated(q)'
  BY <1>2 DEF IInv, TypeOK, Rotated, Refreshing
<1>6. RowSound'
  BY <1>5 DEF IInv, RowSound, Stored, Newest
<1>7. \A q \in Probes : pc'[q] \notin {"reply", "commit"}
  BY <1>2 DEF IInv, TypeOK, Refreshing
<1>8. ReplySound'
  BY <1>5, <1>7 DEF ReplySound
<1>9. GrantSound' /\ LossSound'
  BY DEF IInv, GrantSound, LossSound, Saving, Stored, Newest, RevokedOnlyAfterLoss
<1>10. StepSound
  BY DEF IInv, TypeOK, StepSound, Usable, Refreshable, Unrefreshable
<1> QED
  BY <1>1, <1>4, <1>6, <1>8, <1>9, <1>10 DEF IInv

-----------------------------------------------------------------------------
(* The refresh request.                                                    *)

\* What the gateway makes of a token of a family it knows.  Only that family is
\* touched; a refusal leaves its generation alone, and means that it was revoked or
\* the token consumed; a grant finds the newest token, and does not revoke.
LEMMA ExchangeEffect ==
  ASSUME TypeOK, NEW token \in Tokens, token.family \in DOMAIN families,
         NEW exchange \in Exchanges(token)
  PROVE  LET f == token.family
             after == exchange.families
             answer == exchange.answer
         IN /\ after \in Seq(Families) /\ DOMAIN after = DOMAIN families
            /\ answer \in Replies
            /\ \A g \in DOMAIN families : g # f => after[g] = families[g]
            /\ \/ /\ answer.kind = "invalid_grant" /\ answer.refresh = NoToken
                  /\ families[f].revoked \/ token.generation < families[f].generation
                  /\ after[f].generation = families[f].generation
               \/ /\ answer.kind = "granted" /\ answer.refresh = NoToken
                  /\ after = families
               \/ /\ answer.kind = "granted" /\ answer.refresh \in Tokens
                  /\ answer.refresh.family = f
                  /\ answer.refresh.generation = token.generation + 1
                  /\ token.generation >= families[f].generation
                  /\ after[f].generation = families[f].generation + 1
                  /\ after[f].revoked = families[f].revoked
<1> DEFINE f == token.family
           after == exchange.families
           answer == exchange.answer
<1>1. /\ families \in Seq(Families) /\ f \in DOMAIN families /\ families[f] \in Families
      /\ NoToken \in Tokens \cup {NoToken}
  BY DEF TypeOK
<1>2. families[f].generation \in Nat /\ families[f].revoked \in BOOLEAN
        /\ token.generation \in Nat /\ f \in Nat
  BY <1>1 DEF Families, Tokens
<1>3. Refusal("invalid_grant") \in Replies /\ Refusal("invalid_grant").kind = "invalid_grant"
        /\ Refusal("invalid_grant").refresh = NoToken
  BY DEF Refusal, Replies
<1>4. ASSUME NEW family \in Families
      PROVE  /\ [families EXCEPT ![f] = family] \in Seq(Families)
             /\ DOMAIN [families EXCEPT ![f] = family] = DOMAIN families
             /\ [families EXCEPT ![f] = family][f] = family
             /\ \A g \in DOMAIN families :
                  g # f => [families EXCEPT ![f] = family][g] = families[g]
  BY <1>1, <1>4
<1>5. CASE families[f].revoked
  <2>1. answer = Refusal("invalid_grant") /\ after = families
    BY <1>5 DEF Exchanges
  <2> QED
    BY <1>1, <1>3, <1>5, <2>1
<1>6. CASE ~families[f].revoked /\ token.generation < families[f].generation
  <2>1. PICK family : family = [families[f] EXCEPT !.revoked = TRUE]
    OBVIOUS
  <2>2. family \in Families /\ family.generation = families[f].generation
    BY <1>1, <2>1 DEF Families
  <2>3. answer = Refusal("invalid_grant") /\ after = [families EXCEPT ![f] = family]
    BY <1>6, <2>1 DEF Exchanges
  <2> QED
    BY <1>1, <1>3, <1>4, <1>6, <2>2, <2>3
<1>7. CASE ~families[f].revoked /\ ~(token.generation < families[f].generation)
  <2>1. CASE answer = [kind |-> "granted", refresh |-> NoToken] /\ after = families
    BY <1>1, <2>1 DEF Replies
  <2>2. CASE /\ answer = [kind |-> "granted",
                          refresh |-> [token EXCEPT !.generation = @ + 1]]
             /\ after = [families EXCEPT ![f].generation = @ + 1]
    <3>1. PICK n : n = token.generation + 1
      OBVIOUS
    <3>2. PICK next : next = [token EXCEPT !.generation = n]
      OBVIOUS
    <3>3. n \in Nat /\ next \in Tokens /\ next.family = f /\ next.generation = n
      BY <1>2, <3>1, <3>2 DEF Tokens
    <3>4. answer \in Replies /\ answer.kind = "granted" /\ answer.refresh = next
      BY <2>2, <3>1, <3>2, <3>3 DEF Replies
    <3>5. PICK m : m = families[f].generation + 1
      OBVIOUS
    <3>6. PICK family : family = [families[f] EXCEPT !.generation = m]
      OBVIOUS
    <3>7. /\ family \in Families /\ family.generation = m
          /\ family.revoked = families[f].revoked
      BY <1>1, <1>2, <3>5, <3>6 DEF Families
    <3>8. after = [families EXCEPT ![f] = family]
      BY <2>2, <3>5, <3>6
    <3> QED
      BY <1>2, <1>4, <1>7, <3>1, <3>3, <3>4, <3>5, <3>7, <3>8
  <2> QED
    BY <1>7, <2>1, <2>2 DEF Exchanges
<1> QED
  BY <1>5, <1>6, <1>7

\* The request of the lock holder is answered.
LEMMA GatewayAnswersInv ==
  ASSUME IInv, NEW p \in Probes, GatewayAnswers(p)
  PROVE  IInv' /\ StepSound
<1> USE DEF GatewayAnswers, storeVars, loginVars
<1>1. Refreshing(p) /\ Stored /\ seen[p] = row /\ row \in Rows /\ row.refresh \in Tokens
  BY StoredToken DEF IInv, LockSound, Refreshing
<1>2. \A q \in Probes : Refreshing(q) => q = p
  BY <1>1, OneRefreshes
<1>3. /\ row.refresh.family \in DOMAIN families
      /\ Newest(row.refresh)
  BY <1>1, <1>2 DEF IInv, RowSound, Rotated, Refreshing
<1> DEFINE f == row.refresh.family
<1>4. /\ families' \in Seq(Families) /\ DOMAIN families' = DOMAIN families
      /\ reply' = [reply EXCEPT ![p] = reply'[p]] /\ reply'[p] \in Replies
      /\ \A g \in DOMAIN families : g # f => families'[g] = families[g]
      /\ \/ reply'[p].refresh = NoToken /\ families'[f].generation = families[f].generation
         \/ /\ reply'[p].refresh \in Tokens /\ reply'[p].refresh.family = f
            /\ f \notin lost => reply'[p].refresh.generation = families'[f].generation
      /\ reply'[p].kind # "none"
      /\ reply'[p].kind # "granted" => reply'[p].refresh = NoToken
      /\ reply'[p].kind = "invalid_grant" => f \in lost
      /\ families'[f].revoked => families[f].revoked \/ f \in lost
  <2>1. TypeOK /\ reply \in [Probes -> Replies] /\ families \in Seq(Families)
    BY DEF IInv, TypeOK
  <2>2. CASE \E kind \in {"unknown_client", "transient"} :
               reply' = [reply EXCEPT ![p] = Refusal(kind)] /\ UNCHANGED families
    BY <2>1, <2>2 DEF Refusal, Replies
  <2>3. CASE \E exchange \in Exchanges(row.refresh) :
               /\ reply' = [reply EXCEPT ![p] = exchange.answer]
               /\ families' = exchange.families
    <3>1. PICK exchange \in Exchanges(row.refresh) :
               /\ reply' = [reply EXCEPT ![p] = exchange.answer]
               /\ families' = exchange.families
      BY <2>3
    <3>2. families[f].revoked => f \in lost
      BY <1>3 DEF IInv, LossSound, RevokedOnlyAfterLoss
    <3>3. families[f] \in Families
      BY <1>3, <2>1
    <3>4. families[f].generation \in Nat
      BY <3>3 DEF Families
    <3>5. row.refresh.generation \in Nat
      BY <1>1 DEF Tokens
    <3>6. reply'[p] = exchange.answer
      BY <2>1, <3>1
    <3> QED
      BY <1>1, <1>3, <2>1, <3>1, <3>2, <3>4, <3>5, <3>6, ExchangeEffect DEF Newest
  <2> QED
    BY <1>1, <2>2, <2>3
<1> HIDE DEF f
<1>5. /\ \A q \in Probes \ {p} : pc'[q] = pc[q] /\ reply'[q] = reply[q]
      /\ pc[p] = "grant" /\ pc'[p] = "reply"
  BY <1>4 DEF IInv, TypeOK
<1>6. TypeOK'
  BY <1>4 DEF IInv, TypeOK
<1>7. LockSound'
  BY <1>1, <1>5 DEF IInv, LockSound, Refreshing, Stored
<1>8. \A q \in Probes \ {p} : pc'[q] \notin {"reply", "commit"}
  BY <1>2, <1>5 DEF Refreshing
<1>9. RowSound'
  <2>1. row' = row /\ lost' = lost /\ f \in DOMAIN families'
    BY <1>3, <1>4 DEF f
  <2>2. reply'[p].refresh \in Tokens => reply'[p].refresh # NoToken
    BY NullAssumption
  <2>3. ASSUME \A q \in Probes : ~Rotated(q)'
        PROVE  families'[f].generation = families[f].generation
    BY <1>4, <1>5, <2>2, <2>3 DEF Rotated
  <2>4. Newest(row.refresh) /\ f \notin lost => row.refresh.generation = families[f].generation
    BY DEF Newest, f
  <2> QED
    BY <1>3, <2>1, <2>3, <2>4 DEF RowSound, Newest, f
<1>10. ReplySound'
  BY <1>4, <1>5, <1>8 DEF ReplySound, Rotated, Newest, f
<1>11. GrantSound'
  BY <1>1, <1>4 DEF IInv, GrantSound, Saving, Stored, Newest, f
<1>12. LossSound'
  BY <1>3, <1>4 DEF IInv, LossSound, RevokedOnlyAfterLoss, f
<1>13. StepSound
  BY DEF StepSound
<1> QED
  BY <1>6, <1>7, <1>9, <1>10, <1>11, <1>12, <1>13 DEF IInv

\* The new tokens are written, not yet committed.
LEMMA SaveInv ==
  ASSUME IInv, NEW p \in Probes, Save(p)
  PROVE  IInv' /\ StepSound
<1> USE DEF Save, gatewayVars, loginVars
<1>1. /\ Refreshing(p) /\ Stored /\ seen[p] = row /\ row \in Rows /\ row.refresh \in Tokens
      /\ reply[p] \in Replies /\ pc[p] = "reply"
  BY StoredToken DEF IInv, TypeOK, LockSound, Refreshing
<1>2. \A q \in Probes : Refreshing(q) => q = p
  BY <1>1, OneRefreshes
<1> DEFINE next == IF reply[p].refresh = NoToken THEN row.refresh ELSE reply[p].refresh
<1>3. PICK expired \in BOOLEAN :
        pending' = [client |-> row.client, refresh |-> next, expired |-> expired]
  BY <1>1
<1>4. next \in Tokens /\ row.client \in Nat
  BY <1>1 DEF Replies, Rows
<1> HIDE DEF next
<1>5. pending' \in Rows /\ pending'.refresh = next
  BY <1>3, <1>4 DEF Rows
<1>6. /\ \A q \in Probes \ {p} : pc'[q] = pc[q]
      /\ pc'[p] = "commit"
  BY DEF IInv, TypeOK
<1>7. TypeOK'
  BY <1>5 DEF IInv, TypeOK
<1>8. \A q \in Probes : Refreshing(q)' <=> Refreshing(q)
  BY <1>1, <1>6 DEF Refreshing
<1>9. LockSound'
  BY <1>8 DEF IInv, LockSound, Stored
<1>10. \A q \in Probes : Rotated(q)' <=> Rotated(q)
  BY <1>1, <1>6 DEF Rotated
<1>11. RowSound'
  BY <1>10 DEF IInv, RowSound, Stored, Newest
<1>12. \A q \in Probes \ {p} : pc'[q] \notin {"reply", "commit"}
  BY <1>2, <1>6 DEF Refreshing
<1>13. ReplySound'
  BY <1>5, <1>6, <1>10, <1>12 DEF IInv, ReplySound, Newest, next
<1>14. GrantSound' /\ LossSound'
  BY DEF IInv, GrantSound, LossSound, Saving, Stored, Newest, RevokedOnlyAfterLoss
<1>15. StepSound
  BY DEF StepSound
<1> QED
  BY <1>7, <1>9, <1>11, <1>13, <1>14, <1>15 DEF IInv

-----------------------------------------------------------------------------
(* The end of the transaction.                                             *)

\* When the lock holder ends its transaction, nobody refreshes any more; all that is
\* left to show concerns the row it leaves and the tokens it lost.
LEMMA TransactionEnds ==
  ASSUME IInv, NEW p \in Probes, Refreshing(p),
         TypeOK', pc' = [pc EXCEPT ![p] = "ended"],
         UNCHANGED << families, loginVars >>,
         lost \subseteq lost',
         Stored', row'.refresh.family = row.refresh.family, Newest(row.refresh)',
         \A token \in stray' : token \in stray \/
           (token.family \in lost' /\ token.family = row.refresh.family)
  PROVE  IInv'
<1> USE DEF loginVars
<1>1. Stored /\ row.refresh.family \in DOMAIN families
  BY DEF IInv, LockSound, RowSound
<1>2. \A q \in Probes : pc'[q] \notin {"discover", "grant", "reply", "commit"}
  BY OneRefreshes DEF IInv, TypeOK, Refreshing
<1>3. LockSound' /\ ReplySound'
  BY <1>2 DEF LockSound, ReplySound, Refreshing, Rotated
<1>4. RowSound'
  BY <1>1 DEF RowSound
<1>5. GrantSound'
  BY <1>1 DEF IInv, GrantSound, Saving, Newest
<1>6. LossSound'
  BY <1>1 DEF IInv, LossSound, RevokedOnlyAfterLoss
<1> QED
  BY <1>3, <1>4, <1>5, <1>6 DEF IInv

\* COMMIT publishes the newest token.
LEMMA CommitInv ==
  ASSUME IInv, NEW p \in Probes, Commit(p)
  PROVE  IInv' /\ StepSound
<1> USE DEF Commit, CommitTransaction, End, gatewayVars
<1>1. Refreshing(p) /\ Stored /\ row.refresh \in Tokens /\ pc[p] = "commit"
  BY StoredToken DEF IInv, LockSound, Refreshing
<1>2. /\ pending \in Rows /\ row' = pending
      /\ pending.refresh = IF reply[p].refresh = NoToken THEN row.refresh
                                                        ELSE reply[p].refresh
  BY <1>1, NullAssumption DEF IInv, ReplySound
<1>3. TypeOK'
  <2>1. NoReply \in Replies
    BY DEF NoReply, Replies
  <2> QED
    BY <1>2, <2>1 DEF IInv, TypeOK, Results, loginVars
<1>4. Stored' /\ row'.refresh.family = row.refresh.family /\ Newest(row.refresh)'
  <2>1. CASE reply[p].refresh = NoToken
    <3>1. \A q \in Probes : ~Rotated(q)
      BY <1>1, <2>1, OneRefreshes DEF Rotated, Refreshing
    <3> QED
      BY <1>1, <1>2, <2>1, <3>1, NullAssumption DEF IInv, RowSound, Stored, Newest
  <2>2. CASE reply[p].refresh # NoToken
    <3>1. Rotated(p)
      BY <1>1, <2>2 DEF Rotated
    <3> QED
      BY <1>2, <2>2, <3>1, NullAssumption DEF IInv, ReplySound, Stored, Newest
  <2> QED
    BY <2>1, <2>2
<1>5. IInv'
  BY <1>1, <1>3, <1>4, TransactionEnds DEF Newest
<1>6. StepSound
  BY <1>1 DEF IInv, TypeOK, StepSound, Stored
<1> QED
  BY <1>5, <1>6

\* A refusal leaves the row; a login is asked for only when the family was lost or
\* the client forgotten.
LEMMA RefusedInv ==
  ASSUME IInv, NEW p \in Probes, Refused(p)
  PROVE  IInv' /\ StepSound
<1> USE DEF Refused, Rollback, End, gatewayVars
<1>1. Refreshing(p) /\ Stored /\ pc[p] = "reply" /\ reply[p] \in Replies
  BY DEF IInv, TypeOK, LockSound, Refreshing
<1>2. TypeOK'
  <2>1. NoReply \in Replies
    BY DEF NoReply, Replies
  <2> QED
    BY <2>1 DEF IInv, TypeOK, Results, loginVars
<1>3. \A q \in Probes : ~Rotated(q)
  BY <1>1, OneRefreshes DEF IInv, ReplySound, Rotated, Refreshing
<1>4. Newest(row.refresh)
  BY <1>1, <1>3 DEF IInv, RowSound
<1>5. IInv'
  BY <1>1, <1>2, <1>4, TransactionEnds DEF Newest, Stored
<1>6. reply[p].kind \in {"invalid_grant", "unknown_client", "transient"}
  BY <1>1 DEF IInv, ReplySound, Replies
<1>7. \A q \in Probes : q # p => result'[q] = result[q]
  BY DEF IInv, TypeOK
<1>8. StepSound
  BY <1>1, <1>6, <1>7 DEF IInv, TypeOK, ReplySound, StepSound
<1> QED
  BY <1>5, <1>8

\* Giving up counts the family as lost as soon as its newest token may be.
LEMMA GiveUpInv ==
  ASSUME IInv, NEW p \in Probes, Abort(p) \/ Fail(p)
  PROVE  IInv' /\ StepSound
<1>1. PICK how \in {"AUTH_TIMEOUT", "failed"} : GiveUp(p, how)
  BY DEF Abort, Fail
<1> USE DEF GiveUp, Rollback, End
<1>2. /\ Refreshing(p) /\ Stored /\ seen[p] = row /\ row.refresh \in Tokens
      /\ row.refresh.family \in Nat
  BY <1>1, StoredToken DEF IInv, LockSound, Refreshing, Tokens
<1>3. Abandoned(p) \subseteq {row.refresh.family}
  BY <1>2 DEF Abandoned
<1>4. TypeOK'
  <2>1. NoReply \in Replies
    BY DEF NoReply, Replies
  <2>2. lost' \subseteq Nat /\ stray' \subseteq Tokens
    BY <1>1, <1>2, <1>3 DEF IInv, TypeOK
  <2> QED
    BY <1>1, <2>1, <2>2 DEF IInv, TypeOK, Results, loginVars
<1>5. Newest(row.refresh)'
  <2>1. CASE Rotated(p)
    BY <1>1, <1>2, <2>1 DEF Rotated, Abandoned, Newest
  <2>2. CASE ~Rotated(p)
    <3>1. \A q \in Probes : ~Rotated(q)
      BY <1>2, <2>2, OneRefreshes DEF Rotated, Refreshing
    <3> QED
      BY <1>1, <1>2, <3>1 DEF IInv, RowSound, Newest
  <2> QED
    BY <2>1, <2>2
<1>6. \A token \in stray' : token \in stray \/
        (token.family \in lost' /\ token.family = row.refresh.family)
  BY <1>1, <1>2 DEF Abandoned
<1>7. IInv'
  BY <1>1, <1>2, <1>4, <1>5, <1>6, TransactionEnds DEF Stored, Newest
<1>8. StepSound
  BY <1>1, <1>2 DEF IInv, TypeOK, StepSound, Stored
<1> QED
  BY <1>7, <1>8

-----------------------------------------------------------------------------
(* The gateway and the clock.                                              *)

\* A late request can revoke or rotate only a family that counts as lost.
LEMMA StrayArrivesInv ==
  ASSUME IInv, StrayArrives
  PROVE  IInv' /\ StepSound
<1> USE DEF StrayArrives, storeVars, probeVars, loginVars
<1>1. PICK token \in stray :
        /\ stray' = stray \ {token}
        /\ \E exchange \in Exchanges(token) : families' = exchange.families
  OBVIOUS
<1>2. token \in Tokens /\ token.family \in DOMAIN families /\ token.family \in lost
  BY DEF IInv, TypeOK, LossSound
<1>3. PICK exchange \in Exchanges(token) : families' = exchange.families
  BY <1>1
<1>4. /\ families' \in Seq(Families) /\ DOMAIN families' = DOMAIN families
      /\ \A g \in DOMAIN families : g \notin lost => families'[g] = families[g]
  BY <1>2, <1>3, ExchangeEffect DEF IInv
<1>5. TypeOK'
  BY <1>1, <1>4 DEF IInv, TypeOK
<1>6. LockSound'
  BY DEF IInv, LockSound, Refreshing, Stored
<1>7. RowSound'
  BY <1>4 DEF IInv, RowSound, Stored, Rotated, Newest
<1>8. \A q \in Probes : Rotated(q) => row.refresh.family \in DOMAIN families
  BY DEF IInv, LockSound, RowSound, Rotated, Refreshing
<1>9. ReplySound'
  BY <1>4, <1>8 DEF IInv, ReplySound, Rotated, Newest
<1>10. GrantSound'
  BY <1>4 DEF IInv, GrantSound, Saving, Stored, Newest
<1>11. LossSound'
  BY <1>1, <1>4 DEF IInv, LossSound, RevokedOnlyAfterLoss
<1>12. StepSound
  BY DEF StepSound
<1> QED
  BY <1>5, <1>6, <1>7, <1>9, <1>10, <1>11, <1>12 DEF IInv

\* The invariant does not depend on the clients the gateway knows.
LEMMA ForgetClientsInv ==
  ASSUME IInv, ForgetClients
  PROVE  IInv' /\ StepSound
<1> USE DEF ForgetClients, storeVars, probeVars, loginVars
<1>1. TypeOK'
  BY DEF IInv, TypeOK
<1>2. LockSound' /\ RowSound' /\ ReplySound'
  BY DEF IInv, LockSound, RowSound, ReplySound, Refreshing, Stored, Rotated, Newest
<1>3. GrantSound' /\ LossSound'
  BY DEF IInv, GrantSound, LossSound, Saving, Stored, Newest, RevokedOnlyAfterLoss
<1>4. StepSound
  BY DEF StepSound
<1> QED
  BY <1>1, <1>2, <1>3, <1>4 DEF IInv

\* A row that is being refreshed has expired already, so it does not change.
LEMMA TokenExpiresInv ==
  ASSUME IInv, TokenExpires
  PROVE  IInv' /\ StepSound
<1> USE DEF TokenExpires, gatewayVars, probeVars, loginVars
<1>1. row \in Rows /\ row' = [row EXCEPT !.expired = TRUE]
  BY DEF IInv, TypeOK
<1>2. row' \in Rows /\ row'.refresh = row.refresh
  BY <1>1 DEF Rows
<1>3. Stored' => Stored
  BY <1>1, <1>2, NullAssumption DEF Stored
<1>4. \A q \in Probes : ~Refreshing(q) /\ ~Refreshing(q)'
  BY DEF IInv, LockSound, Refreshing
<1>5. TypeOK'
  BY <1>2 DEF IInv, TypeOK
<1>6. LockSound' /\ ReplySound'
  BY <1>4 DEF LockSound, ReplySound, Refreshing, Rotated
<1>7. RowSound'
  BY <1>2, <1>3 DEF IInv, RowSound, Rotated, Newest
<1>8. GrantSound' /\ LossSound'
  BY <1>2, <1>3 DEF IInv, GrantSound, LossSound, Saving, Newest, RevokedOnlyAfterLoss
<1>9. StepSound
  BY DEF StepSound
<1> QED
  BY <1>5, <1>6, <1>7, <1>8, <1>9 DEF IInv

-----------------------------------------------------------------------------
(* Logins and logouts.                                                     *)

\* Up to the poll that succeeds a login touches neither the store nor the families.
LEMMA LoginMovesInv ==
  ASSUME IInv, NEW l \in Logins,
         LoginReadsCache(l) \/ Register(l) \/ Authorize(l) \/ LoginFails(l)
  PROVE  IInv' /\ StepSound
<1> USE DEF LoginReadsCache, Register, Authorize, LoginFails, storeVars, gatewayVars,
            probeVars
<1>1. row # NoRow => row.client \in Nat
  BY DEF IInv, TypeOK, Rows
<1>2. TypeOK'
  <2>1. CASE UNCHANGED << registered, clients >>
               /\ (UNCHANGED loginClient
                    \/ (row # NoRow /\ loginClient' = [loginClient EXCEPT ![l] = row.client]))
    BY <1>1, <2>1 DEF IInv, TypeOK
  <2>2. CASE Register(l)
    <3>1. PICK id \in Nat : id = registered + 1
      BY DEF IInv, TypeOK
    <3> QED
      BY <2>2, <3>1 DEF IInv, TypeOK
  <2> HIDE DEF LoginReadsCache, Register, Authorize, LoginFails
  <2>3. CASE LoginReadsCache(l)
    <3>1. /\ UNCHANGED << registered, clients >>
          /\ IF row # NoRow THEN loginClient' = [loginClient EXCEPT ![l] = row.client]
                            ELSE UNCHANGED loginClient
      BY <2>3 DEF LoginReadsCache
    <3> QED
      BY <2>1, <3>1
  <2>4. CASE Authorize(l) \/ LoginFails(l)
    <3>1. UNCHANGED << registered, clients, loginClient >>
      BY <2>4 DEF Authorize, LoginFails
    <3> QED
      BY <2>1, <3>1
  <2> QED
    BY <2>2, <2>3, <2>4
<1>3. LockSound' /\ RowSound' /\ ReplySound'
  BY DEF IInv, LockSound, RowSound, ReplySound, Refreshing, Stored, Rotated, Newest
<1>4. \A m \in Logins : Saving(m)' => Saving(m) /\ granted' = granted
  BY DEF IInv, TypeOK, Saving
<1>5. GrantSound' /\ LossSound'
  BY <1>4 DEF IInv, GrantSound, LossSound, Stored, Newest, RevokedOnlyAfterLoss
<1>6. StepSound
  BY DEF StepSound
<1> QED
  BY <1>2, <1>3, <1>5, <1>6 DEF IInv

\* A grant starts a family of its own.
LEMMA PollInv ==
  ASSUME IInv, NEW l \in Logins, Poll(l)
  PROVE  IInv' /\ StepSound
<1> USE DEF Poll, storeVars, probeVars
<1> DEFINE new == Len(families) + 1
           first == [generation |-> 1, revoked |-> FALSE]
           token == [family |-> new, generation |-> 1]
<1>1. /\ families \in Seq(Families) /\ Len(families) \in Nat /\ first \in Families
      /\ DOMAIN families = 1 .. Len(families)
  BY DEF IInv, TypeOK, Families
<1>2. /\ new \in Nat /\ new \notin DOMAIN families
      /\ token \in Tokens /\ token.family = new /\ token.generation = 1
  BY <1>1 DEF Tokens
<1>3. /\ families' \in Seq(Families) /\ DOMAIN families \subseteq DOMAIN families'
      /\ \A g \in DOMAIN families : families'[g] = families[g]
      /\ \A g \in DOMAIN families' : g \in DOMAIN families \/ ~families'[g].revoked
  <2>1. ~first.revoked
    OBVIOUS
  <2> HIDE DEF first, Poll
  <2>2. CASE families' = Append(families, first)
    <3>1. /\ families' \in Seq(Families) /\ Len(families') = Len(families) + 1
          /\ families'[Len(families) + 1] = first
          /\ \A g \in 1 .. Len(families) : families'[g] = families[g]
      BY <1>1, <2>2, AppendProperties
    <3>2. DOMAIN families' = 1 .. Len(families) + 1
      BY <3>1
    <3> QED
      BY <1>1, <2>1, <3>1, <3>2
  <2>3. CASE families' = families
    BY <1>1, <2>3
  <2> QED
    BY <2>2, <2>3 DEF first, Poll
<1>4. \/ granted'[l] = NoToken
      \/ /\ granted'[l] = token
         /\ new \in DOMAIN families' /\ families'[new].generation = 1
  BY <1>1 DEF IInv, TypeOK
<1>5. \A m \in Logins \ {l} : granted'[m] = granted[m] /\ (Saving(m)' <=> Saving(m))
  BY DEF IInv, TypeOK, Saving
<1> HIDE DEF new, first, token
<1>6. TypeOK'
  <2>1. granted' = [granted EXCEPT ![l] = granted'[l]]
    BY DEF IInv, TypeOK
  <2> QED
    BY <1>2, <1>3, <1>4, <2>1 DEF IInv, TypeOK
<1>7. LockSound'
  BY DEF IInv, LockSound, Refreshing, Stored
<1>8. RowSound'
  BY <1>3 DEF IInv, RowSound, Stored, Rotated, Newest
<1>9. \A q \in Probes : Rotated(q) => row.refresh.family \in DOMAIN families
  BY DEF IInv, LockSound, RowSound, Rotated, Refreshing
<1>10. ReplySound'
  BY <1>3, <1>9 DEF IInv, ReplySound, Rotated, Newest
<1>11. \A m \in Logins \ {l} : Saving(m)' =>
         /\ granted'[m].family \in DOMAIN families
         /\ Newest(granted[m])'
  BY <1>3, <1>5 DEF IInv, GrantSound, Newest
<1>12. Saving(l)' => granted'[l].family = new /\ new \in DOMAIN families'
                       /\ Newest(granted[l])'
  BY <1>2, <1>4 DEF Saving, Newest
<1>13. GrantSound'
  BY <1>2, <1>3, <1>5, <1>11, <1>12 DEF IInv, GrantSound, RowSound, Stored
<1>14. LossSound'
  BY <1>3 DEF IInv, LossSound, RevokedOnlyAfterLoss
<1>15. StepSound
  BY DEF StepSound
<1> QED
  BY <1>6, <1>7, <1>8, <1>10, <1>13, <1>14, <1>15 DEF IInv

\* A login's tokens replace the stored ones only while nobody refreshes, and their
\* family is stored by no other login.
LEMMA LoginSavesInv ==
  ASSUME IInv, NEW l \in Logins, LoginSaves(l)
  PROVE  IInv' /\ StepSound
<1> USE DEF LoginSaves, gatewayVars, probeVars
<1>1. PICK expired \in BOOLEAN :
        row' = [client |-> loginClient[l], refresh |-> granted[l], expired |-> expired]
  OBVIOUS
<1>2. row' \in Rows /\ row'.refresh = granted[l]
  BY <1>1 DEF IInv, TypeOK, Rows
<1>3. /\ loginPc[l] = "save" /\ loginPc' = [loginPc EXCEPT ![l] = "ended"]
      /\ loginPc'[l] = "ended"
  BY DEF IInv, TypeOK
<1>4. \A q \in Probes : ~Refreshing(q) /\ ~Refreshing(q)'
  BY OneRefreshes DEF Refreshing
<1>5. TypeOK'
  BY <1>2 DEF IInv, TypeOK
<1>6. LockSound' /\ ReplySound'
  BY <1>4 DEF LockSound, ReplySound, Refreshing, Rotated
<1>7. Stored' => Saving(l)
  BY <1>2, <1>3 DEF Stored, Saving
<1>8. RowSound'
  BY <1>2, <1>7 DEF IInv, GrantSound, RowSound, Newest
<1>9. \A m \in Logins : Saving(m)' => m # l /\ Saving(m)
  BY <1>3 DEF IInv, TypeOK, Saving
<1>10. GrantSound'
  BY <1>2, <1>7, <1>9 DEF IInv, GrantSound, Newest
<1>11. LossSound'
  BY DEF IInv, LossSound, RevokedOnlyAfterLoss
<1>12. StepSound
  BY <1>3 DEF StepSound
<1> QED
  BY <1>5, <1>6, <1>8, <1>10, <1>11, <1>12 DEF IInv

\* A logout deletes the row only while nobody refreshes it.
LEMMA LogoutInv ==
  ASSUME IInv, NEW o \in Logouts, Logout(o)
  PROVE  IInv' /\ StepSound
<1> USE DEF Logout, gatewayVars, probeVars, loginVars
<1>1. row' = row \/ (row' = NoRow /\ LockFree)
  OBVIOUS
<1>2. TypeOK'
  BY <1>1 DEF IInv, TypeOK
<1>3. Stored' => Stored /\ row' = row
  BY <1>1 DEF Stored
<1>4. \A q \in Probes : Refreshing(q) => row' = row
  BY <1>1, OneRefreshes
<1>5. LockSound'
  BY <1>4 DEF IInv, LockSound, Refreshing, Stored
<1>6. RowSound'
  BY <1>3 DEF IInv, RowSound, Rotated, Newest
<1>7. ReplySound'
  BY <1>4 DEF IInv, ReplySound, Rotated, Refreshing, Newest
<1>8. GrantSound' /\ LossSound'
  BY <1>3 DEF IInv, GrantSound, LossSound, Saving, Newest, RevokedOnlyAfterLoss
<1>9. StepSound
  BY <1>1 DEF StepSound
<1> QED
  BY <1>2, <1>5, <1>6, <1>7, <1>8, <1>9 DEF IInv

-----------------------------------------------------------------------------
\* A step that changes nothing keeps the invariant.
LEMMA StutterInv ==
  ASSUME IInv, UNCHANGED vars
  PROVE  IInv' /\ StepSound
<1> USE DEF vars, storeVars, gatewayVars, probeVars, loginVars
<1>1. TypeOK'
  BY DEF IInv, TypeOK
<1>2. LockSound' /\ RowSound' /\ ReplySound'
  BY DEF IInv, LockSound, RowSound, ReplySound, Refreshing, Stored, Rotated, Newest
<1>3. GrantSound' /\ LossSound'
  BY DEF IInv, GrantSound, LossSound, Saving, Stored, Newest, RevokedOnlyAfterLoss
<1>4. StepSound
  BY DEF StepSound
<1> QED
  BY <1>1, <1>2, <1>3, <1>4 DEF IInv

\* Every step keeps the invariant, asks for a login only when it is needed and fills
\* an empty store only by a login.
LEMMA NextInv == IInv /\ [Next]_vars => IInv' /\ StepSound
<1> SUFFICES ASSUME IInv, [Next]_vars PROVE IInv' /\ StepSound
  OBVIOUS
<1>1. ASSUME NEW p \in Probes,
             ProbeStep(p) \/ GatewayAnswers(p) \/ Fail(p) \/ Restart(p)
      PROVE  IInv' /\ StepSound
  <2>1. CASE ReadCache(p) \/ LockTimesOut(p) \/ Restart(p) \/ Discovered(p)
    BY <2>1, ProbeMovesInv
  <2>2. CASE Acquire(p)
    BY <2>2, AcquireInv
  <2>3. CASE GatewayAnswers(p)
    BY <2>3, GatewayAnswersInv
  <2>4. CASE Save(p)
    BY <2>4, SaveInv
  <2>5. CASE Commit(p)
    BY <2>5, CommitInv
  <2>6. CASE Refused(p)
    BY <2>6, RefusedInv
  <2>7. CASE Abort(p) \/ Fail(p)
    BY <2>7, GiveUpInv
  <2> QED
    BY <1>1, <2>1, <2>2, <2>3, <2>4, <2>5, <2>6, <2>7 DEF ProbeStep
<1>2. ASSUME NEW l \in Logins, LoginStep(l)
      PROVE  IInv' /\ StepSound
  <2>1. CASE LoginReadsCache(l) \/ Register(l) \/ Authorize(l) \/ LoginFails(l)
    BY <2>1, LoginMovesInv
  <2>2. CASE Poll(l)
    BY <2>2, PollInv
  <2>3. CASE LoginSaves(l)
    BY <2>3, LoginSavesInv
  <2> QED
    BY <1>2, <2>1, <2>2, <2>3 DEF LoginStep
<1>3. ASSUME NEW o \in Logouts, Logout(o)
      PROVE  IInv' /\ StepSound
  BY <1>3, LogoutInv
<1>4. CASE StrayArrives
  BY <1>4, StrayArrivesInv
<1>5. CASE ForgetClients
  BY <1>5, ForgetClientsInv
<1>6. CASE TokenExpires
  BY <1>6, TokenExpiresInv
<1>7. CASE UNCHANGED vars
  BY <1>7, StutterInv
<1> QED
  BY <1>1, <1>2, <1>3, <1>4, <1>5, <1>6, <1>7 DEF Next

\* What the invariant was made for.
LEMMA InvImplies ==
  IInv => TypeOK /\ RefreshIsExclusive /\ RevokedOnlyAfterLoss /\ StoredTokenIsNewest
<1> SUFFICES ASSUME IInv
             PROVE  TypeOK /\ RefreshIsExclusive /\ RevokedOnlyAfterLoss
                      /\ StoredTokenIsNewest
  OBVIOUS
<1>1. RefreshIsExclusive
  BY DEF IInv, LockSound, RefreshIsExclusive
<1>2. LockFree => \A p \in Probes : ~Rotated(p)
  BY OneRefreshes DEF Rotated, Refreshing
<1>3. StoredTokenIsNewest
  BY <1>2 DEF IInv, RowSound, Stored, Newest, StoredTokenIsNewest
<1> QED
  BY <1>1, <1>3 DEF IInv, LossSound

-----------------------------------------------------------------------------
\* Every reachable state is in the invariant.
THEOREM Invariance == Spec => []IInv
<1>1. Init => IInv
  BY InitInv
<1>2. IInv /\ [Next]_vars => IInv'
  BY NextInv
<1> QED
  BY <1>1, <1>2, PTL DEF Spec

\* The variables keep their types.
THEOREM TypeCorrectness == Spec => []TypeOK
<1>1. IInv => TypeOK
  BY InvImplies
<1> QED
  BY <1>1, Invariance, PTL

\* Whoever runs resolveCachedToken past the second read holds the store's lock, and
\* what it read is what is stored.
THEOREM RefreshExclusion == Spec => []RefreshIsExclusive
<1>1. IInv => RefreshIsExclusive
  BY InvImplies
<1> QED
  BY <1>1, Invariance, PTL

\* No interleaving of probes, logins and logouts presents a consumed refresh token to
\* the gateway: a family is revoked only if one of its replies was abandoned.
THEOREM RevocationNeedsLoss == Spec => []RevokedOnlyAfterLoss
<1>1. IInv => RevokedOnlyAfterLoss
  BY InvImplies
<1> QED
  BY <1>1, Invariance, PTL

\* While nobody refreshes, the stored refresh token is the newest of its family,
\* unless a reply was abandoned.
THEOREM StoredIsNewest == Spec => []StoredTokenIsNewest
<1>1. IInv => StoredTokenIsNewest
  BY InvImplies
<1> QED
  BY <1>1, Invariance, PTL

\* resolveCachedToken reports AUTH_LOGIN_REQUIRED only when there is nothing left to
\* refresh with.
THEOREM LoginHonesty == Spec => LoginRequiredIsHonest
<1> DEFINE Honest ==
      \A p \in Probes :
        result[p] = "running" /\ result'[p] = "AUTH_LOGIN_REQUIRED" =>
          \/ row = NoRow
          \/ row.refresh = NoToken
          \/ row.refresh.family \in lost
          \/ reply[p].kind = "unknown_client"
<1>1. IInv /\ [Next]_vars => [Honest]_vars
  BY NextInv DEF StepSound
<1> QED
  BY <1>1, Invariance, PTL DEF Spec, LoginRequiredIsHonest

\* No refresh that was under way at a logout stores its tokens after it.
THEOREM LogoutPermanence == Spec => LogoutSticks
<1> DEFINE Sticks ==
      row = NoRow /\ row' # NoRow =>
        \E l \in Logins : loginPc[l] = "save" /\ loginPc'[l] = "ended"
<1>1. IInv /\ [Next]_vars => [Sticks]_vars
  BY NextInv DEF StepSound
<1> QED
  BY <1>1, Invariance, PTL DEF Spec, LogoutSticks
=============================================================================
