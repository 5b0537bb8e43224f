----------------------------- MODULE DeviceLogin -----------------------------
(***************************************************************************)
(* The device flow of --login as it meets the clock: the gateway hands out *)
(* a code with a lifetime and a polling interval, and pollDeviceToken      *)
(* (src/src/client/auth/oauthClient.ts) asks for the tokens until the user *)
(* has approved.  What the login does to the store and to the gateway's    *)
(* clients and tokens is in GatewayAuth.                                   *)
(***************************************************************************)
EXTENDS Integers

CONSTANTS
  NoNumber,                          \* the answer has no such number
  Intervals, Lifetimes,              \* what the gateway may answer, NoNumber or ticks
  DefaultInterval, DefaultLifetime, SlowDown    \* 5 s, 900 s and 5 s, in ticks

ASSUME DeviceAssumption ==
  /\ (Intervals \cup Lifetimes) \ {NoNumber} \subseteq Nat
  /\ {DefaultInterval, DefaultLifetime, SlowDown} \subseteq Nat

VARIABLES
  now,
  loginPc,
  interval,    \* intervalSec
  expiry,      \* deadline
  wakeAt,      \* when the sleep before the next poll is over
  told,        \* history: the gap the gateway has asked for
  polledAt     \* history: when it was last asked, or handed the code out

deviceVars == << loginPc, interval, expiry, wakeAt, told, polledAt >>

DeviceTypeOK ==
  /\ now \in Nat
  /\ loginPc \in {"idle", "request", "sleep", "poll", "save", "approved", "failed"}
  /\ {interval, expiry, wakeAt, told, polledAt} \subseteq Nat

DeviceInit ==
  /\ now = 0
  /\ loginPc = "idle"
  /\ interval = 0
  /\ expiry = 0
  /\ wakeAt = 0
  /\ told = 0
  /\ polledAt = 0

StartLogin ==
  /\ loginPc = "idle"
  /\ loginPc' = "request"
  /\ UNCHANGED << interval, expiry, wakeAt, told, polledAt >>

Or(number, default) == IF number = NoNumber THEN default ELSE number

\* The code is handed out: the first poll waits for the interval as well.
DeviceAuthorized ==
  /\ loginPc = "request"
  /\ \E given \in Intervals, lifetime \in Lifetimes :
       /\ interval' = Or(given, DefaultInterval)
       /\ expiry' = now + Or(lifetime, DefaultLifetime)
  /\ told' = interval'
  /\ polledAt' = now
  /\ wakeAt' = now + interval'
  /\ loginPc' = "sleep"

\* The sleep is over: the code has expired, or the gateway is asked.
Poll ==
  /\ loginPc = "sleep"
  /\ now >= wakeAt
  /\ IF now > expiry
     THEN loginPc' = "failed" /\ UNCHANGED polledAt
     ELSE loginPc' = "poll" /\ polledAt' = now
  /\ UNCHANGED << interval, expiry, wakeAt, told >>

\* Mutant: slow_down is taken for authorization_pending.
NotYetForgettingSlowDown ==
  /\ loginPc = "poll"
  /\ \E slower \in {0, SlowDown} : told' = told + slower
  /\ wakeAt' = now + interval
  /\ loginPc' = "sleep"
  /\ UNCHANGED << interval, expiry, polledAt >>

\* authorization_pending, or slow_down, which counts for all polls to come.
NotYet ==
  /\ loginPc = "poll"
  /\ \E slower \in {0, SlowDown} :
       /\ interval' = interval + slower
       /\ told' = told + slower
  /\ wakeAt' = now + interval'
  /\ loginPc' = "sleep"
  /\ UNCHANGED << expiry, polledAt >>

Granted ==
  /\ loginPc = "poll"
  /\ loginPc' = "save"
  /\ UNCHANGED << interval, expiry, wakeAt, told, polledAt >>

Saved ==
  /\ loginPc = "save"
  /\ loginPc' = "approved"
  /\ UNCHANGED << interval, expiry, wakeAt, told, polledAt >>

\* A request fails, is refused or is given up by fetch; or the store stays locked.
LoginFails ==
  /\ loginPc \in {"request", "poll", "save"}
  /\ loginPc' = "failed"
  /\ UNCHANGED << interval, expiry, wakeAt, told, polledAt >>

\* The gateway is asked no sooner than it said after it was last asked, whatever the
\* answers were before and however long they took, and never about an expired code.
PollsAsTold ==
  [][loginPc # "poll" /\ loginPc' = "poll" => now >= polledAt + told /\ now <= expiry]_loginPc
=============================================================================
