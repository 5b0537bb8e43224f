# A TLA+ model of resource-bridge-cli

This directory holds a model of the client in `src/src/client` (the probe that
subscribes to one MCP resource and waits for it to change) and of its test server in
`src/src/server`: modules that are model-checked with TLC on small instances, and
theorems about them that TLAPS proves for every value of the constants.

`PROJECT.json` maps every definition to the lines of code it stands for, and lists the
runs, the mutants that show each property can fail, the hazards, the findings and the
theorems. Paths below are relative to `src/src/`.

## The system

| Component | State | Operations | Talks to |
|---|---|---|---|
| Notification queue (`createResourceUpdateQueue`, `client/subscriptionClient.ts:88-195`) | `receivedCount`, up to 100 buffered events, the one pending wait, a remembered failure | notification handler, `waitAfter`, `fail`, `cancel` | the SDK's notification dispatch, the timer of a wait, both modes |
| One-shot subscription (`runResourceSubscription`) | initial and final text, position in the queue, route, error code | connect, list, read, listen, post-listen read, wait, re-read, close | queue, MCP server, `subscription.closed` |
| Stream mode (`runResourceStream`, `--jsonl` in `cli.ts`) | position in the queue, source of the next snapshot, lines printed, exit code | connect, list, listen, ack, read/print/wait loop, end line | as above, stdout |
| Gateway authentication (`client/auth/gatewayAuth.ts`, `client/auth/oauthClient.ts`, `client/auth/tokenStore.ts`, `--login`, `--logout`) | the token row of an origin in SQLite, the open transaction | resolve and refresh, login, logout | other processes over the store, the gateway |
| Device login (`pollDeviceToken`, `client/auth/oauthClient.ts`) | polling interval, expiry of the code | request the code, sleep, poll, slow down | the gateway, the clock |
| Status watch (`client/statusWatch.ts`) | last fingerprint, why the file is unobservable, time of the last line | read with retries, handle, heartbeat, sleep, time out | a status file that another program writes |
| Status document (`client/statusWatchModel.ts`) | none | validate, compare precise times, select the item, fingerprint | status watch |
| Status watch command (`client/statusWatchCommand.ts`) | none | parse arguments, run, exit | command line, status watch |
| Until condition (`client/untilCondition.ts`) | none | parse, JSON pointer lookup and equality | stream mode, command line |
| Tool call (`client/callClient.ts`) | what is left of the budget | connect and call under one deadline | command line, MCP server |
| Command line (`client/cli.ts`, `jsonOutput.ts`, `callJsonOutput.ts`) | mode, start of authentication, documents printed, exit code | check the arguments, read stdin, authenticate, run a mode, answer | all of the above, stdin and stdout |
| Error classification (`client/networkErrorClassification.ts`, `protocolNegotiation.ts`) | none | follow the causes of an error, map it to a code | command line, the SDK and `fetch` |
| Test server (`server/httpServer.ts`, `mcpServer.ts`, `resourceState.ts`) | two resources, number of open streams, two timers | subscribe, unsubscribe, read, the timers, close | any number of clients |

The hard part of the client is ordering. One async function runs against handlers that
may fire between any two of its steps: notifications, the end of the stream, the timer
of a wait, the deadline. A notification may be handled before the acknowledgement is,
while a read is in flight, or after the answer has come but before the function has
resumed. The gateway rotates refresh tokens and punishes the reuse of one, so several
processes on one store have to serialize their refreshes, and a process that dies, or
times out, in the middle of one loses a token. The status watch has to end in time
though a read may hang, and to say only what is news. The test server shares state,
timers and a count of streams among all of its clients.

What makes each of them correct:

- queue: no event in reach of a wait is ever dropped, a wait never sleeps over an event
  or over the known end of the stream, and is settled once;
- both modes: no update falls into a gap between reads, notifications and waits; what
  is reported is never older than what was consumed; success, error code, close reason
  and route say what happened; a stream ends by itself and prints next to nothing past its
  deadline, a one-shot run ends unless it is notified for ever;
- authentication: one refresh at a time, of the row that is stored; the gateway never
  sees a consumed token unless a reply was lost; a logout sticks; nobody is told to log
  in because of somebody else's refresh;
- device login: the gateway is polled no sooner than it said, whatever came before;
- status watch: the lines tell the state, of the item of this round and of no other, and
  only news; exit codes come from fresh and timely observations; the deadline is kept;
- command line: one answer, last, that agrees with the exit code, in the format asked
  for; wrong arguments are refused before anybody is contacted; what the documents have a
  code for is reported by it, through the errors that wrap it; one budget covers
  authentication and the work;
- test server: one client's cycle is neither reset nor stopped by another client.

## The modules

| Module | Models |
|---|---|
| `UpdateQueue` | the queue, as a record and one operator per function of the closure |
| `ResourceServer` | external: the MCP server and the listen stream, as the client uses them |
| `ListenClient` | what both modes share: client, queue, read in flight, deadline, and the handlers that run between two steps |
| `Subscription` | the one-shot mode, on `ListenClient` |
| `Stream` | the `--jsonl` mode and the lines the CLI prints, on `ListenClient` |
| `ResourceWatch` | what both modes promise, abstractly |
| `GatewayAuth` | the token store, probes, logins and logouts; the gateway is external |
| `DeviceLogin` | the device flow of `--login` as it meets the clock |
| `StatusDocument` | a status document: its verdict and the item it has of this round |
| `StatusWatch` | the status watch, in discrete time, on documents |
| `UntilCondition` | parsing and evaluating `--until` |
| `JsonPointer` | RFC 6901 told from the document: the values a pointer names; extends `UntilCondition` |
| `ErrorCodes` | from an error and its causes to the code reported |
| `CommandLine` | one run of the command in any of its modes; extends `JsonPointer`, `ErrorCodes` and `DeviceLogin` |
| `ProbeServer` | the test server with concurrent clients |
| `MCSubscription`, `MCStream`, `MCGatewayAuth`, `MCStatusWatch`, `MCCommandLine` | instances and symmetry for TLC |
| `PrefixInduction` | lemmas for induction over the prefixes of a sequence |
| `ListenClientProofs`, `SubscriptionProofs`, `StreamProofs`, `GatewayAuthProofs`, `StatusWatchProofs`, `ProbeServerProofs`, `CommandLineProofs` | the theorems |

How code becomes state:

- **Control points.** `pc` names the `await` an async function is at. A promise that
  settles and the continuation of its `await` are two steps, so that handlers can run
  in between: a read is *sent*, *served*, and its answer taken by the continuation; a
  wait is *pending*, *resolved* or *rejected*, and then taken.
- **Texts** are model values. A resource is the sequence `history` of the texts it has
  had, and what a client holds is a version, an index into it. Two versions may have the
  same text. `PollTexts` are the texts for which `shouldWaitForNextUpdate` is true,
  `WantedTexts` those that `evaluateSnapshot` matches.
- **Deadlines.** `deadline` is "unset", "running" or "passed". A timer armed with the
  remains can fire only once it has passed, and may be late. A step looks at `deadline`
  only where the code looks at the clock: `runResourceStream` does so at its start, at
  the top of its loop and in its waits, and leaves the rest to the SDK, whose timer cuts
  off a request that is still open. The answer to a read may therefore be taken, and
  printed, though the deadline has passed since it was sent. `StatusWatch`,
  `DeviceLogin` and `CommandLine` compare and subtract times, and have a clock instead.
- **The stream** keeps notifications in order. A graceful end comes after them; a
  dropped connection loses a suffix of them, and is noticed once what had arrived has
  been handled.
- **The store.** `BEGIN IMMEDIATE` takes `holder`; what a transaction writes is
  `pending` until COMMIT; the death of its process, an abort, or any error in between is
  `GiveUp`, which rolls back.
- **The gateway** keeps the generation each rotation family is at. A token is a family
  and a generation. A request that was sent may reach the gateway although its sender
  gave up (`stray`), and `lost` records the families this may have happened to. A
  refresh whose budget runs out after the gateway has rotated loses the new token;
  that is what the word *lost* in the properties excludes, and it is how the code
  behaves.
- **Documents** of the status watch are records whose fields may be missing (`None`) or,
  for a time, malformed (`BadTime`). A time is its whole seconds and the digits of its
  fraction as written; a key is a name and whether it has capitals. The fingerprint is
  the observation, which has every field the code puts into it.
- **JSON values** of `--until` and `--args` are tagged objects, arrays and scalars. Keys
  and tokens are sequences of characters, since `~0` and `~1` are decoded in order.
- **Errors** are the chains of their causes: of each link its class, its code, and the
  property that the next link hangs on. Which chains the SDK and `fetch` throw is
  external.
- **A command line** is a record of its options, the environment variables folded in. An
  option is missing (`None`), without a proper value (`Malformed`), or has one.
- **What is printed** is a sequence of documents: a kind, an error code and a format.
- **The other modes** in `CommandLine` are what their own modules show them to be from
  the outside: a subscription returns with one of its codes or throws before it prints,
  a watch ends with one of its exit codes.
- **Left out**: wording, layout, logging, HTTP bodies and headers, the contents of access
  tokens, the patterns a key or a number has to match. In `Stream` the condition is
  `WantedTexts`, a set of texts; `CommandLine` has the condition itself.

Reads of the one-shot mode carry no budget: only `listen` and the waits know the
deadline, and a wait hands out a buffered event without looking at its budget. The model
says the same, and the run can last longer than `timeoutMs`.

## The runs

| Run | What it asks | Bounds |
|---|---|---|
| `subscription` | safety of the one-shot mode; it ends unless notified for ever, and implements `ResourceWatch` | 3 texts (2 to poll, 1 terminal), 4 versions, 2 notifications under way, buffer of 2 |
| `stream` | safety of the `--jsonl` mode and its output; it ends, and implements `ResourceWatch` | 2 texts, 4 versions, 2 under way, buffer of 2 |
| `gateway_auth` | exclusion, rotation, logout, honest errors | 2 probes (run again and again), 2 logins, 1 logout, 2 families, 2 generations, 2 clients |
| `gateway_auth_live` | a waiting probe gets done | 2 probes, 1 login, 1 logout |
| `status_watch` | lines, selection of the item, exit codes, deadline, termination | 10 documents, 3 attempts, timeout 4, interval 1, heartbeat 3, stale 2, not received 2, clock up to 6 |
| `probe_server` | cycles, nobody waits in vain, waiters are served | 2 one-shot clients and a streamer, without limit on their runs |
| `command_line` | one answer, documented codes, one budget, polling, termination | 38 command lines, 8 texts, timeout 2, stdin limit 2 chunks, 2 snapshots, clock up to 5, intervals 0, 1 or none (2), lifetimes 3 or none (4), slow down by 2 |
| `subscription_route`, `subscription_completed`, `status_watch_unseen`, `probe_server_fresh`, `command_line_reset` | violations, see *Findings* | the same or smaller instances |

Why the bounds are enough for the cases to happen:

- Three changes of the resource cover one before the acknowledgement, one during a read
  and one during a wait. Two notifications under way with a buffer of two make
  the buffer overflow, and leave several events to consume at once. (The code's buffer
  of 100 is the constant `MaxEvents`; the proofs hold for any capacity above zero.)
- Two probes are what it takes to contend for the lock and to present one token twice; a
  third adds another waiter only. Two generations let a token be consumed, and the
  second login brings a second family.
- In `status_watch` the clock passes the timeout by two ticks, so timers and answers are
  late by more than one; every delay is within the timeout, and the heartbeat and
  `not_received` fall due. The ten documents lie around the boundaries of the selection:
  received at the very time of the enqueueing, before it and after it by one digit of the
  fraction; with and without capitals; foreign; several of one round, in both lists; with
  a valid or a malformed pause; of an unsupported schema. Each of them may be read
  at any time, after any other, fresh or stale, so the file may also go back.
- The 38 command lines are one or more of each mode, and one for each argument check
  that can fail alone or before another. The pointers have an empty path, both escapes,
  the escape of an escape, a digit that is a key and an index, an index of two digits, and
  two levels. A chain of
  causes is up to four links long, of the five the code looks at. A `slow_down` doubles
  the interval at least, and the lifetime ends during a sleep, a poll, or after one.
- With two one-shot clients and a streamer, one client opens the first stream, one joins
  and leaves, and one reads with nobody listening.

Deadlock is checked in every run. A run that has ended stutters in a `Terminated`
action, which is enabled only at its end.

**Fairness.** The event loop of Node runs every continuation and handler that is due, and
a timer that is due fires: weak fairness of the function's own steps, of the end of the
stream, of the deadline and of timers. A request is settled in the end, by its answer or
by the SDK's timeout, so a read or a listen request may fail at any time but does not hang
for ever. Nothing is assumed of the server: it may never change the resource, notify,
acknowledge or end. In `GatewayAuth` only the steps of a probe are fair, each of which its
`AbortSignal` or the lock's timeout guarantees; answers of the gateway, logins and
restarts are not. In `CommandLine` what is fair is the clock, every step that is the
program's own (argument checks, timers that are due), and the end of what is shown or
limited elsewhere (`EndingStep`): `fetch` without a signal, by undici's own timeouts (the
comment at `client/auth/gatewayAuth.ts:164-167`); the watch, by `Terminates` of
`StatusWatch`; and the one-shot subscription, by `EndsUnlessNotified`, so `Ends` is an
assumption about it against a server that never stops notifying. Stdin, the gateway and
the server may stay silent. In `StatusWatch` the clock and the loop are fair, and no read
need be answered. In `ProbeServer` the timers, the reads and the client's continuation
are; nobody has to start, leave or lose a stream.

**Does every run end?** A stream does: its loop looks at the clock at its top, so past the
deadline it prints at most the answer to the read that was open (`OneLateSnapshot`),
however many notifications are buffered or still come, and then its end line
(`Terminates`). A one-shot run has no such check. `waitAfter` prefers a buffered event to
an exhausted budget (`client/subscriptionClient.ts:145-149`), and the loops at `:381-393` and
`:406-417` do not look at the clock, so a server that notifies during each re-read, always
with a text that says `POLL_AFTER`, keeps the run going. What holds is
`EndsUnlessNotified`: a run ends, or consumes ever new notifications. It does not loop on
one event, sleep for ever, or hang on a server that is silent, hangs or drops the
stream. TLC's instance has `MaxVersion` texts, so there the notifications come to an end,
and every run with them: it shows that a run neither stands still nor consumes without
advancing, and the endless run above is an argument from the code that no run shows.

**Refinement.** `Subscription` and `Stream` are shown to implement `ResourceWatch` under
a mapping of what the caller sees: the version reported last, and the verdict. In
`Stream` it is computed from the printed lines, the exit code and whether the end line is
out.

**Mutants.** For each property of a passing run there is a changed definition, a
plausible bug of the code it models, that makes TLC find the property violated. They
stand next to the definition they change and are marked *Mutant*.

## The proofs

| Module | Theorems |
|---|---|
| `SubscriptionProofs` | type correctness; the queue is sound; no update is missed; `finalText` covers what was consumed; success is terminal; error code and close reason agree; timeouts are honest; it implements `ResourceWatch` |
| `StreamProofs` | type correctness; no update is missed; snapshots cover what was consumed; the output is well formed; timeouts are honest; at most one snapshot past the deadline; it implements `ResourceWatch` |
| `GatewayAuthProofs` | type correctness; refreshing is exclusive; revocation needs a loss; the stored token is the newest; `AUTH_LOGIN_REQUIRED` is honest; a logout sticks |
| `StatusWatchProofs` | type correctness; the lines are faithful; the item printed is the newest of this round; exit codes are honest; the deadline is kept |
| `ProbeServerProofs` | type correctness; the count is that of the open streams; nobody waits in vain; no cycle restarts under a listener |
| `CommandLineProofs` | type correctness; one answer, last, that agrees with the exit code, after the arguments are checked and, in a stream, at the first match; documented causes are reported by their codes; one budget; polling as told |
| `ListenClientProofs`, `PrefixInduction` | what several of these rest on: the queue, the steps both modes share; induction over data |

Every invariant of a passing run is proved, and every action property. The theorems hold
for every set of texts, processes, clients, documents, values and command lines, every
capacity, interval and bound. What is assumed of the constants is in the modules that
declare them:

- the capacity of the queue is a positive number (`MaxEventsAssumption`); *nobody* is not
  a process (`ProcessAssumption`); the null values are neither rows nor tokens
  (`NullAssumption`); there are finitely many clients (`ClientsAssumption`); intervals,
  limits and timeouts are numbers (`TimeAssumption`, `CommandAssumption`,
  `DeviceAssumption`);
- `None` is not a reason, not an observation, and not an error code (`NoneAssumption` in
  `StatusWatch` and in `ErrorCodes`, `CodesAssumption`);
- data have the form in which they are handed over: the key and the time of a watch are
  those its argument checks let through, and the lists of a document hold what
  `JSON.parse` can put there (`DocumentAssumption`); JSON values are scalars, arrays and
  objects of JSON values, and the tokens of a pointer are sequences of characters
  (`JsonAssumption`).

**The queue** (`ListenClientProofs`). Each operator keeps `QueueSound`: the buffer holds
the last consecutive sequence numbers, and is not empty once an event has arrived;
a pending wait is for an event still to come on a stream not known to have ended. From
the first it follows that the event with the number `receivedCount` is always in reach,
which is what makes a buffer that forgets the oldest events good enough.

**The listening client** (`ListenClientProofs`). "No update is missed" is not inductive:
it speaks of the wait only. `ListenInv` adds what holds on the way there. Its core is
`NoGap`: on an open stream, a read's answer that is not the current text is made up for,
by a notification of the resource still on the stream or one received since the read
was sent. With it come `Truthful` (an announcement tells of a version that exists),
`AnswerCovers` (a read sent after *n* notifications is answered with a version no older
than what those told of) and `CloseKnown` (the recorded reason is the stream's). Steps
that both modes share are handled once, in `SharedStepInv`.

**The modes.** `SubscriptionProofs` and `StreamProofs` add `RunInv`, which relates the
variables of the function to the client at each `pc`: the position of the next wait is
never beyond the notifications the last read covers, the lines printed so far have the
right form, an error code belongs to the way the run ended. Honest timeouts, an action
property, are proved of every step from the same invariant. That one snapshot at most is
late (`OneLateAnswer`) takes `LateSound`: nothing has been printed late while a read is
open, since the top of the loop sends none past the deadline, so an answer that is
taken late is the first and the last such.

**The credentials** (`GatewayAuthProofs`). That nothing consumed is ever presented
depends on all of the protocol at once, so the invariant has five parts beside the
types: the lock holder's row is the stored one and has a refresh token (`LockSound`); the
stored token is the newest, unless the holder has been answered with the next
(`RowSound`); that answer is the newest, and what is about to be committed contains it
(`ReplySound`); a family just granted belongs to one login, and is not stored yet
(`GrantSound`); late requests and revocations concern lost families only (`LossSound`).
`ExchangeEffect` says once what the gateway may do with a token it is shown, for the
request of a holder and for a stray one.

**The refinement.** Both modes implement `ResourceWatch`: initial states map to initial
states, and each step to one of the watcher's or to a stutter (`WatchStep`). The one
thing missing from the invariant is that what the caller sees never goes back. In
`Subscription` that is `final <= read.version`, as reads do not go back in time
(`FinalAdvances`). In `Stream` the version seen is the newest one among the printed
lines; `SeenSound` says that it is no newer than the last answer, and wanted once the
run has matched.

**The status watch** (`StatusWatchProofs`). `OutputIsFaithful` speaks of the lines while
the loop sleeps, and of all the lines, so the invariant ties the loop's memory to them at
every point: `Told` says that the last state line is what `previous` stands for, the
last line on reachability what `unobservable` says, and that `notReceivedReported` is
set once the line is out. It is kept by each line appended, and so by the up to three
lines one read may print; `HandledSound` says that when the loop sleeps, what the read
came to is what has been remembered; `OngoingSound` that as long as the loop goes on, the
item printed last is one it does not end with.

That the item is the right one (`RoundSelection`) is a fact about the functions, for each
document. The code compares two times by their seconds and then digit by digit, padding
the shorter fraction; `DigitsCompare` shows that the first digit in which two fractions
differ decides, and `NanosecondsRun` that the number of nanoseconds grows by a digit at a
time, so the comparison is the order of the numbers. The loop over a list keeps the newest
entry of this round met so far, and the first of two equally new (`ObservesNewest`). What
the loop remembers is an observation of some document, which is in the invariant.

**The test server** (`ProbeServerProofs`). `openStreams` is the cardinality of the set of
open streams, which the library's facts on finite sets carry through subscribing and
releasing. `TimersAreSet` is why nobody waits in vain: while anybody listens, a resource
that is not at its last stage has its timer set. `FirstStream` keeps a client's two
phases apart.

**The command line** (`CommandLineProofs`). `Place` ties the control point to the mode,
to the start of authentication and to when what is awaited is cut off; `Documents` says
that nothing but the last document is an answer, and that only a run that is over has
one; `GapIsKept` that the time to wake from a sleep is as late as the gateway has asked.
`Vetted` says that nobody is contacted unless every check of the mode has passed, and
`Concluding` that answer, exit code and cause agree. Three arguments come on top:

- *Arguments.* The checks of a mode are a list, of which the first that fails is
  reported. `NoneRefuses` takes a list without a failure apart; what the checks say
  together is `ArgumentsComeFirst` (`--login` and `--logout` look at neither the token nor
  the timeout, and are excepted from that clause).
- *Causes.* Every error that is thrown is a chain: links without a known code, and a
  last one with a code or none. `findCauseCode` follows it for five links and finds the
  code of the last; the handlers test nothing else but the first link (the lemmas on
  `Chain`). So what wraps a failure does not change what is reported, as long as the code
  looks that far and the last link has a code that it knows. `Diagnosis` says which
  causes these are, and what becomes of the others; a reset connection is not among the
  first, see *Findings*.
- *Streams.* `StopsAtMatch` says that a snapshot that `evaluateSnapshot` matches is the
  last one, and the run a success. What it matches is told from the other side:
  `JsonPointer` escapes the keys and writes out the indices of a document, and names each
  value by the tokens of its ancestors. Unescaping undoes escaping and hits nothing else
  (`UnescapeEscape`, `TokenIsEscape`), a token that the code takes for an index is the
  numeral of exactly that index (`NumeralsAreIndices`, `IndexIsNumeral`), one step of the
  lookup finds the child its token names (`ChildrenFound`), and so does the whole pointer, at
  any depth (`ResolvesWhatIsNamed`). The clause speaks of tokens the RFC allows; the code
  takes others too, in which a `~` stands for itself.

**Induction over data** (`PrefixInduction`). The loops of the code that go through an
array are functions over the lengths of its prefixes. A theorem of induction with an
operator for its parameter cannot be used by the provers at hand; these lemmas are stated
of a *set* of lengths that contains 0 and the successor of each of its members. Their
proof takes the least length that is missing, which there is since `<` is well-founded on
the naturals. From it follow the type of such a function and the facts above about
digits, entries, escapes, indices and pointers.

**Only model-checked.** Liveness under fairness (`Terminates`, `EndsUnlessNotified`,
`ProbesEnd`, `WaitersAreServed`, `Ends`) is out of the prover's reach and stays with TLC. Which
chains of errors `fetch` and the SDK throw is an assumption of the model.

## Findings

Five statements of the repository do not hold of the code; each has a run.

- `subscription_route`. The comment on the route (`client/subscriptionClient.ts:32`) says
  that "subscription" means a notification *then re-read*. It is also reported when the
  notification was handled while the post-listen read was under way, and that read's
  text, possibly older, is returned (`:375`).
- `subscription_completed`. The repository's README (line 49) says that the one-shot
  subscription detects by its read after listening what is already complete, with the route
  `pre-completion`. The code compares that read with the initial one only
  (`client/subscriptionClient.ts:396`), so a result that was complete before the first
  read is waited on until the timeout. The stream mode does detect it, and the comment
  at `client/streamClient.ts:52-54` names the difference.
- `status_watch_unseen`. The README says `not_received` is printed when the item has not
  appeared. It is also printed for one that had been printed and has left the file
  (`client/statusWatch.ts:148`).
- `probe_server_fresh`. The comment at `server/resourceState.ts:51` says the resources
  are reset for the next subscription cycle. The reset hangs on a read that finds
  nobody listening; `--jsonl` listens before it reads, so a second streamer finds the
  progress at its last stage.
- `command_line_reset`. The comment at `client/protocolNegotiation.ts:33-34` says that
  transport failures propagate untouched, so that they keep their own error codes.
  `connectPinned` sets aside only the failures the classification knows (DNS, a refused
  connection, TLS). Another one, such as a reset connection, becomes
  `PROTOCOL_UNSUPPORTED` when the SDK wraps it as `ERA_NEGOTIATION_FAILED`.

## Not modelled, and the plan

Not modelled: the configuration of the test server and its entry point (environment
variables, a port and logging), the release scripts (not part of the program), the
server's tools, wording, layout and logging.

Hazards that no property covers, each with its reason in `PROJECT.json`:

- the reads of the one-shot mode are in the model without a bound, as they are in the
  code, which promises nothing about it;
- what the SDK does with a timeout of 0 (`client/streamClient.ts:81`) is external; the check
  in front of it is in the model, as the step `Start`;
- a refresh request sent without a budget (`client/auth/gatewayAuth.ts:187`) is not told from
  one sent with it, since `GatewayAuth` has no clock;
- a gateway that rotates the refresh token and does not send the new one
  (`client/auth/gatewayAuth.ts:239`) is not in the model: it leaves the client nothing to
  go on.

One thing was noticed that no run shows, because it depends on what is external:

- A login or logout that cannot use the store, or finds it locked, ends with exit code 1
  and without an answer line; `OneAnswer` excepts it (`Crashes`).

Order of the work, the most important first: queue, listening client, the one-shot and
the stream mode; the credentials; the status watch and its documents; the test server;
the command line with `--until`, tool call, error codes and device login; proofs of each;
the refinement of `ResourceWatch` (all done). What is left to a next step: one client
composed with `ProbeServer` in place of the external server of `ListenClient`, and two
`--login` runs of `DeviceLogin` at one time on the store of `GatewayAuth`.
