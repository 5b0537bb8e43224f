----------------------------- MODULE StatusWatch -----------------------------
(***************************************************************************)
(* runStatusWatch (src/src/client/statusWatch.ts): the loop that reads     *)
(* the review-status file of a local program, prints a line when something *)
(* changed, and ends on a finished review, on one that waits for the user, *)
(* or at the deadline.                                                     *)
(*                                                                         *)
(* Time is counted in ticks and passes at any point of the loop: a read    *)
(* may hang, a timer may be late.  The file and its writer are external:   *)
(* an attempt to read it may fail, or find any of the Documents.           *)
(***************************************************************************)
EXTENDS StatusDocument

CONSTANTS
  Documents,   \* what may be in the file
  Key, After,  \* the pull request, and the time it was enqueued
  Interval, RetryDelay, Heartbeat, Stale, NotReceived, Timeout,   \* in ticks
  Attempts,    \* READ_ATTEMPTS
  MaxTime      \* bound on the clock, past Timeout

ASSUME TimeAssumption ==
  /\ {Interval, RetryDelay, Heartbeat, Stale, NotReceived, Timeout} \subseteq Nat \ {0}
  /\ Attempts \in Nat \ {0}
  /\ MaxTime \in Nat /\ MaxTime > Timeout

\* JSON.parse and parseStatusWatchArgs see to it.
ASSUME DocumentAssumption ==
  /\ IsKey(Key)
  /\ After \in Times
  /\ \A document \in Documents :
       document = NotJson \/ (IsField(document.items) /\ IsField(document.recent))

VARIABLES
  now, pc,
  wakeAt,              \* when the current sleep is over
  attempt,             \* reads tried in this round of the loop
  found,               \* what the read came to
  lastEmitAt,
  previous,            \* previousFingerprint
  unobservable,        \* unobservableReason
  notReceivedReported,
  lastState,
  output,              \* the lines written
  exitCode             \* 99 while running

vars == << now, pc, wakeAt, attempt, found, lastEmitAt, previous, unobservable,
           notReceivedReported, lastState, output, exitCode >>

\* The documents that can be used, and what observe() makes of each.
Readable == {document \in Documents : Kind(document) = "ok"}

Observed == [document \in Readable |-> Observe(document, Key, PreciseTime(After))]

Reasons == {"no_file", "unreadable", "unsupported_schema", "stale"}

\* The result of read(): why there is no document, or what was observed and when it was
\* written; the document itself is kept for the properties.
Result(document, updatedAt) ==
  [kind |-> "ok", document |-> document, observation |-> Observed[document],
   updatedAt |-> updatedAt]

IsResult(result) ==
  \/ result \in [kind : Reasons \ {"stale"}]
  \/ /\ result.document \in Readable
     /\ result.updatedAt \in Int
     /\ result = Result(result.document, result.updatedAt)

\* The state a line of an observation names.
StateName(observation) ==
  IF observation.kind = "finished" THEN "finished" ELSE observation.state

\* None is neither a reason nor an observation.
ASSUME NoneAssumption ==
  None \notin Reasons /\ \A document \in Readable : Observed[document] # None

Line(type, what) == [type |-> type, what |-> what]

LineTypes == {"state", "action_required", "not_received", "unobservable", "recovered",
              "heartbeat", "timeout"}

Running == 99

TypeOK ==
  /\ now \in 0 .. MaxTime
  /\ pc \in {"top", "reading", "retry", "handle", "sleeping", "ended"}
  /\ wakeAt \in Nat
  /\ attempt \in 0 .. Attempts
  /\ IsResult(found)
  /\ lastEmitAt \in 0 .. now
  /\ previous = None \/ previous.kind \in {"active", "finished"}
  /\ unobservable \in {None} \cup Reasons
  /\ notReceivedReported \in BOOLEAN
  /\ lastState = IF previous = None THEN "none" ELSE StateName(previous)
  /\ \A i \in DOMAIN output : output[i].type \in LineTypes
  /\ exitCode \in {0, 1, 3, 4, Running}

Unread == [kind |-> "no_file"]

Init ==
  /\ now = 0
  /\ pc = "top"
  /\ wakeAt = 0
  /\ attempt = 0
  /\ found = Unread
  /\ lastEmitAt = 0
  /\ previous = None
  /\ unobservable = None
  /\ notReceivedReported = FALSE
  /\ lastState = "none"
  /\ output = << >>
  /\ exitCode = Running

\* remainingMs() <= 0.
Expired == now >= Timeout

\* min(ms, max(remainingMs(), 0)) from now.
SleepUntil(ticks) ==
  IF Expired THEN now ELSE IF now + ticks > Timeout THEN Timeout ELSE now + ticks

Tick ==
  /\ pc # "ended"
  /\ now < MaxTime
  /\ now' = now + 1
  /\ UNCHANGED << pc, wakeAt, attempt, found, lastEmitAt, previous, unobservable,
                  notReceivedReported, lastState, output, exitCode >>

-----------------------------------------------------------------------------
(* Reading, within the deadline.                                           *)

TimesOut ==
  /\ pc' = "ended"
  /\ output' = Append(output, Line("timeout", None))
  /\ lastEmitAt' = now
  /\ exitCode' = 4
  /\ UNCHANGED << now, wakeAt, attempt, found, previous, unobservable,
                  notReceivedReported, lastState >>

\* Each round of the loop reads the file afresh, if there is time left.
StartRead ==
  /\ pc = "top"
  /\ ~Expired
  /\ pc' = "reading"
  /\ attempt' = 1
  /\ UNCHANGED << now, wakeAt, found, lastEmitAt, previous, unobservable,
                  notReceivedReported, lastState, output, exitCode >>

\* An attempt finds no file, another schema, or a document: no retry.
Settle(result) ==
  /\ pc = "reading"
  /\ found' = result
  /\ pc' = "handle"
  /\ UNCHANGED << now, wakeAt, attempt, lastEmitAt, previous, unobservable,
                  notReceivedReported, lastState, output, exitCode >>

ReadDocument ==
  \E document \in Readable, age \in {0, Stale, Stale + 1} :
    Settle(Result(document, now - age))

ReadUnobservable ==
  \E reason \in {"no_file"} \cup ({Kind(document) : document \in Documents}
                                     \cap {"unsupported_schema"}) :
    Settle([kind |-> reason])

\* A read error or an invalid document, at the last attempt.
ReadUnreadable == attempt = Attempts /\ Settle([kind |-> "unreadable"])

\* Mutant: attempts without a limit.
RetryUnlimited ==
  /\ pc = "reading"
  /\ attempt' = attempt + 1
  /\ wakeAt' = SleepUntil(RetryDelay)
  /\ pc' = "retry"
  /\ UNCHANGED << now, found, lastEmitAt, previous, unobservable, notReceivedReported,
                  lastState, output, exitCode >>

\* The same, before the last attempt: a pause, then another one.
Retry ==
  /\ pc = "reading"
  /\ attempt < Attempts
  /\ attempt' = attempt + 1
  /\ wakeAt' = SleepUntil(RetryDelay)
  /\ pc' = "retry"
  /\ UNCHANGED << now, found, lastEmitAt, previous, unobservable, notReceivedReported,
                  lastState, output, exitCode >>

RetryOver ==
  /\ pc = "retry"
  /\ now >= wakeAt
  /\ pc' = "reading"
  /\ UNCHANGED << now, wakeAt, attempt, found, lastEmitAt, previous, unobservable,
                  notReceivedReported, lastState, output, exitCode >>

\* Mutant: no watchdog, the deadline is noticed between two reads only.
DeadlineReachedAtTop == pc \in {"top", "handle"} /\ Expired /\ TimesOut

\* The deadline is noticed at the top of the loop, by the watchdog of a read that
\* hangs, or before the result of a read is looked at.
DeadlineReached ==
  /\ pc \in {"top", "reading", "retry", "handle"}
  /\ Expired
  /\ TimesOut

-----------------------------------------------------------------------------
(* The lines a result leads to.                                            *)

Reason ==
  IF found.kind # "ok" THEN found.kind
  ELSE IF now - found.updatedAt > Stale THEN "stale"
  ELSE None

Observable == Reason = None

\* unobservable when the reason is new, recovered when there is none any more.
ReachLines ==
  IF ~Observable
  THEN IF Reason = unobservable THEN << >> ELSE << Line("unobservable", Reason) >>
  ELSE IF unobservable = None THEN << >> ELSE << Line("recovered", None) >>

\* not_received is due: once, and only after NotReceived ticks.
NotReceivedDue ==
  /\ Observable
  /\ found.observation.kind = "none"
  /\ ~notReceivedReported
  /\ now >= NotReceived

\* Mutant: only the first observation is news.
IsNewsOnce == Observable /\ found.observation.kind # "none" /\ previous = None

\* The item's fingerprint differs from the one printed last.
IsNews == Observable /\ found.observation.kind # "none" /\ found.observation # previous

WaitsForTheUser ==
  /\ found.observation.kind = "active"
  /\ found.observation.state = "waiting"
  /\ found.observation.hold = "manual"

HasCompleted ==
  /\ found.observation.kind = "finished"
  /\ found.observation.outcome = "completed"
  /\ found.observation.exit \in {None, 0}

ObservationLines ==
  IF NotReceivedDue THEN << Line("not_received", found.observation.previous) >>
  ELSE IF ~IsNews THEN << >>
  ELSE << Line("state", found.observation) >>
         \o (IF WaitsForTheUser THEN << Line("action_required", None) >> ELSE << >>)

ExitCode ==
  IF found.observation.kind = "finished" THEN IF HasCompleted THEN 0 ELSE 1
  ELSE IF WaitsForTheUser THEN 3
  ELSE Running

\* Mutant: the end of a review is an exit even when the file is stale.
ExitOfAnyDocument ==
  IF found.kind # "ok" THEN Running
  ELSE IF found.observation = previous THEN Running
  ELSE ExitCode

\* handleObservation's return value.
Exit == IF IsNews THEN ExitCode ELSE Running

\* The line of a loop that has printed nothing for long.
Heartbeats == Line("heartbeat", IF Observable THEN lastState ELSE "unobservable")

\* A result is handled in one go: lines, an exit or a heartbeat if nothing has been
\* printed for long, then the sleep.
HandleResult ==
  LET lines == ReachLines \o ObservationLines
      quiet == lines = << >> /\ now - lastEmitAt >= Heartbeat
  IN /\ pc = "handle"
     /\ unobservable' = Reason
     /\ previous' = IF IsNews THEN found.observation ELSE previous
     /\ lastState' = IF IsNews THEN StateName(found.observation) ELSE lastState
     /\ notReceivedReported' = (notReceivedReported \/ NotReceivedDue)
     /\ exitCode' = Exit
     /\ output' = output \o lines \o (IF quiet /\ Exit = Running
                                      THEN << Heartbeats >> ELSE << >>)
     /\ lastEmitAt' = IF output' = output THEN lastEmitAt ELSE now
     /\ pc' = IF Exit = Running THEN "sleeping" ELSE "ended"
     /\ wakeAt' = SleepUntil(Interval)
     /\ UNCHANGED << now, attempt, found >>

\* Mutant: a result is handled without looking at the clock.
HandleLate == HandleResult

\* Only a result that is in before the deadline is handled.
Handle == ~Expired /\ HandleResult

Wake ==
  /\ pc = "sleeping"
  /\ now >= wakeAt
  /\ pc' = "top"
  /\ UNCHANGED << now, wakeAt, attempt, found, lastEmitAt, previous, unobservable,
                  notReceivedReported, lastState, output, exitCode >>

-----------------------------------------------------------------------------
ReadStep == ReadDocument \/ ReadUnobservable \/ ReadUnreadable \/ Retry

LoopStep == StartRead \/ RetryOver \/ DeadlineReached \/ Handle \/ Wake

Terminated == pc = "ended" /\ UNCHANGED vars

Next == ReadStep \/ LoopStep \/ Tick \/ Terminated

Spec == Init /\ [][Next]_vars

\* The clock advances and due timers run; a read need never be answered.
FairSpec == Spec /\ WF_vars(Tick) /\ WF_vars(LoopStep)

-----------------------------------------------------------------------------
(* Properties.                                                             *)

\* The line of a type that was printed last.
LastOf(types) ==
  LET at == {i \in DOMAIN output : output[i].type \in types}
  IN IF at = {} THEN Line(None, None)
     ELSE output[CHOOSE i \in at : \A j \in at : j <= i]

\* The lines that say whether the file can be used.
Reach == {"unobservable", "recovered"}

\* After a round of the loop the last of the unobservable/recovered lines says whether
\* and why the file cannot be used, and the last state line is the item found, if any.
LinesTellTheState ==
  pc = "sleeping" =>
    /\ LastOf(Reach).what = unobservable
    /\ found.kind # "ok" => unobservable = found.kind
    /\ unobservable = None =>
         \/ found.observation.kind = "none"
         \/ LastOf({"state"}).what = found.observation

\* A line of these types, and the next one of them.
Adjacent(types, i, j) ==
  /\ i < j
  /\ output[i].type \in types /\ output[j].type \in types
  /\ \A k \in (i + 1) .. (j - 1) : output[k].type \notin types

\* No state twice in a row, no reason and no recovery either, and no recovery from
\* nothing; not_received once; and the terminal line is the last.
LinesAreNews ==
  /\ \A i, j \in DOMAIN output :
       Adjacent({"state"}, i, j) \/ Adjacent(Reach, i, j) => output[i] # output[j]
  /\ \A j \in DOMAIN output : output[j].type = "recovered" =>
       \E i \in DOMAIN output : Adjacent(Reach, i, j)
  /\ \A i, j \in DOMAIN output :
       output[i].type = "not_received" /\ output[j].type = "not_received" => i = j
  /\ \A i \in DOMAIN output :
       output[i].type \in {"timeout", "action_required"} => i = Len(output)

\* Who reads the lines knows what the watch knows, and is told it once: over rounds in
\* which the item changes, goes and comes back, and the file can and cannot be used.
OutputIsFaithful == LinesTellTheState /\ LinesAreNews

\* The nanoseconds of a fraction, as the number its digits are the decimals of.
Nanoseconds(raw) ==
  LET number[n \in 0 .. Width] ==
        IF n = 0 THEN 0 ELSE 10 * number[n - 1] + PreciseTime(raw).fraction[n]
  IN number[Width]

\* When an entry was received, compared as a number.
IsBefore(a, b) ==
  a.seconds < b.seconds \/ (a.seconds = b.seconds /\ Nanoseconds(a) < Nanoseconds(b))

\* The entries of the pull request received after it was enqueued that none is newer than.
Newest(entries) ==
  LET round == IF entries = None THEN {}
               ELSE {entry \in Range(entries) :
                       /\ IsEntry(entry) /\ IsTime(entry.at)
                       /\ entry.key.name = Key.name
                       /\ IsBefore(After, entry.at)}
  IN {entry \in round : \A other \in round : ~IsBefore(entry.at, other.at)}

\* A line speaks of this round: what was printed for a document is the newest item
\* received for the pull request after it was enqueued, however its times and its key
\* are written, and the watch goes on while such an item is active, or there is none.
SelectsThisRound ==
  pc \in {"sleeping", "ended"} /\ exitCode # 4 /\ found.kind = "ok" /\ unobservable = None =>
    LET active == Newest(found.document.items)
        ended  == Newest(found.document.recent)
        line   == LastOf({"state"}).what
    IN IF active # {}
       THEN \E entry \in active :
              /\ line.kind = "active"
              /\ << line.state, line.hold, line.round >>
                   = << entry.state, entry.hold, entry.round >>
              /\ exitCode = IF entry.state = "waiting" /\ entry.hold = "manual"
                            THEN 3 ELSE Running
       ELSE IF ended # {}
       THEN \E entry \in ended :
              exitCode = IF entry.outcome = "completed" /\ entry.exit \in {None, 0}
                         THEN 0 ELSE 1
       ELSE exitCode = Running

\* The exit code is the last word of the lines, and a review's end is taken only
\* from a document that was fresh and read in time.
ExitIsHonest ==
  [][exitCode' # exitCode =>
       LET last == output'[Len(output')]
       IN /\ exitCode' \in {0, 1} => last.type = "state" /\ last.what.kind = "finished"
          /\ exitCode' = 0 => last.what.outcome = "completed"
          /\ exitCode' = 3 => last.type = "action_required"
          /\ exitCode' # 4 => now < Timeout /\ now - found.updatedAt <= Stale]_vars

\* The deadline bounds every sleep, of the loop and between the attempts of a read, and
\* once it has passed the one line still printed is the timeout's, however late the
\* answer of a read or a timer is.
DeadlineIsKept ==
  [][/\ pc' # pc /\ pc' \in {"sleeping", "retry"} => wakeAt' <= Timeout \/ wakeAt' <= now
     /\ Expired /\ output' # output => output' = Append(output, Line("timeout", None))]_vars

\* The watch ends, though a read may hang for ever.
Terminates == <>(pc = "ended")

\* What the README says of not_received: it is printed when no item of this round
\* has appeared.
NotReceivedMeansNeverSeen ==
  \A i, j \in DOMAIN output :
    output[i].type = "state" /\ output[j].type = "not_received" => j < i
=============================================================================
