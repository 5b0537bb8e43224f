------------------------------- MODULE Stream -------------------------------
(***************************************************************************)
(* runResourceStream (src/src/client/streamClient.ts) and the lines the    *)
(* CLI prints for it (--jsonl): an ack, then a snapshot per read, then one *)
(* end line.  The deadline counts from the start and bounds connecting,    *)
(* listing, every read and every wait.                                     *)
(*                                                                         *)
(* The function looks at the clock at its start, at the top of its loop    *)
(* and when it waits. In between only the timers of the SDK know the       *)
(* deadline: one cuts off a request that is still open when it fires, and  *)
(* it may fire late, so an answer may be taken though the deadline has     *)
(* passed.                                                                 *)
(***************************************************************************)
EXTENDS ListenClient

CONSTANT WantedTexts    \* the texts evaluateSnapshot matches against --until

VARIABLES
  sequence,     \* where the next wait starts
  source,       \* what led to the snapshot being read
  matched,
  errorCode,
  outcome,      \* how the async function ended
  output,       \* the lines on stdout
  exitCode,
  late          \* history: the snapshots printed past the deadline

runVars == << sequence, source, matched, errorCode, outcome, output, exitCode, late >>

vars == << serverVars, pc, listenVars, runVars >>

ErrorCodes == {"none", "RESOURCE_NOT_FOUND", "SUBSCRIPTION_FAILED",
               "SUBSCRIPTION_NOT_HONORED", "NOTIFICATION_TIMEOUT",
               "SUBSCRIPTION_DISCONNECTED", "SUBSCRIPTION_CLOSED"}

Sources == {"post-listen", "notification"}

\* A line; `matched` of an end line is its reason until-matched.
Lines == [type : {"ack", "snapshot", "end"}, source : {"none"} \cup Sources,
          version : Nat, matched : BOOLEAN]

TypeOK ==
  /\ ServerTypeOK
  /\ ListenTypeOK
  /\ sequence \in Nat
  /\ source \in Sources
  /\ matched \in BOOLEAN
  /\ errorCode \in ErrorCodes
  /\ outcome \in {"running", "returned", "thrown"}
  /\ output \in Seq(Lines)
  /\ exitCode \in {0, 1}
  /\ late \in Nat

\* Authentication may have used up the budget before the function is called.
Init ==
  /\ ServerInit
  /\ ListenInit
  /\ pc = "start"
  /\ deadline \in {"running", "passed"}
  /\ sequence = 0
  /\ source = "post-listen"
  /\ matched = FALSE
  /\ errorCode = "none"
  /\ outcome = "running"
  /\ output = << >>
  /\ exitCode = 0
  /\ late = 0

Emit(type, from, version, match) ==
  output' = Append(output, [type |-> type, source |-> from, version |-> version,
                            matched |-> match])

Matches(version) == history[version] \in WantedTexts

-----------------------------------------------------------------------------
(* Up to the acknowledgement.                                              *)

\* failed(errorCode, notAcknowledged).
Fails(code) ==
  /\ errorCode' = code
  /\ outcome' = "returned"
  /\ pc' = "done"

\* An exhausted budget ends the run before the server is contacted.
Start ==
  /\ pc = "start"
  /\ \/ Expired /\ Fails("NOTIFICATION_TIMEOUT")
     \/ ~Expired /\ pc' = "connect" /\ UNCHANGED << errorCode, outcome >>
  /\ UNCHANGED << serverVars, listenVars, sequence, source, matched, output, exitCode, late >>

Connect ==
  /\ pc = "connect"
  /\ pc' = "list"
  /\ UNCHANGED << serverVars, listenVars, runVars >>

\* Connecting or listing is cut off.
OutOfBudget ==
  /\ pc \in {"connect", "list"}
  /\ Expired
  /\ Fails("NOTIFICATION_TIMEOUT")
  /\ UNCHANGED << serverVars, listenVars, sequence, source, matched, output, exitCode, late >>

\* Connecting or listing fails otherwise, in time or not.
Throw ==
  /\ pc \in {"connect", "list"}
  /\ outcome' = "thrown"
  /\ pc' = "done"
  /\ UNCHANGED << serverVars, listenVars, sequence, source, matched, errorCode, output,
                  exitCode, late >>

ResourceNotFound ==
  /\ pc = "list"
  /\ Fails("RESOURCE_NOT_FOUND")
  /\ UNCHANGED << serverVars, listenVars, sequence, source, matched, output, exitCode, late >>

\* The uri is listed, or the check is skipped: the handler is installed, then the
\* listen request is sent.
Listen ==
  /\ pc = "list"
  /\ queue' = CreateQueue
  /\ link' = "requested"
  /\ pc' = "listen"
  /\ UNCHANGED << history, honored, wire, deadline, read, closeReason, announced,
                  runVars >>

\* client.listen throws: refused, lost, or out of the time it was given.
ListenFails ==
  /\ pc = "listen"
  /\ queue' = Cancel(queue)
  /\ link' = "local"
  /\ Fails("SUBSCRIPTION_FAILED")
  /\ UNCHANGED << history, honored, wire, deadline, read, closeReason, announced,
                  sequence, source, matched, output, exitCode, late >>

-----------------------------------------------------------------------------
(* The loop: read, print, wait.                                            *)

\* `break` with an error code, or with "none" on a match.
Break(code) ==
  /\ Finish
  /\ errorCode' = code
  /\ outcome' = "returned"

\* The ack line is printed even when the filter lacks the uri.
NotHonored ==
  /\ pc = "acked"
  /\ ~honored
  /\ Emit("ack", "none", 0, FALSE)
  /\ Break("SUBSCRIPTION_NOT_HONORED")
  /\ UNCHANGED << serverVars, deadline, read, closeReason, announced, sequence, source,
                  matched, exitCode, late >>

\* Mutant: the top of the loop does not look at the clock, the wait alone does.
NextReadRegardless ==
  /\ SendRead
  /\ pc' = "reread"
  /\ UNCHANGED << queue, errorCode, outcome >>

\* The top of the loop.
NextRead ==
  \/ /\ Expired
     /\ Break("NOTIFICATION_TIMEOUT")
     /\ UNCHANGED read
  \/ /\ ~Expired
     /\ SendRead
     /\ pc' = "reread"
     /\ UNCHANGED << queue, errorCode, outcome >>

\* receivedCount is noted before the read of the current value.
StartLoop ==
  /\ pc = "acked"
  /\ honored
  /\ Emit("ack", "none", 0, FALSE)
  /\ sequence' = queue.received
  /\ NextRead
  /\ UNCHANGED << serverVars, deadline, closeReason, announced, source, matched,
                  exitCode, late >>

\* A line of a snapshot; nothing looks at the clock between the answer and the line.
Prints ==
  /\ TakeAnswer
  /\ matched' = Matches(read.version)
  /\ Emit("snapshot", source, read.version, Matches(read.version))
  /\ late' = IF Expired THEN late + 1 ELSE late

\* Mutant: the loop goes on after a match.
SnapshotWithoutBreak ==
  /\ pc = "reread"
  /\ Prints
  /\ Wait(sequence)
  /\ UNCHANGED << serverVars, deadline, closeReason, announced, sequence, source,
                  errorCode, outcome, exitCode >>

\* Mutant: the loop waits for an event past those that came during the read.
SnapshotSkippingAhead ==
  /\ pc = "reread"
  /\ Prints
  /\ sequence' = queue.received
  /\ \/ Matches(read.version) /\ Break("none")
     \/ /\ ~Matches(read.version)
        /\ Wait(queue.received)
        /\ UNCHANGED << errorCode, outcome >>
  /\ UNCHANGED << serverVars, deadline, closeReason, announced, source, exitCode >>

\* A read is answered: its snapshot is printed, and a match ends the loop.
Snapshot ==
  /\ pc = "reread"
  /\ Prints
  /\ \/ Matches(read.version) /\ Break("none")
     \/ ~Matches(read.version) /\ Wait(sequence) /\ UNCHANGED << errorCode, outcome >>
  /\ UNCHANGED << serverVars, deadline, closeReason, announced, sequence, source, exitCode >>

\* The SDK cuts off a read that has not been answered.
ReadTimesOut ==
  /\ pc = "reread"
  /\ read.state = "sent"
  /\ Expired
  /\ AbandonRead
  /\ Break("NOTIFICATION_TIMEOUT")
  /\ UNCHANGED << serverVars, deadline, closeReason, announced, sequence, source, matched,
                  output, exitCode, late >>

\* A read fails otherwise, or its result has no text: only the finallys run.
ReadFails ==
  /\ pc = "reread"
  /\ AbandonRead
  /\ Finish
  /\ outcome' = "thrown"
  /\ UNCHANGED << serverVars, deadline, closeReason, announced, sequence, source, matched,
                  errorCode, output, exitCode, late >>

\* The wait resolved: every notification received so far is covered by one read.
Woken ==
  /\ pc = "wait"
  /\ queue.waiter.state = "resolved"
  /\ sequence' = queue.received
  /\ source' = "notification"
  /\ NextRead
  /\ UNCHANGED << serverVars, deadline, closeReason, announced, matched, output, exitCode,
                  late >>

WaitFails ==
  /\ pc = "wait"
  /\ queue.waiter.state = "rejected"
  /\ Break(Classify(queue.waiter.error))
  /\ UNCHANGED << serverVars, deadline, read, closeReason, announced, sequence, source,
                  matched, output, exitCode, late >>

\* Mutant: the exit code is that of the error code, which a run that threw has none of.
ReportByErrorCode ==
  /\ pc = "done"
  /\ pc' = "reported"
  /\ Emit("end", "none", 0, outcome = "returned" /\ matched)
  /\ exitCode' = IF errorCode = "none" THEN 0 ELSE 1
  /\ UNCHANGED << serverVars, listenVars, sequence, source, matched, errorCode, outcome,
                  late >>

\* The CLI prints the end line: of the result, or of the error that was thrown.
Report ==
  /\ pc = "done"
  /\ pc' = "reported"
  /\ Emit("end", "none", 0, outcome = "returned" /\ matched)
  /\ exitCode' = IF outcome = "returned" /\ matched THEN 0 ELSE 1
  /\ UNCHANGED << serverVars, listenVars, sequence, source, matched, errorCode, outcome,
                  late >>

-----------------------------------------------------------------------------
\* What the function and the SDK's timers do by themselves ...
OwnStep ==
  \/ Start \/ OutOfBudget \/ (Expired /\ ListenFails)
  \/ NotHonored \/ StartLoop \/ Snapshot \/ ReadTimesOut
  \/ Woken \/ WaitFails \/ Report

\* ... and what needs somebody's answer.
RunStep == OwnStep \/ Connect \/ Throw \/ ResourceNotFound \/ Listen \/ ListenFails \/ ReadFails

SharedStep == Acknowledged \/ Closed \/ HandlerStep \/ ServerStep

Terminated == pc = "reported" /\ UNCHANGED vars

Next ==
  \/ RunStep
  \/ SharedStep /\ UNCHANGED runVars
  \/ Terminated

Spec == Init /\ [][Next]_vars

\* The event loop runs every continuation and every handler that is due, and the clock
\* advances; the server need not answer anything.
Fairness ==
  /\ WF_vars(OwnStep)
  /\ WF_vars(Closed /\ UNCHANGED runVars)
  /\ WF_vars(DeadlinePasses /\ UNCHANGED runVars)
  /\ WF_vars(WaitTimesOut /\ UNCHANGED runVars)

FairSpec == Spec /\ Fairness

-----------------------------------------------------------------------------
(* Properties.                                                             *)

\* No lost update, though one read answers for every notification received before
\* it (the coalescing of the loop).
NoMissedUpdate == UpToDateAtWait(sequence)

\* NOTIFICATION_TIMEOUT of a wait is honest.
TimeoutIsHonest == [][GivesUpHonestly]_vars

\* The lines of a run: one ack at the head or none, snapshots that never go back in
\* time, nothing after a match but the end line, and one end line, printed last,
\* that says until-matched exactly after a matching snapshot.
OutputIsWellFormed ==
  /\ \A i \in DOMAIN output :
       /\ output[i].type = "ack" <=> i = 1 /\ output[i].type # "end"
       /\ output[i].type = "end" => i = Len(output)
       /\ output[i].matched /\ output[i].type = "snapshot" => i >= Len(output) - 1
       /\ output[i].type = "end" =>
            (output[i].matched <=> i > 1 /\ output[i - 1].matched)
  /\ \A i, j \in DOMAIN output :
       i < j /\ output[j].type = "snapshot" => output[i].version <= output[j].version
  /\ pc = "reported" <=> output # << >> /\ output[Len(output)].type = "end"

\* The notifications the loop has caught up with are all answered by the snapshot
\* printed last: it is no older than anything they told of (one read answers for
\* several notifications, and never for one that came after it was served).
SnapshotCoversConsumed ==
  pc = "wait" => \A k \in DOMAIN announced : k <= sequence => announced[k] <= read.version

\* Past the deadline at most one more snapshot is printed, whatever comes in: it is the
\* answer to the read that was open when the deadline passed.  The notifications that
\* are buffered by then, and those a busy server keeps sending, lead to no other, though
\* a wait hands them out without looking at its budget.
OneLateSnapshot == late <= 1

\* The run ends and its end line is printed, though nothing is ever answered and however
\* many notifications come.
Terminates == <>(pc = "reported")

-----------------------------------------------------------------------------
\* What a run looks like to its caller: see ResourceWatch.
Verdict ==
  IF pc # "reported" THEN "watching" ELSE IF exitCode = 0 THEN "success" ELSE "failure"

Seen ==
  LET versions == {output[i].version : i \in DOMAIN output}
  IN IF versions \subseteq {0} THEN 0
     ELSE CHOOSE v \in versions : \A w \in versions : w <= v

Watch == INSTANCE ResourceWatch
           WITH wanted <- WantedTexts, seen <- Seen, verdict <- Verdict

\* Every run is a run of the abstract watcher: exit code 0 means that the last
\* snapshot is a text the resource had and that --until matches.
ImplementsWatch == Watch!Spec
=============================================================================
