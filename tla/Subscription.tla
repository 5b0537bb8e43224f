---------------------------- MODULE Subscription ----------------------------
(***************************************************************************)
(* runResourceSubscription (src/src/client/subscriptionClient.ts): one run *)
(* of the one-shot subscription, from connecting to its result.  Its reads *)
(* have no budget: only the waits and the listen request know the deadline.*)
(***************************************************************************)
EXTENDS ListenClient

CONSTANT PollTexts    \* the texts whose recommended_next_action is POLL_AFTER

VARIABLES
  initial,      \* version of initialText, 0 before the first read
  final,        \* version of finalText, 0 while it is ""
  sequence,     \* notificationSequence
  route,
  errorCode,
  outcome       \* how the async function ended

runVars == << initial, final, sequence, route, errorCode, outcome >>

vars == << serverVars, pc, listenVars, runVars >>

ErrorCodes == {"none", "RESOURCE_NOT_FOUND", "SUBSCRIPTION_FAILED",
               "SUBSCRIPTION_NOT_HONORED", "NOTIFICATION_TIMEOUT",
               "SUBSCRIPTION_DISCONNECTED", "SUBSCRIPTION_CLOSED"}

TypeOK ==
  /\ ServerTypeOK
  /\ ListenTypeOK
  /\ initial \in 0 .. Version
  /\ final \in 0 .. Version
  /\ sequence \in Nat
  /\ route \in {"subscription", "pre-completion", "timeout"}
  /\ errorCode \in ErrorCodes
  /\ outcome \in {"running", "returned", "thrown"}

Init ==
  /\ ServerInit
  /\ ListenInit
  /\ pc = "connect"
  /\ deadline = "unset"
  /\ initial = 0
  /\ final = 0
  /\ sequence = 0
  /\ route = "timeout"
  /\ errorCode = "none"
  /\ outcome = "running"

Text(version) == history[version]

\* shouldWaitForNextUpdate(text).
ShouldWait(version) == Text(version) \in PollTexts

-----------------------------------------------------------------------------
(* Up to the acknowledgement.                                              *)

Connect ==
  /\ pc = "connect"
  /\ pc' = "list"
  /\ UNCHANGED << serverVars, listenVars, runVars >>

\* Connecting, listing or the initial read throws; nothing catches it.
Throw ==
  /\ pc \in {"connect", "list", "initialRead"}
  /\ pc' = "done"
  /\ outcome' = "thrown"
  /\ AbandonRead
  /\ UNCHANGED << serverVars, deadline, queue, closeReason, announced, initial, final,
                  sequence, route, errorCode >>

\* resources/list has the uri, or the check is skipped: the initial read starts.
ResourceListed ==
  /\ pc = "list"
  /\ pc' = "initialRead"
  /\ SendRead
  /\ UNCHANGED << serverVars, deadline, queue, closeReason, announced, runVars >>

ResourceNotFound ==
  /\ pc = "list"
  /\ pc' = "done"
  /\ errorCode' = "RESOURCE_NOT_FOUND"
  /\ outcome' = "returned"
  /\ UNCHANGED << serverVars, listenVars, initial, final, sequence, route >>

\* The handler is installed before the listen request is sent, and the deadline
\* counts from here.
Listen ==
  /\ pc = "initialRead"
  /\ TakeAnswer
  /\ initial' = read.version
  /\ queue' = CreateQueue
  /\ deadline' = "running"
  /\ link' = "requested"
  /\ pc' = "listen"
  /\ UNCHANGED << history, honored, wire, closeReason, announced, final, sequence,
                  route, errorCode, outcome >>

\* client.listen throws: refused, lost, or out of the time it was given.
ListenFails ==
  /\ pc = "listen"
  /\ queue' = Cancel(queue)
  /\ errorCode' = "SUBSCRIPTION_FAILED"
  /\ link' = "local"
  /\ outcome' = "returned"
  /\ pc' = "done"
  /\ UNCHANGED << history, honored, wire, deadline, read, closeReason, announced,
                  initial, final, sequence, route >>

-----------------------------------------------------------------------------
(* After the acknowledgement.                                              *)

FinishWith(how) == Finish /\ outcome' = how

\* A non-terminal text keeps the run waiting on the same stream.
WaitUnlessTerminal(version, after) ==
  \/ ShouldWait(version) /\ Wait(after) /\ UNCHANGED outcome
  \/ ~ShouldWait(version) /\ FinishWith("returned")

\* The uri was not honored: no notification can come, the run ends.
NotHonored ==
  /\ pc = "acked"
  /\ ~honored
  /\ errorCode' = "SUBSCRIPTION_NOT_HONORED"
  /\ FinishWith("returned")
  /\ UNCHANGED << serverVars, deadline, read, closeReason, announced, initial, final,
                  sequence, route >>

\* The read right after the acknowledgement; receivedCount is noted before it.
PostListenRead ==
  /\ pc = "acked"
  /\ honored
  /\ SendRead
  /\ pc' = "postRead"
  /\ UNCHANGED << serverVars, deadline, queue, closeReason, announced, runVars >>

\* Its answer differs from the initial text: an update was missed, or came meanwhile.
PostListenChanged ==
  /\ pc = "postRead"
  /\ TakeAnswer
  /\ Text(read.version) # Text(initial)
  /\ final' = read.version
  /\ sequence' = read.from
  /\ route' = IF queue.received > read.from     THEN "subscription"
              ELSE IF ~ShouldWait(read.version) THEN "pre-completion"
              ELSE route
  /\ WaitUnlessTerminal(read.version, read.from)
  /\ UNCHANGED << serverVars, deadline, closeReason, announced, initial, errorCode >>

\* Mutant: receivedCount is noted when the answer is in, not before the read is sent.
PostListenUnchangedLate ==
  /\ pc = "postRead"
  /\ TakeAnswer
  /\ Text(read.version) = Text(initial)
  /\ sequence' = queue.received
  /\ Wait(queue.received)
  /\ UNCHANGED << serverVars, deadline, closeReason, announced, initial, final, route,
                  errorCode, outcome >>

\* Its answer is the initial text: a notification is waited for in any case.
PostListenUnchanged ==
  /\ pc = "postRead"
  /\ TakeAnswer
  /\ Text(read.version) = Text(initial)
  /\ sequence' = read.from
  /\ Wait(read.from)
  /\ UNCHANGED << serverVars, deadline, closeReason, announced, initial, final, route,
                  errorCode, outcome >>

\* Mutant: the event is not marked as consumed.
WokenWithoutAdvancing ==
  /\ pc = "wait"
  /\ queue.waiter.state = "resolved"
  /\ route' = "subscription"
  /\ SendRead
  /\ pc' = "reread"
  /\ UNCHANGED << serverVars, deadline, queue, closeReason, announced, initial, final,
                  sequence, errorCode, outcome >>

\* The wait resolved: the event is consumed and the resource read again.
Woken ==
  /\ pc = "wait"
  /\ queue.waiter.state = "resolved"
  /\ sequence' = queue.waiter.event
  /\ route' = "subscription"
  /\ SendRead
  /\ pc' = "reread"
  /\ UNCHANGED << serverVars, deadline, queue, closeReason, announced, initial, final,
                  errorCode, outcome >>

\* Mutant: the answer to that read ends the run, terminal or not.
RereadOnce ==
  /\ pc = "reread"
  /\ TakeAnswer
  /\ final' = read.version
  /\ FinishWith("returned")
  /\ UNCHANGED << serverVars, deadline, closeReason, announced, initial, sequence,
                  route, errorCode >>

\* The answer to that read; POLL_AFTER waits for the next event.
Reread ==
  /\ pc = "reread"
  /\ TakeAnswer
  /\ final' = read.version
  /\ WaitUnlessTerminal(read.version, sequence)
  /\ UNCHANGED << serverVars, deadline, closeReason, announced, initial, sequence,
                  route, errorCode >>

WaitFails ==
  /\ pc = "wait"
  /\ queue.waiter.state = "rejected"
  /\ errorCode' = Classify(queue.waiter.error)
  /\ FinishWith("returned")
  /\ UNCHANGED << serverVars, deadline, read, closeReason, announced, initial, final,
                  sequence, route >>

\* A read fails, or its result has no text: only the finallys run.
ReadFails ==
  /\ pc \in {"postRead", "reread"}
  /\ FinishWith("thrown")
  /\ AbandonRead
  /\ UNCHANGED << serverVars, deadline, closeReason, announced, initial, final,
                  sequence, route, errorCode >>

-----------------------------------------------------------------------------
RunStep ==
  \/ Connect \/ Throw \/ ResourceListed \/ ResourceNotFound
  \/ Listen \/ ListenFails
  \/ NotHonored \/ PostListenRead \/ PostListenChanged \/ PostListenUnchanged
  \/ Woken \/ Reread \/ WaitFails \/ ReadFails

SharedStep == Acknowledged \/ Closed \/ HandlerStep \/ ServerStep

Terminated == pc = "done" /\ UNCHANGED vars

Next ==
  \/ RunStep
  \/ SharedStep /\ UNCHANGED runVars
  \/ Terminated

Spec == Init /\ [][Next]_vars

\* The event loop runs every continuation and every handler that is due; the SDK
\* settles each request, if need be by its own timeout; the clock advances.
Fairness ==
  /\ WF_vars(RunStep)
  /\ WF_vars(Closed /\ UNCHANGED runVars)
  /\ WF_vars(DeadlinePasses /\ UNCHANGED runVars)
  /\ WF_vars(WaitTimesOut /\ UNCHANGED runVars)

FairSpec == Spec /\ Fairness

-----------------------------------------------------------------------------
(* Properties.                                                             *)

\* Every event that has been received is in reach of the next wait, and the run
\* never sleeps over one, nor over a stream whose end it was told of
\* (createResourceUpdateQueue under every interleaving of its callers).
QueueIsSound == QueueSound(queue)

\* No lost update: the reads and waits of the run leave no gap an update could
\* fall into, between the initial read and the acknowledgement, while a read is in
\* flight, or between a read's answer and the wait.
NoMissedUpdate == UpToDateAtWait(sequence)

\* Every notification the run has consumed is followed by a read: once it is in,
\* finalText is at least as new as the version each consumed notification told of.
FinalTextCoversConsumed ==
  final # 0 /\ pc # "reread" /\ outcome # "thrown" =>
    \A k \in DOMAIN announced : k <= sequence => announced[k] <= final

\* A result without an error code is a terminal text, and a route that says how it
\* was found; the pre-completion route never reports the initial text.
SuccessIsTerminal ==
  pc = "done" /\ outcome = "returned" /\ errorCode = "none" =>
    /\ final # 0
    /\ ~ShouldWait(final)
    /\ route \in {"subscription", "pre-completion"}
    /\ route = "pre-completion" => Text(final) # Text(initial)

\* NOTIFICATION_TIMEOUT is honest: an update in the buffer is not dropped for the
\* clock, and a lost connection is not reported as a quiet server.
TimeoutIsHonest == [][GivesUpHonestly]_vars

\* The error code and the close reason of one result agree, though the code is set after
\* the wait resumes and the local close follows: a reported disconnect happened, in the
\* way that is reported.
ErrorAgreesWithClose ==
  pc = "done" =>
    /\ errorCode = "SUBSCRIPTION_DISCONNECTED" => closeReason = "remote"
    /\ errorCode = "SUBSCRIPTION_CLOSED" => closeReason = "graceful"

\* The run never stands still: it ends, or goes on consuming notifications it has not
\* consumed before.  A buffered notification is handed out even when the budget is used
\* up, and no loop of the run looks at the clock, so a server that keeps notifying about
\* POLL_AFTER texts keeps the run going beyond any deadline; one that is silent, hangs
\* or drops the stream does not.  (With MaxVersion the notifications come to an end.)
EndsUnlessNotified == <>(pc = "done") \/ []<><< sequence' > sequence >>_sequence

\* What the comment on `route` says: "subscription" means that a notification was
\* received and the resource re-read.  In the result, the text is then no older
\* than the first version a notification told of.
SubscriptionRouteMeansReread ==
  pc = "done" /\ outcome = "returned" /\ errorCode = "none" /\ route = "subscription" =>
    announced # << >> /\ announced[1] <= final

\* What the README says of the route pre-completion: the read after listening detects
\* what is completed already.  A run that has read a completed text does not report a
\* timeout.
CompletedIsDetected ==
  pc = "done" /\ errorCode = "NOTIFICATION_TIMEOUT" => ShouldWait(read.version)

-----------------------------------------------------------------------------
\* What a run looks like to its caller: see ResourceWatch.
Verdict ==
  IF pc # "done" THEN "watching"
  ELSE IF outcome = "returned" /\ errorCode = "none" THEN "success"
  ELSE "failure"

Watch == INSTANCE ResourceWatch
           WITH wanted <- Texts \ PollTexts, seen <- final, verdict <- Verdict

\* Every run is a run of the abstract watcher: finalText is a text the resource
\* had, it never gets older, and only a terminal text is a success.
ImplementsWatch == Watch!Spec
=============================================================================
