---------------------------- MODULE ListenClient ----------------------------
(***************************************************************************)
(* What the two modes that listen on a resource have in common: the        *)
(* MCP client they drive (src/src/client/subscriptionClient.ts and         *)
(* streamClient.ts), its notification queue, its reads, the deadline, and  *)
(* the handlers that run between two steps of the mode's async function.   *)
(* Subscription and Stream add that function.                              *)
(*                                                                         *)
(* `pc` says which await the function is at.  A promise that settles and   *)
(* the continuation of its await are two steps: handlers may run between.  *)
(*                                                                         *)
(* Time is one fact: `deadline` is "unset" until deadlineMs is computed,   *)
(* then "running", and "passed" once Date.now() >= deadlineMs, that is,    *)
(* once remainingMs() = 0.  A timer armed with remainingMs() can fire only *)
(* after that.                                                             *)
(***************************************************************************)
EXTENDS ResourceServer, UpdateQueue

VARIABLES
  pc,
  deadline,
  queue,        \* the notification queue
  read,         \* the resources/read in flight, or the last one answered
  closeReason,  \* what subscription.closed settled with
  announced     \* history: announced[k] is the version notification k told of

listenVars == << deadline, queue, read, closeReason, announced >>

\* Where the end of the stream has a handler: after the continuation of client.listen.
Listening == {"postRead", "wait", "reread", "closing"}

Points == {"start", "connect", "list", "initialRead", "listen", "acked", "done", "reported"}
            \cup Listening

Reads == [state : {"idle", "sent", "served"}, from : Nat, version : Nat]

ListenTypeOK ==
  /\ pc \in Points
  /\ deadline \in {"unset", "running", "passed"}
  /\ queue \in Queues
  /\ read \in Reads
  /\ read.version <= Version
  /\ closeReason \in {"none", "local"} \cup CloseReasons
  /\ announced \in Seq(Nat)

ListenInit ==
  /\ queue = NoQueue
  /\ read = [state |-> "idle", from |-> 0, version |-> 0]
  /\ closeReason = "none"
  /\ announced = << >>

Expired == deadline = "passed"

-----------------------------------------------------------------------------
(* Reads.  Every read bypasses the SDK's cache (UNCACHED).                 *)

\* readResource is called; `from` notes the receivedCount of that moment.
SendRead == read' = [state |-> "sent", from |-> queue.received, version |-> read.version]

\* Mutant: the SDK answers from its cache once it has an answer.
ServeReadFromCache ==
  /\ read.state = "sent"
  /\ read' = [read EXCEPT !.state = "served",
                          !.version = IF @ = 0 THEN Version ELSE @]
  /\ UNCHANGED << serverVars, pc, deadline, queue, closeReason, announced >>

\* The server answers with its current text.  A read with a budget may still be answered
\* past the deadline, as long as the SDK's timer has not cut it off.
ServeRead ==
  /\ read.state = "sent"
  /\ read' = [read EXCEPT !.state = "served", !.version = Version]
  /\ UNCHANGED << serverVars, pc, deadline, queue, closeReason, announced >>

TakeAnswer == read.state = "served" /\ read' = [read EXCEPT !.state = "idle"]

AbandonRead == read' = [read EXCEPT !.state = "idle"]

-----------------------------------------------------------------------------
(* The listen request.                                                     *)

\* The acknowledgement, first message of the stream, settles client.listen.
Acknowledged ==
  /\ pc = "listen"
  /\ link \in {"open"} \cup CloseReasons
  /\ pc' = "acked"
  /\ UNCHANGED << serverVars, listenVars >>

\* await waitAfter(after, remainingMs()).
Wait(after) ==
  /\ pc' = "wait"
  /\ queue' = WaitAfter(queue, after, Expired)

\* The finally of the listening part: cancel(), then subscription.close() is awaited.
\* When the uri was not honored the order is the other one, which nothing can tell:
\* the queue is not looked at any more.
Finish ==
  /\ pc' = "closing"
  /\ queue' = Cancel(queue)

\* subscription.close() and client.close() have settled: the function ends.
Closed ==
  /\ pc = "closing"
  /\ pc' = "done"
  /\ closeReason' = IF closeReason = "none" THEN "local" ELSE closeReason
  /\ link' = IF link = "open" THEN "local" ELSE link
  /\ UNCHANGED << history, honored, wire, deadline, queue, read, announced >>

-----------------------------------------------------------------------------
(* The handlers that run between two steps of the function.                *)

\* The SDK hands the next notification to the handler, which ignores another
\* uri; without a handler it is dropped.
Deliver ==
  /\ pc \in Listening \cup {"acked"}
  /\ wire # << >>
  /\ wire' = Tail(wire)
  /\ IF queue.installed /\ Head(wire).uri = Uri
     THEN /\ queue' = Notify(queue)
          /\ announced' = Append(announced, Head(wire).version)
     ELSE UNCHANGED << queue, announced >>
  /\ UNCHANGED << history, link, honored, pc, deadline, read, closeReason >>

\* subscription.closed settles with the end of the stream.
StreamEnded ==
  /\ pc \in Listening
  /\ link \in CloseReasons
  /\ wire = << >>
  /\ closeReason = "none"
  /\ closeReason' = link
  /\ queue' = Fail(queue, link)
  /\ UNCHANGED << serverVars, pc, deadline, read, announced >>

DeadlinePasses ==
  /\ pc \notin {"done", "reported"}
  /\ deadline = "running"
  /\ deadline' = "passed"
  /\ UNCHANGED << serverVars, pc, queue, read, closeReason, announced >>

\* Mutant: only the first wait arms a timer.
FirstWaitTimesOut ==
  /\ Pending(queue)
  /\ queue.waiter.after = 0
  /\ Expired
  /\ queue' = TimerFires(queue)
  /\ UNCHANGED << serverVars, pc, deadline, read, closeReason, announced >>

\* The timer of the pending wait fires.
WaitTimesOut ==
  /\ Pending(queue)
  /\ Expired
  /\ queue' = TimerFires(queue)
  /\ UNCHANGED << serverVars, pc, deadline, read, closeReason, announced >>

ServerStep ==
  /\ pc \notin {"done", "reported"}
  /\ ServerNext
  /\ UNCHANGED << pc, listenVars >>

HandlerStep == ServeRead \/ Deliver \/ StreamEnded \/ DeadlinePasses \/ WaitTimesOut

\* Mutant: the reason is passed on as it is.
ClassifyRaw(error) == error

\* Mutant: the two ways a stream ends are mixed up.
ClassifySwapped(error) ==
  CASE error = "graceful" -> "SUBSCRIPTION_DISCONNECTED"
    [] error = "remote"   -> "SUBSCRIPTION_CLOSED"
    [] OTHER              -> "NOTIFICATION_TIMEOUT"

\* classifyWaitFailure.
Classify(error) ==
  CASE error = "remote"   -> "SUBSCRIPTION_DISCONNECTED"
    [] error = "graceful" -> "SUBSCRIPTION_CLOSED"
    [] OTHER              -> "NOTIFICATION_TIMEOUT"

-----------------------------------------------------------------------------
(* Properties of both modes; `after` is the sequence the mode waits after. *)

\* While the run is at a wait with no notification left to consume, on a healthy
\* stream with nothing about the resource on the way, what it read last is the
\* resource's current text.
UpToDateAtWait(after) ==
  pc = "wait" /\ queue.received <= after /\ link = "open" /\ ~UpdateOnWire =>
    read.version = Version

\* A wait is given up as timed out only after the deadline, with no notification
\* left to consume and no end of the stream known.
GivesUpHonestly ==
  queue'.waiter.error = "timeout" /\ queue.waiter.error # "timeout" =>
    /\ Expired
    /\ queue.failure = "none"
    /\ queue.received <= queue'.waiter.after
=============================================================================
