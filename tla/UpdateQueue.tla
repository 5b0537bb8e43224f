---------------------------- MODULE UpdateQueue ----------------------------
(***************************************************************************)
(* The notification queue createResourceUpdateQueue builds                 *)
(* (src/src/client/subscriptionClient.ts), shared by the one-shot          *)
(* subscription and by the --jsonl stream.  A queue is a record:           *)
(*                                                                         *)
(*   installed  the handler of resources/updated is set on the client      *)
(*   received   receivedCount, the sequence number of the last event       *)
(*   events     the sequence numbers still buffered, oldest first          *)
(*   failure    why the listen stream ended, remembered by fail()          *)
(*   waiter     the promise of the latest waitAfter: "pending" is the      *)
(*              code's `pending` object; "resolved" and "rejected" are a   *)
(*              settled promise its caller has not resumed from yet        *)
(*                                                                         *)
(* Each operator below is one synchronous function of the closure: it maps *)
(* the queue before the call to the queue after it.  The uri of an event   *)
(* is left out: the handler keeps events of one uri only.                  *)
(***************************************************************************)
EXTENDS Naturals, Sequences

CONSTANT MaxEvents    \* the buffer's capacity: 100 in the code

ASSUME MaxEventsAssumption == MaxEvents \in Nat \ {0}

\* How a listen stream ends without the client having closed it.
CloseReasons == {"graceful", "remote"}

Waiters == [state : {"idle", "pending", "resolved", "rejected"},
            after : Nat,
            event : Nat,
            error : {"none", "timeout"} \cup CloseReasons]

Queues == [installed : BOOLEAN,
           received  : Nat,
           events    : Seq(Nat),
           failure   : {"none"} \cup CloseReasons,
           waiter    : Waiters]

NoWaiter == [state |-> "idle", after |-> 0, event |-> 0, error |-> "none"]

EmptyQueue(installed) == [installed |-> installed, received |-> 0, events |-> << >>,
                          failure |-> "none", waiter |-> NoWaiter]

\* Before createResourceUpdateQueue runs, and after.
NoQueue == EmptyQueue(FALSE)

CreateQueue == EmptyQueue(TRUE)

Pending(q) == q.waiter.state = "pending"

\* findNextEvent: the first buffered event past `sequence`.
HasEventAfter(q, sequence) ==
  \E i \in DOMAIN q.events : q.events[i] > sequence

FirstEventAfter(q, sequence) ==
  q.events[CHOOSE i \in DOMAIN q.events :
             /\ q.events[i] > sequence
             /\ \A j \in 1 .. (i - 1) : q.events[j] <= sequence]

Resolve(q, event) == [q EXCEPT !.waiter.state = "resolved", !.waiter.event = event]

Reject(q, error) == [q EXCEPT !.waiter.state = "rejected", !.waiter.error = error]

\* Mutant: a full buffer refuses the newest event.
PushDroppingNewest(events, event) ==
  IF Len(events) = MaxEvents THEN events ELSE Append(events, event)

\* events.push and, past the capacity, events.shift.
Push(events, event) ==
  IF Len(events) = MaxEvents THEN Append(Tail(events), event)
                             ELSE Append(events, event)

\* The notification handler, for a notification of the queue's uri.
Notify(q) ==
  LET event    == q.received + 1
      buffered == [q EXCEPT !.received = event, !.events = Push(q.events, event)]
  IN IF Pending(q) /\ event > q.waiter.after THEN Resolve(buffered, event)
                                             ELSE buffered

\* Mutant: waitAfter does not look at the buffer first.
WaitAfterIgnoringBuffer(q, sequence, expired) ==
  LET call == [q EXCEPT !.waiter = [NoWaiter EXCEPT !.state = "pending",
                                                     !.after = sequence]]
  IN IF q.failure # "none" THEN Reject(call, q.failure)
     ELSE IF expired       THEN Reject(call, "timeout")
     ELSE call

\* Mutant: a failure is known only while a wait is pending.
WaitAfterForgettingFailure(q, sequence, expired) ==
  LET call == [q EXCEPT !.waiter = [NoWaiter EXCEPT !.state = "pending",
                                                     !.after = sequence]]
  IN IF HasEventAfter(q, sequence) THEN Resolve(call, FirstEventAfter(q, sequence))
     ELSE IF expired               THEN Reject(call, "timeout")
     ELSE call

\* waitAfter(sequence, timeoutMs); `expired` is timeoutMs <= 0.
WaitAfter(q, sequence, expired) ==
  LET call == [q EXCEPT !.waiter = [NoWaiter EXCEPT !.state = "pending",
                                                     !.after = sequence]]
  IN IF HasEventAfter(q, sequence) THEN Resolve(call, FirstEventAfter(q, sequence))
     ELSE IF q.failure # "none"    THEN Reject(call, q.failure)
     ELSE IF expired               THEN Reject(call, "timeout")
     ELSE call

\* The timer of a pending wait.
TimerFires(q) == Reject(q, "timeout")

\* fail(error): `failure ??= error`, and the pending wait is rejected.
Fail(q, reason) ==
  LET failed == [q EXCEPT !.failure = IF q.failure = "none" THEN reason ELSE q.failure]
  IN IF Pending(q) THEN Reject(failed, reason) ELSE failed

\* cancel(): the handler is removed and a pending wait forgotten, unsettled.
Cancel(q) ==
  [q EXCEPT !.installed = FALSE,
            !.waiter = IF Pending(q) THEN NoWaiter ELSE q.waiter]

-----------------------------------------------------------------------------
(***************************************************************************)
(* What makes a queue sound: the buffer holds the last consecutive         *)
(* sequence numbers, never none of them once one has arrived, and nobody   *)
(* sleeps over an event or over a stream that has ended.                   *)
(***************************************************************************)
BufferSound(q) ==
  /\ Len(q.events) <= MaxEvents
  /\ Len(q.events) <= q.received
  /\ q.received > 0 => Len(q.events) > 0
  /\ \A i \in 1 .. Len(q.events) : q.events[i] = q.received - Len(q.events) + i

WaiterSound(q) ==
  /\ Pending(q) => q.received <= q.waiter.after /\ q.failure = "none"
  /\ q.waiter.state = "resolved" => q.waiter.event \in (q.waiter.after + 1) .. q.received

QueueSound(q) == BufferSound(q) /\ WaiterSound(q)
=============================================================================
