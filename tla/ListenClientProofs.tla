------------------------- MODULE ListenClientProofs -------------------------
(***************************************************************************)
(* The inductive invariant behind "no lost update", and its preservation   *)
(* by everything the two listening modes share: the handlers, the server,  *)
(* the acknowledgement and the end of the stream.  SubscriptionProofs and  *)
(* StreamProofs add the steps of their own function.                       *)
(***************************************************************************)
EXTENDS ListenClient, Integers, TLAPS

(* The queue: each operation maps a sound queue to a sound queue, for every capacity. *)

\* A queue without a waiter or failure, created or not, is sound.
LEMMA FreshQueueSound ==
  /\ NoQueue \in Queues /\ QueueSound(NoQueue)
  /\ CreateQueue \in Queues /\ QueueSound(CreateQueue)
<1>1. ASSUME NEW installed \in BOOLEAN
      PROVE  EmptyQueue(installed) \in Queues /\ QueueSound(EmptyQueue(installed))
  <2>1. EmptyQueue(installed) \in Queues
    BY DEF EmptyQueue, NoWaiter, Queues, Waiters, CloseReasons
  <2>2. BufferSound(EmptyQueue(installed))
    BY MaxEventsAssumption DEF EmptyQueue, BufferSound
  <2>3. WaiterSound(EmptyQueue(installed))
    BY DEF EmptyQueue, NoWaiter, WaiterSound, Pending
  <2> QED
    BY <2>1, <2>2, <2>3 DEF QueueSound
<1> QED
  BY <1>1 DEF NoQueue, CreateQueue

\* Appending the next number to a run of consecutive numbers gives a longer run.
LEMMA AppendKeepsRun ==
  ASSUME NEW s \in Seq(Nat), NEW e \in Nat, NEW base \in Int, 
         \A i \in 1 .. Len(s) : s[i] = base + i, e = base + Len(s) + 1
  PROVE  /\ Append(s, e) \in Seq(Nat)
         /\ Len(Append(s, e)) = Len(s) + 1
         /\ \A i \in 1 .. Len(Append(s, e)) : Append(s, e)[i] = base + i
<1>1. Append(s, e) \in Seq(Nat) /\ Len(Append(s, e)) = Len(s) + 1 
  OBVIOUS
<1>2. \A i \in 1 .. Len(s) : Append(s, e)[i] = s[i]
  OBVIOUS
<1>3. Append(s, e)[Len(s) + 1] = e
  OBVIOUS
<1>4. ASSUME NEW i \in 1 .. Len(Append(s, e)) PROVE Append(s, e)[i] = base + i
  <2>1. i \in 1 .. Len(s) \/ i = Len(s) + 1
    BY <1>1
  <2> QED
    BY <1>2, <1>3, <2>1
<1> QED
  BY <1>1, <1>4

\* A run of consecutive numbers without its first is such a run.
LEMMA TailKeepsRun ==
  ASSUME NEW s \in Seq(Nat), NEW base \in Int, Len(s) > 0,
         \A i \in 1 .. Len(s) : s[i] = base + i
  PROVE  /\ Tail(s) \in Seq(Nat)
         /\ Len(Tail(s)) = Len(s) - 1
         /\ \A i \in 1 .. Len(Tail(s)) : Tail(s)[i] = (base + 1) + i
  OBVIOUS

\* Push keeps the last MaxEvents consecutive sequence numbers.
LEMMA PushSound ==
  ASSUME NEW events \in Seq(Nat), NEW received \in Nat, NEW event \in Nat,
         event = received + 1,
         Len(events) <= MaxEvents, Len(events) <= received,
         \A i \in 1 .. Len(events) : events[i] = received - Len(events) + i
  PROVE  /\ Push(events, event) \in Seq(Nat)
         /\ Len(Push(events, event)) \in 1 .. MaxEvents
         /\ Len(Push(events, event)) <= event
         /\ \A i \in 1 .. Len(Push(events, event)) :
              Push(events, event)[i] = event - Len(Push(events, event)) + i
<1>0. Len(events) \in Nat
  OBVIOUS
<1>c. PICK base : base = received - Len(events)
  OBVIOUS
<1>a. base \in Int /\ base = received - Len(events)
  BY <1>0, <1>c
<1>b. \A i \in 1 .. Len(events) : events[i] = base + i
  BY <1>0, <1>a
<1>1. CASE Len(events) = MaxEvents
  <2>1. PICK t : t = Tail(events)
    OBVIOUS
  <2>2. /\ t \in Seq(Nat) /\ Len(t) = MaxEvents - 1
        /\ \A i \in 1 .. Len(t) : t[i] = (base + 1) + i
    BY <1>1, <1>b, <2>1, MaxEventsAssumption, TailKeepsRun
  <2>0. PICK c : c = base + 1
    OBVIOUS
  <2>3. c \in Int /\ c = base + 1
    BY <1>a, <2>0
  <2>4. event = c + Len(t) + 1 
    BY <1>1, <1>a, <2>2, <2>3, MaxEventsAssumption
  <2>5. \A i \in 1 .. Len(t) : t[i] = c + i
    BY <2>2, <2>3
  <2>6. PICK p : p = Append(t, event)
    OBVIOUS
  <2>7. /\ p \in Seq(Nat)
        /\ Len(p) = Len(t) + 1
        /\ \A i \in 1 .. Len(p) : p[i] = c + i
    BY <2>2, <2>3, <2>4, <2>5, <2>6, AppendKeepsRun
  <2>8. Push(events, event) = p
    BY <1>1, <2>1, <2>6 DEF Push
  <2>9. Len(p) = MaxEvents /\ c = event - Len(p)
    <3>1. Len(t) = MaxEvents - 1 /\ Len(p) = Len(t) + 1 /\ c \in Int
      BY <2>2, <2>3, <2>7
    <3> QED
      BY <2>4, <3>1, MaxEventsAssumption
  <2>10. Len(p) \in 1 .. MaxEvents /\ Len(p) <= event
    BY <1>1, <2>9, MaxEventsAssumption
  <2>11. \A i \in 1 .. Len(p) : p[i] = event - Len(p) + i
    BY <2>7, <2>9
  <2> QED
    BY <2>7, <2>8, <2>10, <2>11
<1>2. CASE Len(events) # MaxEvents
  <2>6. PICK p : p = Append(events, event)
    OBVIOUS
  <2>7. /\ p \in Seq(Nat)
        /\ Len(p) = Len(events) + 1
        /\ \A i \in 1 .. Len(p) : p[i] = base + i
    BY <1>0, <1>a, <1>b, <2>6, AppendKeepsRun
  <2>8. Push(events, event) = p
    BY <1>2, <2>6 DEF Push
  <2>9. base = event - Len(p)
    BY <1>0, <1>a, <2>7
  <2>10. Len(p) \in 1 .. MaxEvents /\ Len(p) <= event
    BY <1>0, <1>2, <2>7, <2>9, MaxEventsAssumption
  <2>11. \A i \in 1 .. Len(p) : p[i] = event - Len(p) + i
    BY <2>7, <2>9
  <2> QED
    BY <2>7, <2>8, <2>10, <2>11
<1> QED
  BY <1>1, <1>2
\* The handler counts an event and buffers it.
LEMMA BufferEvent ==
  ASSUME NEW q \in Queues, BufferSound(q), NEW event \in Nat, event = q.received + 1
  PROVE  LET b == [q EXCEPT !.received = event, !.events = Push(q.events, event)]
         IN /\ b \in Queues
            /\ BufferSound(b)
            /\ b.received = event
            /\ b.waiter = q.waiter
            /\ b.installed = q.installed
            /\ b.failure = q.failure
<1>1. q.received \in Nat /\ q.events \in Seq(Nat)
  BY DEF Queues
<1>2. PICK p : p = Push(q.events, event)
  OBVIOUS
<1>3. /\ p \in Seq(Nat)
      /\ Len(p) \in 1 .. MaxEvents
      /\ Len(p) <= event
      /\ \A i \in 1 .. Len(p) : p[i] = event - Len(p) + i
  <2>1. /\ Len(q.events) <= MaxEvents /\ Len(q.events) <= q.received
        /\ \A i \in 1 .. Len(q.events) : q.events[i] = q.received - Len(q.events) + i
    BY DEF BufferSound
  <2>2. /\ Push(q.events, event) \in Seq(Nat)
        /\ Len(Push(q.events, event)) \in 1 .. MaxEvents
        /\ Len(Push(q.events, event)) <= event
        /\ \A i \in 1 .. Len(Push(q.events, event)) :
             Push(q.events, event)[i] = event - Len(Push(q.events, event)) + i
    BY <1>1, <2>1, PushSound, Zenon
  <2> QED
    BY <1>2, <2>2
<1>4. PICK b : b = [q EXCEPT !.received = event, !.events = p]
  OBVIOUS
<1>5. b \in Queues
  BY <1>3, <1>4 DEF Queues
<1>6. /\ b.received = event /\ b.events = p /\ b.waiter = q.waiter
      /\ b.installed = q.installed /\ b.failure = q.failure
  BY <1>4 DEF Queues
<1>7. BufferSound(b)
  BY <1>3, <1>6, MaxEventsAssumption DEF BufferSound
<1> QED
  BY <1>2, <1>4, <1>5, <1>6, <1>7

\* The whole handler: a waiter is woken by an event that is news to it.
LEMMA NotifySound ==
  ASSUME NEW q \in Queues, QueueSound(q)
  PROVE  /\ Notify(q) \in Queues
         /\ QueueSound(Notify(q))
         /\ Notify(q).received = q.received + 1
         /\ Notify(q).installed = q.installed
         /\ Notify(q).failure = q.failure
         /\ Notify(q).waiter.error = q.waiter.error
<1>1. PICK event : event = q.received + 1
  OBVIOUS
<1>2. event \in Nat /\ q.received \in Nat /\ q.waiter \in Waiters
  BY <1>1 DEF Queues
<1>3. PICK b : b = [q EXCEPT !.received = event, !.events = Push(q.events, event)]
  OBVIOUS
<1>4. /\ b \in Queues /\ BufferSound(b)
      /\ b.received = event /\ b.waiter = q.waiter
      /\ b.installed = q.installed /\ b.failure = q.failure
  BY <1>1, <1>2, <1>3, BufferEvent DEF QueueSound
<1>5. Notify(q) = IF Pending(q) /\ event > q.waiter.after THEN Resolve(b, event) ELSE b
  BY <1>1, <1>3 DEF Notify
<1>6. CASE Pending(q) /\ event > q.waiter.after
  <2>1. PICK r : r = Resolve(b, event)
    OBVIOUS
  <2>2. /\ r \in Queues /\ r.received = b.received /\ r.events = b.events
        /\ r.installed = b.installed /\ r.failure = b.failure
    BY <1>2, <1>4, <2>1 DEF Resolve, Queues, Waiters
  <2>3. /\ r.waiter.state = "resolved" /\ r.waiter.event = event
        /\ r.waiter.after = q.waiter.after /\ r.waiter.error = q.waiter.error
    BY <1>2, <1>4, <2>1 DEF Resolve, Queues, Waiters
  <2>4. BufferSound(r)
    BY <1>4, <2>2 DEF BufferSound
  <2>5. WaiterSound(r)
    BY <1>2, <1>4, <1>6, <2>2, <2>3 DEF WaiterSound, Pending, Waiters
  <2> QED
    BY <1>1, <1>4, <1>5, <1>6, <2>1, <2>2, <2>3, <2>4, <2>5 DEF QueueSound
<1>7. CASE ~(Pending(q) /\ event > q.waiter.after)
  <2>1. WaiterSound(b)
    BY <1>1, <1>2, <1>4, <1>7 DEF QueueSound, WaiterSound, Pending, Waiters
  <2> QED
    BY <1>1, <1>4, <1>5, <1>7, <2>1 DEF QueueSound
<1> QED
  BY <1>6, <1>7

\* In a sound buffer an event past `sequence` is found exactly when one has been
\* received, and the first of them is what findNextEvent returns.
LEMMA FindNextEvent ==
  ASSUME NEW q \in Queues, BufferSound(q), NEW sequence \in Nat
  PROVE  /\ HasEventAfter(q, sequence) <=> q.received > sequence
         /\ HasEventAfter(q, sequence) =>
              FirstEventAfter(q, sequence) \in (sequence + 1) .. q.received
<1>1. DOMAIN q.events = 1 .. Len(q.events) /\ Len(q.events) \in Nat /\ q.received \in Nat
  BY DEF Queues
<1>2. HasEventAfter(q, sequence) => q.received > sequence
  BY <1>1 DEF HasEventAfter, BufferSound
<1>3. q.received > sequence => HasEventAfter(q, sequence)
  <2> SUFFICES ASSUME q.received > sequence PROVE HasEventAfter(q, sequence)
    OBVIOUS
  <2>1. PICK last : last = Len(q.events)
    OBVIOUS
  <2>2. last \in 1 .. Len(q.events)
    BY <1>1, <2>1 DEF BufferSound
  <2>3. q.events[last] = q.received - last + last
    BY <2>1, <2>2 DEF BufferSound
  <2>4. q.events[last] > sequence
    BY <1>1, <2>1, <2>3
  <2> QED
    BY <1>1, <2>2, <2>4 DEF HasEventAfter
<1>4. ASSUME q.received > sequence
      PROVE  FirstEventAfter(q, sequence) \in (sequence + 1) .. q.received
  <2> DEFINE First(i) == /\ q.events[i] > sequence
                         /\ \A j \in 1 .. (i - 1) : q.events[j] <= sequence
  <2>0. PICK base : base = q.received - Len(q.events)
    OBVIOUS
  <2>1. /\ base \in Nat
        /\ q.received = base + Len(q.events)
        /\ \A i \in 1 .. Len(q.events) : q.events[i] = base + i
    BY <1>1, <2>0 DEF BufferSound
  <2>2. \E i \in DOMAIN q.events : First(i)
    <3>1. CASE base >= sequence
      <4>1. 1 \in 1 .. Len(q.events)
        BY <1>1, <1>4 DEF BufferSound
      <4>2. q.events[1] > sequence
        BY <2>1, <3>1, <4>1
      <4>3. \A j \in 1 .. (1 - 1) : q.events[j] <= sequence
        OBVIOUS
      <4> QED
        BY <1>1, <4>1, <4>2, <4>3
    <3>2. CASE base < sequence
      <4>1. PICK next : next = sequence - base + 1
        OBVIOUS
      <4>2. next \in 1 .. Len(q.events) /\ base + next = sequence + 1
        <5>1. base \in Nat /\ q.received = base + Len(q.events) /\ Len(q.events) \in Nat
          BY <1>1, <2>1
        <5> QED
          BY <1>4, <3>2, <4>1, <5>1
      <4>3. q.events[next] > sequence
        BY <2>1, <4>2
      <4>4. \A j \in 1 .. (next - 1) : q.events[j] <= sequence
        BY <1>1, <2>1, <4>2
      <4> QED
        BY <1>1, <4>2, <4>3, <4>4
    <3> QED
      BY <2>1, <3>1, <3>2
  <2>3. PICK i : i = CHOOSE n \in DOMAIN q.events : First(n)
    OBVIOUS
  <2>4. i \in DOMAIN q.events /\ First(i)
    BY <2>2, <2>3
  <2>5. FirstEventAfter(q, sequence) = q.events[i]
    BY <2>3 DEF FirstEventAfter
  <2> QED
    BY <1>1, <2>1, <2>4, <2>5
<1> QED
  BY <1>2, <1>3, <1>4

\* Resolving and rejecting change nothing but the waiter.
LEMMA ResolveSound ==
  ASSUME NEW q \in Queues, BufferSound(q), NEW event \in Nat
  PROVE  LET w == Resolve(q, event)
         IN /\ w \in Queues /\ BufferSound(w)
            /\ w.received = q.received /\ w.installed = q.installed
            /\ w.failure = q.failure
            /\ w.waiter.state = "resolved" /\ w.waiter.event = event
            /\ w.waiter.after = q.waiter.after /\ w.waiter.error = q.waiter.error
<1>1. PICK w : w = Resolve(q, event)
  OBVIOUS
<1>2. /\ w \in Queues /\ w.received = q.received /\ w.events = q.events
      /\ w.installed = q.installed /\ w.failure = q.failure
  BY <1>1 DEF Resolve, Queues, Waiters
<1>3. /\ w.waiter.state = "resolved" /\ w.waiter.event = event
      /\ w.waiter.after = q.waiter.after /\ w.waiter.error = q.waiter.error
  BY <1>1 DEF Resolve, Queues, Waiters
<1> QED
  BY <1>1, <1>2, <1>3 DEF BufferSound

\* The same of rejecting.
LEMMA RejectSound ==
  ASSUME NEW q \in Queues, BufferSound(q), NEW error \in {"timeout"} \cup CloseReasons
  PROVE  LET w == Reject(q, error)
         IN /\ w \in Queues /\ BufferSound(w)
            /\ w.received = q.received /\ w.installed = q.installed
            /\ w.failure = q.failure
            /\ w.waiter.state = "rejected" /\ w.waiter.after = q.waiter.after
            /\ w.waiter.error = error
<1>1. PICK w : w = Reject(q, error)
  OBVIOUS
<1>2. /\ w \in Queues /\ w.received = q.received /\ w.events = q.events
      /\ w.installed = q.installed /\ w.failure = q.failure
  BY <1>1 DEF Reject, Queues, Waiters
<1>3. /\ w.waiter.state = "rejected" /\ w.waiter.after = q.waiter.after
      /\ w.waiter.error = error
  BY <1>1 DEF Reject, Queues, Waiters
<1> QED
  BY <1>1, <1>2, <1>3 DEF BufferSound

\* waitAfter leaves what was received alone; it times out only without budget, event
\* or failure.
LEMMA WaitAfterSound ==
  ASSUME NEW q \in Queues, QueueSound(q), NEW sequence \in Nat, NEW expired \in BOOLEAN
  PROVE  LET w == WaitAfter(q, sequence, expired)
         IN /\ w \in Queues
            /\ QueueSound(w)
            /\ w.received = q.received
            /\ w.installed = q.installed
            /\ w.failure = q.failure
            /\ w.waiter.after = sequence
            /\ w.waiter.error \in {"none", "timeout", q.failure}
            /\ w.waiter.error = "timeout" =>
                 expired /\ q.failure = "none" /\ q.received <= sequence
<1>1. /\ HasEventAfter(q, sequence) <=> q.received > sequence
      /\ HasEventAfter(q, sequence) =>
           FirstEventAfter(q, sequence) \in (sequence + 1) .. q.received
  BY FindNextEvent DEF QueueSound
<1>2. q.received \in Nat /\ q.failure \in {"none"} \cup CloseReasons
  BY DEF Queues
<1>3. PICK waiter : waiter = [NoWaiter EXCEPT !.state = "pending", !.after = sequence]
  OBVIOUS
<1>4. /\ waiter \in Waiters /\ waiter.state = "pending" /\ waiter.after = sequence
      /\ waiter.error = "none"
  BY <1>3 DEF NoWaiter, Waiters
<1>5. PICK call : call = [q EXCEPT !.waiter = waiter]
  OBVIOUS
<1>6. /\ call \in Queues /\ call.waiter = waiter /\ call.received = q.received
      /\ call.installed = q.installed /\ call.failure = q.failure
      /\ call.events = q.events /\ BufferSound(call)
  BY <1>4, <1>5 DEF Queues, QueueSound, BufferSound
<1>7. WaitAfter(q, sequence, expired) =
        IF HasEventAfter(q, sequence) THEN Resolve(call, FirstEventAfter(q, sequence))
        ELSE IF q.failure # "none"    THEN Reject(call, q.failure)
        ELSE IF expired               THEN Reject(call, "timeout")
        ELSE call
  BY <1>3, <1>5 DEF WaitAfter
<1>8. CASE HasEventAfter(q, sequence)
  <2>1. PICK event : event = FirstEventAfter(q, sequence)
    OBVIOUS
  <2>2. PICK w : w = Resolve(call, event)
    OBVIOUS
  <2>3. event \in Nat /\ event \in (sequence + 1) .. q.received
    BY <1>1, <1>2, <1>8, <2>1
  <2>4. /\ w \in Queues /\ BufferSound(w)
        /\ w.received = q.received /\ w.installed = q.installed
        /\ w.failure = q.failure
        /\ w.waiter.state = "resolved" /\ w.waiter.event = event
        /\ w.waiter.after = sequence /\ w.waiter.error = "none"
    BY <1>4, <1>6, <2>2, <2>3, ResolveSound
  <2>5. WaiterSound(w)
    BY <2>3, <2>4 DEF WaiterSound, Pending
  <2> QED
    BY <1>7, <1>8, <2>1, <2>2, <2>4, <2>5 DEF QueueSound
<1>9. ASSUME NEW error \in {"timeout"} \cup CloseReasons,
             WaitAfter(q, sequence, expired) = Reject(call, error),
             error \in {"timeout", q.failure},
             error = "timeout" => expired /\ q.failure = "none" /\ q.received <= sequence
      PROVE  LET w == WaitAfter(q, sequence, expired)
             IN /\ w \in Queues
                /\ QueueSound(w)
                /\ w.received = q.received
                /\ w.installed = q.installed
                /\ w.failure = q.failure
                /\ w.waiter.after = sequence
                /\ w.waiter.error \in {"none", "timeout", q.failure}
                /\ w.waiter.error = "timeout" =>
                     expired /\ q.failure = "none" /\ q.received <= sequence
  <2>1. PICK w : w = Reject(call, error)
    OBVIOUS
  <2>2. /\ w \in Queues /\ BufferSound(w)
        /\ w.received = q.received /\ w.installed = q.installed
        /\ w.failure = q.failure
        /\ w.waiter.state = "rejected" /\ w.waiter.after = sequence
        /\ w.waiter.error = error
    BY <1>4, <1>6, <2>1, RejectSound
  <2>3. WaiterSound(w)
    BY <2>2 DEF WaiterSound, Pending
  <2> QED
    BY <1>9, <2>1, <2>2, <2>3 DEF QueueSound
<1>10. CASE ~HasEventAfter(q, sequence) /\ q.failure # "none"
  <2>1. q.failure \in CloseReasons /\ q.failure # "timeout"
    BY <1>2, <1>10 DEF CloseReasons
  <2> QED
    BY <1>7, <1>9, <1>10, <2>1
<1>11. CASE ~HasEventAfter(q, sequence) /\ q.failure = "none" /\ expired
  <2>1. q.received <= sequence
    BY <1>1, <1>2, <1>11
  <2> QED
    BY <1>7, <1>9, <1>11, <2>1
<1>12. CASE ~HasEventAfter(q, sequence) /\ q.failure = "none" /\ ~expired
  <2>1. WaiterSound(call)
    BY <1>1, <1>2, <1>4, <1>6, <1>12 DEF WaiterSound, Pending
  <2> QED
    BY <1>4, <1>6, <1>7, <1>12, <2>1 DEF QueueSound
<1> QED
  BY <1>8, <1>10, <1>11, <1>12

\* The timer of a pending wait rejects it and leaves the rest alone.
LEMMA TimerSound ==
  ASSUME NEW q \in Queues, QueueSound(q)
  PROVE  LET w == TimerFires(q)
         IN /\ w \in Queues /\ QueueSound(w)
            /\ w.received = q.received /\ w.installed = q.installed
            /\ w.failure = q.failure /\ w.waiter.error = "timeout"
            /\ w.waiter.after = q.waiter.after
<1>1. PICK w : w = TimerFires(q)
  OBVIOUS
<1>2. /\ w \in Queues /\ BufferSound(w)
      /\ w.received = q.received /\ w.installed = q.installed
      /\ w.failure = q.failure /\ w.waiter.error = "timeout"
      /\ w.waiter.state = "rejected" /\ w.waiter.after = q.waiter.after
  BY <1>1, RejectSound DEF TimerFires, QueueSound
<1>3. WaiterSound(w)
  BY <1>2 DEF WaiterSound, Pending
<1> QED
  BY <1>1, <1>2, <1>3 DEF QueueSound

\* The end of the stream is remembered, and a pending wait rejected with it.
LEMMA FailSound ==
  ASSUME NEW q \in Queues, QueueSound(q), NEW reason \in CloseReasons
  PROVE  LET w == Fail(q, reason)
         IN /\ w \in Queues /\ QueueSound(w)
            /\ w.received = q.received /\ w.installed = q.installed
            /\ w.failure = IF q.failure = "none" THEN reason ELSE q.failure
            /\ w.waiter.error \in {reason, q.waiter.error}
<1>1. PICK failed :
        failed = [q EXCEPT !.failure = IF q.failure = "none" THEN reason ELSE q.failure]
  OBVIOUS
<1>2. /\ failed \in Queues /\ BufferSound(failed)
      /\ failed.received = q.received /\ failed.installed = q.installed
      /\ failed.waiter = q.waiter
      /\ failed.failure = IF q.failure = "none" THEN reason ELSE q.failure
  BY <1>1 DEF Queues, QueueSound, BufferSound
<1>3. Fail(q, reason) = IF Pending(q) THEN Reject(failed, reason) ELSE failed
  BY <1>1 DEF Fail
<1>4. CASE Pending(q)
  <2>1. PICK w : w = Reject(failed, reason)
    OBVIOUS
  <2>2. /\ w \in Queues /\ BufferSound(w)
        /\ w.received = q.received /\ w.installed = q.installed
        /\ w.failure = failed.failure
        /\ w.waiter.state = "rejected" /\ w.waiter.error = reason
    <3>1. failed \in Queues /\ BufferSound(failed) /\ reason \in {"timeout"} \cup CloseReasons
      BY <1>2
    <3>2. /\ w \in Queues /\ BufferSound(w)
          /\ w.received = failed.received /\ w.installed = failed.installed
          /\ w.failure = failed.failure
          /\ w.waiter.state = "rejected" /\ w.waiter.error = reason
      BY <2>1, <3>1, RejectSound
    <3> QED
      BY <1>2, <3>2
  <2>3. WaiterSound(w)
    BY <2>2 DEF WaiterSound, Pending
  <2> QED
    BY <1>2, <1>3, <1>4, <2>1, <2>2, <2>3 DEF QueueSound
<1>5. CASE ~Pending(q)
  <2>1. WaiterSound(failed)
    BY <1>2, <1>5 DEF QueueSound, WaiterSound, Pending
  <2> QED
    BY <1>2, <1>3, <1>5, <2>1 DEF QueueSound
<1> QED
  BY <1>4, <1>5

\* cancel() forgets a pending wait and leaves the buffer alone.
LEMMA CancelSound ==
  ASSUME NEW q \in Queues, QueueSound(q)
  PROVE  LET w == Cancel(q)
         IN /\ w \in Queues /\ QueueSound(w)
            /\ w.received = q.received /\ w.failure = q.failure
            /\ w.waiter.error \in {"none", q.waiter.error}
<1>1. PICK waiter : waiter = IF Pending(q) THEN NoWaiter ELSE q.waiter
  OBVIOUS
<1>2. NoWaiter \in Waiters /\ NoWaiter.state = "idle" /\ NoWaiter.error = "none"
  BY DEF NoWaiter, Waiters
<1>3. waiter \in Waiters
  BY <1>1, <1>2 DEF Queues
<1>4. PICK w : w = [q EXCEPT !.installed = FALSE, !.waiter = waiter]
  OBVIOUS
<1>5. /\ w \in Queues /\ w.received = q.received /\ w.events = q.events
      /\ w.failure = q.failure /\ w.waiter = waiter
  BY <1>3, <1>4 DEF Queues
<1>6. BufferSound(w)
  BY <1>5 DEF QueueSound, BufferSound
<1>7. WaiterSound(w)
  BY <1>1, <1>2, <1>5 DEF QueueSound, WaiterSound, Pending
<1> QED
  BY <1>1, <1>2, <1>4, <1>5, <1>6, <1>7 DEF Cancel, QueueSound

(* The listening modes. *)

\* Where the function reads and waits.
Consuming == {"postRead", "wait", "reread"}

\* An answer that is no longer current is made up for: a notification of the
\* resource is on the stream, or has been received since the read was sent.
NoGap ==
  pc \in Consuming /\ read.state # "sent" /\ link = "open" /\ read.version # Version =>
    UpdateOnWire \/ queue.received > read.from

\* The events received are the notifications announced, and no notification, handled
\* or on the stream, tells of a version to come.
Truthful ==
  /\ Len(announced) = queue.received
  /\ pc \in {"start", "connect", "list", "initialRead"} => announced = << >>
  /\ \A k \in DOMAIN announced : announced[k] <= Version
  /\ \A i \in DOMAIN wire : wire[i].version <= Version

\* An answer is no older than what the events received before its read told of.
AnswerCovers ==
  pc \in Consuming /\ read.state # "sent" =>
    \A k \in DOMAIN announced : k <= read.from => announced[k] <= read.version

\* The end of the stream the queue remembers, or rejected a wait with, is the one
\* subscription.closed settled with.
CloseKnown ==
  /\ queue.failure # "none" => queue.failure = closeReason
  /\ queue.waiter.error \in CloseReasons => queue.waiter.error = closeReason

\* What holds between the queue, the read and the stream while the function is at `pc`.
ListenInv ==
  /\ QueueSound(queue)
  /\ pc \in {"listen", "acked"} \cup Consuming => queue.installed
  /\ pc \in {"acked"} \cup Listening => link \notin {"none", "requested"}
  /\ pc \in Consuming => honored /\ read.from <= queue.received
  /\ pc = "wait" => read.state = "idle"
  /\ read.state = "served" => read.version > 0
  /\ NoGap
  /\ Truthful
  /\ AnswerCovers
  /\ CloseKnown

\* The types of the variables and the invariant of the shared part.
ListenIInv == ServerTypeOK /\ ListenTypeOK /\ ListenInv

-----------------------------------------------------------------------------
\* Both modes start in the invariant.
LEMMA ListenInitInv ==
  ASSUME ServerInit, ListenInit, pc \in {"start", "connect"},
         deadline \in {"unset", "running", "passed"}
  PROVE  ListenIInv
<1>1. ServerTypeOK
  <2>1. PICK text \in Texts : history = << text >>
    BY DEF ServerInit
  <2>2. history \in Seq(Texts) /\ Len(history) > 0
    BY <2>1
  <2>3. << >> \in Seq(Notifications)
    OBVIOUS
  <2> QED
    BY <2>2, <2>3 DEF ServerInit, ServerTypeOK, Links
<1>2. ListenTypeOK
  BY FreshQueueSound DEF ServerInit, ListenInit, ListenTypeOK, Points, Reads, Version
<1>3. NoQueue.received = 0 /\ NoQueue.failure = "none" /\ NoQueue.waiter.error = "none"
  BY DEF NoQueue, EmptyQueue, NoWaiter
<1>4. Truthful /\ AnswerCovers
  BY <1>3 DEF ServerInit, ListenInit, Truthful, AnswerCovers, Consuming
<1>5. ListenInv
  BY <1>3, <1>4, FreshQueueSound
     DEF ListenInit, ListenInv, CloseKnown, CloseReasons, NoGap, Consuming, Listening
<1> QED
  BY <1>1, <1>2, <1>5 DEF ListenIInv

\* A step that neither announces nor publishes leaves the parts on versions alone.
LEMMA TruthfulKept ==
  ASSUME Truthful, UNCHANGED << history, wire, announced >>,
         queue'.received = queue.received,
         pc' \in {"start", "connect", "list", "initialRead"} =>
           pc \in {"start", "connect", "list", "initialRead"}
  PROVE  Truthful'
BY DEF Truthful, Version

\* A step that neither announces nor takes an answer leaves the last one covering.
LEMMA CoversKept ==
  ASSUME AnswerCovers, UNCHANGED announced,
         read'.from = read.from, read'.version = read.version,
         pc' \in Consuming /\ read'.state # "sent" =>
           pc \in Consuming /\ read.state # "sent"
  PROVE  AnswerCovers'
BY DEF AnswerCovers

\* The acknowledgement settles client.listen.
LEMMA AcknowledgedInv ==
  ASSUME ListenIInv, Acknowledged
  PROVE  ListenIInv' /\ GivesUpHonestly
<1> USE DEF ListenIInv, Acknowledged, serverVars, listenVars
<1>1. ServerTypeOK'
  BY DEF ServerTypeOK
<1>2. ListenTypeOK'
  BY DEF ListenTypeOK, Points, Version
<1>t. Truthful' /\ AnswerCovers'
  BY TruthfulKept, CoversKept DEF ListenInv, Consuming, Listening
<1>3. ListenInv'
  BY <1>t DEF ListenInv, CloseKnown, NoGap, Consuming, Listening, CloseReasons
<1> QED
  BY <1>1, <1>2, <1>3 DEF GivesUpHonestly

\* The end of the function.
LEMMA ClosedInv ==
  ASSUME ListenIInv, Closed
  PROVE  ListenIInv' /\ GivesUpHonestly
<1> USE DEF ListenIInv, Closed
<1>1. ServerTypeOK'
  BY DEF ServerTypeOK, Links
<1>2. ListenTypeOK'
  BY DEF ListenTypeOK, Points, Version
<1>t. Truthful' /\ AnswerCovers'
  BY TruthfulKept, CoversKept DEF ListenInv, Consuming, Listening
<1>3. ListenInv'
  BY <1>t DEF ListenInv, CloseKnown, CloseReasons, NoGap, Consuming, Listening
<1> QED
  BY <1>1, <1>2, <1>3 DEF GivesUpHonestly

\* A read that is answered is current.
LEMMA ServeReadInv ==
  ASSUME ListenIInv, ServeRead
  PROVE  ListenIInv' /\ GivesUpHonestly
<1> USE DEF ListenIInv, ServeRead, serverVars
<1>1. ServerTypeOK'
  BY DEF ServerTypeOK
<1>2. Version \in Nat /\ Version > 0 /\ Version' = Version
  BY DEF ServerTypeOK, Version
<1>3. read' \in Reads /\ read'.version = Version /\ read'.from = read.from
        /\ read'.state = "served"
  BY <1>2 DEF ListenTypeOK, Reads
<1>4. ListenTypeOK'
  BY <1>2, <1>3 DEF ListenTypeOK
<1>5. pc # "wait"
  BY DEF ListenInv
<1>6. Truthful' /\ AnswerCovers'
  BY <1>2, <1>3, TruthfulKept DEF ListenInv, Truthful, AnswerCovers
<1>7. ListenInv'
  BY <1>2, <1>3, <1>5, <1>6 DEF ListenInv, CloseKnown, NoGap
<1> QED
  BY <1>1, <1>4, <1>7 DEF GivesUpHonestly

\* The deadline passes: only the clock moves.
LEMMA DeadlinePassesInv ==
  ASSUME ListenIInv, DeadlinePasses
  PROVE  ListenIInv' /\ GivesUpHonestly
<1> USE DEF ListenIInv, DeadlinePasses, serverVars
<1>1. ServerTypeOK'
  BY DEF ServerTypeOK
<1>2. ListenTypeOK'
  BY DEF ListenTypeOK, Version
<1>t. Truthful' /\ AnswerCovers'
  BY TruthfulKept, CoversKept DEF ListenInv, Consuming, Listening
<1>3. ListenInv'
  BY <1>t DEF ListenInv, CloseKnown, NoGap, UpdateOnWire, Version
<1> QED
  BY <1>1, <1>2, <1>3 DEF GivesUpHonestly

\* The timer of a pending wait: a wait that is pending has no event and no failure.
LEMMA WaitTimesOutInv ==
  ASSUME ListenIInv, WaitTimesOut
  PROVE  ListenIInv' /\ GivesUpHonestly
<1> USE DEF ListenIInv, WaitTimesOut, serverVars
<1>1. ServerTypeOK'
  BY DEF ServerTypeOK
<1>2. /\ queue' \in Queues /\ QueueSound(queue')
      /\ queue'.received = queue.received /\ queue'.installed = queue.installed
      /\ queue'.failure = queue.failure /\ queue'.waiter.error = "timeout"
      /\ queue'.waiter.after = queue.waiter.after
  BY TimerSound DEF ListenTypeOK, ListenInv
<1>3. ListenTypeOK'
  BY <1>2 DEF ListenTypeOK, Version
<1>t. Truthful' /\ AnswerCovers'
  BY <1>2, TruthfulKept, CoversKept DEF ListenInv, Consuming, Listening
<1>4. ListenInv'
  BY <1>2, <1>t DEF ListenInv, CloseKnown, CloseReasons, NoGap, UpdateOnWire, Version
<1>5. GivesUpHonestly
  BY <1>2 DEF GivesUpHonestly, ListenInv, QueueSound, WaiterSound
<1> QED
  BY <1>1, <1>3, <1>4, <1>5

\* The end of the stream reaches the queue.
LEMMA StreamEndedInv ==
  ASSUME ListenIInv, StreamEnded
  PROVE  ListenIInv' /\ GivesUpHonestly
<1> USE DEF ListenIInv, StreamEnded, serverVars
<1>1. ServerTypeOK'
  BY DEF ServerTypeOK
<1>2. /\ queue' \in Queues /\ QueueSound(queue')
      /\ queue'.received = queue.received /\ queue'.installed = queue.installed
      /\ queue'.failure = IF queue.failure = "none" THEN link ELSE queue.failure
      /\ queue'.waiter.error \in {link, queue.waiter.error}
  BY FailSound DEF ListenTypeOK, ListenInv
<1>3. ListenTypeOK'
  BY <1>2 DEF ListenTypeOK, Version
<1>t. Truthful' /\ AnswerCovers'
  BY <1>2, TruthfulKept, CoversKept DEF ListenInv, Consuming, Listening
<1>4. ListenInv'
  BY <1>2, <1>t DEF ListenInv, CloseKnown, CloseReasons, NoGap, UpdateOnWire, Version
<1>5. GivesUpHonestly
  BY <1>2 DEF GivesUpHonestly, CloseReasons
<1> QED
  BY <1>1, <1>3, <1>4, <1>5

\* What is left on the stream when its first notification is taken off.
LEMMA TailOfWire ==
  ASSUME wire \in Seq(Notifications), wire # << >>
  PROVE  /\ Tail(wire) \in Seq(Notifications)
         /\ Head(wire) \in Notifications
         /\ UpdateOnWire =>
              \/ Head(wire).uri = Uri
              \/ \E i \in DOMAIN Tail(wire) : Tail(wire)[i].uri = Uri
<1>1. Tail(wire) \in Seq(Notifications) /\ Head(wire) \in Notifications
  OBVIOUS
<1>2. ASSUME NEW i \in DOMAIN wire, wire[i].uri = Uri, Head(wire).uri # Uri
      PROVE  \E j \in DOMAIN Tail(wire) : Tail(wire)[j].uri = Uri
  <2>1. i \in 2 .. Len(wire)
    BY <1>2
  <2>2. PICK j : j = i - 1
    OBVIOUS
  <2>3. j \in DOMAIN Tail(wire) /\ Tail(wire)[j] = wire[i]
    BY <2>1, <2>2
  <2> QED
    BY <1>2, <2>3
<1> QED
  BY <1>1, <1>2 DEF UpdateOnWire

\* A notification of the resource that leaves the stream is counted by the queue.
LEMMA DeliverInv ==
  ASSUME ListenIInv, Deliver
  PROVE  ListenIInv' /\ GivesUpHonestly
<1> USE DEF ListenIInv, Deliver
<1>1. /\ wire' \in Seq(Notifications) /\ Head(wire) \in Notifications
      /\ UpdateOnWire => Head(wire).uri = Uri \/ UpdateOnWire'
  BY TailOfWire DEF ServerTypeOK, UpdateOnWire
<1>2. ServerTypeOK'
  BY <1>1 DEF ServerTypeOK
<1>3. Version' = Version
  BY DEF Version
<1>w. \A i \in DOMAIN wire' : wire'[i].version <= Version
  BY DEF ServerTypeOK, ListenInv, Truthful
<1>4. CASE queue.installed /\ Head(wire).uri = Uri
  <2>1. queue' = Notify(queue) /\ announced' = Append(announced, Head(wire).version)
    BY <1>4
  <2>2. /\ queue' \in Queues /\ QueueSound(queue')
        /\ queue'.received = queue.received + 1 /\ queue'.installed = queue.installed
        /\ queue'.failure = queue.failure /\ queue'.waiter.error = queue.waiter.error
    BY <2>1, NotifySound DEF ListenTypeOK, ListenInv
  <2>3. announced' \in Seq(Nat)
    BY <1>1, <2>1 DEF ListenTypeOK, Notifications
  <2>4. ListenTypeOK'
    BY <1>3, <2>2, <2>3 DEF ListenTypeOK
  <2>5. queue.received \in Nat /\ read.from \in Nat
    BY DEF ListenTypeOK, Queues, Reads
  <2>6. Truthful' /\ AnswerCovers'
    <3>0. /\ Len(announced) = queue.received /\ announced \in Seq(Nat)
          /\ Head(wire).version \in Nat
      BY <1>1 DEF ListenInv, ListenTypeOK, Truthful, Notifications
    <3>1. /\ DOMAIN announced = 1 .. queue.received
          /\ DOMAIN announced' = 1 .. (queue.received + 1)
          /\ \A k \in DOMAIN announced : announced'[k] = announced[k]
          /\ announced'[queue.received + 1] = Head(wire).version
      BY <2>1, <2>5, <3>0
    <3>2. Head(wire).version <= Version
      BY <1>1 DEF ListenInv, Truthful, ServerTypeOK
    <3>3. Len(announced') = queue'.received
      BY <2>1, <2>2, <3>0
    <3>4. \A k \in DOMAIN announced' : announced'[k] <= Version'
      BY <1>3, <3>1, <3>2, <2>5 DEF ListenInv, Truthful
    <3>5. Truthful'
      BY <1>3, <1>w, <3>3, <3>4 DEF Truthful, Listening
    <3>6. AnswerCovers'
      BY <2>5, <3>1 DEF ListenInv, AnswerCovers
    <3> QED
      BY <3>5, <3>6
  <2>7. ListenInv'
    BY <1>3, <2>2, <2>5, <2>6 DEF ListenInv, CloseKnown, NoGap
  <2> QED
    BY <1>2, <2>2, <2>4, <2>7 DEF GivesUpHonestly
<1>5. CASE ~(queue.installed /\ Head(wire).uri = Uri)
  <2>1. UNCHANGED << queue, announced >>
    BY <1>5
  <2>2. ListenTypeOK'
    BY <1>3, <2>1 DEF ListenTypeOK
  <2>3. Truthful' /\ AnswerCovers'
    BY <1>3, <1>w, <2>1 DEF ListenInv, Truthful, AnswerCovers
  <2>4. ListenInv'
    BY <1>1, <1>3, <1>5, <2>1, <2>3 DEF ListenInv, CloseKnown, NoGap
  <2> QED
    BY <1>2, <2>1, <2>2, <2>4 DEF GivesUpHonestly
<1> QED
  BY <1>4, <1>5

-----------------------------------------------------------------------------
\* What the server does keeps its variables in their types, adds a notification when
\* it changes an honored resource on an open stream, and takes one off only as the
\* stream ends.
LEMMA ServerNextEffect ==
  ASSUME ServerTypeOK, ServerNext
  PROVE  /\ ServerTypeOK'
         /\ Version <= Version'
         /\ link \notin {"none", "requested"} =>
              link' \notin {"none", "requested"} /\ honored' = honored
         /\ link \notin {"none", "requested"} /\ link' = "open" =>
              /\ link = "open"
              /\ UpdateOnWire => UpdateOnWire'
              /\ Version' # Version /\ honored => UpdateOnWire'
<1> USE DEF ServerTypeOK, Version
<1>1. CASE Accept
  BY <1>1 DEF Accept, Links, UpdateOnWire
<1>2. CASE Publish
  <2>1. PICK text \in Texts : history' = Append(history, text)
    BY <1>2 DEF Publish
  <2>2. history' \in Seq(Texts) /\ Len(history') = Len(history) + 1
    BY <2>1
  <2>3. CASE link = "open" /\ honored
    <3>1. PICK n : n = [uri |-> Uri, version |-> Version + 1]
      OBVIOUS
    <3>2. n \in Notifications /\ n.uri = Uri
      BY <3>1 DEF Notifications
    <3>3. wire' = Append(wire, n)
      BY <1>2, <2>3, <3>1 DEF Publish
    <3>4. /\ wire' \in Seq(Notifications) /\ Len(wire') = Len(wire) + 1
          /\ Len(wire') \in DOMAIN wire'
          /\ wire'[Len(wire')] = n
      BY <3>2, <3>3
    <3>5. UpdateOnWire'
      BY <3>2, <3>4 DEF UpdateOnWire
    <3> QED
      BY <1>2, <2>2, <2>3, <3>4, <3>5 DEF Publish
  <2>4. CASE ~(link = "open" /\ honored)
    BY <1>2, <2>2, <2>4 DEF Publish, UpdateOnWire
  <2> QED
    BY <2>3, <2>4
<1>3. CASE PublishOther
  <2>1. PICK n : n = [uri |-> OtherUri, version |-> Version]
    OBVIOUS
  <2>2. n \in Notifications
    BY <2>1 DEF Notifications
  <2>3. wire' = Append(wire, n)
    BY <1>3, <2>1 DEF PublishOther
  <2>4. wire' \in Seq(Notifications)
    BY <2>2, <2>3
  <2>5. \A i \in DOMAIN wire : i \in DOMAIN wire' /\ wire'[i] = wire[i]
    BY <2>2, <2>3
  <2>6. UpdateOnWire => UpdateOnWire'
    BY <2>5 DEF UpdateOnWire
  <2> QED
    BY <1>3, <2>4, <2>6 DEF PublishOther
<1>4. CASE EndStream
  BY <1>4 DEF EndStream, Links
<1>5. CASE DropStream
  <2>1. PICK n \in 0 .. Len(wire) : wire' = SubSeq(wire, 1, n)
    BY <1>5 DEF DropStream
  <2>2. wire' \in Seq(Notifications)
    BY <2>1
  <2> QED
    BY <1>5, <2>2 DEF DropStream, Links
<1> QED
  BY <1>1, <1>2, <1>3, <1>4, <1>5 DEF ServerNext

\* What the server sends tells of no version to come.
LEMMA ServerNextTruthful ==
  ASSUME ServerTypeOK, ServerNext,
         \A i \in DOMAIN wire : wire[i].version <= Version
  PROVE  \A i \in DOMAIN wire' : wire'[i].version <= Version'
<1> USE DEF ServerTypeOK, Version
<1>0. ASSUME NEW i \in DOMAIN wire PROVE wire[i].version \in Nat
  <2>1. wire[i] \in Notifications
    BY <1>0
  <2> QED
    BY <2>1 DEF Notifications
<1>1. ASSUME NEW n \in Notifications, wire' = Append(wire, n),
             n.version <= Len(history'), Len(history) <= Len(history'),
             Len(history') \in Nat
      PROVE  \A i \in DOMAIN wire' : wire'[i].version <= Len(history')
  <2>1. /\ DOMAIN wire = 1 .. Len(wire) /\ Len(wire) \in Nat
        /\ DOMAIN wire' = 1 .. (Len(wire) + 1)
        /\ wire'[Len(wire) + 1] = n
        /\ \A i \in 1 .. Len(wire) : wire'[i] = wire[i]
    BY <1>1
  <2>2. ASSUME NEW i \in 1 .. Len(wire) PROVE wire'[i].version <= Len(history')
    BY <1>0, <1>1, <2>1, <2>2
  <2> QED
    BY <1>1, <2>1, <2>2
<1>2. CASE Publish
  <2>1. PICK text \in Texts : history' = Append(history, text)
    BY <1>2 DEF Publish
  <2>2. Len(history') = Len(history) + 1
    BY <2>1
  <2>3. CASE link = "open" /\ honored
    <3>1. PICK n : n = [uri |-> Uri, version |-> Version + 1]
      OBVIOUS
    <3>2. n \in Notifications /\ n.version = Version + 1
      BY <3>1 DEF Notifications
    <3>3. wire' = Append(wire, n)
      BY <1>2, <2>3, <3>1 DEF Publish
    <3> QED
      BY <1>1, <2>2, <3>2, <3>3
  <2>4. CASE ~(link = "open" /\ honored)
    <3>1. wire' = wire
      BY <1>2, <2>4 DEF Publish
    <3> QED
      BY <1>0, <2>2, <3>1
  <2> QED
    BY <2>3, <2>4
<1>3. CASE PublishOther
  <2>1. PICK n : n = [uri |-> OtherUri, version |-> Version]
    OBVIOUS
  <2>2. n \in Notifications /\ n.version = Version
    BY <2>1 DEF Notifications
  <2>3. wire' = Append(wire, n) /\ history' = history
    BY <1>3, <2>1 DEF PublishOther
  <2> QED
    BY <1>1, <2>2, <2>3
<1>4. CASE Accept \/ EndStream
  BY <1>4 DEF Accept, EndStream
<1>5. CASE DropStream
  BY <1>5 DEF DropStream
<1> QED
  BY <1>2, <1>3, <1>4, <1>5 DEF ServerNext

\* A step of the server.
LEMMA ServerStepInv ==
  ASSUME ListenIInv, ServerStep
  PROVE  ListenIInv' /\ GivesUpHonestly
<1> USE DEF ListenIInv, ServerStep, listenVars
<1>1. /\ ServerTypeOK'
      /\ Version <= Version'
      /\ link \notin {"none", "requested"} =>
           link' \notin {"none", "requested"} /\ honored' = honored
      /\ link \notin {"none", "requested"} /\ link' = "open" =>
           /\ link = "open"
           /\ UpdateOnWire => UpdateOnWire'
           /\ Version' # Version /\ honored => UpdateOnWire'
  BY ServerNextEffect
<1>2. Version \in Nat /\ Version' \in Nat
  BY <1>1 DEF ServerTypeOK, Version
<1>3. ListenTypeOK'
  BY <1>1, <1>2 DEF ListenTypeOK, Reads
<1>4. NoGap'
  BY <1>1 DEF ListenInv, NoGap, Consuming, Listening
<1>t. Truthful' /\ AnswerCovers'
  BY <1>1, <1>2, ServerNextTruthful
     DEF ListenTypeOK, ListenInv, Truthful, AnswerCovers
<1>5. ListenInv'
  BY <1>1, <1>4, <1>t DEF ListenInv, CloseKnown, Consuming, Listening
<1> QED
  BY <1>1, <1>3, <1>5 DEF GivesUpHonestly

\* Everything that is not a step of the mode's own function.
LEMMA SharedStepInv ==
  ASSUME ListenIInv, Acknowledged \/ Closed \/ HandlerStep \/ ServerStep
  PROVE  ListenIInv' /\ GivesUpHonestly
BY AcknowledgedInv, ClosedInv, ServeReadInv, DeliverInv, StreamEndedInv,
   DeadlinePassesInv, WaitTimesOutInv, ServerStepInv DEF HandlerStep

\* The events received are only added to.
LEMMA SharedStepQueue ==
  ASSUME ListenIInv, Acknowledged \/ Closed \/ HandlerStep \/ ServerStep
  PROVE  /\ queue.received <= queue'.received
         /\ \A k \in DOMAIN announced' :
              \/ k \in DOMAIN announced /\ announced'[k] = announced[k]
              \/ k > queue.received
<1> USE DEF ListenIInv
<1>1. /\ queue \in Queues /\ QueueSound(queue) /\ queue.received \in Nat
      /\ announced \in Seq(Nat) /\ Len(announced) = queue.received
  BY DEF ListenTypeOK, ListenInv, Truthful, Queues
<1>2. CASE UNCHANGED << queue, announced >>
  BY <1>1, <1>2
<1>3. CASE StreamEnded \/ WaitTimesOut
  <2>1. queue'.received = queue.received
    BY <1>1, <1>3, FailSound, TimerSound DEF StreamEnded, WaitTimesOut
  <2> QED
    BY <1>1, <1>3, <2>1 DEF StreamEnded, WaitTimesOut
<1>4. CASE queue' = Notify(queue) /\ announced' = Append(announced, Head(wire).version)
  <2>1. queue'.received = queue.received + 1
    BY <1>1, <1>4, NotifySound
  <2>2. ASSUME NEW k \in DOMAIN announced', k \notin DOMAIN announced
        PROVE  k > queue.received
    BY <1>1, <1>4, <2>2
  <2>3. ASSUME NEW k \in DOMAIN announced, k \in DOMAIN announced'
        PROVE  announced'[k] = announced[k]
    BY <1>1, <1>4, <2>3
  <2> QED
    BY <1>1, <2>1, <2>2, <2>3
<1> QED
  BY <1>2, <1>3, <1>4 DEF Acknowledged, Closed, HandlerStep, ServeRead, Deliver,
                          DeadlinePasses, ServerStep, listenVars

\* The texts the resource has had stay what they are.
LEMMA SharedStepHistory ==
  ASSUME ServerTypeOK, Acknowledged \/ Closed \/ HandlerStep \/ ServerStep
  PROVE  \A version \in 1 .. Version : history'[version] = history[version]
<1>1. CASE \E text \in Texts : history' = Append(history, text)
  BY <1>1 DEF ServerTypeOK, Version
<1>2. CASE history' = history
  BY <1>2
<1> QED
  BY <1>1, <1>2 DEF Acknowledged, Closed, HandlerStep, ServeRead, Deliver, StreamEnded,
                    DeadlinePasses, WaitTimesOut, ServerStep, ServerNext, Accept, Publish,
                    PublishOther, EndStream, DropStream, serverVars

-----------------------------------------------------------------------------
(* What the steps of both functions do to the shared part.                 *)

\* Before the queue is installed, or once all is closed, a step moves on.
LEMMA MoveOnInv ==
  ASSUME ListenIInv, UNCHANGED << serverVars, deadline, queue, closeReason, announced >>,
         pc' \in {"connect", "list", "initialRead", "done", "reported"},
         pc' \in {"connect", "list", "initialRead"} => pc \in {"start", "connect", "list"},
         read' \in Reads, read'.version = read.version,
         read'.state = "served" => read.state = "served"
  PROVE  ListenIInv' /\ GivesUpHonestly
<1> USE DEF ListenIInv, serverVars
<1>1. ServerTypeOK' /\ Version' = Version
  BY DEF ServerTypeOK, Version
<1>2. ListenTypeOK'
  BY <1>1 DEF ListenTypeOK, Points
<1>3. Truthful' /\ AnswerCovers'
  BY TruthfulKept DEF ListenInv, AnswerCovers, Consuming
<1>4. ListenInv'
  BY <1>3 DEF ListenInv, NoGap, CloseKnown, Consuming, Listening
<1> QED
  BY <1>1, <1>2, <1>4 DEF GivesUpHonestly

\* The queue is created, then the stream requested.
LEMMA RequestInv ==
  ASSUME ListenIInv, pc \in {"list", "initialRead"},
         queue' = CreateQueue, link' = "requested", pc' = "listen",
         UNCHANGED << history, honored, wire, closeReason, announced >>,
         deadline' \in {"running", "passed"},
         read' \in Reads, read'.version = read.version,
         read'.state = "served" => read.state = "served"
  PROVE  ListenIInv' /\ GivesUpHonestly /\ queue'.received = 0
<1> USE DEF ListenIInv
<1>1. ServerTypeOK' /\ Version' = Version
  BY DEF ServerTypeOK, Version, Links
<1>2. /\ queue' \in Queues /\ QueueSound(queue') /\ queue'.installed
      /\ queue'.waiter.error = "none" /\ queue'.received = 0 /\ queue'.failure = "none"
  BY FreshQueueSound DEF CreateQueue, EmptyQueue, NoWaiter
<1>3. ListenTypeOK'
  BY <1>1, <1>2 DEF ListenTypeOK, Points
<1>4. Truthful' /\ AnswerCovers'
  BY <1>1, <1>2 DEF ListenInv, Truthful, AnswerCovers, Consuming
<1>5. ListenInv'
  BY <1>2, <1>4 DEF ListenInv, NoGap, CloseKnown, CloseReasons, Consuming, Listening
<1> QED
  BY <1>1, <1>2, <1>3, <1>5 DEF GivesUpHonestly

\* The listen request fails.
LEMMA RefusedInv ==
  ASSUME ListenIInv, queue' = Cancel(queue), link' = "local", pc' = "done",
         UNCHANGED << history, honored, wire, deadline, read, closeReason, announced >>
  PROVE  ListenIInv' /\ GivesUpHonestly /\ queue'.received = queue.received
<1> USE DEF ListenIInv
<1>1. ServerTypeOK' /\ Version' = Version
  BY DEF ServerTypeOK, Version, Links
<1>2. /\ queue' \in Queues /\ QueueSound(queue')
      /\ queue'.received = queue.received /\ queue'.failure = queue.failure
      /\ queue'.waiter.error \in {"none", queue.waiter.error}
  BY CancelSound DEF ListenTypeOK, ListenInv
<1>3. ListenTypeOK'
  BY <1>1, <1>2 DEF ListenTypeOK, Points
<1>4. Truthful' /\ AnswerCovers'
  BY <1>2, TruthfulKept DEF ListenInv, AnswerCovers, Consuming
<1>5. ListenInv'
  BY <1>2, <1>4 DEF ListenInv, NoGap, CloseKnown, CloseReasons, Consuming, Listening
<1> QED
  BY <1>1, <1>2, <1>3, <1>5 DEF GivesUpHonestly

\* A step that changes none of the shared variables.
LEMMA StutterInv ==
  ASSUME ListenIInv, UNCHANGED << serverVars, pc, listenVars >>
  PROVE  ListenIInv' /\ GivesUpHonestly
<1> USE DEF ListenIInv, serverVars, listenVars
<1>1. ServerTypeOK' /\ Version' = Version /\ UpdateOnWire' = UpdateOnWire
  BY DEF ServerTypeOK, Version, UpdateOnWire
<1>2. ListenTypeOK' /\ ListenInv'
  BY <1>1 DEF ListenTypeOK, ListenInv, NoGap, Truthful, AnswerCovers, CloseKnown
<1> QED
  BY <1>1, <1>2 DEF GivesUpHonestly

\* The wait of both modes: honest, and with no gap, if what was read last was sent no
\* earlier than `after` counts.
LEMMA WaitInv ==
  ASSUME ListenIInv, NEW after \in Nat, Wait(after)
  PROVE  /\ queue' \in Queues /\ QueueSound(queue')
         /\ queue'.received = queue.received /\ queue'.installed = queue.installed
         /\ queue'.failure = queue.failure
         /\ queue'.waiter.error \in {"none", "timeout", queue.failure}
         /\ GivesUpHonestly
<1>1. queue \in Queues /\ QueueSound(queue) /\ Expired \in BOOLEAN
  BY DEF ListenIInv, ListenTypeOK, ListenInv, Expired
<1> QED
  BY <1>1, WaitAfterSound DEF Wait, GivesUpHonestly

\* The finallys: the queue is cancelled; nothing is read or waited for any more.
LEMMA FinishInv ==
  ASSUME ListenIInv, Finish, pc \in {"acked"} \cup Listening,
         UNCHANGED << serverVars, deadline, closeReason, announced >>,
         read' \in Reads, read'.version = read.version,
         read'.state = "served" => read.state = "served"
  PROVE  ListenIInv' /\ GivesUpHonestly /\ queue'.received = queue.received
<1> USE DEF Finish, ListenIInv, serverVars
<1>1. ServerTypeOK' /\ Version' = Version
  BY DEF ServerTypeOK, Version
<1>2. /\ queue' \in Queues /\ QueueSound(queue')
      /\ queue'.received = queue.received /\ queue'.failure = queue.failure
      /\ queue'.waiter.error \in {"none", queue.waiter.error}
  BY CancelSound DEF ListenTypeOK, ListenInv
<1>3. ListenTypeOK'
  BY <1>1, <1>2 DEF ListenTypeOK, Points, Listening
<1>t. Truthful' /\ AnswerCovers'
  BY <1>2, TruthfulKept DEF ListenInv, AnswerCovers, Consuming, Listening
<1>4. ListenInv'
  BY <1>2, <1>t DEF ListenInv, CloseKnown, CloseReasons, NoGap, Consuming, Listening
<1> QED
  BY <1>1, <1>2, <1>3, <1>4 DEF GivesUpHonestly

\* A read is sent: it will answer for everything received so far.
LEMMA SendReadInv ==
  ASSUME ListenIInv, SendRead, pc \in {"acked"} \cup Consuming, honored,
         pc' \in {"postRead", "reread"},
         UNCHANGED << serverVars, deadline, queue, closeReason, announced >>
  PROVE  ListenIInv' /\ GivesUpHonestly /\ read'.from = queue.received
<1> USE DEF SendRead, ListenIInv, serverVars
<1>1. ServerTypeOK' /\ Version' = Version
  BY DEF ServerTypeOK, Version
<1>2. queue.received \in Nat
  BY DEF ListenTypeOK, Queues
<1>3. /\ read' \in Reads /\ read'.version = read.version
      /\ read'.from = queue.received /\ read'.state = "sent"
  BY <1>2 DEF ListenTypeOK, Reads
<1>4. ListenTypeOK'
  BY <1>1, <1>3 DEF ListenTypeOK, Points, Listening
<1>t. Truthful' /\ AnswerCovers'
  BY <1>3, TruthfulKept DEF ListenInv, AnswerCovers
<1>5. ListenInv'
  BY <1>2, <1>3, <1>t DEF ListenInv, CloseKnown, NoGap, Consuming, Listening
<1> QED
  BY <1>3, <1>4, <1>5, <1>1 DEF GivesUpHonestly

\* From an answered read to the wait.
LEMMA TakeAndWaitInv ==
  ASSUME ListenIInv, pc \in {"postRead", "reread"}, TakeAnswer,
         NEW after \in Nat, Wait(after),
         UNCHANGED << serverVars, deadline, closeReason, announced >>
  PROVE  ListenIInv' /\ GivesUpHonestly /\ read'.from = read.from
         /\ queue'.received = queue.received
<1> USE DEF TakeAnswer, ListenIInv, serverVars
<1>1. ServerTypeOK' /\ Version' = Version /\ UpdateOnWire' = UpdateOnWire
  BY DEF ServerTypeOK, Version, UpdateOnWire
<1>2. /\ queue' \in Queues /\ QueueSound(queue')
      /\ queue'.received = queue.received /\ queue'.installed = queue.installed
      /\ queue'.failure = queue.failure
      /\ queue'.waiter.error \in {"none", "timeout", queue.failure}
      /\ GivesUpHonestly
  BY WaitInv
<1>3. /\ read' \in Reads /\ read'.version = read.version
      /\ read'.from = read.from /\ read'.state = "idle"
  BY DEF ListenTypeOK, Reads
<1>4. ListenTypeOK'
  BY <1>1, <1>2, <1>3 DEF ListenTypeOK, Points, Listening, Wait
<1>t. Truthful' /\ AnswerCovers'
  BY <1>2, <1>3, TruthfulKept, CoversKept DEF ListenInv, Consuming, Wait
<1>5. ListenInv'
  BY <1>1, <1>2, <1>3, <1>t DEF ListenInv, CloseKnown, CloseReasons, NoGap, Consuming, Listening, Wait
<1> QED
  BY <1>1, <1>2, <1>3, <1>4, <1>5
=============================================================================
