------------------------- MODULE SubscriptionProofs -------------------------
(***************************************************************************)
(* The one-shot subscription, for every capacity of the buffer, every      *)
(* set of texts and every number of changes and notifications: its types,  *)
(* the soundness of its queue, no lost update, and honest timeouts.        *)
(***************************************************************************)
EXTENDS Subscription, ListenClientProofs

\* Up to the answer of the read after the acknowledgement.
Early == {"connect", "list", "initialRead", "listen", "acked", "postRead"}

\* The types of the run's own variables.
RunTypeOK ==
  /\ initial \in 0 .. Version
  /\ final \in 0 .. Version
  /\ sequence \in Nat
  /\ route \in {"subscription", "pre-completion", "timeout"}
  /\ errorCode \in ErrorCodes
  /\ outcome \in {"running", "returned", "thrown"}

\* Before the first wait nothing is consumed; from then on, the read that is in
\* flight or was answered last was sent after the event the run has consumed last.
ReadAfterConsumed ==
  /\ sequence <= queue.received
  /\ pc \in Early => sequence = 0 /\ final = 0
  /\ pc \in {"wait", "reread"} => sequence <= read.from

\* An error code and an outcome are set on the way out, and the code is that of
\* the end of the stream.
ErrorSound ==
  /\ pc \notin {"closing", "done"} => errorCode = "none" /\ outcome = "running"
  /\ errorCode = "SUBSCRIPTION_DISCONNECTED" => closeReason = "remote"
  /\ errorCode = "SUBSCRIPTION_CLOSED" => closeReason = "graceful"

\* The route is decided by the read after the acknowledgement, or by an event.
RouteSound ==
  /\ pc \in {"listen", "acked", "postRead"} => initial > 0
  /\ pc \in Early \cup {"wait"} => route # "pre-completion"
  /\ pc = "reread" => route = "subscription"

\* A run on its way out with a result and no error code has a terminal text.
SuccessSound ==
  pc \in {"closing", "done"} /\ outcome = "returned" /\ errorCode = "none" =>
    /\ final > 0
    /\ ~ShouldWait(final)
    /\ route \in {"subscription", "pre-completion"}
    /\ route = "pre-completion" => initial > 0 /\ Text(final) # Text(initial)

\* The part of the inductive invariant on the run's own variables, and all of it.
RunInv ==
  /\ RunTypeOK
  /\ ReadAfterConsumed
  /\ ErrorSound
  /\ RouteSound
  /\ SuccessSound
  /\ FinalTextCoversConsumed

IInv == ListenIInv /\ RunInv

\* The invariant holds at the start.
LEMMA InitInv == Init => IInv
<1> SUFFICES ASSUME Init PROVE IInv
  OBVIOUS
<1>1. ListenIInv
  BY ListenInitInv DEF Init
<1>2. Version \in Nat /\ Version > 0
  BY <1>1 DEF ListenIInv, ServerTypeOK, Version
<1>3. RunTypeOK
  BY <1>2 DEF Init, RunTypeOK, ErrorCodes
<1>4. NoQueue.received = 0
  BY DEF NoQueue, EmptyQueue
<1>5. RunInv
  BY <1>3, <1>4
     DEF Init, ListenInit, RunInv, ReadAfterConsumed, Early, ErrorSound, RouteSound,
         SuccessSound, FinalTextCoversConsumed
<1> QED
  BY <1>1, <1>5 DEF IInv

-----------------------------------------------------------------------------
(* The steps of the function, up to the acknowledgement.                   *)

\* Before the queue is installed a step moves on or ends the run.
LEMMA BeforeListenInv ==
  ASSUME IInv, Connect \/ Throw \/ ResourceListed \/ ResourceNotFound
  PROVE  IInv' /\ GivesUpHonestly
<1> USE DEF Connect, Throw, ResourceListed, ResourceNotFound, listenVars, runVars, SendRead,
            AbandonRead, IInv
<1>1. queue.received \in Nat
  BY DEF ListenIInv, ListenTypeOK, Queues
<1>2. /\ read' \in Reads /\ read'.version = read.version
      /\ read'.state = "served" => read.state = "served"
  BY <1>1 DEF ListenIInv, ListenTypeOK, Reads
<1>3. ListenIInv' /\ GivesUpHonestly
  BY <1>2, MoveOnInv
<1>4. RunInv'
  BY DEF RunInv, RunTypeOK, ErrorCodes, ReadAfterConsumed, Early,
         ErrorSound, RouteSound, SuccessSound, FinalTextCoversConsumed, Text, ShouldWait, serverVars, Version
<1> QED
  BY <1>3, <1>4

\* The queue is created, then the stream requested.
LEMMA ListenStepInv ==
  ASSUME IInv, Listen
  PROVE  IInv' /\ GivesUpHonestly
<1> USE DEF Listen, TakeAnswer, IInv
<1>1. /\ read' \in Reads /\ read'.version = read.version
      /\ read'.state = "served" => read.state = "served"
  BY DEF ListenIInv, ListenTypeOK, Reads
<1>2. ListenIInv' /\ GivesUpHonestly /\ queue'.received = 0
  BY <1>1, RequestInv
<1>3. Version' = Version
  BY DEF Version
<1>4. initial' \in 1 .. Version'
  BY <1>3 DEF ListenIInv, ListenTypeOK, ListenInv, Reads, ServerTypeOK, Version
<1>5. RunInv'
  BY <1>2, <1>3, <1>4
     DEF RunInv, RunTypeOK, ReadAfterConsumed, Early, ErrorSound, RouteSound,
         SuccessSound, FinalTextCoversConsumed
<1> QED
  BY <1>2, <1>5

\* The listen request fails.
LEMMA ListenFailsInv ==
  ASSUME IInv, ListenFails
  PROVE  IInv' /\ GivesUpHonestly
<1> USE DEF ListenFails, IInv
<1>1. ListenIInv' /\ GivesUpHonestly /\ queue'.received = queue.received
  BY RefusedInv
<1>2. RunInv'
  BY <1>1 DEF RunInv, RunTypeOK, ErrorCodes, ReadAfterConsumed, Early,
         ErrorSound, RouteSound, SuccessSound, FinalTextCoversConsumed, Text, ShouldWait, Version
<1> QED
  BY <1>1, <1>2

-----------------------------------------------------------------------------
(* The steps of the function after the acknowledgement.                    *)

\* An answer is taken: the run waits, or it ends with a terminal text.
LEMMA WaitUnlessTerminalInv ==
  ASSUME ListenIInv, pc \in {"postRead", "reread"}, TakeAnswer,
         NEW version, NEW after \in Nat, after <= read.from,
         WaitUnlessTerminal(version, after),
         UNCHANGED << serverVars, deadline, closeReason, announced >>
  PROVE  /\ ListenIInv' /\ GivesUpHonestly
         /\ queue'.received = queue.received
         /\ \/ /\ pc' = "wait" /\ ShouldWait(version)
               /\ outcome' = outcome /\ after <= read'.from
            \/ pc' = "closing" /\ ~ShouldWait(version) /\ outcome' = "returned"
<1>1. CASE ShouldWait(version) /\ Wait(after) /\ UNCHANGED outcome
  BY <1>1, TakeAndWaitInv DEF Wait
<1>2. CASE ~ShouldWait(version) /\ FinishWith("returned")
  <2>1. read' \in Reads /\ read'.version = read.version /\ read'.state = "idle"
    BY DEF TakeAnswer, ListenIInv, ListenTypeOK, Reads
  <2> QED
    BY <1>2, <2>1, FinishInv DEF FinishWith, Finish, Listening
<1> QED
  BY <1>1, <1>2 DEF WaitUnlessTerminal

\* The steps that end the listening part.
LEMMA EndInv ==
  ASSUME IInv, NotHonored \/ WaitFails \/ ReadFails
  PROVE  IInv' /\ GivesUpHonestly
<1> USE DEF NotHonored, WaitFails, ReadFails, FinishWith, AbandonRead, IInv
<1>1. /\ read' \in Reads /\ read'.version = read.version
      /\ read'.state = "served" => read.state = "served"
  BY DEF ListenIInv, ListenTypeOK, ListenInv, Reads
<1>2. ListenIInv' /\ GivesUpHonestly /\ queue'.received = queue.received
  BY <1>1, FinishInv DEF Listening
<1>3. Version' = Version
  BY DEF serverVars, Version
<1>4. RunTypeOK' /\ ReadAfterConsumed' /\ RouteSound'
  BY <1>2, <1>3 DEF RunInv, RunTypeOK, ErrorCodes, Classify, ReadAfterConsumed, Early,
                    RouteSound, Finish
<1>5. CASE NotHonored \/ ReadFails
  BY <1>2, <1>4, <1>5
     DEF RunInv, ErrorSound, SuccessSound, ReadAfterConsumed, Early,
         FinalTextCoversConsumed, Finish
<1>6. CASE WaitFails
  <2>1. queue.waiter.error \in CloseReasons => queue.waiter.error = closeReason
    BY DEF ListenIInv, ListenInv, CloseKnown
  <2>2. ErrorSound'
    BY <1>6, <2>1 DEF ErrorSound, Classify, CloseReasons, Finish
  <2>3. errorCode' # "none"
    BY <1>6 DEF Classify
  <2> QED
    BY <1>2, <1>4, <1>6, <2>2, <2>3 DEF RunInv, ErrorSound, SuccessSound, FinalTextCoversConsumed
<1> QED
  BY <1>5, <1>6

\* The steps that send a read.
LEMMA ReadStepInv ==
  ASSUME IInv, PostListenRead \/ Woken
  PROVE  IInv' /\ GivesUpHonestly
<1> USE DEF PostListenRead, Woken, IInv
<1>1. /\ ListenIInv' /\ GivesUpHonestly /\ read'.from = queue.received
  BY SendReadInv DEF Consuming, ListenIInv, ListenInv, runVars
<1>2. Version' = Version
  BY DEF serverVars, Version
<1>3. CASE PostListenRead
  BY <1>1, <1>2, <1>3
     DEF RunInv, RunTypeOK, ReadAfterConsumed, Early, ErrorSound, RouteSound, SuccessSound,
         FinalTextCoversConsumed, runVars
<1>4. CASE Woken
  <2>1. sequence' \in Nat /\ sequence' <= queue.received
    BY <1>4 DEF ListenIInv, ListenTypeOK, ListenInv, QueueSound, WaiterSound, Queues, Waiters
  <2> QED
    BY <1>1, <1>2, <1>4, <2>1
       DEF RunInv, RunTypeOK, ReadAfterConsumed, Early, ErrorSound, RouteSound,
           SuccessSound, FinalTextCoversConsumed
<1> QED
  BY <1>1, <1>3, <1>4

\* The steps that take an answer.
LEMMA AnswerStepInv ==
  ASSUME IInv, PostListenChanged \/ PostListenUnchanged \/ Reread
  PROVE  IInv' /\ GivesUpHonestly
<1> USE DEF IInv
<1>1. Version' = Version /\ history' = history /\ announced' = announced
  BY DEF PostListenChanged, PostListenUnchanged, Reread, serverVars, Version
<1>2. /\ read.from \in Nat /\ sequence \in Nat /\ queue.received \in Nat
      /\ read.version \in 1 .. Version /\ read.state = "served"
      /\ read.from <= queue.received /\ DOMAIN announced \subseteq Nat
      /\ \A k \in DOMAIN announced : k <= read.from => announced[k] <= read.version
  <2>1. read.state = "served" /\ pc \in {"postRead", "reread"}
    BY DEF PostListenChanged, PostListenUnchanged, Reread, TakeAnswer
  <2> QED
    BY <2>1 DEF ListenIInv, ListenTypeOK, ListenInv, AnswerCovers, Consuming,
                ServerTypeOK, Version, Reads, Queues, RunInv, RunTypeOK
<1>3. CASE PostListenChanged
  <2>1. /\ ListenIInv' /\ GivesUpHonestly
        /\ queue'.received = queue.received
        /\ \/ /\ pc' = "wait" /\ ShouldWait(read.version)
              /\ outcome' = outcome /\ read.from <= read'.from
           \/ pc' = "closing" /\ ~ShouldWait(read.version) /\ outcome' = "returned"
    BY <1>2, <1>3, WaitUnlessTerminalInv DEF PostListenChanged
  <2>2. RunTypeOK' /\ ReadAfterConsumed' /\ ErrorSound'
    BY <1>1, <1>2, <1>3, <2>1
       DEF PostListenChanged, RunInv, RunTypeOK, ReadAfterConsumed, Early, ErrorSound
  <2>3. RouteSound' /\ SuccessSound'
    BY <1>1, <1>2, <1>3, <2>1
       DEF PostListenChanged, RunInv, RouteSound, SuccessSound, Early, Text, ShouldWait,
           RunTypeOK
  <2>4. FinalTextCoversConsumed'
    BY <1>1, <1>2, <1>3, <2>1 DEF PostListenChanged, FinalTextCoversConsumed
  <2> QED
    BY <2>1, <2>2, <2>3, <2>4 DEF RunInv
<1>4. CASE PostListenUnchanged
  <2>1. ListenIInv' /\ GivesUpHonestly /\ read'.from = read.from
        /\ queue'.received = queue.received
    BY <1>2, <1>4, TakeAndWaitInv DEF PostListenUnchanged
  <2> QED
    BY <1>1, <1>2, <1>4, <2>1
       DEF PostListenUnchanged, Wait, RunInv, RunTypeOK, ReadAfterConsumed, Early,
           ErrorSound, RouteSound, SuccessSound, FinalTextCoversConsumed
<1>5. CASE Reread
  <2>1. sequence <= read.from
    BY <1>5 DEF Reread, RunInv, ReadAfterConsumed
  <2>2. /\ ListenIInv' /\ GivesUpHonestly
        /\ queue'.received = queue.received
        /\ \/ /\ pc' = "wait" /\ ShouldWait(read.version)
              /\ outcome' = outcome /\ sequence <= read'.from
           \/ pc' = "closing" /\ ~ShouldWait(read.version) /\ outcome' = "returned"
    BY <1>2, <1>5, <2>1, WaitUnlessTerminalInv DEF Reread
  <2>3. RunTypeOK' /\ ReadAfterConsumed' /\ ErrorSound'
    BY <1>1, <1>2, <1>5, <2>2
       DEF Reread, RunInv, RunTypeOK, ReadAfterConsumed, Early, ErrorSound
  <2>4. RouteSound' /\ SuccessSound'
    BY <1>1, <1>2, <1>5, <2>2
       DEF Reread, RunInv, RouteSound, SuccessSound, Early, Text, ShouldWait
  <2>5. FinalTextCoversConsumed'
    BY <1>1, <1>2, <1>5, <2>1, <2>2 DEF Reread, FinalTextCoversConsumed
  <2> QED
    BY <2>2, <2>3, <2>4, <2>5 DEF RunInv
<1> QED
  BY <1>3, <1>4, <1>5

-----------------------------------------------------------------------------
\* The shared steps leave the run's own variables alone.
LEMMA SharedInv ==
  ASSUME IInv, SharedStep, UNCHANGED runVars
  PROVE  IInv' /\ GivesUpHonestly
<1> USE DEF SharedStep, IInv
<1>1. ListenIInv' /\ GivesUpHonestly
  BY SharedStepInv
<1>2. Version \in Nat /\ Version' \in Nat /\ Version <= Version'
  <2>1. Version \in Nat /\ Version' \in Nat
    BY <1>1 DEF ListenIInv, ServerTypeOK, Version
  <2>2. CASE ServerStep
    BY <2>1, <2>2, ServerNextEffect DEF ServerStep, ListenIInv
  <2>3. CASE Acknowledged \/ Closed \/ HandlerStep
    BY <2>1, <2>3 DEF Acknowledged, Closed, HandlerStep, ServeRead, Deliver, StreamEnded,
                      DeadlinePasses, WaitTimesOut, serverVars, Version
  <2> QED
    BY <2>1, <2>2, <2>3
<1>3. RunTypeOK'
  BY <1>2 DEF RunInv, RunTypeOK, runVars
<1>4. /\ pc' = pc \/ <<pc, pc'>> \in {<<"listen", "acked">>, <<"closing", "done">>}
      /\ read'.from = read.from
      /\ closeReason' = closeReason \/ closeReason = "none"
  BY DEF Acknowledged, Closed, HandlerStep, ServeRead, Deliver, StreamEnded,
         DeadlinePasses, WaitTimesOut, ServerStep, listenVars, ListenIInv, ListenTypeOK, Reads
<1>5. ErrorSound' /\ RouteSound'
  BY <1>4 DEF RunInv, ErrorSound, RouteSound, Early, runVars
<1>6. /\ queue.received \in Nat /\ queue'.received \in Nat
      /\ queue.received <= queue'.received
      /\ \A k \in DOMAIN announced' :
           \/ k \in DOMAIN announced /\ announced'[k] = announced[k]
           \/ k > queue.received
      /\ DOMAIN announced' \subseteq Nat
  <2>1. queue.received \in Nat /\ queue'.received \in Nat /\ announced' \in Seq(Nat)
    BY <1>1 DEF ListenIInv, ListenTypeOK, Queues
  <2> QED
    BY <2>1, SharedStepQueue
<1>7. ReadAfterConsumed'
  BY <1>4, <1>6 DEF RunInv, RunTypeOK, ReadAfterConsumed, Early, runVars
<1>8. FinalTextCoversConsumed'
  BY <1>4, <1>6
     DEF RunInv, RunTypeOK, ReadAfterConsumed, FinalTextCoversConsumed, runVars
<1>9. \A version \in 1 .. Version : history'[version] = history[version]
  BY SharedStepHistory DEF ListenIInv
<1>10. SuccessSound'
  BY <1>2, <1>4, <1>9
     DEF RunInv, RunTypeOK, SuccessSound, Text, ShouldWait, runVars
<1> QED
  BY <1>1, <1>3, <1>5, <1>7, <1>8, <1>10 DEF RunInv

\* Every step, and every stutter.
LEMMA NextInv == IInv /\ [Next]_vars => IInv' /\ GivesUpHonestly
<1> SUFFICES ASSUME IInv, [Next]_vars PROVE IInv' /\ GivesUpHonestly
  OBVIOUS
<1>1. CASE RunStep
  BY <1>1, BeforeListenInv, ListenStepInv, ListenFailsInv, EndInv, ReadStepInv,
     AnswerStepInv DEF RunStep
<1>2. CASE SharedStep /\ UNCHANGED runVars
  BY <1>2, SharedInv
<1>3. CASE UNCHANGED vars
  <2>1. ListenIInv' /\ GivesUpHonestly
    BY <1>3, StutterInv DEF IInv, vars
  <2>2. RunInv'
    BY <1>3 DEF IInv, RunInv, RunTypeOK, ReadAfterConsumed, ErrorSound, RouteSound,
                SuccessSound, FinalTextCoversConsumed, Text, ShouldWait, Version, vars,
                serverVars, listenVars, runVars
  <2> QED
    BY <2>1, <2>2 DEF IInv
<1> QED
  BY <1>1, <1>2, <1>3 DEF Next, Terminated

\* The invariant gives the properties.
LEMMA InvImplies ==
  IInv => /\ TypeOK /\ QueueIsSound /\ NoMissedUpdate
          /\ FinalTextCoversConsumed /\ SuccessIsTerminal /\ ErrorAgreesWithClose
<1> SUFFICES ASSUME IInv
             PROVE  /\ TypeOK /\ QueueIsSound /\ NoMissedUpdate
                    /\ FinalTextCoversConsumed /\ SuccessIsTerminal /\ ErrorAgreesWithClose
  OBVIOUS
<1>1. TypeOK /\ QueueIsSound
  BY DEF IInv, ListenIInv, RunInv, RunTypeOK, TypeOK, ListenInv, QueueIsSound
<1>2. /\ queue.received \in Nat /\ read.from \in Nat /\ sequence \in Nat
      /\ final \in Nat
  BY DEF IInv, ListenIInv, ListenTypeOK, Queues, Reads, RunInv, RunTypeOK, Version
<1>3. NoMissedUpdate
  BY <1>2 DEF IInv, ListenIInv, ListenInv, NoGap, Consuming, RunInv, ReadAfterConsumed,
              NoMissedUpdate, UpToDateAtWait
<1>4. FinalTextCoversConsumed /\ ErrorAgreesWithClose
  BY DEF IInv, RunInv, ErrorSound, ErrorAgreesWithClose
<1>5. SuccessIsTerminal
  BY <1>2 DEF IInv, RunInv, SuccessSound, SuccessIsTerminal
<1> QED
  BY <1>1, <1>3, <1>4, <1>5

-----------------------------------------------------------------------------
\* Every reachable state is in the invariant.
THEOREM Invariance == Spec => []IInv
<1>1. Init => IInv
  BY InitInv
<1>2. IInv /\ [Next]_vars => IInv'
  BY NextInv
<1> QED
  BY <1>1, <1>2, PTL DEF Spec

\* The variables keep their types.
THEOREM TypeCorrectness == Spec => []TypeOK
<1>1. IInv => TypeOK
  BY InvImplies
<1> QED
  BY <1>1, Invariance, PTL

\* The queue of createResourceUpdateQueue is sound under every interleaving of the
\* notification handler, the timer, the end of the stream and the waiting function.
THEOREM QueueSoundness == Spec => []QueueIsSound
<1>1. IInv => QueueIsSound
  BY InvImplies
<1> QED
  BY <1>1, Invariance, PTL

\* Whenever runResourceSubscription waits with nothing left to consume, on a healthy
\* stream with nothing on the way, it has read the resource's current text.
THEOREM NoUpdateIsMissed == Spec => []NoMissedUpdate
<1>1. IInv => NoMissedUpdate
  BY InvImplies
<1> QED
  BY <1>1, Invariance, PTL

\* Once the re-read is in, finalText is at least as new as what each notification that
\* runResourceSubscription has consumed told of.
THEOREM ConsumedIsCovered == Spec => []FinalTextCoversConsumed
<1>1. IInv => FinalTextCoversConsumed
  BY InvImplies
<1> QED
  BY <1>1, Invariance, PTL

\* A result of runResourceSubscription without an error code is a terminal text, with
\* the route it was found by.
THEOREM SuccessTerminality == Spec => []SuccessIsTerminal
<1>1. IInv => SuccessIsTerminal
  BY InvImplies
<1> QED
  BY <1>1, Invariance, PTL

\* The error code and the close reason of a result agree on how the stream ended.
THEOREM CloseAgreement == Spec => []ErrorAgreesWithClose
<1>1. IInv => ErrorAgreesWithClose
  BY InvImplies
<1> QED
  BY <1>1, Invariance, PTL

\* A wait of runResourceSubscription is rejected as timed out only past the deadline,
\* without an event to consume and without a known end of the stream.
THEOREM TimeoutHonesty == Spec => TimeoutIsHonest
<1>1. IInv /\ [Next]_vars => [GivesUpHonestly]_vars
  BY NextInv
<1> QED
  BY <1>1, Invariance, PTL DEF Spec, TimeoutIsHonest

-----------------------------------------------------------------------------
(* The run implements the abstract watcher.                                *)

\* finalText is from a read, and reads do not go back in time.
FinalIsRead == final <= read.version

LEMMA FinalAdvances ==
  ASSUME IInv, FinalIsRead, [Next]_vars
  PROVE  FinalIsRead' /\ final <= final'
<1>1. /\ final \in Nat /\ read.version \in Nat /\ read.version <= Version /\ Version \in Nat
      /\ read \in [state : {"idle", "sent", "served"}, from : Nat, version : Nat]
  BY DEF IInv, ListenIInv, ListenTypeOK, ServerTypeOK, Reads, RunInv, RunTypeOK, Version
<1>2. read'.version = read.version \/ (read'.version = Version /\ ServeRead)
  <2>1. UNCHANGED read \/ SendRead \/ TakeAnswer \/ AbandonRead \/ ServeRead
    BY DEF Next, RunStep, SharedStep, HandlerStep, Terminated, vars, listenVars,
           Connect, Throw, ResourceListed, ResourceNotFound, Listen, ListenFails, NotHonored,
           PostListenRead, PostListenChanged, PostListenUnchanged, Woken, Reread, WaitFails,
           ReadFails, Acknowledged, Closed, Deliver, StreamEnded, DeadlinePasses,
           WaitTimesOut, ServerStep
  <2>2. CASE ServeRead
    <3>1. read'.version = Version
      BY <1>1, <2>2 DEF ServeRead
    <3> QED
      BY <2>2, <3>1
  <2>3. CASE UNCHANGED read
    BY <2>3
  <2>4. CASE SendRead
    BY <1>1, <2>4 DEF SendRead
  <2>5. CASE TakeAnswer \/ AbandonRead
    BY <1>1, <2>5 DEF TakeAnswer, AbandonRead
  <2> QED
    BY <2>1, <2>2, <2>3, <2>4, <2>5
<1>3. final' = final \/ (final' = read.version /\ ~ServeRead)
  BY DEF Next, RunStep, SharedStep, Terminated, vars, runVars,
         Connect, Throw, ResourceListed, ResourceNotFound, Listen, ListenFails, NotHonored,
         PostListenRead, PostListenChanged, PostListenUnchanged, Woken, Reread, WaitFails,
         ReadFails, ServeRead, TakeAnswer
<1> QED
  BY <1>1, <1>2, <1>3 DEF FinalIsRead

\* Every step is one of the watcher's, or none.
LEMMA WatchStep ==
  ASSUME IInv, IInv', FinalIsRead, [Next]_vars
  PROVE  [Watch!Next]_(Watch!vars)
<1> SUFFICES Watch!Next \/ UNCHANGED Watch!vars
  OBVIOUS
<1>1. final \in Nat /\ final' \in 0 .. Len(history') /\ final <= final'
  BY FinalAdvances DEF IInv, RunInv, RunTypeOK, Version
<1>2. \/ UNCHANGED history
      \/ /\ \E text \in Texts : history' = Append(history, text)
         /\ UNCHANGED << final, pc, outcome, errorCode >>
  BY DEF Next, RunStep, SharedStep, HandlerStep, Terminated, vars, serverVars, runVars,
         Connect, Throw, ResourceListed, ResourceNotFound, Listen, ListenFails, NotHonored,
         PostListenRead, PostListenChanged, PostListenUnchanged, Woken, Reread, WaitFails,
         ReadFails, Acknowledged, Closed, ServeRead, Deliver, StreamEnded, DeadlinePasses,
         WaitTimesOut, ServerStep, ServerNext, Accept, Publish, PublishOther, EndStream, DropStream
<1>3. pc' = "done" => UNCHANGED final
  BY DEF Next, RunStep, SharedStep, HandlerStep, Terminated, vars, runVars, FinishWith, Finish,
         Wait, WaitUnlessTerminal,
         Connect, Throw, ResourceListed, ResourceNotFound, Listen, ListenFails, NotHonored,
         PostListenRead, PostListenChanged, PostListenUnchanged, Woken, Reread, WaitFails,
         ReadFails
<1>4. pc = "done" => UNCHANGED << pc, final, outcome, errorCode >>
  BY DEF Next, RunStep, SharedStep, HandlerStep, Terminated, vars, runVars, Listening,
         Connect, Throw, ResourceListed, ResourceNotFound, Listen, ListenFails, NotHonored,
         PostListenRead, PostListenChanged, PostListenUnchanged, Woken, Reread, WaitFails,
         ReadFails, Acknowledged, Closed, ServeRead, Deliver, StreamEnded, DeadlinePasses,
         WaitTimesOut, ServerStep
<1>5. CASE ~UNCHANGED history
  BY <1>2, <1>5 DEF Watch!Next, Watch!Change, Verdict
<1>6. CASE UNCHANGED history /\ pc' # "done"
  <2>1. Verdict = "watching" /\ Verdict' = "watching"
    BY <1>4, <1>6 DEF Verdict
  <2> QED
    BY <1>1, <1>6, <2>1 DEF Watch!Next, Watch!Observe
<1>7. CASE UNCHANGED history /\ pc = "done"
  BY <1>4, <1>7 DEF Watch!vars, Verdict
<1>8. CASE UNCHANGED history /\ pc # "done" /\ pc' = "done"
  <2>1. Verdict = "watching" /\ UNCHANGED << final, history >>
    BY <1>3, <1>8 DEF Verdict
  <2>2. CASE Verdict' = "success"
    <3>1. final' > 0 /\ ~ShouldWait(final)'
      BY <1>8, <2>2 DEF Verdict, IInv, RunInv, SuccessSound
    <3>2. final > 0 /\ history[final] \in Texts \ PollTexts
      <4>1. history \in Seq(Texts) /\ final \in 1 .. Len(history)
        BY <1>1, <2>1, <3>1 DEF IInv, ListenIInv, ServerTypeOK
      <4>2. history[final] \in Texts
        BY <4>1
      <4> QED
        BY <2>1, <3>1, <4>1, <4>2 DEF ShouldWait, Text
    <3> QED
      BY <2>1, <2>2, <3>2 DEF Watch!Next, Watch!Succeed
  <2>3. CASE Verdict' = "failure"
    BY <2>1, <2>3 DEF Watch!Next, Watch!GiveUp
  <2> QED
    BY <1>8, <2>2, <2>3 DEF Verdict
<1> QED
  BY <1>5, <1>6, <1>7, <1>8

\* runResourceSubscription implements the abstract watcher: finalText is a text the resource
\* had, it never gets older, and only a terminal text is a success.
THEOREM Implementation == Spec => ImplementsWatch
<1>1. Init => Watch!Init /\ FinalIsRead
  BY DEF Init, ServerInit, ListenInit, Watch!Init, Verdict, FinalIsRead
<1>2. IInv /\ FinalIsRead /\ [Next]_vars => FinalIsRead'
  BY FinalAdvances
<1>3. IInv /\ IInv' /\ FinalIsRead /\ [Next]_vars => [Watch!Next]_(Watch!vars)
  BY WatchStep
<1> QED
  BY <1>1, <1>2, <1>3, Invariance, PTL DEF Spec, ImplementsWatch, Watch!Spec
=============================================================================
