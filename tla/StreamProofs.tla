---------------------------- MODULE StreamProofs ----------------------------
(***************************************************************************)
(* The --jsonl stream, for every capacity of the buffer, every set of      *)
(* texts and every number of changes and notifications: its types, no lost *)
(* update, honest timeouts, and the lines it prints.                       *)
(***************************************************************************)
EXTENDS Stream, ListenClientProofs

\* Up to the acknowledgement.
Early == {"start", "connect", "list", "listen", "acked"}

\* The types of the run's own variables.
RunTypeOK ==
  /\ sequence \in Nat
  /\ source \in Sources
  /\ matched \in BOOLEAN
  /\ errorCode \in ErrorCodes
  /\ outcome \in {"running", "returned", "thrown"}
  /\ output \in Seq(Lines)
  /\ exitCode \in {0, 1}
  /\ late \in Nat

\* The read that is in flight or was answered last was sent after all the events the
\* loop has consumed.
ReadAfterConsumed ==
  /\ sequence <= queue.received
  /\ pc \in Early => sequence = 0 /\ deadline # "unset"
  /\ pc \in {"wait", "reread"} => sequence <= read.from

\* The lines printed so far, and what is still to come of them at `pc`.
LinesSound ==
  /\ pc \in Early => output = << >>
  /\ pc \in {"reread", "wait", "closing"} => output # << >>
  /\ \A i \in DOMAIN output :
       /\ output[i].type = "ack" <=> i = 1 /\ output[i].type # "end"
       /\ output[i].type = "end" => i = Len(output) /\ pc = "reported"
       /\ output[i].type = "snapshot" /\ output[i].matched =>
            i >= Len(output) - 1 /\ (pc # "reported" => i = Len(output))
  /\ pc = "reported" => output # << >> /\ output[Len(output)].type = "end"

\* The snapshots are in the order of the versions, none newer than the last answer.
VersionsSound ==
  /\ \A i \in DOMAIN output : output[i].version <= read.version
  /\ \A i, j \in DOMAIN output :
       i < j /\ output[j].type = "snapshot" => output[i].version <= output[j].version

\* A match is the last line of a run that returned; the end line repeats it.
MatchSound ==
  /\ pc \in Early \cup {"reread", "wait"} => ~matched
  /\ matched => outcome = "returned"
  /\ pc # "reported" =>
       (matched <=> output # << >> /\ output[Len(output)].matched)
  /\ \A i \in DOMAIN output :
       output[i].type = "end" => (output[i].matched <=> i > 1 /\ output[i - 1].matched)

\* A read is sent before the deadline only, so nothing has been printed late while one is
\* open, and one that is answered late is the last.
LateSound ==
  /\ late <= 1
  /\ ~Expired \/ pc \in Early \cup {"reread"} => late = 0

\* The part of the inductive invariant on the run's own variables, and all of it.
RunInv ==
  /\ pc \notin {"initialRead", "postRead"}
  /\ RunTypeOK
  /\ ReadAfterConsumed
  /\ LinesSound
  /\ VersionsSound
  /\ MatchSound
  /\ LateSound

IInv == ListenIInv /\ RunInv

-----------------------------------------------------------------------------
\* The invariant holds at the start.
LEMMA InitInv == Init => IInv
<1> SUFFICES ASSUME Init PROVE IInv
  OBVIOUS
<1>1. ListenIInv
  BY ListenInitInv DEF Init
<1>2. NoQueue.received = 0
  BY DEF NoQueue, EmptyQueue
<1>3. RunTypeOK
  <2>1. << >> \in Seq(Lines)
    OBVIOUS
  <2> QED
    BY <2>1 DEF Init, RunTypeOK, Sources, ErrorCodes
<1>4. RunInv
  BY <1>2, <1>3 DEF Init, ListenInit, RunInv, ReadAfterConsumed, LinesSound, VersionsSound,
                    MatchSound, LateSound, Early
<1> QED
  BY <1>1, <1>4 DEF IInv

\* What printing a line does.
LEMMA EmitEffect ==
  ASSUME output \in Seq(Lines), NEW type \in {"ack", "snapshot", "end"},
         NEW from \in {"none"} \cup Sources, NEW version \in Nat, NEW match \in BOOLEAN,
         Emit(type, from, version, match)
  PROVE  /\ output' \in Seq(Lines)
         /\ Len(output) \in Nat /\ Len(output') = Len(output) + 1 /\ output' # << >>
         /\ DOMAIN output' = 1 .. Len(output')
         /\ \A i \in 1 .. Len(output) : output'[i] = output[i]
         /\ output'[Len(output')].type = type
         /\ output'[Len(output')].version = version
         /\ output'[Len(output')].matched = match
<1>1. PICK line : line = [type |-> type, source |-> from, version |-> version,
                          matched |-> match]
  OBVIOUS
<1>2. line \in Lines /\ line.type = type /\ line.version = version /\ line.matched = match
  BY <1>1 DEF Lines
<1>3. output' = Append(output, line)
  BY <1>1 DEF Emit
<1> QED
  BY <1>2, <1>3

\* Steps that print nothing keep the lines sound, unless they move the function back.
LEMMA OutputKept ==
  ASSUME LinesSound, VersionsSound, MatchSound,
         UNCHANGED << output, matched >>, read.version <= read'.version,
         \A i \in DOMAIN output : output[i].version \in Nat,
         read.version \in Nat, read'.version \in Nat,
         outcome' = outcome \/ ~matched \/ outcome' = "returned",
         pc' # "reported" \/ pc = "reported",
         pc = "reported" => pc' = "reported",
         pc' \in Early => pc \in Early,
         pc' \in {"reread", "wait", "closing"} =>
           pc \in {"reread", "wait", "closing"} /\ (pc = "closing" => pc' = "closing")
  PROVE  LinesSound' /\ VersionsSound' /\ MatchSound'
<1>1. LinesSound'
  BY DEF LinesSound
<1>2. VersionsSound'
  BY DEF VersionsSound
<1>3. MatchSound'
  BY DEF MatchSound, Early
<1> QED
  BY <1>1, <1>2, <1>3

\* What the invariant says of the values the lemmas on the output are about.
LEMMA OutputFacts ==
  ASSUME IInv
  PROVE  /\ output \in Seq(Lines) /\ Len(output) \in Nat
         /\ read.version \in Nat /\ read.version <= Version /\ Version \in Nat
         /\ queue.received \in Nat
         /\ \A i \in DOMAIN output : output[i].version \in Nat
<1>1. output \in Seq(Lines) /\ Len(output) \in Nat
  BY DEF IInv, RunInv, RunTypeOK
<1>2. ASSUME NEW i \in DOMAIN output PROVE output[i].version \in Nat
  <2>1. output[i] \in Lines
    BY <1>1, <1>2
  <2> QED
    BY <2>1 DEF Lines
<1>3. /\ read.version \in Nat /\ read.version <= Version /\ Version \in Nat
      /\ queue.received \in Nat
  BY DEF IInv, ListenIInv, ListenTypeOK, ServerTypeOK, Reads, Version, Queues
<1> QED
  BY <1>1, <1>2, <1>3

-----------------------------------------------------------------------------
(* The steps of the function.                                              *)

\* Before the queue is installed a step moves on or ends the run.
LEMMA BeforeListenInv ==
  ASSUME IInv, Start \/ Connect \/ OutOfBudget \/ Throw \/ ResourceNotFound
  PROVE  IInv' /\ GivesUpHonestly
<1> USE DEF Start, Connect, OutOfBudget, Throw, ResourceNotFound, Fails, listenVars, runVars,
            IInv
<1>1. ListenIInv' /\ GivesUpHonestly
  BY MoveOnInv DEF ListenIInv, ListenTypeOK
<1>2. LinesSound' /\ VersionsSound' /\ MatchSound'
  BY OutputFacts, OutputKept DEF RunInv, MatchSound, Early
<1>3. RunTypeOK' /\ ReadAfterConsumed' /\ LateSound'
  BY DEF RunInv, RunTypeOK, ErrorCodes, ReadAfterConsumed,
         LateSound, Expired, Early
<1> QED
  BY <1>1, <1>2, <1>3 DEF RunInv

\* The stream is requested, or the request fails.
LEMMA ListenStepInv ==
  ASSUME IInv, Listen \/ ListenFails
  PROVE  IInv' /\ GivesUpHonestly
<1> USE DEF Listen, ListenFails, Fails, runVars, IInv
<1>1. /\ ListenIInv' /\ GivesUpHonestly
      /\ queue'.received = 0 \/ queue'.received = queue.received
  <2>1. CASE Listen
    BY <2>1, RequestInv DEF ListenIInv, ListenTypeOK, RunInv, ReadAfterConsumed, Early
  <2>2. CASE ListenFails
    BY <2>2, RefusedInv
  <2> QED
    BY <2>1, <2>2
<1>2. LinesSound' /\ VersionsSound' /\ MatchSound'
  BY OutputFacts, OutputKept DEF RunInv, MatchSound, Early
<1>3. RunTypeOK' /\ ReadAfterConsumed' /\ LateSound'
  BY <1>1 DEF RunInv, RunTypeOK, ErrorCodes, ReadAfterConsumed,
         LateSound, Expired, Early
<1> QED
  BY <1>1, <1>2, <1>3 DEF RunInv

\* The top of the loop, once the events received are noted as consumed.
LEMMA NextReadInv ==
  ASSUME ListenIInv, NextRead, pc \in {"acked", "wait"}, honored,
         UNCHANGED << serverVars, deadline, closeReason, announced >>
  PROVE  /\ ListenIInv' /\ GivesUpHonestly
         /\ queue'.received = queue.received /\ read'.version = read.version
         /\ errorCode' \in {errorCode, "NOTIFICATION_TIMEOUT"}
         /\ \/ pc' = "closing" /\ Expired /\ read' = read /\ outcome' = "returned"
            \/ /\ pc' = "reread" /\ ~Expired /\ read'.from = queue.received
               /\ outcome' = outcome
<1>1. CASE Expired /\ Break("NOTIFICATION_TIMEOUT") /\ UNCHANGED read
  BY <1>1, FinishInv DEF Break, Finish, Listening, ListenIInv, ListenTypeOK
<1>2. CASE /\ ~Expired /\ SendRead /\ pc' = "reread"
           /\ UNCHANGED << queue, errorCode, outcome >>
  <2>1. ListenIInv' /\ GivesUpHonestly /\ read'.from = queue.received
    BY <1>2, SendReadInv DEF Consuming
  <2> QED
    BY <1>2, <2>1 DEF SendRead
<1> QED
  BY <1>1, <1>2 DEF NextRead

\* The ack line, and what follows it.
LEMMA AckInv ==
  ASSUME IInv, NotHonored \/ StartLoop
  PROVE  IInv' /\ GivesUpHonestly
<1> USE DEF NotHonored, StartLoop, IInv
<1>1. /\ ListenIInv' /\ GivesUpHonestly
      /\ queue'.received = queue.received /\ read'.version = read.version
      /\ errorCode' \in {errorCode, "NOTIFICATION_TIMEOUT", "SUBSCRIPTION_NOT_HONORED"}
      /\ \/ pc' = "closing" /\ read' = read /\ outcome' = "returned"
         \/ pc' = "reread" /\ ~Expired /\ read'.from = queue.received /\ outcome' = outcome
  <2>1. CASE NotHonored
    BY <2>1, FinishInv DEF Break, Finish, Listening, ListenIInv, ListenTypeOK
  <2>2. CASE StartLoop
    BY <2>2, NextReadInv
  <2> QED
    BY <2>1, <2>2
<1>2. /\ output = << >> /\ ~matched
  BY DEF RunInv, LinesSound, MatchSound, Early
<1>3. /\ output' \in Seq(Lines) /\ Len(output') = 1 /\ DOMAIN output' = 1 .. 1
      /\ output'[1].type = "ack" /\ output'[1].version = 0 /\ output'[1].matched = FALSE
      /\ output' # << >>
  <2>1. Emit("ack", "none", 0, FALSE)
    OBVIOUS
  <2>2. /\ output' \in Seq(Lines) /\ output' # << >>
        /\ Len(output') = Len(output) + 1 /\ DOMAIN output' = 1 .. Len(output')
        /\ output'[Len(output')].type = "ack"
        /\ output'[Len(output')].version = 0
        /\ output'[Len(output')].matched = FALSE
    BY <2>1, OutputFacts, EmitEffect
  <2>3. Len(output) = 0
    BY <1>2
  <2>4. Len(output') = 1
    BY <2>2, <2>3
  <2>5. DOMAIN output' = 1 .. 1 /\ output' # << >>
    BY <2>2, <2>4
  <2> QED
    BY <2>2, <2>4, <2>5
<1>4. LinesSound'
  BY <1>1, <1>3 DEF LinesSound, Early
<1>5. VersionsSound'
  <2>1. 0 <= read'.version
    BY <1>1, OutputFacts
  <2> QED
    BY <1>3, <2>1 DEF VersionsSound
<1>6. MatchSound'
  <2>1. matched' = matched
    OBVIOUS
  <2> QED
    BY <1>1, <1>2, <1>3, <2>1 DEF MatchSound, Early
<1>7. RunTypeOK'
  <2>1. /\ sequence' \in {sequence, queue.received}
        /\ UNCHANGED << source, matched, exitCode, late >>
    OBVIOUS
  <2> QED
    BY <1>1, <1>3, <2>1, OutputFacts DEF RunInv, RunTypeOK, ErrorCodes
<1>8. ReadAfterConsumed' /\ LateSound'
  <2>1. sequence' \in {sequence, queue.received} /\ UNCHANGED << late, deadline >>
    OBVIOUS
  <2> QED
    BY <1>1, <2>1, OutputFacts DEF RunInv, ReadAfterConsumed, LateSound, Expired, Early
<1> QED
  BY <1>1, <1>2, <1>4, <1>5, <1>6, <1>7, <1>8 DEF RunInv

\* An answer is printed; it is a match, or the loop waits.
LEMMA SnapshotInv ==
  ASSUME IInv, Snapshot
  PROVE  IInv' /\ GivesUpHonestly
<1> USE DEF Snapshot, Prints, IInv
<1>1. sequence \in Nat /\ sequence <= read.from
  BY DEF RunInv, RunTypeOK, ReadAfterConsumed
<1>2. /\ ListenIInv' /\ GivesUpHonestly
      /\ queue'.received = queue.received /\ read'.version = read.version
      /\ read'.from = read.from /\ read'.state = "idle"
      /\ errorCode' \in {errorCode, "none"}
      /\ \/ pc' = "closing" /\ Matches(read.version) /\ outcome' = "returned"
         \/ pc' = "wait" /\ ~Matches(read.version) /\ outcome' = outcome
  <2>1. /\ read' \in Reads /\ read'.version = read.version
        /\ read'.from = read.from /\ read'.state = "idle"
    BY DEF TakeAnswer, ListenIInv, ListenTypeOK, Reads
  <2>2. CASE Matches(read.version) /\ Break("none")
    BY <2>1, <2>2, FinishInv DEF Break, Finish, Listening
  <2>3. CASE ~Matches(read.version) /\ Wait(sequence) /\ UNCHANGED << errorCode, outcome >>
    BY <1>1, <2>1, <2>3, TakeAndWaitInv DEF Wait
  <2> QED
    BY <2>2, <2>3
<1>3. matched' = Matches(read.version) /\ matched' \in BOOLEAN
  BY DEF Matches
<1>4. /\ output' \in Seq(Lines)
      /\ Len(output) \in Nat /\ Len(output') = Len(output) + 1 /\ output' # << >>
      /\ \A i \in 1 .. Len(output) : output'[i] = output[i]
      /\ output'[Len(output')].type = "snapshot"
      /\ output'[Len(output')].version = read.version
      /\ output'[Len(output')].matched = matched'
  <2>1. /\ output \in Seq(Lines) /\ source \in {"none"} \cup Sources
        /\ read.version \in Nat
    BY OutputFacts DEF RunInv, RunTypeOK
  <2> QED
    BY <1>3, <2>1, EmitEffect
<1>5. /\ DOMAIN output = 1 .. Len(output) /\ DOMAIN output' = 1 .. (Len(output) + 1)
      /\ Len(output) > 0
  BY <1>4, OutputFacts DEF RunInv, LinesSound
<1>6. \A i \in DOMAIN output : ~output[i].matched \/ output[i].type # "snapshot"
  BY <1>5 DEF RunInv, LinesSound, MatchSound
<1>7. LinesSound'
  <2>1. pc' \in {"wait", "closing"}
    BY <1>2
  <2>2. \A i \in DOMAIN output :
          /\ output[i].type = "ack" <=> i = 1 /\ output[i].type # "end"
          /\ output[i].type # "end"
    BY DEF RunInv, LinesSound
  <2>3. ASSUME NEW i \in DOMAIN output'
        PROVE  /\ output'[i].type = "ack" <=> i = 1 /\ output'[i].type # "end"
               /\ output'[i].type # "end"
               /\ output'[i].type = "snapshot" /\ output'[i].matched => i = Len(output')
    <3>1. CASE i = Len(output')
      BY <1>4, <1>5, <3>1
    <3>2. CASE i # Len(output')
      <4>1. i \in DOMAIN output /\ output'[i] = output[i]
        BY <1>4, <1>5, <3>2
      <4> QED
        BY <1>6, <2>2, <4>1
    <3> QED
      BY <3>1, <3>2
  <2>4. \A i \in DOMAIN output' : i = Len(output') => i >= Len(output') - 1
    BY <1>4, <1>5
  <2> QED
    BY <1>4, <2>1, <2>3, <2>4 DEF LinesSound, Early
<1>8. VersionsSound'
  <2>1. ASSUME NEW i \in DOMAIN output' PROVE output'[i].version <= read.version
    BY <1>4, <1>5, <2>1, OutputFacts DEF RunInv, VersionsSound
  <2>2. ASSUME NEW i \in DOMAIN output', NEW j \in DOMAIN output', i < j,
               output'[j].type = "snapshot"
        PROVE  output'[i].version <= output'[j].version
    <3>1. CASE j = Len(output')
      BY <1>4, <2>1, <3>1
    <3>2. CASE j # Len(output')
      <4>1. i \in DOMAIN output /\ j \in DOMAIN output
        BY <1>4, <1>5, <2>2, <3>2
      <4>2. output'[i] = output[i] /\ output'[j] = output[j]
        BY <1>4, <1>5, <4>1
      <4> QED
        BY <2>2, <4>1, <4>2 DEF RunInv, VersionsSound
    <3> QED
      BY <3>1, <3>2
  <2> QED
    BY <1>2, <2>1, <2>2 DEF VersionsSound
<1>9. MatchSound'
  BY <1>2, <1>3, <1>4, <1>5 DEF RunInv, LinesSound, MatchSound, Early
<1>10. RunTypeOK' /\ ReadAfterConsumed' /\ LateSound'
  BY <1>1, <1>2, <1>3, <1>4 DEF RunInv, RunTypeOK, ErrorCodes, ReadAfterConsumed,
         LateSound, Expired, Early
<1> QED
  BY <1>2, <1>7, <1>8, <1>9, <1>10 DEF RunInv

\* The steps that end the loop without a line.
LEMMA EndInv ==
  ASSUME IInv, ReadTimesOut \/ ReadFails \/ WaitFails
  PROVE  IInv' /\ GivesUpHonestly
<1> USE DEF ReadTimesOut, ReadFails, WaitFails, Break, AbandonRead, IInv
<1>1. /\ read' \in Reads /\ read'.version = read.version
      /\ read'.state \in {"idle", read.state} /\ read'.from = read.from
  BY DEF ListenIInv, ListenTypeOK, Reads
<1>2. ListenIInv' /\ GivesUpHonestly /\ queue'.received = queue.received
  BY <1>1, FinishInv DEF Listening
<1>3. LinesSound' /\ VersionsSound' /\ MatchSound'
  BY <1>1, OutputFacts, OutputKept DEF RunInv, MatchSound, Finish, Early
<1>4. RunTypeOK' /\ ReadAfterConsumed' /\ LateSound'
  BY <1>2 DEF RunInv, RunTypeOK, ErrorCodes, Classify, ReadAfterConsumed,
         LateSound, Expired, Early, Finish
<1> QED
  BY <1>1, <1>2, <1>3, <1>4 DEF RunInv, Finish

\* The wait resolved: all events received so far are consumed.
LEMMA WokenInv ==
  ASSUME IInv, Woken
  PROVE  IInv' /\ GivesUpHonestly
<1> USE DEF Woken, IInv
<1>1. /\ ListenIInv' /\ GivesUpHonestly
      /\ queue'.received = queue.received /\ read'.version = read.version
      /\ errorCode' \in {errorCode, "NOTIFICATION_TIMEOUT"}
      /\ \/ pc' = "closing" /\ Expired /\ read' = read /\ outcome' = "returned"
         \/ pc' = "reread" /\ ~Expired /\ read'.from = queue.received /\ outcome' = outcome
  BY NextReadInv DEF ListenIInv, ListenInv, Consuming
<1>2. LinesSound' /\ VersionsSound' /\ MatchSound'
  BY <1>1, OutputFacts, OutputKept DEF RunInv, Early
<1>3. RunTypeOK' /\ ReadAfterConsumed' /\ LateSound'
  BY <1>1, OutputFacts DEF RunInv, RunTypeOK, Sources, ErrorCodes, ReadAfterConsumed,
         LateSound, Expired, Early
<1> QED
  BY <1>1, <1>2, <1>3 DEF RunInv

\* The end line.
LEMMA ReportInv ==
  ASSUME IInv, Report
  PROVE  IInv' /\ GivesUpHonestly
<1> USE DEF Report, listenVars, IInv
<1>1. ListenIInv' /\ GivesUpHonestly
  BY MoveOnInv DEF ListenIInv, ListenTypeOK
<1>2. /\ output' \in Seq(Lines)
      /\ Len(output) \in Nat /\ Len(output') = Len(output) + 1 /\ output' # << >>
      /\ \A i \in 1 .. Len(output) : output'[i] = output[i]
      /\ output'[Len(output')].type = "end"
      /\ output'[Len(output')].version = 0
      /\ output'[Len(output')].matched = (outcome = "returned" /\ matched)
  BY OutputFacts, EmitEffect
<1>3. DOMAIN output = 1 .. Len(output) /\ DOMAIN output' = 1 .. (Len(output) + 1)
  BY <1>2, OutputFacts
<1>4. LinesSound'
  BY <1>2, <1>3 DEF RunInv, LinesSound, Early
<1>5. VersionsSound'
  <2>1. /\ read' = read /\ read.version \in Nat
        /\ \A i \in DOMAIN output : output[i].version <= read.version
    BY OutputFacts DEF RunInv, VersionsSound
  <2>2. \A i \in DOMAIN output' : output'[i].version <= read'.version
    BY <1>2, <1>3, <2>1
  <2>3. ASSUME NEW i \in DOMAIN output', NEW j \in DOMAIN output', i < j,
               output'[j].type = "snapshot"
        PROVE  output'[i].version <= output'[j].version
    <3>1. i \in DOMAIN output /\ j \in DOMAIN output
      BY <1>2, <1>3, <2>3
    <3> QED
      BY <1>2, <1>3, <2>3, <3>1 DEF RunInv, VersionsSound
  <2> QED
    BY <2>2, <2>3 DEF VersionsSound
<1>6. MatchSound'
  <2>1. \A i \in DOMAIN output : output'[i].type # "end"
    BY <1>2, <1>3 DEF RunInv, LinesSound
  <2>2. matched <=> Len(output) > 0 /\ output'[Len(output)].matched
    BY <1>2, <1>3, OutputFacts DEF RunInv, MatchSound
  <2>3. output'[Len(output')].matched <=> matched
    BY <1>2 DEF RunInv, MatchSound
  <2>4. ASSUME NEW i \in DOMAIN output', output'[i].type = "end"
        PROVE  output'[i].matched <=> i > 1 /\ output'[i - 1].matched
    <3>1. i = Len(output) + 1 /\ i = Len(output') /\ i - 1 = Len(output)
      BY <1>2, <1>3, <2>1, <2>4
    <3>2. i > 1 <=> Len(output) > 0
      BY <1>2, <3>1
    <3> QED
      BY <2>2, <2>3, <3>1, <3>2
  <2> QED
    BY <2>4 DEF RunInv, MatchSound, Early
<1>7. RunTypeOK' /\ ReadAfterConsumed' /\ LateSound'
  BY <1>2 DEF RunInv, RunTypeOK, ReadAfterConsumed,
         LateSound, Expired, Early
<1> QED
  BY <1>1, <1>4, <1>5, <1>6, <1>7 DEF RunInv

-----------------------------------------------------------------------------
\* The shared steps leave the run's own variables alone.
LEMMA SharedInv ==
  ASSUME IInv, SharedStep, UNCHANGED runVars
  PROVE  IInv' /\ GivesUpHonestly
<1> USE DEF SharedStep, runVars, IInv
<1>1. ListenIInv' /\ GivesUpHonestly
  BY SharedStepInv
<1>2. /\ pc' = pc \/ <<pc, pc'>> \in {<<"listen", "acked">>, <<"closing", "done">>}
      /\ read'.from = read.from /\ deadline' \in {deadline, "passed"}
      /\ read'.state = "sent" => read.state = "sent"
      /\ read'.version \in {read.version, Version}
  BY DEF Acknowledged, Closed, HandlerStep, ServeRead, Deliver, StreamEnded,
         DeadlinePasses, WaitTimesOut, ServerStep, listenVars, ListenIInv, ListenTypeOK, Reads
<1>3. LinesSound' /\ VersionsSound' /\ MatchSound'
  BY <1>2, OutputFacts, OutputKept DEF RunInv, Early
<1>4. queue.received \in Nat /\ queue'.received \in Nat /\ queue.received <= queue'.received
  BY <1>1, SharedStepQueue DEF ListenIInv, ListenTypeOK, Queues
<1>5. RunTypeOK' /\ ReadAfterConsumed' /\ LateSound'
  BY <1>2, <1>4 DEF RunInv, RunTypeOK, ReadAfterConsumed,
         LateSound, Expired, Early
<1> QED
  BY <1>1, <1>2, <1>3, <1>5 DEF RunInv

\* Every step, and every stutter.
LEMMA NextInv == IInv /\ [Next]_vars => IInv' /\ GivesUpHonestly
<1> SUFFICES ASSUME IInv, [Next]_vars PROVE IInv' /\ GivesUpHonestly
  OBVIOUS
<1>1. CASE RunStep
  BY <1>1, BeforeListenInv, ListenStepInv, AckInv, SnapshotInv, EndInv, WokenInv,
     ReportInv DEF RunStep, OwnStep
<1>2. CASE SharedStep /\ UNCHANGED runVars
  BY <1>2, SharedInv
<1>3. CASE UNCHANGED vars
  <2>1. ListenIInv' /\ GivesUpHonestly
    BY <1>3, StutterInv DEF IInv, vars
  <2>2. RunInv'
    BY <1>3, <2>1 DEF IInv, RunInv, RunTypeOK, ReadAfterConsumed, LinesSound, VersionsSound,
                      MatchSound, LateSound, Expired, vars, listenVars, runVars
  <2> QED
    BY <2>1, <2>2 DEF IInv
<1> QED
  BY <1>1, <1>2, <1>3 DEF Next, Terminated

\* The invariant gives the properties.
LEMMA InvImplies ==
  IInv => /\ TypeOK /\ NoMissedUpdate /\ SnapshotCoversConsumed
          /\ OutputIsWellFormed /\ OneLateSnapshot
<1> SUFFICES ASSUME IInv
             PROVE  /\ TypeOK /\ NoMissedUpdate /\ SnapshotCoversConsumed
                    /\ OutputIsWellFormed /\ OneLateSnapshot
  OBVIOUS
<1>1. TypeOK
  BY DEF IInv, ListenIInv, RunInv, RunTypeOK, TypeOK
<1>2. /\ queue.received \in Nat /\ read.from \in Nat /\ sequence \in Nat
      /\ DOMAIN announced \subseteq Nat
  BY DEF IInv, ListenIInv, ListenTypeOK, Queues, Reads, RunInv, RunTypeOK
<1>3. NoMissedUpdate
  BY <1>2 DEF IInv, ListenIInv, ListenInv, NoGap, Consuming, RunInv, ReadAfterConsumed,
              NoMissedUpdate, UpToDateAtWait
<1>4. SnapshotCoversConsumed
  BY <1>2 DEF IInv, ListenIInv, ListenInv, AnswerCovers, Consuming, RunInv,
              ReadAfterConsumed, SnapshotCoversConsumed
<1>5. OutputIsWellFormed
  BY OutputFacts DEF IInv, RunInv, LinesSound, VersionsSound, MatchSound,
                     OutputIsWellFormed
<1>6. OneLateSnapshot
  BY DEF IInv, RunInv, LateSound, OneLateSnapshot
<1> QED
  BY <1>1, <1>3, <1>4, <1>5, <1>6

-----------------------------------------------------------------------------
\* Every reachable state is in the invariant.
THEOREM Invariance == Spec => []IInv
<1>1. Init => IInv
  BY InitInv
<1>2. IInv /\ [Next]_vars => IInv'
  BY NextInv
<1> QED
  BY <1>1, <1>2, PTL DEF Spec

\* The variables keep their types.
THEOREM TypeCorrectness == Spec => []TypeOK
<1>1. IInv => TypeOK
  BY InvImplies
<1> QED
  BY <1>1, Invariance, PTL

\* Whenever runResourceStream waits with nothing left to consume, on a healthy stream
\* with nothing on the way, it has read the resource's current text.
THEOREM NoUpdateIsMissed == Spec => []NoMissedUpdate
<1>1. IInv => NoMissedUpdate
  BY InvImplies
<1> QED
  BY <1>1, Invariance, PTL

\* At each wait of runResourceStream the answer printed last covers every notification
\* consumed so far.
THEOREM ConsumedIsCovered == Spec => []SnapshotCoversConsumed
<1>1. IInv => SnapshotCoversConsumed
  BY InvImplies
<1> QED
  BY <1>1, Invariance, PTL

\* The lines the CLI prints for a stream are well formed, however the run ends.
THEOREM OutputCorrectness == Spec => []OutputIsWellFormed
<1>1. IInv => OutputIsWellFormed
  BY InvImplies
<1> QED
  BY <1>1, Invariance, PTL

\* A wait of runResourceStream is rejected as timed out only past the deadline, without
\* an event to consume and without a known end of the stream.
THEOREM TimeoutHonesty == Spec => TimeoutIsHonest
<1>1. IInv /\ [Next]_vars => [GivesUpHonestly]_vars
  BY NextInv
<1> QED
  BY <1>1, Invariance, PTL DEF Spec, TimeoutIsHonest

\* However many notifications are buffered or still come, runResourceStream prints at most
\* one snapshot past its deadline: every read is sent before it.
THEOREM OneLateAnswer == Spec => []OneLateSnapshot
<1>1. IInv => OneLateSnapshot
  BY InvImplies
<1> QED
  BY <1>1, Invariance, PTL

-----------------------------------------------------------------------------
(* The stream implements the abstract watcher.                             *)

\* The newest version that some lines tell, as Seen computes it of those printed.
NewestOf(lines) ==
  LET versions == {lines[i].version : i \in DOMAIN lines}
  IN IF versions \subseteq {0} THEN 0
     ELSE CHOOSE v \in versions : \A w \in versions : w <= v

\* It is the one version that is among them, or 0, and that none exceeds.
IsNewest(lines, m) ==
  /\ m \in Nat
  /\ \A i \in DOMAIN lines : lines[i].version \in Nat /\ lines[i].version <= m
  /\ m = 0 \/ \E i \in DOMAIN lines : lines[i].version = m

LEMMA NewestIsUnique ==
  ASSUME NEW lines, NEW m, IsNewest(lines, m)
  PROVE  NewestOf(lines) = m
<1> DEFINE versions == {lines[i].version : i \in DOMAIN lines}
<1>1. /\ versions \subseteq Nat /\ m \in Nat
      /\ \A w \in versions : w <= m
      /\ m = 0 \/ m \in versions
  BY DEF IsNewest
<1>2. NewestOf(lines) = IF versions \subseteq {0} THEN 0
                        ELSE CHOOSE v \in versions : \A w \in versions : w <= v
  BY DEF NewestOf
<1> HIDE DEF versions
<1>3. CASE versions \subseteq {0}
  BY <1>1, <1>2, <1>3
<1>4. CASE ~(versions \subseteq {0})
  <2>1. m \in versions
    BY <1>1, <1>4
  <2>2. PICK v \in versions : /\ \A w \in versions : w <= v
                             /\ NewestOf(lines) = v
    BY <1>1, <1>2, <1>4, <2>1
  <2> QED
    BY <1>1, <2>1, <2>2
<1> QED
  BY <1>3, <1>4

\* What is seen is no newer than the last answer, and matched tells of it.
SeenSound ==
  /\ IsNewest(output, Seen)
  /\ Seen <= read.version
  /\ matched => Seen > 0 /\ Seen <= Version /\ Matches(Seen)

LEMMA SeenInit == Init => SeenSound
<1> SUFFICES ASSUME Init PROVE SeenSound
  OBVIOUS
<1>1. output = << >> /\ ~matched /\ read.version = 0
  BY DEF Init, ListenInit
<1>2. IsNewest(output, 0)
  BY <1>1 DEF IsNewest
<1>3. Seen = 0
  BY <1>2, NewestIsUnique DEF Seen, NewestOf
<1> QED
  BY <1>1, <1>2, <1>3 DEF SeenSound

\* A step that prints a line is one of these, and none but Snapshot decides a match.
LEMMA PrintingSteps ==
  ASSUME [Next]_vars
  PROVE  \/ UNCHANGED << output, matched >>
         \/ pc = "acked" /\ Emit("ack", "none", 0, FALSE) /\ UNCHANGED matched
         \/ Snapshot
         \/ Report
BY DEF Next, RunStep, OwnStep, SharedStep, Terminated, vars, runVars, Fails, Start,
       Connect, OutOfBudget, Throw, ResourceNotFound, Listen, ListenFails, NotHonored,
       StartLoop, ReadTimesOut, ReadFails, Woken, WaitFails

\* Reads do not go back in time.
LEMMA ReadAdvances ==
  ASSUME IInv, [Next]_vars
  PROVE  read'.version \in {read.version, Version}
<1>1. read \in Reads
  BY DEF IInv, ListenIInv, ListenTypeOK
<1>2. UNCHANGED read \/ SendRead \/ TakeAnswer \/ AbandonRead \/ ServeRead
  BY DEF Next, RunStep, OwnStep, SharedStep, HandlerStep, Terminated, vars,
         listenVars, Start, Connect, OutOfBudget, Throw, ResourceNotFound, Listen, ListenFails,
         NotHonored, StartLoop, NextRead, Snapshot, Prints, ReadTimesOut, ReadFails, Woken,
         WaitFails, Report, Acknowledged, Closed, Deliver, StreamEnded, DeadlinePasses,
         WaitTimesOut, ServerStep
<1>3. CASE ServeRead
  BY <1>1, <1>3 DEF ServeRead, Reads
<1>4. CASE SendRead
  BY <1>1, <1>4 DEF SendRead, Reads
<1>5. CASE TakeAnswer \/ AbandonRead
  BY <1>1, <1>5 DEF TakeAnswer, AbandonRead, Reads
<1> QED
  BY <1>2, <1>3, <1>4, <1>5

\* The resource changes in steps of the server only.
LEMMA HistoryGrows ==
  ASSUME [Next]_vars
  PROVE  \/ UNCHANGED history
         \/ /\ \E text \in Texts : history' = Append(history, text)
            /\ UNCHANGED << pc, runVars >>
BY DEF Next, RunStep, OwnStep, SharedStep, HandlerStep, Terminated, vars, serverVars,
       Fails, Start, Connect, OutOfBudget, Throw, ResourceNotFound, Listen, ListenFails,
       NotHonored, StartLoop, Snapshot, Prints, ReadTimesOut, ReadFails, Woken, WaitFails,
       Report, Acknowledged, Closed,
       ServeRead, Deliver, StreamEnded, DeadlinePasses, WaitTimesOut, ServerStep, ServerNext,
       Accept, Publish, PublishOther, EndStream, DropStream

\* What is seen changes with a snapshot only, and is then the answer just taken.
LEMMA SeenStep ==
  ASSUME IInv, SeenSound, [Next]_vars
  PROVE  SeenSound' /\ (Seen' = Seen \/ (Snapshot /\ Seen' = read.version))
<1>1. /\ output \in Seq(Lines) /\ read.version \in Nat /\ read.version <= Version
      /\ Version \in Nat /\ history \in Seq(Texts) /\ Version = Len(history)
      /\ \A i \in DOMAIN output : output[i].version \in Nat
  BY OutputFacts DEF IInv, ListenIInv, ServerTypeOK, Version
<1>2. Seen \in Nat /\ Seen <= read.version
  BY DEF SeenSound, IsNewest
<1>3. /\ Seen' = NewestOf(output')
      /\ read'.version \in Nat /\ read.version <= read'.version
  BY <1>1, ReadAdvances DEF Seen, NewestOf
<1>4. \A v \in 1 .. Version : v <= Version' /\ (Matches(v) => Matches(v)')
  <2>1. CASE UNCHANGED history
    BY <1>1, <2>1 DEF Matches, Version
  <2>2. CASE \E text \in Texts : history' = Append(history, text)
    BY <1>1, <2>2 DEF Matches, Version
  <2> QED
    BY <2>1, <2>2, HistoryGrows
<1>5. ASSUME IsNewest(output', Seen), UNCHANGED matched
      PROVE  SeenSound' /\ Seen' = Seen
  <2>1. Seen' = Seen
    BY <1>3, <1>5, NewestIsUnique
  <2> QED
    BY <1>1, <1>2, <1>3, <1>4, <1>5, <2>1 DEF SeenSound
<1>6. ASSUME NEW type \in {"ack", "end"}, NEW match \in BOOLEAN,
             Emit(type, "none", 0, match)
      PROVE  IsNewest(output', Seen)
  <2>1. /\ output' \in Seq(Lines)
        /\ Len(output) \in Nat /\ Len(output') = Len(output) + 1
        /\ \A i \in 1 .. Len(output) : output'[i] = output[i]
        /\ output'[Len(output')].version = 0
    BY <1>1, <1>6, EmitEffect
  <2>2. DOMAIN output = 1 .. Len(output) /\ DOMAIN output' = 1 .. (Len(output) + 1)
    BY <1>1, <2>1
  <2>3. IsNewest(output, Seen)
    BY DEF SeenSound
  <2>4. ASSUME NEW i \in DOMAIN output'
        PROVE  output'[i].version \in Nat /\ output'[i].version <= Seen
    BY <1>2, <2>1, <2>2, <2>3, <2>4 DEF IsNewest
  <2>5. Seen = 0 \/ \E i \in DOMAIN output' : output'[i].version = Seen
    BY <2>1, <2>2, <2>3 DEF IsNewest
  <2> QED
    BY <1>2, <2>4, <2>5 DEF IsNewest
<1>7. CASE UNCHANGED << output, matched >>
  BY <1>5, <1>7 DEF SeenSound
<1>8. CASE pc = "acked" /\ Emit("ack", "none", 0, FALSE) /\ UNCHANGED matched
  <2>1. IsNewest(output', Seen)
    BY <1>6, <1>8
  <2> QED
    BY <1>5, <1>8, <2>1
<1>9. CASE Report
  <2>1. PICK match \in BOOLEAN : match = (outcome = "returned" /\ matched)
    BY DEF IInv, RunInv, RunTypeOK
  <2>2. Emit("end", "none", 0, match) /\ UNCHANGED matched
    BY <1>9, <2>1 DEF Report
  <2>3. IsNewest(output', Seen)
    BY <1>6, <2>2
  <2> QED
    BY <1>5, <2>2, <2>3
<1>10. CASE Snapshot
  <2>1. /\ matched' = Matches(read.version) /\ matched' \in BOOLEAN
        /\ Emit("snapshot", source, read.version, matched')
        /\ read.version > 0
    BY <1>10 DEF Snapshot, Prints, TakeAnswer, Matches, IInv, ListenIInv, ListenInv
  <2>2. /\ output' \in Seq(Lines)
        /\ Len(output) \in Nat /\ Len(output') = Len(output) + 1
        /\ \A i \in 1 .. Len(output) : output'[i] = output[i]
        /\ output'[Len(output')].version = read.version
    <3>1. source \in {"none"} \cup Sources
      BY DEF IInv, RunInv, RunTypeOK
    <3> QED
      BY <1>1, <2>1, <3>1, EmitEffect
  <2>3. DOMAIN output = 1 .. Len(output) /\ DOMAIN output' = 1 .. (Len(output) + 1)
    BY <1>1, <2>2
  <2>4. IsNewest(output', read.version)
    <3>1. read.version \in Nat /\ Len(output') \in DOMAIN output'
      BY <1>1, <2>2, <2>3
    <3>2. ASSUME NEW i \in DOMAIN output'
          PROVE  output'[i].version \in Nat /\ output'[i].version <= read.version
      <4>1. CASE i = Len(output')
        BY <2>2, <3>1, <4>1
      <4>2. CASE i # Len(output')
        <5>1. i \in DOMAIN output /\ output'[i] = output[i]
          BY <2>2, <2>3, <4>2
        <5>2. output[i].version \in Nat /\ output[i].version <= read.version
          BY <1>1, <5>1 DEF IInv, RunInv, VersionsSound
        <5> QED
          BY <5>1, <5>2
      <4> QED
        BY <4>1, <4>2
    <3> QED
      BY <2>2, <3>1, <3>2 DEF IsNewest
  <2>5. Seen' = read.version
    BY <1>3, <2>4, NewestIsUnique
  <2>6. read.version \in 1 .. Version
    BY <1>1, <2>1
  <2>7. UNCHANGED history
    BY <1>10 DEF Snapshot, serverVars
  <2>8. matched' => Seen' > 0 /\ Seen' <= Version' /\ Matches(Seen)'
    BY <1>1, <2>1, <2>5, <2>6, <2>7 DEF Matches, Version
  <2> QED
    BY <1>3, <1>10, <2>4, <2>5, <2>8 DEF SeenSound
<1> QED
  BY <1>7, <1>8, <1>9, <1>10, PrintingSteps

\* Every step is one of the watcher's, or none.
LEMMA WatchStep ==
  ASSUME IInv, SeenSound, [Next]_vars
  PROVE  [Watch!Next]_(Watch!vars)
<1> SUFFICES Watch!Next \/ UNCHANGED Watch!vars
  OBVIOUS
<1>1. /\ Seen \in Nat /\ read.version \in Nat /\ Seen <= read.version
      /\ read.version <= Version /\ Version = Len(history) /\ Version \in Nat
  BY OutputFacts DEF SeenSound, IsNewest, Version
<1>2. /\ pc' = "reported" <=> pc = "reported" \/ Report
      /\ pc = "reported" => UNCHANGED << pc, runVars >>
  BY DEF Next, RunStep, OwnStep, SharedStep, HandlerStep, Terminated, vars, Fails, Start,
         Connect, OutOfBudget, Throw, ResourceNotFound, Listen, ListenFails, NotHonored,
         StartLoop, NextRead, Break, Finish, Wait, Snapshot, Prints, ReadTimesOut, ReadFails,
         Woken, WaitFails, Report, Acknowledged, Closed, ServeRead, Deliver, StreamEnded,
         DeadlinePasses, WaitTimesOut, ServerStep, Listening
<1>3. CASE ~UNCHANGED history
  <2>1. UNCHANGED << pc, output, exitCode >>
    BY <1>3, HistoryGrows DEF runVars
  <2>2. Seen' = Seen /\ Verdict' = Verdict
    BY <2>1 DEF Seen, Verdict
  <2> QED
    BY <1>3, <2>2, HistoryGrows DEF Watch!Next, Watch!Change
<1>4. CASE UNCHANGED history /\ pc = "reported"
  <2>1. Seen' = Seen /\ Verdict' = Verdict
    BY <1>2, <1>4 DEF Seen, Verdict, runVars
  <2> QED
    BY <1>4, <2>1 DEF Watch!vars
<1>5. CASE UNCHANGED history /\ Report
  <2>1. UNCHANGED matched /\ pc = "done" /\ pc' = "reported"
        /\ exitCode' = IF outcome = "returned" /\ matched THEN 0 ELSE 1
    BY <1>5 DEF Report
  <2>2. Seen' = Seen
    <3>1. ~Snapshot
      BY <2>1 DEF Snapshot
    <3> QED
      BY <3>1, SeenStep
  <2>3. Verdict = "watching"
    BY <2>1 DEF Verdict
  <2>4. CASE exitCode' = 0
    <3>1. Seen > 0 /\ history[Seen] \in WantedTexts
      BY <2>1, <2>4 DEF SeenSound, Matches
    <3>2. Verdict' = "success"
      BY <2>1, <2>4 DEF Verdict
    <3> QED
      BY <1>5, <2>2, <2>3, <3>1, <3>2 DEF Watch!Next, Watch!Succeed
  <2>5. CASE exitCode' # 0
    <3>1. Verdict' = "failure"
      BY <2>1, <2>5 DEF Verdict
    <3> QED
      BY <1>5, <2>2, <2>3, <3>1 DEF Watch!Next, Watch!GiveUp
  <2> QED
    BY <2>4, <2>5
<1>6. CASE UNCHANGED history /\ pc # "reported" /\ ~Report
  <2>1. Verdict = "watching" /\ Verdict' = "watching"
    BY <1>2, <1>6 DEF Verdict
  <2>2. Seen' \in Seen .. Len(history)
    BY <1>1, SeenStep
  <2> QED
    BY <1>6, <2>1, <2>2 DEF Watch!Next, Watch!Observe
<1> QED
  BY <1>3, <1>4, <1>5, <1>6

\* runResourceStream, with the lines the CLI prints for it, implements the abstract
\* watcher: exit code 0 means that the last snapshot is a text that --until matches.
THEOREM Implementation == Spec => ImplementsWatch
<1>1. Init => Watch!Init
  <2> SUFFICES ASSUME Init PROVE Watch!Init
    OBVIOUS
  <2>1. Verdict = "watching" /\ output = << >>
    BY DEF Init, ListenInit, Verdict
  <2>2. IsNewest(output, 0)
    BY <2>1 DEF IsNewest
  <2>3. Seen = 0
    BY <2>2, NewestIsUnique DEF Seen, NewestOf
  <2> QED
    BY <2>1, <2>3 DEF Init, ServerInit, Watch!Init
<1>2. Init => SeenSound
  BY SeenInit
<1>3. IInv /\ SeenSound /\ [Next]_vars => SeenSound' /\ [Watch!Next]_(Watch!vars)
  BY SeenStep, WatchStep
<1> QED
  BY <1>1, <1>2, <1>3, Invariance, PTL DEF Spec, ImplementsWatch, Watch!Spec
=============================================================================
