--------------------------- MODULE ProbeServerProofs ---------------------------
(***************************************************************************)
(* The test server under any number of clients: its count of the open      *)
(* streams is right, a cycle is not restarted under a listener, and nobody *)
(* waits for a notification that will not come.                            *)
(***************************************************************************)
EXTENDS ProbeServer, FiniteSetTheorems, TLAPS

Open == {c \in Clients : stream[c] = "open"}

\* While anybody listens a resource that is not the last has its timer set.
TimersAreSet ==
  openStreams > 0 /\ ~closed =>
    /\ updateTimer \/ status = LastVersion
    /\ progressTimer \/ stage = LastStage

\* A client has no stream before it listens.
FirstStream ==
  \A c \in Clients : pc[c] \in {"initialRead", "listen"} => stream[c] # "open"

IInv == TypeOK /\ StreamsAreCounted /\ TimersAreSet /\ NobodyWaitsInVain /\ FirstStream

\* The number of open streams.
LEMMA OpenIsFinite ==
  /\ IsFiniteSet(Clients) /\ Cardinality(Clients) \in Nat
  /\ IsFiniteSet(Open) /\ Cardinality(Open) \in Nat
  /\ Cardinality(Open) <= Cardinality(Clients)
<1>1. IsFiniteSet(Clients)
  BY ClientsAssumption, FS_Union DEF Clients
<1>2. Open \subseteq Clients
  BY DEF Open
<1> QED
  BY <1>1, <1>2, FS_Subset, FS_CardinalityType

\* One stream more, and one less.
LEMMA OpenOne ==
  ASSUME TypeOK, NEW c \in Clients, stream[c] # "open", stream' = [stream EXCEPT ![c] = "open"]
  PROVE  /\ Cardinality(Open') = Cardinality(Open) + 1
         /\ Cardinality(Open') <= Cardinality(Clients)
<1>1. Open' = Open \cup {c} /\ c \notin Open
  BY DEF Open, TypeOK
<1>2. Open' \subseteq Clients
  BY DEF Open
<1> QED
  BY <1>1, <1>2, OpenIsFinite, FS_AddElement, FS_Subset

LEMMA CloseOne ==
  ASSUME TypeOK, NEW c \in Clients, stream[c] = "open", stream' = [stream EXCEPT ![c] = "released"]
  PROVE  Cardinality(Open') = Cardinality(Open) - 1 /\ Cardinality(Open) > 0
<1>1. Open' = Open \ {c} /\ c \in Open
  BY DEF Open, TypeOK
<1> QED
  BY <1>1, OpenIsFinite, FS_RemoveElement, FS_EmptySet

\* Somebody's stream is open: there is one at least, and two if another one is.
LEMMA OpenCounts ==
  ASSUME NEW c \in Open
  PROVE  Cardinality(Open) > 0 /\ \A d \in Open : d # c => Cardinality(Open) > 1
<1>1. Cardinality(Open) > 0
  BY OpenIsFinite, FS_EmptySet
<1>2. ASSUME NEW d \in Open, d # c PROVE Cardinality(Open) > 1
  <2> DEFINE rest == Open \ {d}
  <2>1. Cardinality(rest) = Cardinality(Open) - 1 /\ IsFiniteSet(rest)
    BY OpenIsFinite, FS_RemoveElement
  <2>2. rest # {}
    BY <1>2
  <2> HIDE DEF rest
  <2>3. Cardinality(rest) \in Nat /\ Cardinality(rest) # 0
    BY <2>1, <2>2, FS_EmptySet, FS_CardinalityType
  <2>4. Cardinality(Open) \in Nat
    BY OpenIsFinite
  <2> QED
    BY <2>1, <2>3, <2>4
<1> QED
  BY <1>1, <1>2

LEMMA InitInv == Init => IInv
<1> SUFFICES ASSUME Init PROVE IInv
  OBVIOUS
<1>1. Open = {} /\ openStreams = 0
  BY DEF Init, Open
<1>2. StreamsAreCounted
  BY <1>1, FS_EmptySet DEF StreamsAreCounted, Open, Init
<1>3. TypeOK
  <2>1. 0 \in 0 .. Cardinality(Clients)
    BY OpenIsFinite
  <2>2. 0 \in 0 .. LastStage /\ FirstVersion \in FirstVersion .. LastVersion
    BY DEF LastStage, FirstVersion, LastVersion
  <2>3. told \in [Clients -> BOOLEAN] /\ text \in [Clients -> 0 .. LastStage]
    BY <2>2 DEF Init
  <2>4. /\ stream \in [Clients -> {"none", "open", "released"}]
        /\ pc \in [Clients -> {"idle", "listen", "wait", "left"} \cup Reading]
    BY DEF Init
  <2> QED
    BY <2>1, <2>2, <2>3, <2>4 DEF Init, TypeOK
<1> QED
  BY <1>1, <1>2, <1>3 DEF Init, IInv, TimersAreSet, NobodyWaitsInVain, FirstStream

-----------------------------------------------------------------------------
(* One lemma per kind of step.                                             *)

\* What every step uses of the invariant.
LEMMA InvFacts ==
  ASSUME IInv
  PROVE  /\ TypeOK /\ openStreams = Cardinality(Open) /\ openStreams \in Nat
         /\ \A c \in Clients : stream[c] = "open" => openStreams > 0
<1>1. TypeOK /\ openStreams = Cardinality(Open) /\ openStreams \in Nat
  BY OpenIsFinite DEF IInv, StreamsAreCounted, Open
<1>2. ASSUME NEW c \in Clients, stream[c] = "open" PROVE openStreams > 0
  <2>1. c \in Open
    BY <1>2 DEF Open
  <2> QED
    BY <1>1, <2>1, OpenCounts
<1> QED
  BY <1>1, <1>2

LEMMA OpenStreamInv == ASSUME IInv, NEW c \in Clients, OpenStream(c) PROVE IInv'
<1>1. TypeOK /\ openStreams = Cardinality(Open) /\ openStreams \in Nat
  BY InvFacts
<1>2. stream[c] # "open" /\ stream' = [stream EXCEPT ![c] = "open"]
  BY DEF OpenStream, IInv, FirstStream
<1>3. /\ Cardinality(Open') = Cardinality(Open) + 1
      /\ Cardinality(Open') <= Cardinality(Clients)
  BY <1>1, <1>2, OpenOne
<1>4. openStreams' = Cardinality(Open') /\ openStreams' \in 0 .. Cardinality(Clients)
      /\ openStreams' > 0
  BY <1>1, <1>3, OpenIsFinite DEF OpenStream
<1>5. TypeOK'
  BY <1>1, <1>4 DEF OpenStream, TypeOK, timers, resources, Reading
<1>6. StreamsAreCounted'
  BY <1>4 DEF StreamsAreCounted, Open
<1>7. TimersAreSet'
  BY <1>1 DEF OpenStream, IInv, TimersAreSet, timers, resources
<1>8. NobodyWaitsInVain'
  <2> SUFFICES ASSUME NEW d \in Clients, pc'[d] = "wait", stream'[d] = "open",
                      text'[d] < Last(d), ~closed'
               PROVE  told'[d] \/ (IF d \in OneShots THEN updateTimer' ELSE progressTimer')
    BY DEF NobodyWaitsInVain, Last
  <2>1. d # c /\ pc[d] = "wait" /\ stream[d] = "open" /\ text[d] < Last(d) /\ ~closed
    BY <1>1 DEF OpenStream, TypeOK
  <2>2. told[d] \/ (IF d \in OneShots THEN updateTimer ELSE progressTimer)
    BY <2>1 DEF IInv, NobodyWaitsInVain
  <2> QED
    BY <2>2 DEF OpenStream, timers
<1>9. FirstStream'
  BY <1>1 DEF OpenStream, IInv, FirstStream, TypeOK
<1> QED
  BY <1>5, <1>6, <1>7, <1>8, <1>9 DEF IInv

LEMMA UnsubscribeInv == ASSUME IInv, NEW c \in Clients, Unsubscribe(c) PROVE IInv'
<1>1. TypeOK /\ openStreams = Cardinality(Open) /\ openStreams \in Nat
  BY InvFacts
<1>2. CASE UNCHANGED vars
  BY <1>2 DEF vars, timers, resources, IInv, TypeOK, StreamsAreCounted, TimersAreSet,
              NobodyWaitsInVain, FirstStream
<1>3. CASE stream[c] = "open" /\ ~UNCHANGED vars
  <2>1. /\ stream' = [stream EXCEPT ![c] = "released"]
        /\ openStreams' = openStreams - 1
        /\ IF openStreams = 1 THEN updateTimer' = FALSE /\ progressTimer' = FALSE
                              ELSE UNCHANGED timers
        /\ UNCHANGED << resources, closed, pc, text, told >>
    BY <1>3 DEF Unsubscribe
  <2>2. Cardinality(Open') = Cardinality(Open) - 1 /\ Cardinality(Open) > 0
    BY <1>1, <1>3, <2>1, CloseOne
  <2>3. openStreams' = Cardinality(Open') /\ openStreams' \in 0 .. Cardinality(Clients)
    BY <1>1, <2>1, <2>2, OpenIsFinite
  <2>4. TypeOK'
    BY <1>1, <2>1, <2>3 DEF TypeOK, timers, resources
  <2>5. StreamsAreCounted'
    <3>1. openStreams' = Cardinality({d \in Clients : stream'[d] = "open"})
      BY <2>3 DEF Open
    <3>2. (updateTimer \/ progressTimer => openStreams > 0)'
      BY <1>1, <2>1 DEF IInv, StreamsAreCounted, timers
    <3> QED
      BY <3>1, <3>2 DEF StreamsAreCounted
  <2>6. TimersAreSet'
    BY <1>1, <2>1 DEF IInv, TimersAreSet, timers, resources
  <2>7. NobodyWaitsInVain'
    <3> SUFFICES ASSUME NEW d \in Clients, pc'[d] = "wait", stream'[d] = "open",
                        text'[d] < Last(d), ~closed'
                 PROVE  told'[d] \/ (IF d \in OneShots THEN updateTimer' ELSE progressTimer')
      BY DEF NobodyWaitsInVain, Last
    <3>1. d # c /\ pc[d] = "wait" /\ stream[d] = "open" /\ text[d] < Last(d) /\ ~closed
      BY <1>1, <2>1 DEF TypeOK
    <3>2. told[d] \/ (IF d \in OneShots THEN updateTimer ELSE progressTimer)
      BY <3>1 DEF IInv, NobodyWaitsInVain
    <3>3. c \in Open /\ d \in Open
      BY <1>3, <3>1 DEF Open
    <3>4. openStreams > 1
      BY <1>1, <3>1, <3>3, OpenCounts
    <3> QED
      BY <1>1, <2>1, <3>2, <3>4 DEF timers
  <2>8. FirstStream'
    BY <1>1, <2>1 DEF IInv, FirstStream, TypeOK
  <2> QED
    BY <2>4, <2>5, <2>6, <2>7, <2>8 DEF IInv
<1> QED
  BY <1>2, <1>3 DEF Unsubscribe

\* The timers fire: whoever listens is told.
LEMMA TimerInv == ASSUME IInv, UpdateFires \/ ProgressFires PROVE IInv'
<1>1. TypeOK /\ openStreams \in Nat
  BY InvFacts
<1>2. UNCHANGED << openStreams, closed, stream, pc, text >>
  BY DEF UpdateFires, ProgressFires
<1>3. TypeOK'
  <2>1. told' \in [Clients -> BOOLEAN]
    BY <1>1 DEF UpdateFires, ProgressFires, Notify, TypeOK
  <2>2. status' \in FirstVersion .. LastVersion /\ stage' \in 0 .. LastStage
    BY <1>1 DEF UpdateFires, ProgressFires, TypeOK, FirstVersion, LastVersion, LastStage
  <2>3. updateTimer' \in BOOLEAN /\ progressTimer' \in BOOLEAN
    BY <1>1 DEF UpdateFires, ProgressFires, TypeOK
  <2> QED
    BY <1>1, <1>2, <2>1, <2>2, <2>3 DEF TypeOK
<1>4. StreamsAreCounted'
  BY <1>2 DEF IInv, StreamsAreCounted, UpdateFires, ProgressFires
<1>5. TimersAreSet'
  BY <1>2 DEF IInv, TimersAreSet, UpdateFires, ProgressFires
<1>6. NobodyWaitsInVain'
  <2> SUFFICES ASSUME NEW d \in Clients, pc'[d] = "wait", stream'[d] = "open",
                      text'[d] < Last(d), ~closed'
               PROVE  told'[d] \/ (IF d \in OneShots THEN updateTimer' ELSE progressTimer')
    BY DEF NobodyWaitsInVain, Last
  <2>1. pc[d] = "wait" /\ stream[d] = "open" /\ text[d] < Last(d) /\ ~closed /\ pc[d] \notin Gone
    BY <1>2 DEF Gone
  <2>2. told[d] \/ (IF d \in OneShots THEN updateTimer ELSE progressTimer)
    BY <2>1 DEF IInv, NobodyWaitsInVain
  <2>3. d \in OneShots \/ d \in Streamers
    BY DEF Clients
  <2>4. told[d] => told'[d]
    BY DEF UpdateFires, ProgressFires, Notify
  <2>5. CASE UpdateFires
    <3>1. d \in OneShots => told'[d]
      BY <2>1, <2>5 DEF UpdateFires, Notify
    <3>2. UNCHANGED progressTimer
      BY <2>5 DEF UpdateFires
    <3> QED
      BY <2>2, <2>4, <3>1, <3>2
  <2>6. CASE ProgressFires
    <3>1. d \in Streamers => told'[d]
      BY <2>1, <2>6 DEF ProgressFires, Notify
    <3>2. UNCHANGED updateTimer
      BY <2>6 DEF ProgressFires
    <3> QED
      BY <2>2, <2>3, <2>4, <3>1, <3>2
  <2> QED
    BY <2>5, <2>6
<1>7. FirstStream'
  BY <1>2 DEF IInv, FirstStream
<1> QED
  BY <1>3, <1>4, <1>5, <1>6, <1>7 DEF IInv

\* A read, whoever it is served for.
LEMMA ServeReadInv == ASSUME IInv, NEW c \in Clients, ServeRead(c) PROVE IInv'
<1> DEFINE read == Current(c)'
           next == Continuation(c, read)
<1>1. /\ TypeOK /\ openStreams \in Nat
      /\ \A d \in Clients : stream[d] = "open" => openStreams > 0
  BY InvFacts
<1>2. /\ UNCHANGED << openStreams, timers, closed, stream >>
      /\ pc[c] \in {"initialRead", "postRead", "reread", "left"}
      /\ pc' = [pc EXCEPT ![c] = next]
      /\ text' = [text EXCEPT ![c] = IF next \in Gone THEN 0 ELSE read]
      /\ told' = [told EXCEPT ![c] = @ /\ next \notin Gone]
  BY DEF ServeRead, GoOn, Reading
<1>3. status' \in 1 .. 2 /\ stage' \in 0 .. 3
  BY <1>1 DEF ServeRead, StartCycle, TypeOK, FirstVersion, LastVersion, LastStage, resources
<1>4. read = IF c \in OneShots THEN status' ELSE stage'
  BY DEF Current
<1>5. /\ next \in {"listen", "idle", "wait"}
      /\ next = "listen" => pc[c] = "initialRead"
      /\ next = "wait" /\ c \notin OneShots => read # LastStage
  BY <1>2 DEF Continuation
<1> HIDE DEF next, read
<1>6. TypeOK'
  <2>1. text' \in [Clients -> 0 .. LastStage]
    BY <1>1, <1>2, <1>3, <1>4 DEF TypeOK, LastStage
  <2>2. pc' \in [Clients -> {"idle", "listen", "wait", "left"} \cup Reading]
    BY <1>1, <1>2, <1>5 DEF TypeOK
  <2>3. told' \in [Clients -> BOOLEAN]
    BY <1>1, <1>2 DEF TypeOK
  <2> QED
    BY <1>1, <1>2, <1>3, <2>1, <2>2, <2>3 DEF TypeOK, timers, FirstVersion, LastVersion, LastStage
<1>7. StreamsAreCounted'
  BY <1>2 DEF IInv, StreamsAreCounted, timers
<1>8. openStreams > 0 => UNCHANGED resources
  BY <1>1 DEF ServeRead, StartCycle
<1>9. TimersAreSet'
  BY <1>2, <1>8 DEF IInv, TimersAreSet, timers, resources
<1>10. NobodyWaitsInVain'
  <2> SUFFICES ASSUME NEW d \in Clients, pc'[d] = "wait", stream'[d] = "open",
                      text'[d] < Last(d), ~closed'
               PROVE  told'[d] \/ (IF d \in OneShots THEN updateTimer' ELSE progressTimer')
    BY DEF NobodyWaitsInVain, Last
  <2>1. stream[d] = "open" /\ ~closed /\ openStreams > 0 /\ UNCHANGED << timers, resources >>
    BY <1>1, <1>2, <1>8
  <2>2. CASE d # c
    <3>1. pc[d] = "wait" /\ text[d] < Last(d) /\ told'[d] = told[d]
      BY <1>1, <1>2, <2>2 DEF TypeOK
    <3> QED
      BY <2>1, <3>1 DEF IInv, NobodyWaitsInVain, timers
  <2>3. CASE d = c
    <3>1. next = "wait" /\ text'[c] = read
      BY <1>1, <1>2, <1>5, <2>3 DEF TypeOK, Gone
    <3>2. read < Last(c)
      BY <2>3, <3>1
    <3>3. (updateTimer \/ status = 2) /\ (progressTimer \/ stage = 3)
      BY <2>1 DEF IInv, TimersAreSet, LastVersion, LastStage
    <3> QED
      BY <1>4, <2>1, <2>3, <3>2, <3>3 DEF timers, resources, Last, LastVersion, LastStage
  <2> QED
    BY <2>2, <2>3
<1>11. FirstStream'
  BY <1>1, <1>2, <1>5 DEF IInv, FirstStream, TypeOK
<1> QED
  BY <1>6, <1>7, <1>9, <1>10, <1>11 DEF IInv

\* What the clients do by themselves.
LEMMA ClientInv ==
  ASSUME IInv, NEW c \in Clients, Start(c) \/ Woken(c) \/ Leave(c)
  PROVE  IInv'
<1>1. TypeOK
  BY InvFacts
<1>2. UNCHANGED << openStreams, timers, resources, closed, stream >>
  BY DEF Start, Woken, Leave
<1>3. TypeOK'
  <2>1. pc' \in [Clients -> {"idle", "listen", "wait", "left"} \cup Reading]
    BY <1>1 DEF Start, Woken, Leave, GoOn, TypeOK, Reading
  <2>2. text' \in [Clients -> 0 .. LastStage]
    BY <1>1 DEF Start, Woken, Leave, GoOn, TypeOK, LastStage
  <2>3. told' \in [Clients -> BOOLEAN]
    <3>1. CASE Start(c)
      BY <1>1, <3>1 DEF Start, TypeOK
    <3>2. CASE Woken(c)
      BY <1>1, <3>2 DEF Woken, TypeOK
    <3>3. CASE Leave(c)
      BY <1>1, <3>3 DEF Leave, GoOn, TypeOK
    <3> QED
      BY <3>1, <3>2, <3>3
  <2> QED
    BY <1>1, <1>2, <2>1, <2>2, <2>3 DEF TypeOK, timers, resources
<1>4. StreamsAreCounted' /\ TimersAreSet'
  BY <1>2 DEF IInv, StreamsAreCounted, TimersAreSet, timers, resources
<1>5. NobodyWaitsInVain'
  <2> SUFFICES ASSUME NEW d \in Clients, pc'[d] = "wait", stream'[d] = "open",
                      text'[d] < Last(d), ~closed'
               PROVE  told'[d] \/ (IF d \in OneShots THEN updateTimer' ELSE progressTimer')
    BY DEF NobodyWaitsInVain, Last
  <2>1. d # c /\ pc[d] = "wait" /\ text[d] < Last(d) /\ told'[d] = told[d]
    BY <1>1 DEF Start, Woken, Leave, GoOn, TypeOK, Reading
  <2> QED
    BY <1>2, <2>1 DEF IInv, NobodyWaitsInVain, timers
<1>6. FirstStream'
  BY <1>1 DEF IInv, FirstStream, TypeOK, Start, Woken, Leave, GoOn, Reading
<1> QED
  BY <1>3, <1>4, <1>5, <1>6 DEF IInv

LEMMA CloseInv == ASSUME IInv, Close PROVE IInv'
<1>1. TypeOK /\ closed'
  BY InvFacts DEF Close
<1>2. TypeOK'
  BY <1>1 DEF Close, TypeOK, resources
<1> QED
  BY <1>1, <1>2 DEF Close, IInv, StreamsAreCounted, TimersAreSet, NobodyWaitsInVain, FirstStream

LEMMA NextInv == ASSUME IInv, [Next]_vars PROVE IInv'
<1>1. CASE UNCHANGED vars
  BY <1>1 DEF vars, timers, resources, IInv, TypeOK, StreamsAreCounted, TimersAreSet,
              NobodyWaitsInVain, FirstStream
<1>2. ASSUME NEW c \in Clients,
             ServerStep(c) \/ Unsubscribe(c) \/ Start(c) \/ Woken(c) \/ Leave(c)
      PROVE  IInv'
  BY <1>2, OpenStreamInv, ServeReadInv, UnsubscribeInv, ClientInv DEF ServerStep
<1>3. CASE UpdateFires \/ ProgressFires
  BY <1>3, TimerInv
<1>4. CASE Close
  BY <1>4, CloseInv
<1> QED
  BY <1>1, <1>2, <1>3, <1>4 DEF Next

-----------------------------------------------------------------------------
(* Theorems.                                                               *)

\* The inductive invariant: the count of the streams, timers set while somebody listens
\* to a resource that will change, and no stream before a client listens.
THEOREM Invariance == Spec => []IInv
<1>1. Init => IInv
  BY InitInv
<1>2. IInv /\ [Next]_vars => IInv'
  BY NextInv
<1> QED
  BY <1>1, <1>2, PTL DEF Spec

\* Every variable of the server and of its clients keeps its type.
THEOREM TypeCorrectness == Spec => []TypeOK
<1>1. IInv => TypeOK
  BY DEF IInv
<1> QED
  BY <1>1, Invariance, PTL

\* openListenStreams is the number of open streams, whatever ends them, in any order, and
\* no timer outlives the last one.
THEOREM StreamCount == Spec => []StreamsAreCounted
<1>1. IInv => StreamsAreCounted
  BY DEF IInv
<1> QED
  BY <1>1, Invariance, PTL

\* A client that listens and waits with a text that is not the last was told, or a timer
\* that will tell it is set.
THEOREM WaitersHaveATimer == Spec => []NobodyWaitsInVain
<1>1. IInv => NobodyWaitsInVain
  BY DEF IInv
<1> QED
  BY <1>1, Invariance, PTL

\* While anybody listens, no read starts a new cycle.
THEOREM CycleMonotonicity == Spec => CycleIsMonotone
<1>1. ASSUME IInv, [Next]_vars
      PROVE  [openStreams > 0 => status' >= status /\ stage' >= stage]_vars
  <2>1. TypeOK /\ openStreams \in Nat
    BY <1>1, InvFacts
  <2>2. status \in 1 .. 2 /\ stage \in 0 .. 3
    BY <2>1 DEF TypeOK, FirstVersion, LastVersion, LastStage
  <2>3. SUFFICES ASSUME Next, openStreams > 0 PROVE status' >= status /\ stage' >= stage
    BY <1>1
  <2>4. \/ UNCHANGED resources
        \/ UpdateFires \/ ProgressFires
        \/ \E c \in Clients : ServeRead(c)
    BY <2>3 DEF Next, ServerStep, OpenStream, Unsubscribe, Start, Woken, Leave, Close, vars
  <2>5. CASE UNCHANGED resources \/ \E c \in Clients : ServeRead(c)
    BY <2>1, <2>2, <2>3, <2>5 DEF ServeRead, StartCycle, resources
  <2>6. CASE UpdateFires \/ ProgressFires
    BY <2>2, <2>6 DEF UpdateFires, ProgressFires, LastVersion, LastStage
  <2> QED
    BY <2>4, <2>5, <2>6
<1> QED
  BY <1>1, Invariance, PTL DEF Spec, CycleIsMonotone
=============================================================================
