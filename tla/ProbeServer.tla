----------------------------- MODULE ProbeServer -----------------------------
(***************************************************************************)
(* The test server (createMcpHttpApp, src/src/server/httpServer.ts) and    *)
(* the clients that probe it at the same time.  The server keeps two       *)
(* resources that change by themselves while somebody listens: the review  *)
(* status changes once, the review progress goes through four stages.  A   *)
(* read that finds nobody listening starts a new cycle, with both          *)
(* resources as they were at first.                                        *)
(*                                                                         *)
(* One-shot clients watch the status and streamers the progress; of them,  *)
(* only the order of their reads and of listening matters here (see        *)
(* Subscription and Stream).  A read may be served long after it was sent, *)
(* even after its client is gone, and a stream may be lost at any time.    *)
(***************************************************************************)
EXTENDS Integers, FiniteSets

CONSTANTS
  OneShots, Streamers    \* the clients, by mode

Clients == OneShots \cup Streamers

ASSUME ClientsAssumption == IsFiniteSet(OneShots) /\ IsFiniteSet(Streamers)

VARIABLES
  openStreams,     \* openListenStreams
  updateTimer, progressTimer,    \* the timer is set
  status,          \* the version of the review status
  stage,           \* the index of the progress stage
  closed,          \* the server is closing
  stream,          \* per client, its listener on the server's bus
  pc,              \* per client, what it is doing
  text,            \* per client, what it has read last
  told             \* per client, a notification it has not consumed

resources == << status, stage >>
timers == << updateTimer, progressTimer >>
vars == << openStreams, timers, resources, closed, stream, pc, text, told >>

FirstVersion == 1
LastVersion == 2
LastStage == 3

Reading == {"initialRead", "postRead", "reread"}

TypeOK ==
  /\ openStreams \in 0 .. Cardinality(Clients)
  /\ updateTimer \in BOOLEAN /\ progressTimer \in BOOLEAN
  /\ status \in FirstVersion .. LastVersion
  /\ stage \in 0 .. LastStage
  /\ closed \in BOOLEAN
  /\ stream \in [Clients -> {"none", "open", "released"}]
  /\ pc \in [Clients -> {"idle", "listen", "wait", "left"} \cup Reading]
  /\ text \in [Clients -> 0 .. LastStage]
  /\ told \in [Clients -> BOOLEAN]

Init ==
  /\ openStreams = 0
  /\ updateTimer = FALSE /\ progressTimer = FALSE
  /\ status = FirstVersion
  /\ stage = 0
  /\ closed = FALSE
  /\ stream = [c \in Clients |-> "none"]
  /\ pc = [c \in Clients |-> "idle"]
  /\ text = [c \in Clients |-> 0]
  /\ told = [c \in Clients |-> FALSE]

-----------------------------------------------------------------------------
(* Listen streams, and the two timers.                                     *)

Gone == {"idle", "left"}

\* handler.notify.resourceUpdated: everybody whose stream is open is told.
Notify(watchers) ==
  told' = [c \in Clients |->
             told[c] \/ (c \in watchers /\ stream[c] = "open" /\ pc[c] \notin Gone)]

\* bus.subscribe: the first stream sets the timers, the others find them as they are.
OpenStream(c) ==
  /\ pc[c] = "listen"
  /\ ~closed
  /\ openStreams' = openStreams + 1
  /\ IF openStreams = 0 THEN updateTimer' = TRUE /\ progressTimer' = TRUE
                        ELSE UNCHANGED timers
  /\ stream' = [stream EXCEPT ![c] = "open"]
  /\ pc' = [pc EXCEPT ![c] = "postRead"]
  /\ UNCHANGED << resources, closed, text, told >>

\* Mutant: every unsubscription counts, also the second of one stream.
UnsubscribeCounted(c) ==
  /\ stream[c] \in {"open", "released"}
  /\ stream' = [stream EXCEPT ![c] = "released"]
  /\ openStreams' = openStreams - 1
  /\ IF openStreams = 1 THEN updateTimer' = FALSE /\ progressTimer' = FALSE
                        ELSE UNCHANGED timers
  /\ UNCHANGED << resources, closed, pc, text, told >>

\* The function bus.subscribe returns, called when the stream ends, for whatever
\* reason: the last stream clears the timers.  Calling it again does nothing.
Unsubscribe(c) ==
  \/ /\ stream[c] = "open"
     /\ stream' = [stream EXCEPT ![c] = "released"]
     /\ openStreams' = openStreams - 1
     /\ IF openStreams = 1 THEN updateTimer' = FALSE /\ progressTimer' = FALSE
                           ELSE UNCHANGED timers
     /\ UNCHANGED << resources, closed, pc, text, told >>
  \/ stream[c] = "released" /\ UNCHANGED vars

\* The update timer, set once per cycle.
UpdateFires ==
  /\ updateTimer
  /\ updateTimer' = FALSE
  /\ status' = LastVersion
  /\ Notify(OneShots)
  /\ UNCHANGED << openStreams, progressTimer, stage, closed, stream, pc, text >>

\* Mutant: the index of the stage has no upper limit.
AdvanceUnlimited ==
  /\ progressTimer /\ ~updateTimer
  /\ stage' = stage + 1
  /\ progressTimer' = (stage' # LastStage)
  /\ Notify(Streamers)
  /\ UNCHANGED << openStreams, updateTimer, status, closed, stream, pc, text >>

\* Mutant: the timer is not set again.
AdvanceOnce ==
  /\ progressTimer /\ ~updateTimer
  /\ stage' = IF stage = LastStage THEN stage ELSE stage + 1
  /\ progressTimer' = FALSE
  /\ Notify(Streamers)
  /\ UNCHANGED << openStreams, updateTimer, status, closed, stream, pc, text >>

\* The progress timer, set again up to the last stage.  It was set after the update
\* timer, with the same delay, so it fires after it.
ProgressFires ==
  /\ progressTimer /\ ~updateTimer
  /\ stage' = IF stage = LastStage THEN stage ELSE stage + 1
  /\ progressTimer' = (stage' # LastStage)
  /\ Notify(Streamers)
  /\ UNCHANGED << openStreams, updateTimer, status, closed, stream, pc, text >>

\* close(): the timers are cleared; streams are not opened any more and end.
Close ==
  /\ ~closed
  /\ closed' = TRUE
  /\ updateTimer' = FALSE /\ progressTimer' = FALSE
  /\ UNCHANGED << openStreams, resources, stream, pc, text, told >>

-----------------------------------------------------------------------------
(* resources/read.                                                         *)

\* Mutant: every read starts a new cycle.
StartCycleAlways == status' = FirstVersion /\ stage' = 0

\* startCycle, called by every read before it looks at the state.
StartCycle ==
  IF openStreams = 0 THEN status' = FirstVersion /\ stage' = 0
                     ELSE UNCHANGED resources

Current(c) == IF c \in OneShots THEN status ELSE stage

Last(c) == IF c \in OneShots THEN LastVersion ELSE LastStage

\* What a client does with the answer `read`: a one-shot is done with a text that
\* differs from its first one, or that it read for a notification; a streamer is
\* done with the last stage.
Continuation(c, read) ==
  CASE pc[c] = "initialRead" -> "listen"
    [] pc[c] = "left"        -> "idle"
    [] pc[c] = "postRead" /\ c \in OneShots -> IF read # text[c] THEN "idle" ELSE "wait"
    [] pc[c] = "reread" /\ c \in OneShots   -> "idle"
    [] OTHER                 -> IF read = LastStage THEN "idle" ELSE "wait"

\* A client goes on with what it has read, or is gone and has forgotten it.
GoOn(c, next, read) ==
  /\ pc' = [pc EXCEPT ![c] = next]
  /\ text' = [text EXCEPT ![c] = IF next \in Gone THEN 0 ELSE read]
  /\ told' = [told EXCEPT ![c] = @ /\ next \notin Gone]

\* The handler of resources/read, past its delay.
ServeRead(c) ==
  /\ pc[c] \in Reading \cup {"left"}
  /\ StartCycle
  /\ GoOn(c, Continuation(c, Current(c)'), Current(c)')
  /\ UNCHANGED << openStreams, timers, closed, stream >>

-----------------------------------------------------------------------------
(* The clients (see Subscription and Stream).                              *)

\* A one-shot reads before it listens, a streamer does not.
Start(c) ==
  /\ pc[c] = "idle"
  /\ stream[c] # "open"
  /\ pc' = [pc EXCEPT ![c] = IF c \in OneShots THEN "initialRead" ELSE "listen"]
  /\ UNCHANGED << openStreams, timers, resources, closed, stream, text, told >>

Woken(c) ==
  /\ pc[c] = "wait"
  /\ told[c]
  /\ told' = [told EXCEPT ![c] = FALSE]
  /\ pc' = [pc EXCEPT ![c] = "reread"]
  /\ UNCHANGED << openStreams, timers, resources, closed, stream, text >>

\* A client times out, fails or dies; the read it has sent is served all the same.
Leave(c) ==
  /\ pc[c] \notin Gone
  /\ GoOn(c, IF pc[c] \in Reading THEN "left" ELSE "idle", 0)
  /\ UNCHANGED << openStreams, timers, resources, closed, stream >>

-----------------------------------------------------------------------------
ServerStep(c) == OpenStream(c) \/ ServeRead(c)

Next ==
  \/ \E c \in Clients :
       ServerStep(c) \/ Unsubscribe(c) \/ Start(c) \/ Woken(c) \/ Leave(c)
  \/ UpdateFires \/ ProgressFires \/ Close

Spec == Init /\ [][Next]_vars

\* Timers fire, requests are served in the end, and a client takes what it is sent;
\* nobody has to start, leave or lose a stream.
FairSpec ==
  /\ Spec
  /\ WF_vars(UpdateFires) /\ WF_vars(ProgressFires)
  /\ \A c \in Clients : WF_vars(ServeRead(c)) /\ WF_vars(Woken(c))

-----------------------------------------------------------------------------
(* Properties.                                                             *)

\* openListenStreams is the number of open streams, however they end, and no timer
\* outlives the last one.
StreamsAreCounted ==
  /\ openStreams = Cardinality({c \in Clients : stream[c] = "open"})
  /\ updateTimer \/ progressTimer => openStreams > 0

\* While anybody listens the resources only advance: no read of another client, late
\* or orphaned, starts a new cycle under a listener.
CycleIsMonotone ==
  [][openStreams > 0 => status' >= status /\ stage' >= stage]_vars

\* A client that listens and waits with a text that is not the last has a notification
\* coming: it was told, or the timer is set, whoever else came and went meanwhile.
NobodyWaitsInVain ==
  ~closed =>
    \A c \in Clients :
      pc[c] = "wait" /\ stream[c] = "open" /\ text[c] < Last(c) =>
        told[c] \/ (IF c \in OneShots THEN updateTimer ELSE progressTimer)

\* Such a client is served to the end, unless it leaves or loses its stream.
WaitersAreServed ==
  \A c \in Clients :
    pc[c] = "wait" /\ text[c] < Last(c)
      ~> pc[c] \in Gone \/ stream[c] # "open" \/ closed

\* What the comment on ReviewStatusStore.reset says: each new subscription cycle
\* begins in the initial state, so that one server can be probed any number of times.
CycleStartsFresh ==
  [][openStreams = 0 /\ openStreams' = 1 => status = FirstVersion /\ stage = 0]_vars
=============================================================================
