-------------------------- MODULE StatusWatchProofs --------------------------
(***************************************************************************)
(* The watch loop, for every set of documents and every choice of the      *)
(* intervals, the limits and the number of attempts: its types, what its   *)
(* lines tell, honest exit codes and the deadline.                         *)
(***************************************************************************)
EXTENDS StatusWatch, SequenceTheorems, PrefixInduction

-----------------------------------------------------------------------------
(* Lines and what they tell, for any sequence of lines.                    *)

\* What may be observed.
Observations == {Observed[document] : document \in Readable}

\* What a line may be about.
Subjects ==
  {None, "none", "unobservable"} \cup Reasons \cup Observations
    \cup {StateName(observation) : observation \in Observations}
    \cup {observation.previous : observation \in Observations}

Lines == [type : LineTypes, what : Subjects]

LastIn(s, types, i) ==
  /\ i \in DOMAIN s
  /\ s[i].type \in types
  /\ \A j \in DOMAIN s : j > i => s[j].type \notin types

AdjacentIn(s, types, i, j) ==
  /\ i < j
  /\ s[i].type \in types /\ s[j].type \in types
  /\ \A k \in (i + 1) .. (j - 1) : s[k].type \notin types

Terminal == {"timeout", "action_required"}

\* The lines so far are news, and none of them is terminal.
NewsIn(s) ==
  /\ \A i, j \in DOMAIN s :
       AdjacentIn(s, {"state"}, i, j) \/ AdjacentIn(s, Reach, i, j) => s[i] # s[j]
  /\ \A j \in DOMAIN s : s[j].type = "recovered" =>
       \E i \in DOMAIN s : AdjacentIn(s, Reach, i, j)
  /\ \A i, j \in DOMAIN s :
       s[i].type = "not_received" /\ s[j].type = "not_received" => i = j

OpenIn(s) == \A i \in DOMAIN s : s[i].type \notin Terminal

ClosedIn(s) == \A i \in DOMAIN s : s[i].type \in Terminal => i = Len(s)

\* The last lines tell `state` and `reason`; not_received has been printed at most if `reported`.
StateIn(s, state) ==
  /\ \A i \in DOMAIN s : LastIn(s, {"state"}, i) => s[i].what = state /\ state # None
  /\ state # None => \E i \in DOMAIN s : LastIn(s, {"state"}, i)

ReachIn(s, reason) ==
  /\ \A i \in DOMAIN s : LastIn(s, Reach, i) =>
       s[i] = IF reason = None THEN Line("recovered", None) ELSE Line("unobservable", reason)
  /\ \/ \E i \in DOMAIN s : LastIn(s, Reach, i)
     \/ reason = None /\ \A i \in DOMAIN s : s[i].type \notin Reach

ReportedIn(s, reported) == reported \/ \A i \in DOMAIN s : s[i].type # "not_received"

Told(s, state, reason, reported) ==
  /\ s \in Seq(Lines)
  /\ NewsIn(s)
  /\ StateIn(s, state)
  /\ ReachIn(s, reason)
  /\ ReportedIn(s, reported)

\* A line more.
LEMMA AppendLine ==
  ASSUME NEW s \in Seq(Lines), NEW line \in Lines
  PROVE  /\ Append(s, line) \in Seq(Lines)
         /\ Len(s) \in Nat
         /\ Len(Append(s, line)) = Len(s) + 1
         /\ DOMAIN s = 1 .. Len(s)
         /\ DOMAIN Append(s, line) = 1 .. (Len(s) + 1)
         /\ \A i \in DOMAIN s : Append(s, line)[i] = s[i]
         /\ Append(s, line)[Len(s) + 1] = line
OBVIOUS

\* The last line of some types, once a line more is there.
LEMMA AppendLast ==
  ASSUME NEW s \in Seq(Lines), NEW line \in Lines, NEW types, NEW i \in DOMAIN Append(s, line)
  PROVE  LastIn(Append(s, line), types, i) <=>
           IF line.type \in types THEN i = Len(s) + 1 ELSE i \in DOMAIN s /\ LastIn(s, types, i)
<1> DEFINE t == Append(s, line)
<1>1. /\ Len(s) \in Nat /\ DOMAIN s = 1 .. Len(s) /\ DOMAIN t = 1 .. (Len(s) + 1)
      /\ \A k \in DOMAIN s : t[k] = s[k]
      /\ t[Len(s) + 1] = line
  BY AppendLine
<1> HIDE DEF t
<1>2. CASE line.type \in types
  BY <1>1, <1>2 DEF LastIn, t
<1>3. CASE line.type \notin types
  <2>1. ASSUME LastIn(t, types, i) PROVE i \in DOMAIN s /\ LastIn(s, types, i)
    BY <1>1, <1>3, <2>1 DEF LastIn
  <2>2. ASSUME i \in DOMAIN s, LastIn(s, types, i) PROVE LastIn(t, types, i)
    BY <1>1, <1>3, <2>2 DEF LastIn
  <2> QED
    BY <2>1, <2>2, <1>3 DEF t
<1> QED
  BY <1>2, <1>3

\* Neighbours, once a line more is there: those of before, and the last one and the new.
LEMMA AppendAdjacent ==
  ASSUME NEW s \in Seq(Lines), NEW line \in Lines, NEW types,
         NEW i \in DOMAIN Append(s, line), NEW j \in DOMAIN Append(s, line)
  PROVE  AdjacentIn(Append(s, line), types, i, j) <=>
           \/ i \in DOMAIN s /\ j \in DOMAIN s /\ AdjacentIn(s, types, i, j)
           \/ j = Len(s) + 1 /\ line.type \in types /\ i \in DOMAIN s /\ LastIn(s, types, i)
<1> DEFINE t == Append(s, line)
<1>1. /\ Len(s) \in Nat /\ DOMAIN s = 1 .. Len(s) /\ DOMAIN t = 1 .. (Len(s) + 1)
      /\ \A k \in DOMAIN s : t[k] = s[k]
      /\ t[Len(s) + 1] = line
  BY AppendLine
<1>2. i \in DOMAIN t /\ j \in DOMAIN t
  OBVIOUS
<1> HIDE DEF t
<1>3. CASE j \in DOMAIN s
  <2>1. AdjacentIn(t, types, i, j) => i \in DOMAIN s /\ AdjacentIn(s, types, i, j)
    BY <1>1, <1>2, <1>3 DEF AdjacentIn
  <2>2. i \in DOMAIN s /\ AdjacentIn(s, types, i, j) => AdjacentIn(t, types, i, j)
    BY <1>1, <1>2, <1>3 DEF AdjacentIn
  <2> QED
    BY <1>1, <1>3, <2>1, <2>2 DEF t
<1>4. CASE j = Len(s) + 1
  <2>1. AdjacentIn(t, types, i, j) => line.type \in types /\ i \in DOMAIN s /\ LastIn(s, types, i)
    BY <1>1, <1>2, <1>4 DEF AdjacentIn, LastIn
  <2>2. line.type \in types /\ i \in DOMAIN s /\ LastIn(s, types, i) => AdjacentIn(t, types, i, j)
    BY <1>1, <1>2, <1>4 DEF AdjacentIn, LastIn
  <2> QED
    BY <1>1, <1>4, <2>1, <2>2 DEF t
<1> QED
  BY <1>1, <1>2, <1>3, <1>4

\* A line that tells what is news: another state, another reason, or that none was received.
LEMMA TellLine ==
  ASSUME NEW s, NEW state, NEW reason, NEW reported \in BOOLEAN, Told(s, state, reason, reported),
         NEW line \in Lines, NEW newState, NEW newReason, NEW newReported \in BOOLEAN,
         line.type = "state" => line.what # state /\ line.what # None /\ newState = line.what,
         line.type # "state" => newState = state,
         line.type \in Reach =>
           /\ newReason # reason
           /\ line = IF newReason = None THEN Line("recovered", None)
                                         ELSE Line("unobservable", newReason),
         line.type \notin Reach => newReason = reason,
         line.type = "not_received" => ~reported /\ newReported,
         reported => newReported
  PROVE  Told(Append(s, line), newState, newReason, newReported)
<1> DEFINE t == Append(s, line)
<1>1. s \in Seq(Lines)
  BY DEF Told
<1>2. \A reach : /\ Line("recovered", reach).type = "recovered"
                 /\ Line("unobservable", reach).type = "unobservable"
                 /\ Line("unobservable", reach).what = reach
  BY DEF Line
<1>3. /\ t \in Seq(Lines) /\ Len(s) \in Nat /\ DOMAIN s = 1 .. Len(s)
      /\ DOMAIN t = 1 .. (Len(s) + 1)
      /\ \A k \in DOMAIN s : t[k] = s[k]
      /\ t[Len(s) + 1] = line
  BY <1>1, AppendLine
<1>4. ASSUME NEW i \in DOMAIN t
      PROVE  /\ LastIn(t, {"state"}, i) <=>
                  IF line.type = "state" THEN i = Len(s) + 1
                  ELSE i \in DOMAIN s /\ LastIn(s, {"state"}, i)
             /\ LastIn(t, Reach, i) <=>
                  IF line.type \in Reach THEN i = Len(s) + 1
                  ELSE i \in DOMAIN s /\ LastIn(s, Reach, i)
  BY <1>1, AppendLast
<1>5. ASSUME NEW i \in DOMAIN t, NEW j \in DOMAIN t
      PROVE  /\ AdjacentIn(t, {"state"}, i, j) <=>
                  \/ i \in DOMAIN s /\ j \in DOMAIN s /\ AdjacentIn(s, {"state"}, i, j)
                  \/ j = Len(s) + 1 /\ line.type = "state" /\ i \in DOMAIN s
                       /\ LastIn(s, {"state"}, i)
             /\ AdjacentIn(t, Reach, i, j) <=>
                  \/ i \in DOMAIN s /\ j \in DOMAIN s /\ AdjacentIn(s, Reach, i, j)
                  \/ j = Len(s) + 1 /\ line.type \in Reach /\ i \in DOMAIN s
                       /\ LastIn(s, Reach, i)
  BY <1>1, AppendAdjacent
<1> HIDE DEF t
<1>6. NewsIn(t)
  <2>1. ASSUME NEW i \in DOMAIN t, NEW j \in DOMAIN t,
               AdjacentIn(t, {"state"}, i, j) \/ AdjacentIn(t, Reach, i, j)
        PROVE  t[i] # t[j]
    <3>1. CASE i \in DOMAIN s /\ j \in DOMAIN s
      <4>1. AdjacentIn(s, {"state"}, i, j) \/ AdjacentIn(s, Reach, i, j)
        BY <2>1, <1>3, <1>5, <3>1
      <4> QED
        BY <4>1, <3>1, <1>3 DEF Told, NewsIn
    <3>2. CASE /\ j = Len(s) + 1 /\ i \in DOMAIN s
               /\ line.type = "state" /\ LastIn(s, {"state"}, i)
      <4>1. t[i].what = state
        BY <3>2, <1>3 DEF Told, StateIn
      <4> QED
        BY <4>1, <3>2, <1>3
    <3>3. CASE /\ j = Len(s) + 1 /\ i \in DOMAIN s
               /\ line.type \in Reach /\ LastIn(s, Reach, i)
      <4>1. t[i] = IF reason = None THEN Line("recovered", None) ELSE Line("unobservable", reason)
        BY <3>3, <1>3 DEF Told, ReachIn
      <4> QED
        BY <4>1, <3>3, <1>2, <1>3
    <3> QED
      BY <2>1, <1>3, <1>5, <3>1, <3>2, <3>3
  <2>2. ASSUME NEW j \in DOMAIN t, t[j].type = "recovered"
        PROVE  \E i \in DOMAIN t : AdjacentIn(t, Reach, i, j)
    <3>1. CASE j \in DOMAIN s
      <4>1. PICK i \in DOMAIN s : AdjacentIn(s, Reach, i, j)
        BY <2>2, <3>1, <1>3 DEF Told, NewsIn
      <4>2. i \in DOMAIN t /\ AdjacentIn(t, Reach, i, j)
        BY <3>1, <4>1, <1>3, <1>5
      <4> QED
        BY <4>2
    <3>2. CASE j = Len(s) + 1
      <4>1. line.type = "recovered" /\ line.type \in Reach
        BY <2>2, <3>2, <1>3 DEF Reach
      <4>2. newReason = None
        BY <4>1, <1>2
      <4>3. PICK i \in DOMAIN s : LastIn(s, Reach, i)
        BY <4>1, <4>2 DEF Told, ReachIn
      <4>4. i \in DOMAIN t /\ AdjacentIn(t, Reach, i, j)
        BY <3>2, <4>1, <4>3, <1>3, <1>5
      <4> QED
        BY <4>4
    <3> QED
      BY <1>3, <3>1, <3>2
  <2>3. ASSUME NEW i \in DOMAIN t, NEW j \in DOMAIN t,
               t[i].type = "not_received", t[j].type = "not_received"
        PROVE  i = j
    BY <2>3, <1>3 DEF Told, NewsIn, ReportedIn
  <2> QED
    BY <2>1, <2>2, <2>3 DEF NewsIn
<1>7. StateIn(t, newState)
  <2>1. CASE line.type = "state"
    BY <1>3, <1>4, <2>1 DEF StateIn
  <2>2. CASE line.type # "state"
    BY <1>3, <1>4, <2>2 DEF Told, StateIn
  <2> QED
    BY <2>1, <2>2
<1>8. ReachIn(t, newReason)
  <2>1. CASE line.type \in Reach
    BY <1>3, <1>4, <2>1 DEF ReachIn
  <2>2. CASE line.type \notin Reach
    BY <1>3, <1>4, <2>2 DEF Told, ReachIn
  <2> QED
    BY <2>1, <2>2
<1>9. ReportedIn(t, newReported)
  BY <1>3 DEF ReportedIn, Told
<1> QED
  BY <1>3, <1>6, <1>7, <1>8, <1>9 DEF Told, t

\* A line that does not tell any of it.
LEMMA TellNothing ==
  ASSUME NEW s, NEW state, NEW reason, NEW reported \in BOOLEAN, Told(s, state, reason, reported),
         NEW line \in Lines, line.type \in {"heartbeat", "timeout", "action_required"}
  PROVE  Told(Append(s, line), state, reason, reported)
BY TellLine DEF Reach

\* Terminal lines come last.
LEMMA AppendOpen ==
  ASSUME NEW s \in Seq(Lines), OpenIn(s), NEW line \in Lines
  PROVE  /\ ClosedIn(Append(s, line))
         /\ line.type \notin Terminal => OpenIn(Append(s, line))
BY AppendLine DEF OpenIn, ClosedIn

-----------------------------------------------------------------------------
(* The inductive invariant.                                                *)

\* What a round has come to is what has been printed.
HandledSound ==
  pc \in {"sleeping", "ended"} /\ exitCode # 4 =>
    /\ found.kind # "ok" => unobservable = found.kind
    /\ unobservable = None =>
         /\ found.kind = "ok"
         /\ found.observation.kind = "none" \/ previous = found.observation
         /\ exitCode = ExitCode

\* The item printed last is one the watch does not end with, as long as it goes on.
OngoingSound ==
  pc # "ended" /\ previous # None =>
    /\ previous.kind = "active"
    /\ ~(previous.state = "waiting" /\ previous.hold = "manual")

IInv ==
  /\ TypeOK
  /\ previous \in {None} \cup Observations
  /\ Told(output, previous, unobservable, notReceivedReported)
  /\ ClosedIn(output)
  /\ pc # "ended" => OpenIn(output) /\ exitCode = Running
  /\ HandledSound
  /\ OngoingSound

\* An observation has one of three kinds.
LEMMA ObservationKinds ==
  ASSUME NEW observation \in Observations
  PROVE  observation.kind \in {"none", "active", "finished"} /\ observation # None
<1>1. PICK document \in Readable : observation = Observe(document, Key, PreciseTime(After))
  BY DEF Observations, Observed
<1>2. \A items, recent, key, after :
        Select(items, recent, key, after).kind \in {"none", "active", "finished"}
  BY DEF Select, Active, Finished, Nothing
<1>3. observation # None
  BY NoneAssumption DEF Observations
<1> QED
  BY <1>1, <1>2, <1>3 DEF Observe

\* What has been found: a reason, or an observation.
LEMMA FoundIs ==
  ASSUME IsResult(found)
  PROVE  /\ found.kind \in (Reasons \ {"stale"}) \cup {"ok"}
         /\ found.kind = "ok" => found.observation \in Observations /\ found.updatedAt \in Int
BY DEF IsResult, Result, Reasons, Observations

LEMMA InitInv == Init => IInv
<1> SUFFICES ASSUME Init PROVE IInv
  OBVIOUS
<1>1. TypeOK
  <2>1. IsResult(found)
    BY DEF Init, IsResult, Unread, Reasons
  <2>2. 0 \in 0 .. MaxTime /\ 0 \in 0 .. Attempts /\ 0 \in 0 .. 0
    BY TimeAssumption
  <2>3. \A i \in DOMAIN output : output[i].type \in LineTypes
    BY DEF Init
  <2>4. previous = None /\ lastState = "none"
    BY DEF Init
  <2> QED
    BY <2>1, <2>2, <2>3, <2>4 DEF Init, TypeOK
<1>2. << >> \in Seq(Lines) /\ DOMAIN << >> = {} /\ output = << >>
  BY DEF Init
<1>3. Told(output, previous, unobservable, notReceivedReported)
  BY <1>2 DEF Init, Told, NewsIn, StateIn, ReachIn, ReportedIn
<1> QED
  BY <1>1, <1>2, <1>3 DEF Init, IInv, ClosedIn, OpenIn, HandledSound, OngoingSound

\* A step that prints nothing and learns nothing new.
LEMMA QuietInv ==
  ASSUME IInv, TypeOK',
         UNCHANGED << previous, unobservable, notReceivedReported, output, exitCode >>,
         pc # "ended", pc' # "ended", pc' # "sleeping" \/ UNCHANGED << pc, found >>
  PROVE  IInv'
<1>1. HandledSound'
  BY DEF IInv, HandledSound, ExitCode, HasCompleted, WaitsForTheUser
<1>2. OngoingSound'
  BY DEF IInv, OngoingSound
<1> QED
  BY <1>1, <1>2 DEF IInv, Told, NewsIn, StateIn, ReachIn, ReportedIn, ClosedIn, OpenIn,
                    LastIn, AdjacentIn

\* A sleep ends at a time.
LEMMA SleepIsTime ==
  ASSUME now \in Nat, NEW ticks \in Nat
  PROVE  /\ SleepUntil(ticks) \in Nat
         /\ SleepUntil(ticks) <= Timeout \/ SleepUntil(ticks) <= now
BY TimeAssumption DEF SleepUntil, Expired

-----------------------------------------------------------------------------
(* Handling a result.                                                      *)

\* A sequence of one line at the end.
LEMMA ConcatLine ==
  ASSUME NEW s \in Seq(Lines), NEW line \in Lines
  PROVE  << line >> \in Seq(Lines) /\ s \o << line >> = Append(s, line) /\ s \o << >> = s
OBVIOUS

\* The lines about the file.
LEMMA ReachLinesTold ==
  ASSUME IInv, pc # "ended"
  PROVE  /\ ReachLines \in Seq(Lines)
         /\ Told(output \o ReachLines, previous, Reason, notReceivedReported)
         /\ OpenIn(output \o ReachLines)
<1>1. /\ output \in Seq(Lines) /\ OpenIn(output) /\ notReceivedReported \in BOOLEAN
      /\ Told(output, previous, unobservable, notReceivedReported)
  BY DEF IInv, Told, TypeOK
<1>2. Reason \in Reasons \cup {None}
  BY FoundIs DEF IInv, TypeOK, Reason, Reasons
<1>3. CASE Reason = unobservable
  <2>1. ReachLines = << >>
    BY <1>3 DEF ReachLines, Observable
  <2> QED
    BY <1>1, <1>3, <2>1, ConcatEmptySeq, EmptySeq
<1>4. CASE Reason # unobservable
  <2> DEFINE line == IF Reason = None THEN Line("recovered", None) ELSE Line("unobservable", Reason)
  <2>1. ReachLines = << line >>
    BY <1>4 DEF ReachLines, Observable
  <2>2. line \in Lines /\ line.type \in Reach
    BY <1>2 DEF Line, Lines, LineTypes, Subjects, Reach
  <2>3. line.type \notin Terminal /\ line.type \notin {"state", "not_received"}
    BY DEF Line, Terminal
  <2> HIDE DEF line
  <2>4. << line >> \in Seq(Lines) /\ output \o << line >> = Append(output, line)
    BY <1>1, <2>2, ConcatLine
  <2>5. Told(Append(output, line), previous, Reason, notReceivedReported)
    <3>1. line = IF Reason = None THEN Line("recovered", None) ELSE Line("unobservable", Reason)
      BY DEF line
    <3> QED
      BY <1>1, <1>4, <2>2, <2>3, <3>1, TellLine
  <2>6. OpenIn(Append(output, line))
    BY <1>1, <2>2, <2>3, AppendOpen
  <2> QED
    BY <2>1, <2>4, <2>5, <2>6
<1> QED
  BY <1>3, <1>4

\* The lines about the item, the last of which is the reason of an exit.
LEMMA ObservationLinesTold ==
  ASSUME IInv, NEW s \in Seq(Lines), OpenIn(s), Told(s, previous, Reason, notReceivedReported)
  PROVE  LET all   == s \o ObservationLines
             state == IF IsNews THEN found.observation ELSE previous
             last  == all[Len(all)]
         IN /\ ObservationLines \in Seq(Lines)
            /\ Told(all, state, Reason, notReceivedReported \/ NotReceivedDue)
            /\ ClosedIn(all)
            /\ Exit = Running => OpenIn(all)
            /\ Exit \in {0, 1} => last.type = "state" /\ last.what = found.observation
            /\ Exit = 3 => last.type = "action_required"
<1>1. notReceivedReported \in BOOLEAN
  BY DEF IInv, TypeOK
<1>2. ClosedIn(s)
  BY DEF OpenIn, ClosedIn
<1>3. ASSUME Observable
      PROVE  /\ found.kind = "ok" /\ found.observation \in Observations
             /\ found.observation # None
             /\ found.observation.kind \in {"none", "active", "finished"}
  <2>1. found.kind = "ok"
    BY <1>3, FoundIs, NoneAssumption DEF IInv, TypeOK, Observable, Reason, Reasons
  <2> QED
    BY <2>1, FoundIs, ObservationKinds DEF IInv, TypeOK
<1>4. CASE NotReceivedDue
  <2> DEFINE line == Line("not_received", found.observation.previous)
  <2>1. ObservationLines = << line >> /\ ~IsNews /\ Exit = Running /\ ~notReceivedReported
    BY <1>4 DEF ObservationLines, NotReceivedDue, IsNews, Exit
  <2>2. line \in Lines /\ line.type = "not_received"
    BY <1>3, <1>4 DEF NotReceivedDue, Line, Lines, LineTypes, Subjects
  <2> HIDE DEF line
  <2>3. << line >> \in Seq(Lines) /\ s \o << line >> = Append(s, line)
    BY <2>2, ConcatLine
  <2>4. Told(Append(s, line), previous, Reason, TRUE)
    BY <1>1, <2>1, <2>2, TellLine DEF Reach
  <2>5. OpenIn(Append(s, line)) /\ ClosedIn(Append(s, line))
    BY <2>2, AppendOpen DEF Terminal
  <2>6. (notReceivedReported \/ NotReceivedDue) = TRUE
    BY <1>1, <1>4
  <2>7. s \o ObservationLines = Append(s, line) /\ ObservationLines \in Seq(Lines)
    BY <2>1, <2>3
  <2>8. ~IsNews /\ Exit \notin {0, 1, 3}
    BY <2>1 DEF Running
  <2> QED
    BY <2>4, <2>5, <2>6, <2>7, <2>8
<1>5. CASE ~NotReceivedDue /\ ~IsNews
  <2>1. ObservationLines = << >> /\ Exit = Running
    BY <1>5 DEF ObservationLines, Exit
  <2>2. s \o << >> = s /\ << >> \in Seq(Lines)
    BY ConcatEmptySeq, EmptySeq
  <2>3. (notReceivedReported \/ NotReceivedDue) = notReceivedReported
    BY <1>1, <1>5
  <2> QED
    BY <1>2, <1>5, <2>1, <2>2, <2>3 DEF Running
<1>6. CASE ~NotReceivedDue /\ IsNews
  <2> DEFINE line == Line("state", found.observation)
             t == Append(s, line)
  <2>1. /\ found.observation \in Observations /\ found.observation # None
        /\ found.observation.kind \in {"active", "finished"}
        /\ found.observation # previous
    BY <1>3, <1>6 DEF IsNews
  <2>2. line \in Lines /\ line.type = "state" /\ line.what = found.observation
    BY <2>1 DEF Line, Lines, LineTypes, Subjects
  <2> HIDE DEF line
  <2>3. Told(t, found.observation, Reason, notReceivedReported)
    BY <1>1, <2>1, <2>2, TellLine DEF Reach
  <2>4. t \in Seq(Lines) /\ OpenIn(t) /\ ClosedIn(t) /\ t[Len(t)] = line
    BY <2>2, AppendOpen, AppendLine DEF Terminal
  <2>5. (notReceivedReported \/ NotReceivedDue) = notReceivedReported
    BY <1>1, <1>6
  <2>6. CASE ~WaitsForTheUser
    <3>1. ObservationLines = << line >>
      BY <1>6, <2>6 DEF ObservationLines, line
    <3>2. s \o << line >> = t /\ << line >> \in Seq(Lines)
      BY <2>2, ConcatLine
    <3>3. Exit # 3
      BY <2>6 DEF Exit, ExitCode, Running
    <3> QED
      BY <1>6, <2>2, <2>3, <2>4, <2>5, <3>1, <3>2, <3>3
  <2>7. CASE WaitsForTheUser
    <3> DEFINE ask == Line("action_required", None)
               u == Append(t, ask)
    <3>1. ask \in Lines /\ ask.type = "action_required"
      BY DEF Line, Lines, LineTypes, Subjects
    <3>2. ObservationLines = << line >> \o << ask >>
      BY <1>6, <2>7 DEF ObservationLines, line
    <3> HIDE DEF ask
    <3>3. << line >> \in Seq(Lines) /\ << ask >> \in Seq(Lines) /\ s \o << line >> = t
      BY <2>2, <3>1, ConcatLine
    <3>4. s \o (<< line >> \o << ask >>) = t \o << ask >>
      BY <3>3, ConcatAssociative
    <3>5. t \o << ask >> = u
      BY <2>4, <3>1, ConcatLine
    <3>6. << line >> \o << ask >> \in Seq(Lines)
      BY <3>3, ConcatProperties
    <3>7. Told(u, found.observation, Reason, notReceivedReported)
      BY <1>1, <2>3, <3>1, TellNothing
    <3>8. ClosedIn(u)
      BY <2>4, <3>1, AppendOpen
    <3>9. u[Len(u)] = ask
      BY <2>4, <3>1, AppendLine
    <3>10. Exit = 3
      BY <1>6, <2>7 DEF Exit, ExitCode, WaitsForTheUser
    <3>11. s \o ObservationLines = u /\ ObservationLines \in Seq(Lines)
      BY <3>2, <3>4, <3>5, <3>6
    <3> HIDE DEF u
    <3> QED
      BY <1>6, <2>5, <3>1, <3>7, <3>8, <3>9, <3>10, <3>11 DEF Running
  <2> QED
    BY <2>6, <2>7
<1> QED
  BY <1>4, <1>5, <1>6

LEMMA LinesAssociate ==
  ASSUME NEW s \in Seq(Lines), NEW t \in Seq(Lines), NEW u \in Seq(Lines)
  PROVE  s \o (t \o u) = (s \o t) \o u
OBVIOUS

\* All of them, and the heartbeat of a round without any.
LEMMA ResultLinesTold ==
  ASSUME IInv, HandleResult
  PROVE  LET last == output'[Len(output')]
         IN /\ Told(output', previous', unobservable', notReceivedReported')
            /\ ClosedIn(output')
            /\ Exit = Running => OpenIn(output')
            /\ Exit \in {0, 1} => last.type = "state" /\ last.what = found.observation
            /\ Exit = 3 => last.type = "action_required"
<1> DEFINE s == output \o ReachLines
           all == s \o ObservationLines
           lines == ReachLines \o ObservationLines
           quiet == lines = << >> /\ now - lastEmitAt >= Heartbeat
           line == Heartbeats
<1>1. /\ ReachLines \in Seq(Lines) /\ OpenIn(s)
      /\ Told(s, previous, Reason, notReceivedReported)
  BY ReachLinesTold DEF HandleResult
<1>2. s \in Seq(Lines) /\ output \in Seq(Lines)
  BY <1>1 DEF Told, IInv
<1> HIDE DEF s
<1>3. /\ ObservationLines \in Seq(Lines)
      /\ Told(all, IF IsNews THEN found.observation ELSE previous, Reason,
              notReceivedReported \/ NotReceivedDue)
      /\ ClosedIn(all)
      /\ Exit = Running => OpenIn(all)
      /\ Exit \in {0, 1} => all[Len(all)].type = "state" /\ all[Len(all)].what = found.observation
      /\ Exit = 3 => all[Len(all)].type = "action_required"
  BY <1>1, <1>2, ObservationLinesTold
<1>4. output \o lines = all
  <2>1. ObservationLines \in Seq(Lines)
    BY <1>3
  <2>2. output \o (ReachLines \o ObservationLines) = (output \o ReachLines) \o ObservationLines
    <3>1. /\ output \in Seq(Lines) /\ ReachLines \in Seq(Lines)
          /\ ObservationLines \in Seq(Lines)
      BY <1>1, <1>2, <2>1
    <3> QED
      BY <3>1, LinesAssociate
  <2> QED
    BY <2>2 DEF s
<1>5. all \in Seq(Lines)
  BY <1>3 DEF Told
<1>6. /\ previous' = IF IsNews THEN found.observation ELSE previous
      /\ unobservable' = Reason
      /\ notReceivedReported' = (notReceivedReported \/ NotReceivedDue)
      /\ output' = all \o (IF quiet /\ Exit = Running THEN << line >> ELSE << >>)
  BY <1>4 DEF HandleResult
<1>7. CASE ~(quiet /\ Exit = Running)
  <2>1. output' = all
    BY <1>5, <1>6, <1>7, ConcatEmptySeq
  <2> QED
    BY <1>3, <1>6, <2>1
<1>8. CASE quiet /\ Exit = Running
  <2>1. line \in Lines /\ line.type = "heartbeat"
    <3>1. lastState \in Subjects
      BY DEF IInv, TypeOK, Subjects
    <3> QED
      BY <3>1 DEF Heartbeats, Line, Lines, LineTypes, Subjects
  <2> HIDE DEF line
  <2>2. output' = Append(all, line)
    BY <1>5, <1>6, <1>8, <2>1, ConcatLine
  <2>3. ClosedIn(Append(all, line)) /\ OpenIn(Append(all, line))
    BY <1>3, <1>5, <1>8, <2>1, AppendOpen DEF Terminal
  <2>4. notReceivedReported' \in BOOLEAN
    BY <1>6 DEF IInv, TypeOK
  <2>5. Told(all, previous', unobservable', notReceivedReported')
    BY <1>3, <1>6
  <2>6. Told(Append(all, line), previous', unobservable', notReceivedReported')
    BY <2>1, <2>4, <2>5, TellNothing
  <2> QED
    BY <1>8, <2>2, <2>3, <2>6 DEF Running
<1> QED
  BY <1>7, <1>8

\* What a step must show besides: the bodies of the action properties.
ExitStep ==
  exitCode' # exitCode =>
    LET last == output'[Len(output')]
    IN /\ exitCode' \in {0, 1} => last.type = "state" /\ last.what.kind = "finished"
       /\ exitCode' = 0 => last.what.outcome = "completed"
       /\ exitCode' = 3 => last.type = "action_required"
       /\ exitCode' # 4 => now < Timeout /\ now - found.updatedAt <= Stale

DeadlineStep ==
  /\ pc' # pc /\ pc' \in {"sleeping", "retry"} => wakeAt' <= Timeout \/ wakeAt' <= now
  /\ Expired /\ output' # output => output' = Append(output, Line("timeout", None))

\* A result that is in before the deadline is handled.
LEMMA HandleSound ==
  ASSUME IInv, Handle
  PROVE  IInv' /\ ExitStep /\ DeadlineStep
<1> USE DEF Handle
<1>1. HandleResult /\ ~Expired /\ now \in Nat
  BY DEF IInv, TypeOK
<1>2. /\ Told(output', previous', unobservable', notReceivedReported')
      /\ ClosedIn(output')
      /\ Exit = Running => OpenIn(output')
      /\ Exit \in {0, 1} => output'[Len(output')].type = "state"
                              /\ output'[Len(output')].what = found.observation
      /\ Exit = 3 => output'[Len(output')].type = "action_required"
  BY <1>1, ResultLinesTold
<1>3. ASSUME Observable
      PROVE  /\ found.kind = "ok" /\ found.observation \in Observations
             /\ found.observation # None
             /\ found.observation.kind \in {"none", "active", "finished"}
             /\ now - found.updatedAt <= Stale
  <2>1. found.kind = "ok"
    BY <1>3, FoundIs, NoneAssumption DEF IInv, TypeOK, Observable, Reason, Reasons
  <2>2. found.observation \in Observations /\ found.updatedAt \in Int
    BY <2>1, FoundIs DEF IInv, TypeOK
  <2>3. ~(now - found.updatedAt > Stale)
    BY <1>3, <2>1, NoneAssumption DEF Observable, Reason, Reasons
  <2> QED
    BY <1>1, <2>1, <2>2, <2>3, ObservationKinds, TimeAssumption
<1>4. Exit \in {0, 1, 3, Running}
  BY DEF Exit, ExitCode, Running
<1>5. Reason \in {None} \cup Reasons
  BY FoundIs DEF IInv, TypeOK, Reason, Reasons
<1>6. previous' \in {None} \cup Observations
  BY <1>1, <1>3 DEF HandleResult, IsNews, IInv
<1>7. wakeAt' \in Nat /\ (wakeAt' <= Timeout \/ wakeAt' <= now)
  BY <1>1, SleepIsTime, TimeAssumption DEF HandleResult
<1>8. TypeOK'
  <2>1. /\ now' \in 0 .. MaxTime
        /\ pc' \in {"top", "reading", "retry", "handle", "sleeping", "ended"}
        /\ attempt' \in 0 .. Attempts
        /\ notReceivedReported' \in BOOLEAN
    BY <1>1 DEF HandleResult, IInv, TypeOK
  <2>2. IsResult(found)'
    BY <1>1 DEF HandleResult, IInv, TypeOK, IsResult
  <2>3. lastEmitAt' \in 0 .. now'
    BY <1>1 DEF HandleResult, IInv, TypeOK
  <2>4. unobservable' \in {None} \cup Reasons /\ exitCode' \in {0, 1, 3, 4, Running}
    BY <1>1, <1>4, <1>5 DEF HandleResult
  <2>5. \A i \in DOMAIN output' : output'[i].type \in LineTypes
    <3>1. output' \in Seq(Lines)
      BY <1>2 DEF Told
    <3>2. \A i \in DOMAIN output' : output'[i] \in Lines
      BY <3>1
    <3> QED
      BY <3>2 DEF Lines
  <2>6. /\ previous' = None \/ previous'.kind \in {"active", "finished"}
        /\ lastState' = IF previous' = None THEN "none" ELSE StateName(previous')
    <3>1. CASE IsNews
      <4>1. previous' = found.observation /\ lastState' = StateName(found.observation)
        BY <1>1, <3>1 DEF HandleResult
      <4>2. found.observation # None /\ found.observation.kind \in {"active", "finished"}
        BY <1>3, <3>1 DEF IsNews
      <4> QED
        BY <4>1, <4>2
    <3>2. CASE ~IsNews
      BY <1>1, <3>2 DEF HandleResult, IInv, TypeOK
    <3> QED
      BY <3>1, <3>2
  <2> QED
    BY <1>7, <2>1, <2>2, <2>3, <2>4, <2>5, <2>6 DEF TypeOK
<1>9. HandledSound'
  <2>1. UNCHANGED found /\ unobservable' = Reason
    BY <1>1 DEF HandleResult
  <2>2. found.kind # "ok" => Reason = found.kind
    BY DEF Reason
  <2>3. Observable => found.observation.kind = "none" \/ previous' = found.observation
    BY <1>1, <1>3 DEF HandleResult, IsNews
  <2>4. ASSUME Observable PROVE Exit = ExitCode
    <3>1. CASE IsNews
      BY <3>1 DEF Exit
    <3>2. CASE ~IsNews
      <4>1. \/ found.observation.kind = "none"
            \/ found.observation = previous /\ previous # None
        BY <1>3, <2>4, <3>2 DEF IsNews
      <4>2. ExitCode = Running
        BY <1>1, <4>1 DEF HandleResult, IInv, OngoingSound, ExitCode, WaitsForTheUser
      <4> QED
        BY <3>2, <4>2 DEF Exit
    <3> QED
      BY <3>1, <3>2
  <2>5. exitCode' = Exit /\ ExitCode' = ExitCode
    BY <1>1, <2>1 DEF HandleResult, ExitCode, HasCompleted, WaitsForTheUser
  <2>6. unobservable' = None => Observable
    BY <2>1 DEF Observable
  <2> QED
    BY <1>3, <2>1, <2>2, <2>3, <2>4, <2>5, <2>6 DEF HandledSound
<1>10. (pc # "ended" => OpenIn(output) /\ exitCode = Running)'
  BY <1>1, <1>2 DEF HandleResult
<1>11. OngoingSound'
  <2>1. CASE IsNews
    <3>1. previous' = found.observation /\ Exit = ExitCode
      BY <1>1, <2>1 DEF HandleResult, Exit
    <3>2. pc' # "ended" => Exit = Running
      BY <1>1 DEF HandleResult
    <3>3. found.observation.kind \in {"active", "finished"}
      BY <1>3, <2>1 DEF IsNews
    <3>4. ExitCode = Running =>
            found.observation.kind # "finished" /\ ~WaitsForTheUser
      BY DEF ExitCode, Running
    <3> QED
      BY <3>1, <3>2, <3>3, <3>4 DEF OngoingSound, WaitsForTheUser
  <2>2. CASE ~IsNews
    BY <1>1, <2>2 DEF HandleResult, IInv, OngoingSound
  <2> QED
    BY <2>1, <2>2
<1>12. ExitStep
  <2>1. pc = "handle" /\ exitCode = Running /\ exitCode' = Exit
    BY <1>1 DEF HandleResult, IInv
  <2>2. SUFFICES ASSUME Exit # Running PROVE ExitStep
    BY <2>1 DEF ExitStep
  <2>3. IsNews /\ Observable /\ Exit = ExitCode
    BY <2>2 DEF Exit, IsNews
  <2>4. now < Timeout /\ now - found.updatedAt <= Stale
    BY <1>1, <1>3, <2>3, TimeAssumption DEF Expired
  <2>5. Exit \in {0, 1} => found.observation.kind = "finished"
    BY <2>2, <2>3 DEF ExitCode, Running
  <2>6. Exit = 0 => found.observation.outcome = "completed"
    BY <2>2, <2>3 DEF ExitCode, HasCompleted, Running
  <2> QED
    BY <1>2, <2>1, <2>4, <2>5, <2>6 DEF ExitStep
<1>13. DeadlineStep
  BY <1>1, <1>7 DEF DeadlineStep
<1> QED
  BY <1>2, <1>6, <1>8, <1>9, <1>10, <1>11, <1>12, <1>13 DEF IInv

-----------------------------------------------------------------------------
(* The other steps.                                                        *)

\* The part of the types that a step without a line may change.
LEMMA QuietTypes ==
  ASSUME TypeOK,
         UNCHANGED << lastEmitAt, previous, unobservable, notReceivedReported, lastState,
                      output, exitCode >>,
         now' \in now .. MaxTime,
         pc' \in {"top", "reading", "retry", "handle", "sleeping"},
         wakeAt' \in Nat, attempt' \in 0 .. Attempts, IsResult(found')
  PROVE  TypeOK'
<1>1. now' \in 0 .. MaxTime /\ lastEmitAt' \in 0 .. now'
  BY TimeAssumption DEF TypeOK
<1> QED
  BY <1>1 DEF TypeOK

\* A step that starts, tries again or ends something, and prints nothing.
LEMMA LoopQuiet ==
  ASSUME IInv, StartRead \/ RetryOver \/ Wake \/ Retry \/ Tick
  PROVE  IInv' /\ ExitStep /\ DeadlineStep
<1>1. /\ now \in 0 .. MaxTime /\ wakeAt \in Nat /\ attempt \in 0 .. Attempts /\ IsResult(found)
      /\ pc \in {"top", "reading", "retry", "handle", "sleeping", "ended"}
      /\ TypeOK
  BY DEF IInv, TypeOK
<1>2. /\ UNCHANGED << found, lastEmitAt, previous, unobservable, notReceivedReported, lastState,
                      output, exitCode >>
      /\ pc # "ended"
  BY DEF StartRead, RetryOver, Wake, Retry, Tick
<1>3. now' \in now .. MaxTime
  BY <1>1, TimeAssumption DEF StartRead, RetryOver, Wake, Retry, Tick
<1>4. /\ pc' \in {"top", "reading", "retry", "handle", "sleeping"}
      /\ pc' # "sleeping" \/ pc' = pc
  BY <1>1 DEF StartRead, RetryOver, Wake, Retry, Tick
<1>5. attempt' \in 0 .. Attempts
  BY <1>1, TimeAssumption DEF StartRead, RetryOver, Wake, Retry, Tick
<1>6. /\ wakeAt' \in Nat
      /\ pc' # pc /\ pc' = "retry" => wakeAt' <= Timeout \/ wakeAt' <= now
  <2>1. CASE Retry
    <3>1. now \in Nat /\ RetryDelay \in Nat /\ wakeAt' = SleepUntil(RetryDelay)
      BY <1>1, <2>1, TimeAssumption DEF Retry
    <3> QED
      BY <3>1, SleepIsTime
  <2>2. CASE StartRead \/ RetryOver \/ Wake \/ Tick
    BY <1>1, <2>2 DEF StartRead, RetryOver, Wake, Tick
  <2> QED
    BY <2>1, <2>2
<1>7. TypeOK'
  BY <1>1, <1>2, <1>3, <1>4, <1>5, <1>6, QuietTypes
<1>8. IInv'
  BY <1>2, <1>4, <1>7, QuietInv
<1> QED
  BY <1>2, <1>4, <1>6, <1>8 DEF ExitStep, DeadlineStep

\* A read comes to a result.
LEMMA ReadQuiet ==
  ASSUME IInv, ReadDocument \/ ReadUnobservable \/ ReadUnreadable
  PROVE  IInv' /\ ExitStep /\ DeadlineStep
<1>1. now \in 0 .. MaxTime /\ wakeAt \in Nat /\ attempt \in 0 .. Attempts /\ TypeOK
  BY DEF IInv, TypeOK
<1>2. PICK result : Settle(result) /\ IsResult(result)
  <2>1. CASE ReadDocument
    <3>1. PICK document \in Readable, age \in {0, Stale, Stale + 1} :
                 Settle(Result(document, now - age))
      BY <2>1 DEF ReadDocument
    <3>2. now - age \in Int
      BY <1>1, TimeAssumption
    <3>3. IsResult(Result(document, now - age))
      BY <3>2 DEF IsResult, Result
    <3> QED
      BY <3>1, <3>3
  <2>2. CASE ReadUnobservable
    BY <2>2 DEF ReadUnobservable, IsResult, Reasons
  <2>3. CASE ReadUnreadable
    BY <2>3 DEF ReadUnreadable, IsResult, Reasons
  <2> QED
    BY <2>1, <2>2, <2>3
<1>3. /\ UNCHANGED << now, wakeAt, attempt, lastEmitAt, previous, unobservable,
                      notReceivedReported, lastState, output, exitCode >>
      /\ pc = "reading" /\ pc' = "handle" /\ IsResult(found')
  BY <1>2 DEF Settle
<1>4. now' \in now .. MaxTime
  BY <1>1, <1>3, TimeAssumption
<1>5. TypeOK'
  BY <1>1, <1>3, <1>4, QuietTypes
<1>6. IInv'
  BY <1>3, <1>5, QuietInv
<1> QED
  BY <1>3, <1>6 DEF ExitStep, DeadlineStep

\* The deadline: one line, and the end.
LEMMA DeadlineSound ==
  ASSUME IInv, DeadlineReached
  PROVE  IInv' /\ ExitStep /\ DeadlineStep
<1> DEFINE line == Line("timeout", None)
<1>1. /\ pc # "ended" /\ pc' = "ended" /\ exitCode' = 4 /\ lastEmitAt' = now
      /\ output' = Append(output, line)
      /\ UNCHANGED << now, wakeAt, attempt, found, previous, unobservable,
                      notReceivedReported, lastState >>
  BY DEF DeadlineReached, TimesOut
<1>2. line \in Lines /\ line.type = "timeout"
  BY DEF Line, Lines, LineTypes, Subjects
<1>3. /\ TypeOK /\ output \in Seq(Lines) /\ OpenIn(output) /\ notReceivedReported \in BOOLEAN
      /\ Told(output, previous, unobservable, notReceivedReported)
  BY <1>1 DEF IInv, Told, TypeOK
<1>4. DeadlineStep
  BY <1>1 DEF DeadlineStep
<1> HIDE DEF line
<1>5. ClosedIn(output') /\ output' \in Seq(Lines)
  BY <1>1, <1>2, <1>3, AppendOpen, AppendLine
<1>6. Told(output', previous', unobservable', notReceivedReported')
  BY <1>1, <1>2, <1>3, TellNothing
<1>7. \A i \in DOMAIN output' : output'[i].type \in LineTypes
  <2>1. \A i \in DOMAIN output' : output'[i] \in Lines
    BY <1>5
  <2> QED
    BY <2>1 DEF Lines
<1>8. TypeOK'
  <2>1. lastEmitAt' \in 0 .. now' /\ now' \in 0 .. MaxTime
    BY <1>1, <1>3 DEF TypeOK
  <2> QED
    BY <1>1, <1>3, <1>7, <2>1 DEF TypeOK
<1>9. (previous \in {None} \cup Observations)'
  BY <1>1 DEF IInv
<1>10. ExitStep
  BY <1>1 DEF ExitStep
<1> QED
  BY <1>1, <1>4, <1>5, <1>6, <1>8, <1>9, <1>10 DEF IInv, HandledSound, OngoingSound

\* Every step.
LEMMA NextInv ==
  ASSUME IInv, [Next]_vars
  PROVE  IInv' /\ (vars' # vars => ExitStep /\ DeadlineStep)
<1>1. CASE UNCHANGED vars
  <2>1. HandledSound'
    BY <1>1 DEF vars, IInv, HandledSound, ExitCode, HasCompleted, WaitsForTheUser
  <2>2. OngoingSound'
    BY <1>1 DEF vars, IInv, OngoingSound
  <2> QED
    BY <1>1, <2>1, <2>2 DEF vars, IInv, TypeOK, Told, NewsIn, StateIn, ReachIn, ReportedIn,
                            ClosedIn, OpenIn, LastIn, AdjacentIn
<1>2. CASE ReadDocument \/ ReadUnobservable \/ ReadUnreadable
  BY <1>2, ReadQuiet
<1>3. CASE StartRead \/ RetryOver \/ Wake \/ Retry \/ Tick
  BY <1>3, LoopQuiet
<1>4. CASE Handle
  BY <1>4, HandleSound
<1>5. CASE DeadlineReached
  BY <1>5, DeadlineSound
<1>6. CASE Terminated
  BY <1>1, <1>6 DEF Terminated
<1> QED
  BY <1>1, <1>2, <1>3, <1>4, <1>5, <1>6 DEF Next, ReadStep, LoopStep

-----------------------------------------------------------------------------
(* Times, by their digits and as numbers.                                  *)

\* The digits of a time.
LEMMA PreciseDigits ==
  ASSUME NEW raw \in Times
  PROVE  /\ raw.seconds \in Int /\ PreciseTime(raw).seconds = raw.seconds
         /\ PreciseTime(raw).fraction \in [1 .. Width -> 0 .. 9]
<1>1. raw.seconds \in Int /\ raw.digits \in Seq(0 .. 9)
  BY DEF Times
<1>2. ASSUME NEW i \in 1 .. Width
      PROVE  (IF i <= Len(raw.digits) THEN raw.digits[i] ELSE 0) \in 0 .. 9
  <2>1. Len(raw.digits) \in Nat /\ i \in Nat /\ 0 \in 0 .. 9
    BY <1>1 DEF Width
  <2>2. i <= Len(raw.digits) => i \in DOMAIN raw.digits
    BY <1>1, <2>1
  <2> QED
    BY <1>1, <2>1, <2>2
<1> QED
  BY <1>1, <1>2 DEF PreciseTime

\* The values of the prefixes of a fraction with these digits.
IsNumeral(number, digits, N) ==
  /\ number \in [0 .. N -> Nat]
  /\ number[0] = 0
  /\ \A n \in 1 .. N : number[n] = 10 * number[n - 1] + digits[n]

\* The fraction of a time is the number its digits are the decimals of.
LEMMA NanosecondsRun ==
  ASSUME NEW raw \in Times
  PROVE  \E number : /\ IsNumeral(number, PreciseTime(raw).fraction, Width)
                      /\ Nanoseconds(raw) = number[Width]
<1> DEFINE digit == PreciseTime(raw).fraction
           step == [n \in 1 .. Width |-> [sum \in Nat |-> 10 * sum + digit[n]]]
           IsNumber(f) == f = [n \in 0 .. Width |->
                                 IF n = 0 THEN 0 ELSE 10 * f[n - 1] + digit[n]]
           number == CHOOSE f : IsNumber(f)
<1>1. digit \in [1 .. Width -> 0 .. 9] /\ Width \in Nat /\ 0 \in Nat
  BY PreciseDigits DEF Width
<1>2. Nanoseconds(raw) = number[Width]
  BY DEF Nanoseconds
<1> HIDE DEF digit
<1>3. step \in [1 .. Width -> [Nat -> Nat]]
  BY <1>1
<1>4. PICK f : IsLoop(f, Width, Nat, 0, step)
  <2> HIDE DEF step
  <2> QED
    BY <1>1, <1>3, PrefixRecursion
<1>5. IsNumber(f)
  <2>1. f \in [0 .. Width -> Nat] /\ f[0] = 0
    BY <1>4 DEF IsLoop
  <2>2. ASSUME NEW n \in 1 .. Width PROVE f[n] = 10 * f[n - 1] + digit[n]
    <3>1. n - 1 \in 0 .. Width
      BY <1>1
    <3>2. f[n] = step[n][f[n - 1]]
      <4> HIDE DEF step
      <4> QED
        BY <1>4 DEF IsLoop
    <3>3. f[n - 1] \in Nat
      BY <2>1, <3>1
    <3> QED
      BY <3>2, <3>3
  <2> QED
    BY <1>1, <2>1, <2>2
<1>6. IsNumber(number)
  <2> HIDE DEF IsNumber
  <2> QED
    BY <1>5
<1> HIDE DEF number
<1>7. /\ number = [n \in 0 .. Width |-> number[n]]
      /\ number[0] = 0
      /\ \A n \in 1 .. Width : number[n] = 10 * number[n - 1] + digit[n]
  BY <1>1, <1>6
<1>8. ASSUME NEW n \in 1 .. Width, number[n - 1] \in Nat PROVE number[n] \in Nat
  <2>1. digit[n] \in 0 .. 9
    BY <1>1
  <2>2. number[n] = 10 * number[n - 1] + digit[n]
    BY <1>7
  <2> QED
    BY <1>8, <2>1, <2>2
<1>9. number \in [0 .. Width -> Nat]
  <2> HIDE DEF IsNumber
  <2> QED
    <3>1. Width \in Nat /\ number = [n \in 0 .. Width |-> number[n]] /\ number[0] \in Nat
      BY <1>1, <1>7
    <3>2. \A n \in 1 .. Width : number[n - 1] \in Nat => number[n] \in Nat
      BY <1>8
    <3> QED
      BY <3>1, <3>2, PrefixType, Zenon
<1>10. IsNumeral(number, digit, Width)
  BY <1>7, <1>9 DEF IsNumeral
<1> QED
  BY <1>2, <1>10 DEF digit

\* The number of a fraction with the digits `a` precedes that with `b`, up to digit n.
Precede(a, b, n) ==
  \E i \in 1 .. n : a[i] < b[i] /\ \A j \in 1 .. (i - 1) : a[j] = b[j]

\* A digit more.
LEMMA DigitMore ==
  ASSUME NEW p \in Nat, NEW q \in Nat, NEW c \in 0 .. 9, NEW d \in 0 .. 9
  PROVE  /\ 10 * p + c < 10 * q + d <=> p < q \/ (p = q /\ c < d)
         /\ 10 * p + c = 10 * q + d <=> p = q /\ c = d
OBVIOUS

\* Numbers compare as the first of their digits that differ.
LEMMA DigitsCompare ==
  ASSUME NEW N \in Nat, NEW a \in [1 .. N -> 0 .. 9], NEW b \in [1 .. N -> 0 .. 9],
         NEW x, NEW y, IsNumeral(x, a, N), IsNumeral(y, b, N)
  PROVE  /\ x[N] < y[N] <=> Precede(a, b, N)
         /\ x[N] = y[N] <=> \A j \in 1 .. N : a[j] = b[j]
<1> DEFINE Same(n) == \A j \in 1 .. n : a[j] = b[j]
           T == {n \in 0 .. N : (x[n] < y[n] <=> Precede(a, b, n)) /\ (x[n] = y[n] <=> Same(n))}
<1>1. 0 \in T
  BY DEF Precede, IsNumeral
<1>2. ASSUME NEW n \in 1 .. N, n - 1 \in T PROVE n \in T
  <2>1. n - 1 \in 0 .. N
    OBVIOUS
  <2> DEFINE p == x[n - 1]
             q == y[n - 1]
             c == a[n]
             d == b[n]
  <2>2. p \in Nat /\ q \in Nat /\ c \in 0 .. 9 /\ d \in 0 .. 9
    BY <2>1 DEF IsNumeral
  <2>3. x[n] = 10 * p + c /\ y[n] = 10 * q + d
    BY <2>1 DEF IsNumeral
  <2>4. /\ x[n - 1] < y[n - 1] <=> Precede(a, b, n - 1)
        /\ x[n - 1] = y[n - 1] <=> Same(n - 1)
    BY <1>2
  <2>5. /\ 10 * p + c < 10 * q + d <=> p < q \/ (p = q /\ c < d)
        /\ 10 * p + c = 10 * q + d <=> p = q /\ c = d
    <3> HIDE DEF Same, p, q, c, d
    <3> QED
      BY <2>2, DigitMore
  <2>6. /\ x[n] < y[n] <=> x[n - 1] < y[n - 1] \/ (x[n - 1] = y[n - 1] /\ a[n] < b[n])
        /\ x[n] = y[n] <=> x[n - 1] = y[n - 1] /\ a[n] = b[n]
    BY <2>3, <2>5, Zenon
  <2>7. \A i \in 1 .. n : i \in 1 .. (n - 1) \/ i = n
    OBVIOUS
  <2>8. n \in 1 .. n /\ n \in 0 .. N /\ \A i \in 1 .. (n - 1) : i \in 1 .. n
    OBVIOUS
  <2>9. Precede(a, b, n) <=> Precede(a, b, n - 1) \/ (a[n] < b[n] /\ Same(n - 1))
    BY <2>7, <2>8 DEF Precede
  <2>10. Same(n) <=> a[n] = b[n] /\ Same(n - 1)
    BY <2>7, <2>8
  <2> HIDE DEF Same
  <2> QED
    BY <2>4, <2>6, <2>8, <2>9, <2>10
<1>3. 0 .. N \subseteq T
  <2> HIDE DEF T
  <2> QED
    BY <1>1, <1>2, PrefixInduction
<1>4. N \in T
  BY <1>3
<1> QED
  BY <1>4

\* A time is before another as a number if it is by the digits.
LEMMA BeforeIsLater ==
  ASSUME NEW a \in Times, NEW b \in Times
  PROVE  /\ IsBefore(a, b) <=> Later(PreciseTime(b), PreciseTime(a))
         /\ a.seconds \in Int /\ Nanoseconds(a) \in Nat
<1> DEFINE f == PreciseTime(a).fraction
           g == PreciseTime(b).fraction
<1>1. PICK x : IsNumeral(x, f, Width) /\ Nanoseconds(a) = x[Width]
  BY NanosecondsRun
<1>2. PICK y : IsNumeral(y, g, Width) /\ Nanoseconds(b) = y[Width]
  BY NanosecondsRun
<1>3. /\ a.seconds \in Int /\ PreciseTime(a).seconds = a.seconds
      /\ b.seconds \in Int /\ PreciseTime(b).seconds = b.seconds
      /\ f \in [1 .. Width -> 0 .. 9] /\ g \in [1 .. Width -> 0 .. 9]
  BY PreciseDigits
<1>4. Width \in Nat /\ Width \in 0 .. Width
  BY DEF Width
<1>5. Later(PreciseTime(b), PreciseTime(a)) <=>
        a.seconds < b.seconds \/ (a.seconds = b.seconds /\ Precede(f, g, Width))
  <2>1. \A i \in 1 .. Width : f[i] < g[i] <=> g[i] > f[i]
    BY <1>3
  <2>2. (a.seconds < b.seconds <=> b.seconds > a.seconds) /\ (a.seconds = b.seconds <=> b.seconds = a.seconds)
    BY <1>3
  <2> HIDE DEF f, g
  <2>3. Later(PreciseTime(b), PreciseTime(a)) <=>
          \/ b.seconds > a.seconds
          \/ /\ b.seconds = a.seconds
             /\ \E i \in 1 .. Width : g[i] > f[i] /\ \A j \in 1 .. (i - 1) : g[j] = f[j]
    BY <1>3 DEF Later, f, g
  <2> QED
    BY <2>1, <2>2, <2>3 DEF Precede
<1>6. x[Width] < y[Width] <=> Precede(f, g, Width)
  <2> HIDE DEF f, g
  <2> QED
    BY <1>1, <1>2, <1>3, <1>4, DigitsCompare
<1>7. Nanoseconds(a) \in Nat
  BY <1>1, <1>4 DEF IsNumeral
<1> HIDE DEF f, g
<1> QED
  BY <1>1, <1>2, <1>3, <1>5, <1>6, <1>7 DEF IsBefore

-----------------------------------------------------------------------------
(* Selecting the item of a document, whatever its entries are.             *)

\* The entries of a list that are kept.
Kept(entries) ==
  IF entries = None THEN {}
  ELSE {ToEntry(entry) : entry \in {entries[i] : i \in {j \in DOMAIN entries : IsEntry(entries[j])}}}

\* What is in a list once one more is there.
LEMMA AppendRange ==
  ASSUME NEW S, NEW s \in Seq(S), NEW e \in S
  PROVE  /\ Append(s, e) \in Seq(S)
         /\ ToSet(Append(s, e)) = ToSet(s) \cup {e}
<1>1. /\ Len(s) \in Nat /\ DOMAIN s = 1 .. Len(s)
      /\ DOMAIN Append(s, e) = 1 .. (Len(s) + 1)
      /\ Append(s, e)[Len(s) + 1] = e
      /\ Append(s, e) \in Seq(S)
  OBVIOUS
<1>2. \A k \in DOMAIN s : Append(s, e)[k] = s[k]
  OBVIOUS
<1> DEFINE t == Append(s, e)
<1> HIDE DEF t
<1>3. \A k \in DOMAIN t : k \in DOMAIN s \/ k = Len(s) + 1
  BY <1>1 DEF t
<1>4. \A k \in DOMAIN s \cup {Len(s) + 1} : k \in DOMAIN t
  BY <1>1 DEF t
<1>5. {t[k] : k \in DOMAIN t} = {s[k] : k \in DOMAIN s} \cup {e}
  BY <1>1, <1>2, <1>3, <1>4 DEF t
<1> QED
  BY <1>1, <1>5 DEF t, ToSet

\* The entries that are kept, in a sequence.
LEMMA ToEntriesKeeps ==
  ASSUME NEW entries, IsField(entries)
  PROVE  /\ ToEntries(entries) \in Seq(Kept(entries))
         /\ ToSet(ToEntries(entries)) = Kept(entries)
<1>1. CASE entries = None
  <2>1. ToEntries(entries) = << >> /\ Kept(entries) = {}
    BY <1>1 DEF ToEntries, Kept
  <2> QED
    BY <2>1 DEF ToSet
<1>2. CASE entries # None
  <2> DEFINE N == Len(entries)
             S == Kept(entries)
             step == [n \in 1 .. N |-> [sofar \in Seq(S) |->
                        IF IsEntry(entries[n]) THEN Append(sofar, ToEntry(entries[n])) ELSE sofar]]
             IsKept(f) == f = [n \in 0 .. N |->
                IF n = 0 THEN << >>
                ELSE IF IsEntry(entries[n]) THEN Append(f[n - 1], ToEntry(entries[n]))
                ELSE f[n - 1]]
             kept == CHOOSE f : IsKept(f)
             Before(n) == {ToEntry(entry) : entry \in {entries[i] : i \in {j \in 1 .. n : IsEntry(entries[j])}}}
  <2>1. N \in Nat /\ DOMAIN entries = 1 .. N
    BY <1>2 DEF IsField
  <2>2. ToEntries(entries) = kept[N]
    BY <1>2 DEF ToEntries
  <2> HIDE DEF N
  <2>3. ASSUME NEW n \in 1 .. N, IsEntry(entries[n]) PROVE ToEntry(entries[n]) \in S
    BY <1>2, <2>1, <2>3 DEF Kept
  <2>4. S = Before(N)
    BY <1>2, <2>1 DEF Kept
  <2> HIDE DEF S
  <2>5. step \in [1 .. N -> [Seq(S) -> Seq(S)]]
    <3>1. ASSUME NEW n \in 1 .. N, NEW sofar \in Seq(S)
          PROVE (IF IsEntry(entries[n]) THEN Append(sofar, ToEntry(entries[n])) ELSE sofar) \in Seq(S)
      BY <2>3, AppendRange
    <3> QED
      BY <3>1
  <2>6. << >> \in Seq(S)
    OBVIOUS
  <2>7. PICK f : IsLoop(f, N, Seq(S), << >>, step)
    <3> HIDE DEF step
    <3> QED
      BY <2>1, <2>5, <2>6, PrefixRecursion
  <2>8. IsKept(f)
    <3>1. f \in [0 .. N -> Seq(S)] /\ f[0] = << >>
      BY <2>7 DEF IsLoop
    <3>2. ASSUME NEW n \in 1 .. N
          PROVE  f[n] = IF IsEntry(entries[n]) THEN Append(f[n - 1], ToEntry(entries[n])) ELSE f[n - 1]
      <4>1. n - 1 \in 0 .. N
        BY <2>1
      <4>2. f[n] = step[n][f[n - 1]]
        <5> HIDE DEF step
        <5> QED
          BY <2>7 DEF IsLoop
      <4>3. f[n - 1] \in Seq(S)
        BY <3>1, <4>1
      <4> QED
        BY <4>2, <4>3
    <3>3. \A n \in 0 .. N : n = 0 \/ n \in 1 .. N
      BY <2>1
    <3>4. \A n \in 0 .. N : f[n] = IF n = 0 THEN << >>
                                 ELSE IF IsEntry(entries[n])
                                 THEN Append(f[n - 1], ToEntry(entries[n]))
                                 ELSE f[n - 1]
      BY <3>1, <3>2, <3>3, Zenon
    <3>5. f = [n \in 0 .. N |-> f[n]]
      BY <3>1
    <3> QED
      BY <3>4, <3>5, Zenon
  <2>9. IsKept(kept)
    <3> HIDE DEF IsKept
    <3> QED
      BY <2>8
  <2> HIDE DEF kept
  <2>10. /\ kept[0] = << >>
         /\ \A n \in 1 .. N : kept[n] = IF IsEntry(entries[n])
                                        THEN Append(kept[n - 1], ToEntry(entries[n]))
                                        ELSE kept[n - 1]
    <3>1. 0 \in 0 .. N /\ \A n \in 1 .. N : n \in 0 .. N /\ n # 0
      BY <2>1
    <3>2. \A n \in 0 .. N : kept[n] = IF n = 0 THEN << >>
                                    ELSE IF IsEntry(entries[n])
                                    THEN Append(kept[n - 1], ToEntry(entries[n]))
                                    ELSE kept[n - 1]
      BY <2>9, Zenon
    <3> QED
      BY <3>1, <3>2, Zenon
  <2> HIDE DEF IsKept, step
  <2> DEFINE Holds(n) == /\ kept[n] \in Seq(S)
                         /\ ToSet(kept[n]) = Before(n)
             T == {n \in 0 .. N : Holds(n)}
  <2>11. Holds(0)
    BY <2>10 DEF ToSet
  <2>12. ASSUME NEW n \in 1 .. N, Holds(n - 1) PROVE Holds(n)
    <3>1. \A i \in 1 .. n : i \in 1 .. (n - 1) \/ i = n
      OBVIOUS
    <3>2. n \in 1 .. n /\ \A i \in 1 .. (n - 1) : i \in 1 .. n
      OBVIOUS
    <3>3. CASE IsEntry(entries[n])
      <4>1. kept[n] = Append(kept[n - 1], ToEntry(entries[n]))
        BY <2>10, <3>3
      <4>2. Before(n) = Before(n - 1) \cup {ToEntry(entries[n])}
        BY <3>1, <3>2, <3>3
      <4>3. /\ Append(kept[n - 1], ToEntry(entries[n])) \in Seq(S)
            /\ ToSet(Append(kept[n - 1], ToEntry(entries[n])))
                 = ToSet(kept[n - 1]) \cup {ToEntry(entries[n])}
        <5>1. kept[n - 1] \in Seq(S) /\ ToEntry(entries[n]) \in S
          BY <2>3, <2>12, <3>3
        <5> QED
          BY <5>1, AppendRange
      <4> QED
        BY <2>12, <4>1, <4>2, <4>3
    <3>4. CASE ~IsEntry(entries[n])
      <4>1. kept[n] = kept[n - 1]
        BY <2>10, <3>4
      <4>2. Before(n) = Before(n - 1)
        BY <3>1, <3>2, <3>4
      <4> QED
        BY <2>12, <4>1, <4>2
    <3> QED
      BY <3>3, <3>4
  <2>13. 0 .. N \subseteq T
    <3>1. 0 \in T /\ \A n \in 1 .. N : n - 1 \in T => n \in T
      <4> HIDE DEF Holds
      <4> QED
        BY <2>1, <2>11, <2>12
    <3> HIDE DEF T
    <3> QED
      BY <2>1, <3>1, PrefixInduction
  <2>14. Holds(N)
    <3> HIDE DEF Holds
    <3> QED
      BY <2>1, <2>13
  <2> QED
    BY <2>2, <2>4, <2>14 DEF S
<1> QED
  BY <1>1, <1>2

\* Times are in a line.
LEMMA BeforeOrder ==
  ASSUME NEW a \in Times, NEW b \in Times, NEW c \in Times
  PROVE  /\ ~IsBefore(a, a)
         /\ IsBefore(a, b) /\ ~IsBefore(a, c) => ~IsBefore(b, c)
<1>1. /\ a.seconds \in Int /\ b.seconds \in Int /\ c.seconds \in Int
      /\ Nanoseconds(a) \in Nat /\ Nanoseconds(b) \in Nat /\ Nanoseconds(c) \in Nat
  BY BeforeIsLater
<1> QED
  BY <1>1 DEF IsBefore

\* The entry that is found is one of the round, and none of the round is newer.
LEMMA LatestIsNewest ==
  ASSUME NEW E, NEW entries \in Seq(E), NEW key, NEW after,
         \A entry \in E : IsTime(entry.at) => entry.at \in Times
  PROVE  LET best  == LatestAfter(entries, key, after)
             round == {i \in DOMAIN entries : OfRound(entries[i], key, after)}
         IN IF round = {} THEN best = 0
            ELSE best # 0 /\ best \in round
                   /\ \A i \in round : ~IsBefore(entries[best].at, entries[i].at)
<1> DEFINE N == Len(entries)
           InRound(i) == OfRound(entries[i], key, after)
           Replaces(n, best) ==
             /\ InRound(n)
             /\ best = 0 \/ Later(PreciseTime(entries[n].at), PreciseTime(entries[best].at))
           step == [n \in 1 .. N |-> [best \in Nat |-> IF Replaces(n, best) THEN n ELSE best]]
           IsLatest(f) == f = [n \in 0 .. N |->
              IF n = 0 THEN 0 ELSE IF Replaces(n, f[n - 1]) THEN n ELSE f[n - 1]]
           latest == CHOOSE f : IsLatest(f)
<1>1. N \in Nat /\ DOMAIN entries = 1 .. N /\ 0 \in Nat
  OBVIOUS
<1>2. LatestAfter(entries, key, after) = latest[N]
  BY DEF LatestAfter
<1>3. ASSUME NEW i \in 1 .. N, InRound(i) PROVE entries[i].at \in Times
  <2>1. entries[i] \in E
    BY <1>1
  <2> QED
    BY <1>3, <2>1 DEF OfRound
<1> HIDE DEF N
<1>4. step \in [1 .. N -> [Nat -> Nat]]
  <2> HIDE DEF Replaces
  <2> QED
    OBVIOUS
<1>5. PICK f : IsLoop(f, N, Nat, 0, step)
  <2> HIDE DEF step
  <2> QED
    BY <1>1, <1>4, PrefixRecursion
<1>6. ASSUME NEW i \in 1 .. N, InRound(i), NEW j \in 1 .. N, InRound(j)
      PROVE  Later(PreciseTime(entries[i].at), PreciseTime(entries[j].at)) <=>
               IsBefore(entries[j].at, entries[i].at)
  BY <1>3, <1>6, BeforeIsLater
<1> HIDE DEF Replaces
<1>7. IsLatest(f)
  <2>1. f \in [0 .. N -> Nat] /\ f[0] = 0
    BY <1>5 DEF IsLoop
  <2>2. ASSUME NEW n \in 1 .. N
        PROVE  f[n] = IF Replaces(n, f[n - 1]) THEN n ELSE f[n - 1]
    <3>1. n - 1 \in 0 .. N
      BY <1>1
    <3>2. f[n] = step[n][f[n - 1]]
      <4> HIDE DEF step
      <4> QED
        BY <1>5 DEF IsLoop
    <3>3. f[n - 1] \in Nat
      BY <2>1, <3>1
    <3> QED
      BY <3>2, <3>3
  <2>3. \A n \in 0 .. N : n = 0 \/ n \in 1 .. N
    BY <1>1
  <2>4. \A n \in 0 .. N : f[n] = IF n = 0 THEN 0 ELSE IF Replaces(n, f[n - 1]) THEN n ELSE f[n - 1]
    BY <2>1, <2>2, <2>3, Zenon
  <2>5. f = [n \in 0 .. N |-> f[n]]
    BY <2>1
  <2> QED
    BY <2>4, <2>5, Zenon
<1>8. IsLatest(latest)
  <2> HIDE DEF IsLatest
  <2> QED
    BY <1>7
<1> HIDE DEF latest
<1>9. /\ latest[0] = 0
      /\ \A n \in 1 .. N : latest[n] = IF Replaces(n, latest[n - 1]) THEN n ELSE latest[n - 1]
  <2>1. 0 \in 0 .. N /\ \A n \in 1 .. N : n \in 0 .. N /\ n # 0
    BY <1>1
  <2>2. \A n \in 0 .. N :
          latest[n] = IF n = 0 THEN 0 ELSE IF Replaces(n, latest[n - 1]) THEN n ELSE latest[n - 1]
    BY <1>8, Zenon
  <2> QED
    BY <2>1, <2>2, Zenon
<1> HIDE DEF IsLatest, step, InRound
<1> DEFINE Holds(n) ==
             \/ latest[n] = 0 /\ \A i \in 1 .. n : ~InRound(i)
             \/ /\ latest[n] \in 1 .. n /\ InRound(latest[n])
                /\ \A i \in 1 .. n : InRound(i) =>
                     ~IsBefore(entries[latest[n]].at, entries[i].at)
           T == {n \in 0 .. N : Holds(n)}
<1>10. Holds(0)
  BY <1>9
<1>11. ASSUME NEW n \in 1 .. N, Holds(n - 1) PROVE Holds(n)
  <2> DEFINE best == latest[n - 1]
  <2>1. \A i \in 1 .. n : i \in 1 .. (n - 1) \/ i = n
    OBVIOUS
  <2>2. n \in 1 .. n /\ \A i \in 1 .. (n - 1) : i \in 1 .. n /\ i \in 1 .. N
    BY <1>1
  <2>3. latest[n] = IF Replaces(n, best) THEN n ELSE best
    BY <1>9
  <2>4. \/ best = 0 /\ \A i \in 1 .. (n - 1) : ~InRound(i)
        \/ /\ best \in 1 .. (n - 1) /\ InRound(best) /\ best # 0
           /\ \A i \in 1 .. (n - 1) : InRound(i) => ~IsBefore(entries[best].at, entries[i].at)
    BY <1>11
  <2> HIDE DEF best
  <2>5. CASE ~InRound(n)
    <3>1. latest[n] = best
      BY <2>3, <2>5 DEF Replaces
    <3> QED
      BY <2>1, <2>2, <2>4, <2>5, <3>1
  <2>6. CASE InRound(n) /\ best = 0
    <3>1. latest[n] = n
      BY <2>3, <2>6 DEF Replaces
    <3>2. ~IsBefore(entries[n].at, entries[n].at)
      BY <1>3, <2>6, BeforeOrder
    <3> QED
      BY <2>1, <2>2, <2>4, <2>6, <3>1, <3>2
  <2>7. CASE InRound(n) /\ best # 0 /\ ~IsBefore(entries[best].at, entries[n].at)
    <3>1. latest[n] = best
      BY <1>6, <2>2, <2>3, <2>4, <2>7 DEF Replaces
    <3> QED
      BY <2>1, <2>2, <2>4, <2>7, <3>1
  <2>8. CASE InRound(n) /\ best # 0 /\ IsBefore(entries[best].at, entries[n].at)
    <3>1. latest[n] = n
      BY <1>6, <2>2, <2>3, <2>4, <2>8 DEF Replaces
    <3>2. entries[n].at \in Times /\ entries[best].at \in Times
      BY <1>3, <2>2, <2>4, <2>8
    <3>3. ASSUME NEW i \in 1 .. n, InRound(i) PROVE ~IsBefore(entries[n].at, entries[i].at)
      <4>1. entries[i].at \in Times
        BY <1>3, <2>1, <2>2, <3>3
      <4>2. CASE i = n
        BY <3>2, <4>2, BeforeOrder
      <4>3. CASE i \in 1 .. (n - 1)
        <5>1. ~IsBefore(entries[best].at, entries[i].at)
          BY <2>4, <2>8, <3>3, <4>3
        <5> QED
          BY <2>8, <3>2, <4>1, <5>1, BeforeOrder
      <4> QED
        BY <2>1, <4>2, <4>3
    <3> QED
      BY <2>2, <2>8, <3>1, <3>3
  <2> QED
    BY <2>5, <2>6, <2>7, <2>8
<1>12. 0 .. N \subseteq T
  <2>1. 0 \in T /\ \A n \in 1 .. N : n - 1 \in T => n \in T
    <3> HIDE DEF Holds
    <3> QED
      BY <1>1, <1>10, <1>11
  <2> HIDE DEF T
  <2> QED
    BY <1>1, <2>1, PrefixInduction
<1>13. Holds(N)
  <2> HIDE DEF Holds
  <2> QED
    BY <1>1, <1>12
<1>14. latest[N] \in 1 .. N => latest[N] # 0
  BY <1>1
<1> QED
  BY <1>1, <1>2, <1>13, <1>14 DEF InRound

\* What is kept of an entry.
LEMMA KeptEntry ==
  ASSUME NEW entry, IsElement(entry), IsEntry(entry)
  PROVE  /\ ToEntry(entry).key = Lower(entry.key) /\ IsKey(entry.key)
         /\ ToEntry(entry).at = entry.at
         /\ IsTime(entry.at) => entry.at \in Times
         /\ \A field \in {"state", "hold", "round", "outcome", "exit"} :
              ToEntry(entry)[field] = entry[field]
<1>1. /\ entry = [field \in Fields |-> entry[field]]
      /\ IsKey(entry.key)
      /\ entry.at \in {BadTime} \cup Times
  BY DEF IsElement, IsEntry
<1>2. IsTime(entry.at) => entry.at \in Times
  BY <1>1 DEF IsTime
<1> QED
  BY <1>1, <1>2 DEF ToEntry, Fields

\* Keys that differ in their capitals only are one.
LEMMA LowerIsName ==
  ASSUME NEW a, IsKey(a), NEW b, IsKey(b)
  PROVE  Lower(a) = Lower(b) <=> a.name = b.name
BY DEF IsKey, Lower

\* The entries of the pull request received after it was enqueued.
Round(entries) ==
  IF entries = None THEN {}
  ELSE {entry \in Range(entries) :
          /\ IsEntry(entry) /\ IsTime(entry.at)
          /\ entry.key.name = Key.name
          /\ IsBefore(After, entry.at)}

\* They are those whose kept form is of the round.
LEMMA RoundIsKept ==
  ASSUME NEW entry, IsElement(entry), IsEntry(entry)
  PROVE  OfRound(ToEntry(entry), Lower(Key), PreciseTime(After)) <=>
           IsTime(entry.at) /\ entry.key.name = Key.name /\ IsBefore(After, entry.at)
<1>1. /\ ToEntry(entry).key = Lower(entry.key) /\ IsKey(entry.key)
      /\ ToEntry(entry).at = entry.at
      /\ IsTime(entry.at) => entry.at \in Times
  BY KeptEntry
<1>2. Lower(entry.key) = Lower(Key) <=> entry.key.name = Key.name
  BY <1>1, LowerIsName, DocumentAssumption
<1>3. IsTime(entry.at) =>
        (IsBefore(After, entry.at) <=> Later(PreciseTime(entry.at), PreciseTime(After)))
  BY <1>1, BeforeIsLater, DocumentAssumption
<1> QED
  BY <1>1, <1>2, <1>3 DEF OfRound

\* What latestAfter finds among the entries that are kept is a newest one of the round.
LEMMA LatestOfField ==
  ASSUME NEW entries, IsField(entries)
  PROVE  LET kept == ToEntries(entries)
             best == LatestAfter(kept, Lower(Key), PreciseTime(After))
         IN IF Newest(entries) = {} THEN best = 0
            ELSE best # 0 /\ \E entry \in Newest(entries) :
                               IsElement(entry) /\ IsEntry(entry) /\ kept[best] = ToEntry(entry)
<1> DEFINE kept == ToEntries(entries)
           key == Lower(Key)
           after == PreciseTime(After)
           best == LatestAfter(kept, key, after)
           round == {i \in DOMAIN kept : OfRound(kept[i], key, after)}
<1>1. kept \in Seq(Kept(entries)) /\ ToSet(kept) = Kept(entries)
  BY ToEntriesKeeps
<1>2. Kept(entries) = IF entries = None THEN {}
                      ELSE {ToEntry(entry) : entry \in {x \in Range(entries) : IsEntry(x)}}
  BY DEF Kept, Range
<1>3. entries # None => \A entry \in Range(entries) : IsElement(entry)
  BY DEF IsField, Range
<1>4. ASSUME NEW e \in Kept(entries)
      PROVE  \E entry \in Range(entries) :
               entries # None /\ IsElement(entry) /\ IsEntry(entry) /\ e = ToEntry(entry)
  BY <1>2, <1>3
<1>5. \A e \in Kept(entries) : IsTime(e.at) => e.at \in Times
  BY <1>4, KeptEntry
<1> HIDE DEF kept, key, after
<1>6. IF round = {} THEN best = 0
      ELSE best # 0 /\ best \in round
             /\ \A i \in round : ~IsBefore(kept[best].at, kept[i].at)
  BY <1>1, <1>5, LatestIsNewest
<1>7. \A i \in DOMAIN kept : kept[i] \in Kept(entries)
  BY <1>1
<1>8. ASSUME NEW i \in round
      PROVE  \E entry \in Round(entries) :
               IsElement(entry) /\ IsEntry(entry) /\ kept[i] = ToEntry(entry) /\ kept[i].at = entry.at
  <2>1. PICK entry \in Range(entries) :
               entries # None /\ IsElement(entry) /\ IsEntry(entry) /\ kept[i] = ToEntry(entry)
    BY <1>4, <1>7
  <2>2. IsTime(entry.at) /\ entry.key.name = Key.name /\ IsBefore(After, entry.at)
    BY <2>1, RoundIsKept DEF key, after
  <2>3. kept[i].at = entry.at
    BY <2>1, KeptEntry
  <2>4. entry \in Round(entries)
    BY <2>1, <2>2 DEF Round
  <2> QED
    BY <2>1, <2>3, <2>4
<1>9. ASSUME NEW entry \in Round(entries)
      PROVE  \E i \in round : kept[i].at = entry.at
  <2>1. /\ entries # None /\ entry \in Range(entries) /\ IsEntry(entry)
        /\ IsTime(entry.at) /\ entry.key.name = Key.name /\ IsBefore(After, entry.at)
    BY DEF Round
  <2>2. IsElement(entry)
    BY <1>3, <2>1
  <2>3. ToEntry(entry) \in Kept(entries)
    BY <1>2, <2>1
  <2>4. PICK i \in DOMAIN kept : kept[i] = ToEntry(entry)
    BY <1>1, <2>3 DEF ToSet
  <2>5. OfRound(kept[i], key, after)
    BY <2>1, <2>2, <2>4, RoundIsKept DEF key, after
  <2>6. kept[i].at = entry.at
    BY <2>1, <2>2, <2>4, KeptEntry
  <2> QED
    BY <2>5, <2>6
<1>10. Newest(entries) = {entry \in Round(entries) :
                            \A other \in Round(entries) : ~IsBefore(entry.at, other.at)}
  BY DEF Newest, Round
<1> HIDE DEF round, best
<1>11. CASE round = {}
  <2>1. Newest(entries) = {}
    BY <1>9, <1>10, <1>11
  <2> QED
    BY <1>6, <1>11, <2>1 DEF best, kept, key, after
<1>12. CASE round # {}
  <2>1. PICK entry \in Round(entries) :
               /\ IsElement(entry) /\ IsEntry(entry)
               /\ kept[best] = ToEntry(entry) /\ kept[best].at = entry.at
    BY <1>6, <1>8, <1>12
  <2>2. ASSUME NEW other \in Round(entries) PROVE ~IsBefore(entry.at, other.at)
    <3>1. PICK i \in round : kept[i].at = other.at
      BY <1>9
    <3> QED
      BY <1>6, <1>12, <2>1, <3>1
  <2>3. entry \in Newest(entries)
    BY <1>10, <2>2
  <2> QED
    BY <1>6, <1>12, <2>1, <2>3 DEF best, kept, key, after
<1> QED
  BY <1>11, <1>12

\* What is observed of a document: a newest active entry of the round, or else a newest
\* one that has ended, or else nothing.
LEMMA ObservesNewest ==
  ASSUME NEW document \in Readable
  PROVE  IF Newest(document.items) # {}
         THEN \E entry \in Newest(document.items) :
                /\ Observed[document].kind = "active"
                /\ Observed[document].state = entry.state
                /\ Observed[document].hold = entry.hold
                /\ Observed[document].round = entry.round
         ELSE IF Newest(document.recent) # {}
         THEN \E entry \in Newest(document.recent) :
                /\ Observed[document].kind = "finished"
                /\ Observed[document].outcome = entry.outcome
                /\ Observed[document].exit = entry.exit
         ELSE Observed[document].kind = "none"
<1> DEFINE items == ToEntries(document.items)
           recent == ToEntries(document.recent)
           key == Lower(Key)
           after == PreciseTime(After)
           active == LatestAfter(items, key, after)
           ended == LatestAfter(recent, key, after)
           observation == Observed[document]
<1>1. IsField(document.items) /\ IsField(document.recent)
  <2>1. document \in Documents /\ document # NotJson
    BY DEF Readable, Kind
  <2> QED
    BY <2>1, DocumentAssumption
<1>2. observation = Select(items, recent, key, after)
  BY DEF Observed, Observe
<1>3. IF Newest(document.items) = {} THEN active = 0
      ELSE active # 0 /\ \E entry \in Newest(document.items) :
                           IsElement(entry) /\ IsEntry(entry) /\ items[active] = ToEntry(entry)
  BY <1>1, LatestOfField
<1>4. IF Newest(document.recent) = {} THEN ended = 0
      ELSE ended # 0 /\ \E entry \in Newest(document.recent) :
                          IsElement(entry) /\ IsEntry(entry) /\ recent[ended] = ToEntry(entry)
  BY <1>1, LatestOfField
<1> HIDE DEF items, recent, key, after, observation
<1>5. /\ active # 0 => observation = Active(items[active])
      /\ active = 0 /\ ended # 0 => observation = Finished(recent[ended])
      /\ active = 0 /\ ended = 0 => observation.kind = "none"
  BY <1>2 DEF Select, Nothing
<1> HIDE DEF active, ended
<1>6. CASE Newest(document.items) # {}
  <2>1. PICK entry \in Newest(document.items) :
               IsElement(entry) /\ IsEntry(entry) /\ items[active] = ToEntry(entry)
    BY <1>3, <1>6
  <2>2. observation = Active(ToEntry(entry))
    BY <1>3, <1>5, <1>6, <2>1
  <2>3. /\ ToEntry(entry).state = entry.state /\ ToEntry(entry).hold = entry.hold
        /\ ToEntry(entry).round = entry.round
    BY <2>1, KeptEntry
  <2>4. /\ observation.kind = "active" /\ observation.state = entry.state
        /\ observation.hold = entry.hold /\ observation.round = entry.round
    BY <2>2, <2>3 DEF Active
  <2> QED
    BY <1>6, <2>4 DEF observation
<1>7. CASE Newest(document.items) = {} /\ Newest(document.recent) # {}
  <2>1. PICK entry \in Newest(document.recent) :
               IsElement(entry) /\ IsEntry(entry) /\ recent[ended] = ToEntry(entry)
    BY <1>4, <1>7
  <2>2. observation = Finished(ToEntry(entry))
    BY <1>3, <1>4, <1>5, <1>7, <2>1
  <2>3. ToEntry(entry).outcome = entry.outcome /\ ToEntry(entry).exit = entry.exit
    BY <2>1, KeptEntry
  <2>4. /\ observation.kind = "finished" /\ observation.outcome = entry.outcome
        /\ observation.exit = entry.exit
    BY <2>2, <2>3 DEF Finished
  <2> QED
    BY <1>7, <2>4 DEF observation
<1>8. CASE Newest(document.items) = {} /\ Newest(document.recent) = {}
  BY <1>3, <1>4, <1>5, <1>8 DEF observation
<1> QED
  BY <1>6, <1>7, <1>8

-----------------------------------------------------------------------------
(* Theorems.                                                               *)

\* The inductive invariant: the types, what the lines so far tell, and that the last
\* round's result is what has been printed.
THEOREM Invariance == Spec => []IInv
<1>1. Init => IInv
  BY InitInv
<1>2. IInv /\ [Next]_vars => IInv'
  BY NextInv
<1> QED
  BY <1>1, <1>2, PTL DEF Spec

\* Every variable of the loop keeps its type.
THEOREM TypeCorrectness == Spec => []TypeOK
<1>1. IInv => TypeOK
  BY DEF IInv
<1> QED
  BY <1>1, Invariance, PTL

\* The last line of some types, where there is one.
LEMMA LastIsLast ==
  ASSUME output \in Seq(Lines), NEW types, NEW i \in DOMAIN output, LastIn(output, types, i)
  PROVE  LastOf(types) = output[i]
<1> DEFINE at == {k \in DOMAIN output : output[k].type \in types}
<1>1. \A k \in at : k <= i
  BY DEF LastIn
<1>2. i \in at
  BY DEF LastIn
<1>3. \A k \in at : (\A j \in at : j <= k) => k = i
  BY <1>1, <1>2
<1>4. (CHOOSE k \in at : \A j \in at : j <= k) = i
  BY <1>1, <1>2, <1>3
<1>5. at # {}
  BY <1>2
<1> HIDE DEF at
<1> QED
  BY <1>4, <1>5 DEF LastOf, at

\* What LinesTellTheState asks.
LEMMA InvTells == ASSUME IInv PROVE LinesTellTheState
<1>1. /\ output \in Seq(Lines)
      /\ StateIn(output, previous) /\ ReachIn(output, unobservable)
  BY DEF IInv, Told
<1>2. LastOf(Reach).what = unobservable
  <2>1. CASE \E i \in DOMAIN output : LastIn(output, Reach, i)
    <3>1. PICK i \in DOMAIN output : LastIn(output, Reach, i)
      BY <2>1
    <3>2. output[i] = IF unobservable = None THEN Line("recovered", None)
                                             ELSE Line("unobservable", unobservable)
      BY <1>1, <3>1 DEF ReachIn
    <3>3. output[i].what = unobservable
      BY <3>2 DEF Line
    <3> QED
      BY <1>1, <3>1, <3>3, LastIsLast
  <2>2. CASE unobservable = None /\ \A i \in DOMAIN output : output[i].type \notin Reach
    <3>1. LastOf(Reach) = Line(None, None)
      BY <2>2 DEF LastOf
    <3> QED
      BY <2>2, <3>1 DEF Line
  <2> QED
    BY <1>1, <2>1, <2>2 DEF ReachIn
<1>3. ASSUME pc = "sleeping", unobservable = None, found.observation.kind # "none"
      PROVE  LastOf({"state"}).what = found.observation
  <2>1. previous = found.observation /\ found.kind = "ok"
    BY <1>3 DEF IInv, HandledSound, Running
  <2>2. found.observation # None
    BY <2>1, FoundIs, ObservationKinds DEF IInv, TypeOK
  <2>3. PICK i \in DOMAIN output : LastIn(output, {"state"}, i)
    BY <1>1, <2>1, <2>2 DEF StateIn
  <2>4. output[i].what = found.observation
    BY <1>1, <2>1, <2>3 DEF StateIn
  <2> QED
    BY <1>1, <2>3, <2>4, LastIsLast
<1>4. pc = "sleeping" /\ found.kind # "ok" => unobservable = found.kind
  BY DEF IInv, HandledSound, Running
<1> QED
  BY <1>2, <1>3, <1>4 DEF LinesTellTheState

\* Who reads the lines knows what the watch knows, and is told it once.
THEOREM OutputFaithfulness == Spec => []OutputIsFaithful
<1>1. ASSUME IInv PROVE LinesAreNews
  <2>1. NewsIn(output) /\ ClosedIn(output)
    BY <1>1 DEF IInv, Told
  <2> QED
    BY <2>1 DEF LinesAreNews, NewsIn, ClosedIn, Adjacent, AdjacentIn, Terminal
<1>2. IInv => OutputIsFaithful
  BY <1>1, InvTells DEF OutputIsFaithful
<1> QED
  BY <1>2, Invariance, PTL

\* What was printed for a document is the newest item of the round, and the exit code is
\* what is to be done about it.
LEMMA InvSelects == ASSUME IInv PROVE SelectsThisRound
<1> SUFFICES ASSUME pc \in {"sleeping", "ended"}, exitCode # 4, found.kind = "ok",
                    unobservable = None
             PROVE  LET active == Newest(found.document.items)
                        ended  == Newest(found.document.recent)
                        line   == LastOf({"state"}).what
                    IN IF active # {}
                       THEN \E entry \in active :
                              /\ line.kind = "active"
                              /\ << line.state, line.hold, line.round >>
                                   = << entry.state, entry.hold, entry.round >>
                              /\ exitCode = IF entry.state = "waiting" /\ entry.hold = "manual"
                                            THEN 3 ELSE Running
                       ELSE IF ended # {}
                       THEN \E entry \in ended :
                              exitCode = IF entry.outcome = "completed" /\ entry.exit \in {None, 0}
                                         THEN 0 ELSE 1
                       ELSE exitCode = Running
  BY DEF SelectsThisRound
<1> DEFINE document == found.document
           observation == found.observation
<1>1. document \in Readable /\ observation = Observed[document] /\ observation # None
  <2>1. document \in Readable /\ found = Result(document, found.updatedAt)
    BY DEF IInv, TypeOK, IsResult, Reasons
  <2>2. observation = Observed[document]
    BY <2>1 DEF Result
  <2> QED
    BY <2>1, <2>2, NoneAssumption
<1>2. /\ observation.kind = "none" \/ previous = observation
      /\ exitCode = ExitCode
  BY DEF IInv, HandledSound
<1>3. observation.kind # "none" => LastOf({"state"}).what = observation
  <2> SUFFICES ASSUME observation.kind # "none" PROVE LastOf({"state"}).what = observation
    OBVIOUS
  <2>1. previous = observation /\ previous # None
    BY <1>1, <1>2
  <2>2. output \in Seq(Lines) /\ StateIn(output, previous)
    BY DEF IInv, Told
  <2>3. PICK i \in DOMAIN output : LastIn(output, {"state"}, i)
    BY <2>1, <2>2 DEF StateIn
  <2>4. output[i].what = observation
    BY <2>1, <2>2, <2>3 DEF StateIn
  <2> QED
    BY <2>2, <2>3, <2>4, LastIsLast
<1>4. IF Newest(document.items) # {}
      THEN \E entry \in Newest(document.items) :
             /\ observation.kind = "active" /\ observation.state = entry.state
             /\ observation.hold = entry.hold /\ observation.round = entry.round
      ELSE IF Newest(document.recent) # {}
      THEN \E entry \in Newest(document.recent) :
             /\ observation.kind = "finished"
             /\ observation.outcome = entry.outcome /\ observation.exit = entry.exit
      ELSE observation.kind = "none"
  BY <1>1, ObservesNewest
<1>5. /\ observation.kind = "active" =>
           exitCode = IF observation.state = "waiting" /\ observation.hold = "manual"
                      THEN 3 ELSE Running
      /\ observation.kind = "finished" =>
           exitCode = IF observation.outcome = "completed" /\ observation.exit \in {None, 0}
                      THEN 0 ELSE 1
      /\ observation.kind = "none" => exitCode = Running
  BY <1>2 DEF ExitCode, WaitsForTheUser, HasCompleted
<1> HIDE DEF document, observation
<1>6. CASE Newest(document.items) # {}
  <2>1. PICK entry \in Newest(document.items) :
               /\ observation.kind = "active" /\ observation.state = entry.state
               /\ observation.hold = entry.hold /\ observation.round = entry.round
    BY <1>4, <1>6
  <2> QED
    BY <1>3, <1>5, <1>6, <2>1 DEF document
<1>7. CASE Newest(document.items) = {} /\ Newest(document.recent) # {}
  BY <1>4, <1>5, <1>7 DEF document
<1>8. CASE Newest(document.items) = {} /\ Newest(document.recent) = {}
  BY <1>4, <1>5, <1>8 DEF document
<1> QED
  BY <1>6, <1>7, <1>8

\* A line speaks of the newest item received for the pull request after it was enqueued,
\* however its times and its key are written.
THEOREM RoundSelection == Spec => []SelectsThisRound
<1>1. IInv => SelectsThisRound
  BY InvSelects
<1> QED
  BY <1>1, Invariance, PTL

\* The exit code is the last word of the lines, and a review's end is taken only from a
\* document that was fresh and read in time.
THEOREM ExitHonesty == Spec => ExitIsHonest
<1>1. ASSUME IInv, [Next]_vars
      PROVE  [exitCode' # exitCode =>
                LET last == output'[Len(output')]
                IN /\ exitCode' \in {0, 1} => last.type = "state" /\ last.what.kind = "finished"
                   /\ exitCode' = 0 => last.what.outcome = "completed"
                   /\ exitCode' = 3 => last.type = "action_required"
                   /\ exitCode' # 4 => now < Timeout /\ now - found.updatedAt <= Stale]_vars
  BY <1>1, NextInv DEF ExitStep
<1> QED
  BY <1>1, Invariance, PTL DEF Spec, ExitIsHonest

\* The deadline bounds every sleep, and past it the timeout's line is the one still printed.
THEOREM DeadlineKeeping == Spec => DeadlineIsKept
<1>1. ASSUME IInv, [Next]_vars
      PROVE  [/\ pc' # pc /\ pc' \in {"sleeping", "retry"} => wakeAt' <= Timeout \/ wakeAt' <= now
              /\ Expired /\ output' # output =>
                   output' = Append(output, Line("timeout", None))]_vars
  BY <1>1, NextInv DEF DeadlineStep
<1> QED
  BY <1>1, Invariance, PTL DEF Spec, DeadlineIsKept
=============================================================================
