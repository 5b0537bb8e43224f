--------------------------- MODULE MCStatusWatch ---------------------------
\* Documents around the boundaries of this round, for TLC.
EXTENDS StatusWatch

Time(digits) == [seconds |-> 10, digits |-> digits]

MCKey == [name |-> "ours", capitals |-> FALSE]
MCAfter == Time(<< 5 >>)

Entry(state, digits) ==
  [key |-> MCKey, state |-> state, at |-> Time(digits), hold |-> None, round |-> 2,
   pause |-> None, outcome |-> None, exit |-> None]

Waiting(hold, digits) == [Entry("waiting", digits) EXCEPT !.hold = hold]
Done(outcome, exit, digits) ==
  [Entry("finished", digits) EXCEPT !.outcome = outcome, !.exit = exit]

\* Written otherwise than the key of the option.
Capitals(entry) == [entry EXCEPT !.key.capitals = TRUE]
Foreign(entry) == [entry EXCEPT !.key.name = "theirs"]

Pause(observedAt) == [limits |-> TRUE, observedAt |-> observedAt, resetAt |-> None]
Paused(observedAt) == [Waiting("autoPause", << 5, 1 >>) EXCEPT !.pause = Pause(observedAt)]

File(items, recent) ==
  [schema |-> 1, updatedAt |-> Time(<< >>), items |-> items, recent |-> recent]

MCDocuments == {
  \* no item of this round: received at the time of the enqueueing, or before
  File(<< None, Entry("running", << 4, 9 >>) >>,
       << Done("completed", 0, << 5, 0 >>), [Done("completed", 0, << 6 >>) EXCEPT !.at = BadTime] >>),
  \* active, though it has ended before
  File(<< Capitals(Paused(Time(<< 1 >>))), Foreign(Entry("running", << 7 >>)) >>,
       << Done("failed", 1, << 9 >>) >>),
  File(<< Waiting("ciPending", << 5, 1 >>), Entry("running", << 6 >>) >>, None),
  File(<< [Entry("running", << 8 >>) EXCEPT !.state = None], Waiting("manual", << 6 >>) >>, << >>),
  \* ended
  File(None, << Done("failed", 1, << 5, 1 >>), Capitals(Done("completed", None, << 6 >>)) >>),
  File(<< Entry("running", << 5, 0 >>) >>,
       << Done("completed", 1, << 6 >>), Done("completed", 0, << 5, 9 >>) >>),
  \* of no use
  File(<< Paused(BadTime) >>, << >>),
  [File(<< Paused(BadTime) >>, << >>) EXCEPT !.schema = 2],
  [File(<< >>, << >>) EXCEPT !.updatedAt = BadTime],
  NotJson}
=============================================================================
