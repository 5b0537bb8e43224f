---------------------------- MODULE StatusDocument ----------------------------
(***************************************************************************)
(* The review-status file (src/src/client/statusWatchModel.ts): validating *)
(* a document, and selecting the item that stands for the current round of *)
(* the watched pull request.                                               *)
(*                                                                         *)
(* A document is a record with its fields as found in the file, or NotJson *)
(* when it cannot be parsed or is no object; a field that is missing or of *)
(* the wrong type is None, as is an entry that is no object.  Only in the  *)
(* details of a pause None means missing: `limits` says whether all but    *)
(* the times are well-formed, and a time of the wrong type is BadTime.  A  *)
(* key is a name and whether it has capitals in it.  A timestamp is its    *)
(* whole seconds and the digits of its fraction, as many as were written,  *)
(* or BadTime when it is a string of another form.                         *)
(***************************************************************************)
EXTENDS Integers, Sequences, SequencesExt

CONSTANT None          \* undefined, or null

NotJson == [notJson |-> TRUE]

BadTime == [badTime |-> TRUE]

Width == 9              \* digits of a fraction that count

\* parsePreciseTime: the fraction filled up with zeros, or cut, to Width digits.
PreciseTime(raw) ==
  [seconds  |-> raw.seconds,
   fraction |-> [i \in 1 .. Width |-> IF i <= Len(raw.digits) THEN raw.digits[i] ELSE 0]]

IsTime(raw) == raw # None /\ raw # BadTime

\* What IsTime lets through: the digits are decimal ones.
Times == [seconds : Int, digits : Seq(0 .. 9)]

\* comparePreciseTime(a, b) > 0: by seconds, then by the first digit that differs.
Later(a, b) ==
  \/ a.seconds > b.seconds
  \/ /\ a.seconds = b.seconds
     /\ \E i \in 1 .. Width :
          /\ a.fraction[i] > b.fraction[i]
          /\ \A j \in 1 .. (i - 1) : a.fraction[j] = b.fraction[j]

-----------------------------------------------------------------------------
(* Entries and documents.                                                  *)

Lower(key) == [key EXCEPT !.capitals = FALSE]

IsKey(key) == key \in [name : {key.name}, capitals : BOOLEAN]

Fields == {"key", "state", "at", "hold", "round", "pause", "outcome", "exit"}

\* What an array of a document may have in it, and what its field may be.
IsElement(entry) ==
  \/ entry = None
  \/ /\ entry = [field \in Fields |-> entry[field]]
     /\ entry.key = None \/ IsKey(entry.key)
     /\ entry.at \in {None, BadTime} \cup Times

IsField(entries) ==
  \/ entries = None
  \/ /\ entries \in Seq({entries[i] : i \in DOMAIN entries})
     /\ \A i \in DOMAIN entries : IsElement(entries[i])

\* The details of an automatic pause count only in an entry that waits for it.
Pausing(entry) ==
  entry # None /\ entry.state = "waiting" /\ entry.hold = "autoPause" /\ entry.pause # None

PauseIsValid(pause) ==
  /\ pause.limits
  /\ IsTime(pause.observedAt)
  /\ pause.resetAt = None \/ IsTime(pause.resetAt)

\* toEntry: an entry without key, state or time is dropped; the key is lowered, and
\* details that do not count are left out.
IsEntry(entry) == entry # None /\ None \notin {entry.key, entry.state, entry.at}

ToEntry(entry) ==
  [entry EXCEPT !.key = Lower(@), !.pause = IF Pausing(entry) THEN @ ELSE None]

\* A field that is no array counts as an empty one.
ToEntries(entries) ==
  LET kept[n \in 0 .. Len(entries)] ==
        IF n = 0 THEN << >>
        ELSE IF IsEntry(entries[n]) THEN Append(kept[n - 1], ToEntry(entries[n]))
        ELSE kept[n - 1]
  IN IF entries = None THEN << >> ELSE kept[Len(entries)]

\* parseStatusDocument's verdict.  The schema is looked at before the entries, and an
\* invalid pause makes all of the document invalid.
Kind(document) ==
  IF document = NotJson \/ document.schema = None \/ ~IsTime(document.updatedAt)
  THEN "invalid"
  ELSE IF document.schema # 1 THEN "unsupported_schema"
  ELSE IF \E entries \in {document.items, document.recent} \ {None} :
            \E i \in DOMAIN entries :
              Pausing(entries[i]) /\ ~PauseIsValid(entries[i].pause)
  THEN "invalid"
  ELSE "ok"

-----------------------------------------------------------------------------
(* The item of this round.                                                 *)

\* Mutant: the time of the enqueueing itself counts as later.
OfRoundInclusive(entry, key, after) ==
  /\ entry.key = key
  /\ IsTime(entry.at)
  /\ ~Later(after, PreciseTime(entry.at))

\* Received for `key` strictly after `after`.
OfRound(entry, key, after) ==
  /\ entry.key = key
  /\ IsTime(entry.at)
  /\ Later(PreciseTime(entry.at), after)

\* latestAfter: of several the newest, of equally new ones the first; 0 for none.
LatestAfter(entries, key, after) ==
  LET Replaces(n, best) ==
        /\ OfRound(entries[n], key, after)
        /\ best = 0 \/ Later(PreciseTime(entries[n].at), PreciseTime(entries[best].at))
      latest[n \in 0 .. Len(entries)] ==
        IF n = 0 THEN 0 ELSE IF Replaces(n, latest[n - 1]) THEN n ELSE latest[n - 1]
  IN latest[Len(entries)]

Active(entry) ==
  [kind |-> "active", state |-> entry.state, hold |-> entry.hold, round |-> entry.round,
   pause |-> entry.pause]

Finished(entry) ==
  [kind |-> "finished", outcome |-> entry.outcome, exit |-> entry.exit, round |-> entry.round]

\* No item of this round; `previous` is the state of an earlier one.
Nothing(previous) == [kind |-> "none", previous |-> previous]

\* A review under way comes before one that has ended.
Select(items, recent, key, after) ==
  LET active == LatestAfter(items, key, after)
      ended == LatestAfter(recent, key, after)
      earlier == SelectSeq(items, LAMBDA entry : entry.key = key)
  IN IF active # 0 THEN Active(items[active])
     ELSE IF ended # 0 THEN Finished(recent[ended])
     ELSE Nothing(IF earlier = << >> THEN None ELSE earlier[1].state)

\* observe.
Observe(document, key, after) ==
  Select(ToEntries(document.items), ToEntries(document.recent), Lower(key), after)
=============================================================================
