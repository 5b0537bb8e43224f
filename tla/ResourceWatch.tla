---------------------------- MODULE ResourceWatch ----------------------------
(***************************************************************************)
(* What watching a resource promises, whatever the mode: the watcher       *)
(* reports texts the resource really had, never an older one after a newer *)
(* one, ends at most once, and says "success" only of a wanted text, the   *)
(* last one it has seen.  The one-shot subscription and the --jsonl stream *)
(* implement this.                                                         *)
(***************************************************************************)
EXTENDS Naturals, Sequences

CONSTANTS
  Texts,     \* the contents the resource may have
  wanted     \* the contents that end the watch with success

VARIABLES
  history,   \* the texts the resource has had
  seen,      \* the version reported last, 0 before the first
  verdict

vars == << history, seen, verdict >>

Init ==
  /\ \E text \in Texts : history = << text >>
  /\ seen = 0
  /\ verdict = "watching"

Change ==
  /\ \E text \in Texts : history' = Append(history, text)
  /\ UNCHANGED << seen, verdict >>

Observe ==
  /\ verdict = "watching"
  /\ seen' \in seen .. Len(history)
  /\ UNCHANGED << history, verdict >>

Succeed ==
  /\ verdict = "watching"
  /\ seen > 0
  /\ history[seen] \in wanted
  /\ verdict' = "success"
  /\ UNCHANGED << history, seen >>

GiveUp ==
  /\ verdict = "watching"
  /\ verdict' = "failure"
  /\ UNCHANGED << history, seen >>

Next == Change \/ Observe \/ Succeed \/ GiveUp

Spec == Init /\ [][Next]_vars
=============================================================================
