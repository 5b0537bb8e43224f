---------------------------- MODULE UntilCondition ----------------------------
(***************************************************************************)
(* --until <JSON Pointer>=<JSON value> (src/src/client/untilCondition.ts): *)
(* parsing the option, and evaluating it on the text of a snapshot.        *)
(*                                                                         *)
(* A text is a JSON value or NotJson.  A JSON value is an object, an array *)
(* or a scalar, tagged; a string is the sequence of its characters where   *)
(* the code looks into it (the keys of an object, the tokens of a pointer).*)
(***************************************************************************)
EXTENDS Integers, Sequences, SequencesExt

Scalar(x) == [scalar |-> x]
Array(elements) == [elements |-> elements]
Object(members) == [members |-> members]

Null == Scalar("null")
NotJson == [notJson |-> TRUE]

IsArray(value) == "elements" \in DOMAIN value
IsObject(value) == "members" \in DOMAIN value

\* `raw` is the option cut at its first "=": whether there is one, whether the pointer is
\* empty or starts with "/", its tokens, and the text of the value.
ParseUntil(raw) ==
  [ok |-> raw.separator /\ raw.rooted /\ raw.value # NotJson,
   pointer |-> raw.tokens, expected |-> raw.value]

EndsPair(text, n, digit) == n > 1 /\ text[n - 1] = "~" /\ text[n] = digit

\* A text with every pair "~", `digit` replaced by `char`, from left to right.
ReplacePair(text, digit, char) ==
  LET done[n \in 0 .. Len(text)] ==
        IF n = 0 THEN << >>
        ELSE IF EndsPair(text, n, digit) THEN Append(Front(done[n - 1]), char)
        ELSE Append(done[n - 1], text[n])
  IN done[Len(text)]

\* Mutant: the two replacements in the other order.
UnescapeSwapped(token) == ReplacePair(ReplacePair(token, "0", "~"), "1", "/")

Unescape(token) == ReplacePair(ReplacePair(token, "1", "/"), "0", "~")

Digits == << "0", "1", "2", "3", "4", "5", "6", "7", "8", "9" >>

\* The token is a number without leading zeros.
IsIndex(token) ==
  /\ token # << >>
  /\ ToSet(token) \subseteq ToSet(Digits)
  /\ Len(token) > 1 => token[1] # "0"

DigitOf(char) == (CHOOSE i \in 1 .. 10 : Digits[i] = char) - 1

Number(token) ==
  LET number[n \in 0 .. Len(token)] ==
        IF n = 0 THEN 0 ELSE 10 * number[n - 1] + DigitOf(token[n])
  IN number[Len(token)]

Absent == [absent |-> TRUE]

\* One token further down, or Absent.
Step(value, token) ==
  IF IsArray(value) /\ IsIndex(token) /\ Number(token) < Len(value.elements)
  THEN value.elements[Number(token) + 1]
  ELSE IF IsObject(value) /\ token \in DOMAIN value.members
  THEN value.members[token]
  ELSE Absent

ResolvePointer(document, pointer) ==
  LET value[n \in 0 .. Len(pointer)] ==
        IF n = 0 THEN document ELSE Step(value[n - 1], Unescape(pointer[n]))
  IN value[Len(pointer)]

EvaluateUntil(condition, document) ==
  LET value == ResolvePointer(document, condition.pointer)
  IN value # Absent /\ value = condition.expected

\* A text that is not JSON never matches, not even a condition on null.
EvaluateSnapshot(condition, text) == text # NotJson /\ EvaluateUntil(condition, text)
=============================================================================
