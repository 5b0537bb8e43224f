--------------------------- MODULE MCCommandLine ---------------------------
\* The command lines and the texts TLC tries.
EXTENDS CommandLine, TLC

Line(first, flags) ==
  [first |-> first, flags |-> flags, url |-> "url", uri |-> "uri", tool |-> None,
   args |-> None, until |-> None, timeout |-> "ms", token |-> None,
   key |-> "key", after |-> "time", file |-> "file", unknown |-> FALSE]

Key(chars) == Object(chars :> Scalar("yes"))

MCChars == ToSet(Digits) \cup {"~", "/", "a"}

MCValues == {
  Null, Scalar("no"), Scalar("yes"),
  Array(<< Scalar("no"), Key(<< "a" >>) >>),
  Array([i \in 1 .. 12 |-> Scalar(IF i = 11 THEN "yes" ELSE "no")]),
  Key(<< "a" >>), Key(<< "/" >>), Key(<< "~", "1" >>), Key(<< "0" >>)}

MCTexts == {NotJson} \cup (MCValues \ {Scalar("no"), Scalar("yes")})

Until(tokens, value) ==
  [separator |-> TRUE, rooted |-> TRUE, tokens |-> tokens, value |-> value]

Untils == {
  Until(<< >>, Null),
  Until(<< << "~", "1" >> >>, Scalar("yes")),           \* the key "/"
  Until(<< << "~", "0", "1" >> >>, Scalar("yes")),      \* the key "~1"
  Until(<< << "0" >> >>, Scalar("no")),
  Until(<< << "1", "0" >> >>, Scalar("yes")),
  Until(<< << "1" >>, << "a" >> >>, Scalar("yes"))}

MCIntervals == {0, 1, NoNumber}
MCLifetimes == {3, NoNumber}

Subscribe == Line("", {})
Stream    == [Line("", {"--jsonl"}) EXCEPT !.until = Until(<< << "a" >> >>, Scalar("yes"))]
Call      == [Line("call", {"--json"}) EXCEPT !.tool = "tool"]
Watch     == Line("watch-review-status", {})

MCCommandLines ==
  \* the modes
  {Line("call", {"--help", "--login"}), Line("", {"--version"}),
   Line("", {"--login"}), [Line("", {"--login"}) EXCEPT !.token = Malformed],
   [Line("call", {"--login", "--logout"}) EXCEPT !.url = None],
   Line("", {"--logout"}), [Line("", {"--logout"}) EXCEPT !.url = "not a url"],
   Subscribe, Line("", {"--json"}), [Subscribe EXCEPT !.token = "token"],
   Stream, Call, [Call EXCEPT !.args = Key(<< "a" >>), !.token = "token"],
   [Call EXCEPT !.flags = {"--args-stdin"}], Watch}
  \* until
  \cup {[Stream EXCEPT !.until = until] : until \in Untils}
  \* refused
  \cup {[Subscribe EXCEPT !.url = None], [Subscribe EXCEPT !.uri = None],
        [Subscribe EXCEPT !.timeout = Malformed], [Subscribe EXCEPT !.until = Until(<< >>, Null)],
        [Stream EXCEPT !.flags = {"--json", "--jsonl"}], [Stream EXCEPT !.until = None],
        [Stream EXCEPT !.until.rooted = FALSE], [Stream EXCEPT !.until = Malformed],
        [Call EXCEPT !.url = None], [Call EXCEPT !.tool = None],
        [Call EXCEPT !.args = Malformed], [Call EXCEPT !.args = Null],
        [Call EXCEPT !.args = Key(<< "a" >>), !.flags = {"--args-stdin"}],
        [Call EXCEPT !.token = Malformed],
        [Watch EXCEPT !.unknown = TRUE], [Watch EXCEPT !.file = None]}
=============================================================================
