----------------------------- MODULE JsonPointer -----------------------------
(***************************************************************************)
(* RFC 6901: what a JSON pointer names, told from the document.  Every     *)
(* value in a document is reached by the tokens of its ancestors, keys     *)
(* escaped and indices in decimal.  The code goes the other way: it        *)
(* unescapes the tokens and looks them up.                                 *)
(***************************************************************************)
EXTENDS UntilCondition

\* A key as a token: "~" is written "~0", and "/" is written "~1".
Escape(key) ==
  LET text[n \in 0 .. Len(key)] ==
        IF n = 0 THEN << >>
        ELSE IF key[n] = "~" THEN text[n - 1] \o << "~", "0" >>
        ELSE IF key[n] = "/" THEN text[n - 1] \o << "~", "1" >>
        ELSE Append(text[n - 1], key[n])
  IN text[Len(key)]

\* The numbers below N in decimal: that of ten or more is its tenth, and a digit more.
Numerals(N) ==
  LET first[n \in 0 .. N] ==
        IF n = 0 THEN << >>
        ELSE Append(first[n - 1],
                    IF n <= 10 THEN << Digits[n] >>
                    ELSE Append(first[n - 1][((n - 1) \div 10) + 1], Digits[((n - 1) % 10) + 1]))
  IN first[N]

\* The members of a value, each with its token.
Children(value) ==
  IF IsArray(value)
  THEN {<< Numerals(Len(value.elements))[i], value.elements[i] >> : i \in DOMAIN value.elements}
  ELSE IF IsObject(value)
  THEN {<< Escape(key), value.members[key] >> : key \in DOMAIN value.members}
  ELSE {}

ChildrenAt(value, token) == {child[2] : child \in {c \in Children(value) : c[1] = token}}

\* What the tokens name in a document: one value at most.
Named(document, tokens) ==
  LET at[n \in 0 .. Len(tokens)] ==
        IF n = 0 THEN {document}
        ELSE UNION {ChildrenAt(value, tokens[n]) : value \in at[n - 1]}
  IN at[Len(tokens)]

\* A token as the RFC has it: every "~" begins an escape, and there is no "/".
IsToken(token) ==
  \A n \in DOMAIN token :
    /\ token[n] # "/"
    /\ token[n] = "~" => n < Len(token) /\ token[n + 1] \in {"0", "1"}
=============================================================================
