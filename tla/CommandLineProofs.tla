--------------------------- MODULE CommandLineProofs ---------------------------
(***************************************************************************)
(* One run of the command, for every command line, every text and every    *)
(* timeout: its types, its one answer and what that says of arguments,     *)
(* causes and snapshots, its budget, and the polling of the device flow.   *)
(***************************************************************************)
EXTENDS CommandLine, SequenceTheorems, PrefixInduction, TLAPS

-----------------------------------------------------------------------------
(* Documents.                                                              *)

Kinds == {"text", "ack", "snapshot", "event", "answer"}

IsSequence(s) == \E S : s \in Seq(S)

\* One document more.
LEMMA AppendDocument ==
  ASSUME NEW s, IsSequence(s), NEW document
  PROVE  /\ IsSequence(Append(s, document))
         /\ Len(s) \in Nat /\ DOMAIN s = 1 .. Len(s)
         /\ Len(Append(s, document)) = Len(s) + 1
         /\ DOMAIN Append(s, document) = 1 .. (Len(s) + 1)
         /\ \A i \in DOMAIN s : Append(s, document)[i] = s[i]
         /\ Append(s, document)[Len(s) + 1] = document
<1>1. PICK S : s \in Seq(S)
  BY DEF IsSequence
<1> DEFINE T == S \cup {document}
<1>2. s \in Seq(T)
  BY <1>1
<1>3. document \in T
  OBVIOUS
<1> HIDE DEF T
<1>4. Append(s, document) \in Seq(T)
  BY <1>2, <1>3
<1>5. /\ Len(s) \in Nat /\ DOMAIN s = 1 .. Len(s)
      /\ Len(Append(s, document)) = Len(s) + 1
      /\ DOMAIN Append(s, document) = 1 .. (Len(s) + 1)
      /\ \A i \in DOMAIN s : Append(s, document)[i] = s[i]
      /\ Append(s, document)[Len(s) + 1] = document
  BY <1>2, <1>3
<1> QED
  BY <1>4, <1>5 DEF IsSequence

\* One document.
LEMMA OneDocument ==
  ASSUME NEW document
  PROVE  IsSequence(<< document >>) /\ DOMAIN << document >> = {1} /\ << document >>[1] = document
<1>1. << document >> \in Seq({document}) /\ << document >>[1] = document
  OBVIOUS
<1>2. DOMAIN << document >> = 1 .. 1 /\ 1 .. 1 = {1}
  OBVIOUS
<1> QED
  BY <1>1, <1>2 DEF IsSequence

\* Two documents more.
LEMMA Pair ==
  ASSUME NEW T, NEW a \in T, NEW b \in T
  PROVE  << a >> \o << b >> = << a, b >>
<1> DEFINE s == << a >> \o << b >>
           t == << a, b >>
<1>1. << a >> \in Seq(T) /\ << b >> \in Seq(T) /\ Len(<< a >>) = 1 /\ Len(<< b >>) = 1
  OBVIOUS
<1>2. t \in Seq(T) /\ Len(t) = 2 /\ t[1] = a /\ t[2] = b
  OBVIOUS
<1>3. s \in Seq(T) /\ Len(s) = 2
  BY <1>1
<1>4. s[1] = a /\ s[2] = b
  BY <1>1, ConcatProperties
<1> HIDE DEF s, t
<1>5. \A i \in 1 .. Len(s) : s[i] = t[i]
  BY <1>2, <1>3, <1>4
<1>6. s = t
  BY <1>2, <1>3, <1>5, SeqEqual
<1> QED
  BY <1>6 DEF s, t

LEMMA AppendTwo ==
  ASSUME NEW s, IsSequence(s), NEW first, NEW second
  PROVE  s \o << first, second >> = Append(Append(s, first), second)
<1>1. PICK S : s \in Seq(S)
  BY DEF IsSequence
<1> DEFINE T == S \cup {first, second}
<1>2. s \in Seq(T) /\ first \in T /\ second \in T
  BY <1>1
<1> HIDE DEF T
<1>3. << first >> \in Seq(T) /\ << second >> \in Seq(T)
  BY <1>2
<1>4. s \o (<< first >> \o << second >>) = (s \o << first >>) \o << second >>
  BY <1>2, <1>3, ConcatAssociative
<1>5. << first >> \o << second >> = << first, second >>
  BY <1>2, Pair
<1>6. s \o << first >> = Append(s, first) /\ Append(s, first) \in Seq(T)
  BY <1>2
<1>7. Append(s, first) \o << second >> = Append(Append(s, first), second)
  BY <1>2, <1>6
<1> QED
  BY <1>4, <1>5, <1>6, <1>7

-----------------------------------------------------------------------------
(* The device flow.                                                        *)

\* The interval is the gap the gateway has asked for, and a sleep does not end before it.
GapIsKept ==
  /\ told = interval
  /\ polledAt <= now
  /\ loginPc = "sleep" => wakeAt >= polledAt + told

DeviceStep ==
  StartLogin \/ DeviceAuthorized \/ Poll \/ NotYet \/ Granted \/ Saved \/ LoginFails

PollStep == loginPc # "poll" /\ loginPc' = "poll" => now >= polledAt + told /\ now <= expiry

LEMMA DeviceSound ==
  ASSUME DeviceTypeOK, GapIsKept, DeviceStep, UNCHANGED now
  PROVE  DeviceTypeOK' /\ GapIsKept' /\ PollStep
<1>1. /\ now \in Nat /\ interval \in Nat /\ expiry \in Nat /\ wakeAt \in Nat
      /\ told \in Nat /\ polledAt \in Nat
  BY DEF DeviceTypeOK
<1>2. CASE DeviceAuthorized
  <2>1. PICK given \in Intervals, lifetime \in Lifetimes :
               /\ interval' = Or(given, DefaultInterval)
               /\ expiry' = now + Or(lifetime, DefaultLifetime)
    BY <1>2 DEF DeviceAuthorized
  <2>2. Or(given, DefaultInterval) \in Nat /\ Or(lifetime, DefaultLifetime) \in Nat
    BY DeviceAssumption DEF Or
  <2>3. interval' \in Nat /\ expiry' \in Nat
    BY <1>1, <2>1, <2>2
  <2> QED
    BY <1>1, <1>2, <2>3 DEF DeviceAuthorized, DeviceTypeOK, GapIsKept, PollStep
<1>3. CASE NotYet
  <2>1. PICK slower \in {0, SlowDown} : interval' = interval + slower /\ told' = told + slower
    BY <1>3 DEF NotYet
  <2>2. slower \in Nat
    BY DeviceAssumption
  <2>3. interval' \in Nat /\ told' = interval'
    BY <1>1, <2>1, <2>2 DEF GapIsKept
  <2> QED
    BY <1>1, <1>3, <2>3 DEF NotYet, DeviceTypeOK, GapIsKept, PollStep
<1>4. CASE Poll
  BY <1>1, <1>4 DEF Poll, DeviceTypeOK, GapIsKept, PollStep
<1>5. CASE StartLogin \/ Granted \/ Saved \/ LoginFails
  BY <1>1, <1>5 DEF StartLogin, Granted, Saved, LoginFails, DeviceTypeOK, GapIsKept, PollStep
<1> QED
  BY <1>2, <1>3, <1>4, <1>5 DEF DeviceStep

LEMMA DeviceIdle ==
  ASSUME DeviceTypeOK, GapIsKept, UNCHANGED deviceVars, now' \in Nat, now <= now'
  PROVE  DeviceTypeOK' /\ GapIsKept' /\ PollStep
<1>1. now \in Nat /\ polledAt \in Nat
  BY DEF DeviceTypeOK
<1> QED
  BY <1>1 DEF DeviceTypeOK, GapIsKept, PollStep, deviceVars

-----------------------------------------------------------------------------
(* Error codes.                                                            *)

\* The first code there is, of as many as are given.
LEMMA FirstOfValue ==
  ASSUME NEW S, NEW codes \in Seq(S), NEW n \in 1 .. Len(codes), codes[n] # None,
         \A j \in 1 .. (n - 1) : codes[j] = None
  PROVE  FirstOf(codes) = codes[n]
<1> DEFINE IsFirst(i) == codes[i] # None /\ \A j \in 1 .. (i - 1) : codes[j] = None
<1>1. n \in DOMAIN codes /\ IsFirst(n)
  OBVIOUS
<1>2. ASSUME NEW i \in DOMAIN codes, IsFirst(i) PROVE i = n
  <2>1. i \in Nat /\ n \in Nat /\ 1 <= i /\ 1 <= n
    OBVIOUS
  <2>2. ~(i < n) /\ ~(n < i)
    BY <1>1, <1>2, <2>1
  <2> QED
    BY <2>1, <2>2
<1>3. FirstOf(codes) = codes[CHOOSE i \in DOMAIN codes : IsFirst(i)]
  BY <1>1 DEF FirstOf
<1> HIDE DEF IsFirst
<1> QED
  BY <1>1, <1>2, <1>3

LEMMA FirstOfFour ==
  ASSUME NEW a, NEW b, NEW c, NEW d, d # None
  PROVE  FirstOf(<< a, b, c, d >>) =
           IF a # None THEN a ELSE IF b # None THEN b ELSE IF c # None THEN c ELSE d
<1> DEFINE codes == << a, b, c, d >>
<1>1. /\ codes \in Seq({a, b, c, d}) /\ Len(codes) = 4
      /\ codes[1] = a /\ codes[2] = b /\ codes[3] = c /\ codes[4] = d
  OBVIOUS
<1> DEFINE n == IF a # None THEN 1 ELSE IF b # None THEN 2 ELSE IF c # None THEN 3 ELSE 4
<1>2. n \in 1 .. 4
  OBVIOUS
<1>3. codes[n] # None /\ \A j \in 1 .. (n - 1) : codes[j] = None
  <2> HIDE DEF codes
  <2>1. \A j \in 1 .. (n - 1) : j < n /\ (j = 1 \/ j = 2 \/ j = 3)
    BY <1>2
  <2> QED
    BY <1>1, <2>1
<1> HIDE DEF codes
<1>4. FirstOf(codes) = codes[n]
  BY <1>1, <1>2, <1>3, FirstOfValue
<1>5. FirstOf(codes) =
           IF a # None THEN a ELSE IF b # None THEN b ELSE IF c # None THEN c ELSE d
  BY <1>1, <1>4
<1> QED
  BY <1>5 DEF codes

LEMMA FirstOfSix ==
  ASSUME NEW a, NEW b, NEW c, NEW d, NEW e, NEW f, f # None
  PROVE  FirstOf(<< a, b, c, d, e, f >>) =
           IF a # None THEN a ELSE IF b # None THEN b ELSE IF c # None THEN c
           ELSE IF d # None THEN d ELSE IF e # None THEN e ELSE f
<1> DEFINE codes == << a, b, c, d, e, f >>
<1>1. /\ codes \in Seq({a, b, c, d, e, f}) /\ Len(codes) = 6
      /\ codes[1] = a /\ codes[2] = b /\ codes[3] = c /\ codes[4] = d
      /\ codes[5] = e /\ codes[6] = f
  OBVIOUS
<1> DEFINE n == IF a # None THEN 1 ELSE IF b # None THEN 2 ELSE IF c # None THEN 3
                ELSE IF d # None THEN 4 ELSE IF e # None THEN 5 ELSE 6
<1>2. n \in 1 .. 6
  OBVIOUS
<1>3. codes[n] # None /\ \A j \in 1 .. (n - 1) : codes[j] = None
  <2> HIDE DEF codes
  <2>1. \A j \in 1 .. (n - 1) : j < n /\ (j = 1 \/ j = 2 \/ j = 3 \/ j = 4 \/ j = 5)
    BY <1>2
  <2> QED
    BY <1>1, <2>1
<1> HIDE DEF codes
<1>4. FirstOf(codes) = codes[n]
  BY <1>1, <1>2, <1>3, FirstOfValue
<1>5. FirstOf(codes) =
           IF a # None THEN a ELSE IF b # None THEN b ELSE IF c # None THEN c
           ELSE IF d # None THEN d ELSE IF e # None THEN e ELSE f
  BY <1>1, <1>4
<1> QED
  BY <1>5 DEF codes

\* An error of n links with `first` on top and `last` as the code of the last one, which
\* findCauseCode gets to, and which is the first it may know.
Chain(error, n, first, last) ==
  /\ n \in 1 .. Depth
  /\ \E S : error \in Seq(S)
  /\ Len(error) = n
  /\ error[1] = first
  /\ \A i \in 1 .. (n - 1) : NextCause(error[i]) /\ error[i].code \notin NetworkCodes
  /\ error[n].code = last

LEMMA OneLink ==
  ASSUME NEW class, NEW code, NEW via
  PROVE  Chain(<< Link(class, code, via) >>, 1, Link(class, code, via), code)
<1> DEFINE link == Link(class, code, via)
<1>1. link.code = code
  BY DEF Link
<1> HIDE DEF link
<1>2. /\ << link >> \in Seq({link}) /\ Len(<< link >>) = 1 /\ << link >>[1] = link
      /\ 1 \in 1 .. Depth /\ 1 .. (1 - 1) = {}
  BY DEF Depth
<1>3. Chain(<< link >>, 1, link, code)
  BY <1>1, <1>2 DEF Chain
<1> QED
  BY <1>3 DEF link

LEMMA WrappedChain ==
  ASSUME NEW error, NEW n, NEW first, NEW last, Chain(error, n, first, last), n < Depth,
         NEW link, NextCause(link), link.code \notin NetworkCodes
  PROVE  Chain(<< link >> \o error, n + 1, link, last)
<1>1. PICK S : error \in Seq(S)
  BY DEF Chain
<1> DEFINE T == S \cup {link}
           wrapped == << link >> \o error
<1>2. error \in Seq(T) /\ << link >> \in Seq(T) /\ Len(<< link >>) = 1 /\ << link >>[1] = link
  BY <1>1
<1> HIDE DEF T
<1>3. n \in Nat /\ n >= 1 /\ Len(error) = n /\ n + 1 \in 1 .. Depth
  BY DEF Chain, Depth
<1>4. /\ wrapped \in Seq(T) /\ Len(wrapped) = n + 1 /\ wrapped[1] = link
      /\ \A i \in 1 .. n : wrapped[i + 1] = error[i]
  BY <1>2, <1>3
<1> HIDE DEF wrapped
<1>5. ASSUME NEW i \in 1 .. n
      PROVE  NextCause(wrapped[i]) /\ wrapped[i].code \notin NetworkCodes
  <2>1. CASE i = 1
    BY <1>4, <2>1
  <2>2. CASE i # 1
    <3>1. i - 1 \in 1 .. (n - 1) /\ i - 1 \in 1 .. n /\ (i - 1) + 1 = i
      BY <1>3, <2>2
    <3> QED
      BY <1>4, <3>1 DEF Chain
  <2> QED
    BY <2>1, <2>2
<1>6. n \in 1 .. n /\ wrapped[n + 1].code = last /\ (n + 1) - 1 = n
  BY <1>3, <1>4 DEF Chain
<1>7. Chain(wrapped, n + 1, link, last)
  BY <1>3, <1>4, <1>5, <1>6 DEF Chain
<1> QED
  BY <1>7 DEF wrapped

\* What findCauseCode finds.
LEMMA CauseFound ==
  ASSUME NEW error, NEW n, NEW first, NEW last, Chain(error, n, first, last)
  PROVE  FindCauseCode(error) = IF last \in NetworkCodes THEN last ELSE None
<1> DEFINE found == {i \in DOMAIN error :
                       /\ i <= Depth
                       /\ \A j \in 1 .. (i - 1) : NextCause(error[j])
                       /\ error[i].code \in NetworkCodes}
<1>1. DOMAIN error = 1 .. n /\ n \in Nat /\ 1 <= n /\ n <= Depth
  BY DEF Chain, Depth
<1>2. \A i \in 1 .. n : i = n \/ i \in 1 .. (n - 1)
  BY <1>1
<1>3. \A i \in found : i = n /\ last \in NetworkCodes
  BY <1>1, <1>2 DEF Chain
<1>4. last \in NetworkCodes => n \in found
  BY <1>1 DEF Chain
<1>5. FindCauseCode(error) = IF found = {} THEN None
                             ELSE error[CHOOSE i \in found : \A j \in found : i <= j].code
  BY DEF FindCauseCode
<1> HIDE DEF found
<1>6. CASE last \in NetworkCodes
  <2>1. found = {n} /\ n <= n
    BY <1>1, <1>3, <1>4, <1>6
  <2>2. (CHOOSE i \in found : \A j \in found : i <= j) = n
    BY <2>1
  <2> QED
    BY <1>5, <1>6, <2>1, <2>2 DEF Chain
<1>7. CASE last \notin NetworkCodes
  BY <1>3, <1>5, <1>7
<1> QED
  BY <1>6, <1>7

\* The diagnosis of a code.
Network(code) ==
  CASE code = "CERT_HAS_EXPIRED" -> "TLS_CERT_UNTRUSTED"
    [] code = "ENOTFOUND"        -> "DNS_LOOKUP_FAILED"
    [] code = "ECONNREFUSED"     -> "CONNECTION_REFUSED"
    [] OTHER                     -> None

LEMMA Classified ==
  ASSUME NEW error, NEW n, NEW first, NEW last, Chain(error, n, first, last)
  PROVE  ClassifyNetworkError(error) = Network(last) /\ error[1] = first
<1>1. FindCauseCode(error) = IF last \in NetworkCodes THEN last ELSE None
  BY CauseFound
<1>2. None \notin {"CERT_HAS_EXPIRED", "ENOTFOUND", "ECONNREFUSED"}
  BY NoneAssumption DEF NetworkCodes, TlsCodes
<1>3. ClassifyNetworkError(error) = Network(last)
  BY <1>1, <1>2 DEF ClassifyNetworkError, Network, NetworkCodes, TlsCodes
<1> QED
  BY <1>3 DEF Chain

\* The code of an error: by its class, or else by what the chain ends in.
LEMMA SubscribeCodeOf ==
  ASSUME NEW error, NEW n, NEW first, NEW last, Chain(error, n, first, last)
  PROVE  SubscribeCode(error) =
           IF first.class = "AuthLoginRequiredError" THEN "AUTH_LOGIN_REQUIRED"
           ELSE IF first.class = "AuthTimeoutError" THEN "AUTH_TIMEOUT"
           ELSE IF first.class = "OAuthRequestError" THEN "AUTH_REFRESH_FAILED"
           ELSE IF first.class = "ProtocolNegotiationError" THEN "PROTOCOL_UNSUPPORTED"
           ELSE IF Network(last) # None THEN Network(last)
           ELSE "INTERNAL_ERROR"
<1>1. ClassifyNetworkError(error) = Network(last) /\ error[1] = first
  BY Classified
<1>2. \A code \in ThrownCodes : code # None
  BY NoneAssumption
<1> DEFINE negotiation == IF first.class = "ProtocolNegotiationError"
                          THEN "PROTOCOL_UNSUPPORTED" ELSE None
<1>3. SubscribeCode(error) =
        IF AuthCode(error) # None THEN AuthCode(error)
        ELSE IF negotiation # None THEN negotiation
        ELSE IF Network(last) # None THEN Network(last)
        ELSE "INTERNAL_ERROR"
  <2>1. SubscribeCode(error) =
          FirstOf(<< AuthCode(error), negotiation, Network(last), "INTERNAL_ERROR" >>)
    BY <1>1 DEF SubscribeCode
  <2>2. "INTERNAL_ERROR" # None
    BY <1>2 DEF ThrownCodes
  <2> HIDE DEF negotiation
  <2> QED
    BY <2>1, <2>2, FirstOfFour
<1> QED
  BY <1>1, <1>2, <1>3 DEF AuthCode, ThrownCodes

LEMMA CallCodeOf ==
  ASSUME NEW error, NEW n, NEW first, NEW last, Chain(error, n, first, last)
  PROVE  CallCode(error) =
           IF first.class = "AuthLoginRequiredError" THEN "AUTH_LOGIN_REQUIRED"
           ELSE IF first.class = "AuthTimeoutError" THEN "AUTH_TIMEOUT"
           ELSE IF first.class = "OAuthRequestError" THEN "AUTH_REFRESH_FAILED"
           ELSE IF first.class = "SdkHttpError" /\ first.code \in {"401", "403"}
           THEN "AUTH_FAILED"
           ELSE IF first.class = "ProtocolNegotiationError" THEN "PROTOCOL_UNSUPPORTED"
           ELSE IF /\ first.class = "ProtocolError"
                   /\ first.code \in {"INVALID_PARAMS", "METHOD_NOT_FOUND"}
           THEN "TOOL_REQUEST_REJECTED"
           ELSE IF Network(last) # None THEN Network(last)
           ELSE "CALL_FAILED"
<1>1. ClassifyNetworkError(error) = Network(last) /\ error[1] = first
  BY Classified
<1>2. \A code \in ThrownCodes : code # None
  BY NoneAssumption
<1> DEFINE refused == IF first.class = "SdkHttpError" /\ first.code \in {"401", "403"}
                      THEN "AUTH_FAILED" ELSE None
           negotiation == IF first.class = "ProtocolNegotiationError"
                          THEN "PROTOCOL_UNSUPPORTED" ELSE None
           rejected == IF first.class = "ProtocolError"
                          /\ first.code \in {"INVALID_PARAMS", "METHOD_NOT_FOUND"}
                       THEN "TOOL_REQUEST_REJECTED" ELSE None
<1>3. CallCode(error) =
        IF AuthCode(error) # None THEN AuthCode(error)
        ELSE IF refused # None THEN refused
        ELSE IF negotiation # None THEN negotiation
        ELSE IF rejected # None THEN rejected
        ELSE IF Network(last) # None THEN Network(last)
        ELSE "CALL_FAILED"
  <2>1. CallCode(error) =
          FirstOf(<< AuthCode(error), refused, negotiation, rejected, Network(last),
                     "CALL_FAILED" >>)
    BY <1>1 DEF CallCode
  <2>2. "CALL_FAILED" # None
    BY <1>2 DEF ThrownCodes
  <2> HIDE DEF refused, negotiation, rejected
  <2> QED
    BY <2>1, <2>2, FirstOfSix
<1> QED
  BY <1>1, <1>2, <1>3 DEF AuthCode, ThrownCodes

\* What the catch block of the mode reports of an error.
Reported(error) == IF Mode = "call" THEN CallCode(error) ELSE SubscribeCode(error)

ReportedExit(error) == IF Mode = "call" THEN CallExit(Reported(error)) ELSE 1

IsDiagnosed(why, error) == Diagnosed(why, Reported(error), ReportedExit(error))

\* A failure of the network is found whatever has wrapped it.
LEMMA NetworkDiagnosed ==
  ASSUME NEW error, NEW n, NEW first, NEW why \in DOMAIN NetworkCause,
         Chain(error, n, first, NetworkCause[why]),
         \/ first.class \in {"TypeError", "Error", "SdkError"}
         \/ first.class = "ProtocolNegotiationError" /\ why = "reset"
  PROVE  IsDiagnosed(why, error)
<1> DEFINE code == Network(NetworkCause[why])
<1>1. why \in {"untrusted", "unknown_host", "refused", "reset"}
  BY DEF NetworkCause
<1>2. code = CASE why = "untrusted"    -> "TLS_CERT_UNTRUSTED"
               [] why = "unknown_host" -> "DNS_LOOKUP_FAILED"
               [] why = "refused"      -> "CONNECTION_REFUSED"
               [] OTHER                -> None
  BY <1>1 DEF Network, NetworkCause
<1>3. \A c \in ThrownCodes : c # None
  BY NoneAssumption
<1>4. Reported(error) \in
        IF why = "reset" THEN {"PROTOCOL_UNSUPPORTED", GeneralCode} ELSE {code}
  <2> HIDE DEF code
  <2>1. CASE Mode = "call"
    BY <1>1, <1>2, <1>3, <2>1, CallCodeOf DEF Reported, GeneralCode, ThrownCodes, code
  <2>2. CASE Mode # "call"
    BY <1>1, <1>2, <1>3, <2>2, SubscribeCodeOf DEF Reported, GeneralCode, ThrownCodes, code
  <2> QED
    BY <2>1, <2>2
<1> HIDE DEF code
<1>5. why \in DOMAIN Documented => Reported(error) = Documented[why]
  BY <1>1, <1>2, <1>4 DEF Documented
<1>6. Mode = "call" => ReportedExit(error) = 3
  BY <1>1, <1>2, <1>4 DEF ReportedExit, CallExit, GeneralCode
<1>7. why = "reset" => Reported(error) \in {GeneralCode, "PROTOCOL_UNSUPPORTED"}
  BY <1>4
<1> QED
  BY <1>1, <1>5, <1>6, <1>7 DEF IsDiagnosed, Diagnosed

\* The other errors, by their class and code.
LEMMA ClassDiagnosed ==
  ASSUME NEW error, NEW n, NEW first, NEW last, Chain(error, n, first, last),
         Mode \in {"call", "subscribe"}, NEW why,
         \/ why = "dead_credentials" /\ first.class = "AuthLoginRequiredError"
         \/ why = "gateway_silent" /\ first.class = "AuthTimeoutError"
         \/ why = "gateway_failing" /\ first.class = "OAuthRequestError"
         \/ why = "store_unusable" /\ first.class = "Error" /\ Network(last) = None
         \/ why = "old_server" /\ first.class = "ProtocolNegotiationError"
         \/ /\ why = "unauthorized" /\ first.class = "SdkHttpError"
            /\ first.code \in {"401", "403"} /\ Network(last) = None
         \/ /\ why = "tool_rejected" /\ first.class = "ProtocolError" /\ Mode = "call"
            /\ first.code \in {"INVALID_PARAMS", "METHOD_NOT_FOUND"}
         \/ why = "silence" /\ first.class = "SdkError" /\ Network(last) = None
  PROVE  IsDiagnosed(why, error)
<1>1. why \in {"dead_credentials", "gateway_silent", "gateway_failing", "store_unusable",
               "old_server", "unauthorized", "tool_rejected", "silence"}
  OBVIOUS
<1>2. CASE Mode = "call"
  <2>1. Reported(error) =
          CASE why = "dead_credentials" -> "AUTH_LOGIN_REQUIRED"
            [] why = "gateway_silent"   -> "AUTH_TIMEOUT"
            [] why = "gateway_failing"  -> "AUTH_REFRESH_FAILED"
            [] why = "old_server"       -> "PROTOCOL_UNSUPPORTED"
            [] why = "unauthorized"     -> "AUTH_FAILED"
            [] why = "tool_rejected"    -> "TOOL_REQUEST_REJECTED"
            [] OTHER                    -> "CALL_FAILED"
    BY <1>1, <1>2, CallCodeOf DEF Reported
  <2> QED
    BY <1>1, <1>2, <2>1
       DEF IsDiagnosed, Diagnosed, Documented, GeneralCode, ReportedExit, CallExit
<1>3. CASE Mode # "call"
  <2>1. Reported(error) =
          CASE why = "dead_credentials" -> "AUTH_LOGIN_REQUIRED"
            [] why = "gateway_silent"   -> "AUTH_TIMEOUT"
            [] why = "gateway_failing"  -> "AUTH_REFRESH_FAILED"
            [] why = "old_server"       -> "PROTOCOL_UNSUPPORTED"
            [] OTHER                    -> "INTERNAL_ERROR"
    BY <1>1, <1>3, SubscribeCodeOf DEF Reported
  <2> QED
    BY <1>1, <1>3, <2>1 DEF IsDiagnosed, Diagnosed, Documented, GeneralCode
<1> QED
  BY <1>2, <1>3

\* What fetch throws, and what it is wrapped in.
LEMMA FetchChain ==
  ASSUME NEW code
  PROVE  Chain(Fetch(code), 2, Link("TypeError", None, "cause"), code)
<1> DEFINE link == Link("TypeError", None, "cause")
           error == << Link("Error", code, None) >>
<1>1. NextCause(link) /\ link.code \notin NetworkCodes
  BY NoneAssumption DEF NextCause, Link, NetworkCodes
<1>2. Chain(error, 1, Link("Error", code, None), code) /\ 1 < Depth /\ 1 + 1 = 2
  BY OneLink DEF Depth
<1>3. Fetch(code) = << link >> \o error
  BY DEF Fetch
<1> HIDE DEF link, error
<1>4. Chain(<< link >> \o error, 2, link, code)
  BY <1>1, <1>2, WrappedChain
<1> QED
  BY <1>3, <1>4 DEF link

LEMMA WrappedIn ==
  ASSUME NEW error, NEW n, NEW first, NEW last, Chain(error, n, first, last), n < Depth,
         NEW class, NEW via \in {"cause", "data"}, NEW code \in {None, "ERA_NEGOTIATION_FAILED"}
  PROVE  Chain(<< Link(class, code, via) >> \o error, n + 1, Link(class, code, via), last)
<1> DEFINE link == Link(class, code, via)
<1>1. NextCause(link) /\ link.code \notin NetworkCodes
  BY NoneAssumption DEF NextCause, Link, NetworkCodes, TlsCodes
<1> HIDE DEF link
<1>2. Chain(<< link >> \o error, n + 1, link, last)
  BY <1>1, WrappedChain
<1> QED
  BY <1>2 DEF link

LEMMA AuthDiagnosed ==
  ASSUME NEW why \in AuthCauses, NEW error \in AuthErrors(why), Mode \in {"call", "subscribe"}
  PROVE  IsDiagnosed(why, error)
<1> USE DEF Thrown, Link
<1>1. CASE why = "dead_credentials"
  <2>1. CASE error = Thrown("AuthLoginRequiredError", None)
    <3>1. Chain(error, 1, Link("AuthLoginRequiredError", None, None), None)
      BY <2>1, OneLink
    <3> QED
      BY <1>1, <3>1, ClassDiagnosed
  <2>2. CASE error = << Link("AuthLoginRequiredError", None, "cause") >>
                       \o Thrown("OAuthRequestError", None)
    <3>1. Chain(Thrown("OAuthRequestError", None), 1, Link("OAuthRequestError", None, None), None)
      BY OneLink
    <3>2. 1 < Depth
      BY DEF Depth
    <3>3. Chain(error, 1 + 1, Link("AuthLoginRequiredError", None, "cause"), None)
      <4> HIDE DEF Thrown, Link
      <4> QED
        BY <2>2, <3>1, <3>2, WrappedIn
    <3> QED
      BY <1>1, <3>3, ClassDiagnosed
  <2> QED
    BY <1>1, <2>1, <2>2 DEF AuthErrors
<1>2. CASE why = "gateway_failing"
  <2>1. Chain(error, 1, Link("OAuthRequestError", None, None), None)
    BY <1>2, OneLink DEF AuthErrors
  <2> QED
    BY <1>2, <2>1, ClassDiagnosed
<1>3. CASE why = "store_unusable"
  <2>1. Chain(error, 1, Link("Error", "ERR_SQLITE_ERROR", None), "ERR_SQLITE_ERROR")
    BY <1>3, OneLink DEF AuthErrors
  <2>2. Network("ERR_SQLITE_ERROR") = None
    BY DEF Network
  <2> QED
    BY <1>3, <2>1, <2>2, ClassDiagnosed
<1>4. CASE why \in DOMAIN NetworkCause
  <2> DEFINE code == NetworkCause[why]
  <2>1. Chain(Fetch(code), 2, Link("TypeError", None, "cause"), code) /\ 2 < Depth
    BY FetchChain DEF Depth
  <2> HIDE DEF code
  <2>2. Chain(<< Link("Error", None, "cause") >> \o Fetch(code), 2 + 1,
              Link("Error", None, "cause"), code)
    <3> HIDE DEF Thrown, Link
    <3> QED
      BY <2>1, WrappedIn
  <2>3. error \in {Fetch(code), << Link("Error", None, "cause") >> \o Fetch(code)}
    BY <1>4 DEF AuthErrors, NetworkCause, code
  <2> QED
    BY <1>4, <2>1, <2>2, <2>3, NetworkDiagnosed DEF code
<1> QED
  BY <1>1, <1>2, <1>3, <1>4 DEF AuthCauses

LEMMA ConnectDiagnosed ==
  ASSUME NEW why \in ConnectCauses, NEW error \in ConnectErrors(why),
         Mode \in {"call", "subscribe"}
  PROVE  IsDiagnosed(why, ConnectPinned(error))
<1>1. CASE why = "old_server"
  <2>1. PICK first, last :
               /\ Chain(error, 1, first, last) /\ Network(last) = None
               /\ \/ first.class = "UnsupportedProtocolVersionError"
                  \/ first.class = "SdkError" /\ first.code = "ERA_NEGOTIATION_FAILED"
    <3>1. CASE error = Thrown("UnsupportedProtocolVersionError", None)
      BY <3>1, OneLink, NoneAssumption DEF Thrown, Link, Network, NetworkCodes, TlsCodes
    <3>2. CASE error = << EraFailed >>
      BY <3>2, OneLink DEF EraFailed, Link, Network
    <3> QED
      BY <1>1, <3>1, <3>2 DEF ConnectErrors
  <2>2. ConnectPinned(error) = << Link("ProtocolNegotiationError", None, "cause") >> \o error
    BY <2>1, Classified DEF ConnectPinned, RefusesRevision
  <2>3. Chain(ConnectPinned(error), 1 + 1, Link("ProtocolNegotiationError", None, "cause"), last)
    <3>1. 1 < Depth
      BY DEF Depth
    <3> QED
      BY <2>1, <2>2, <3>1, WrappedIn
  <2> QED
    BY <1>1, <2>3, ClassDiagnosed DEF Link
<1>2. CASE why = "unauthorized"
  <2>1. PICK code \in {"401", "403"} : error = Thrown("SdkHttpError", code)
    BY <1>2 DEF ConnectErrors
  <2> DEFINE first == Link("SdkHttpError", code, None)
  <2>2. Chain(error, 1, first, code)
    BY <2>1, OneLink DEF Thrown
  <2>3. Network(code) = None /\ first.class = "SdkHttpError" /\ first.code = code
    BY DEF Network, Link
  <2> HIDE DEF first
  <2>4. ConnectPinned(error) = error
    BY <2>2, <2>3, Classified DEF ConnectPinned, RefusesRevision
  <2> QED
    BY <1>2, <2>2, <2>3, <2>4, ClassDiagnosed
<1>3. CASE why \in DOMAIN NetworkCause
  <2> DEFINE code == NetworkCause[why]
  <2>1. Chain(Fetch(code), 2, Link("TypeError", None, "cause"), code) /\ 2 < Depth /\ 2 + 1 = 3
    BY FetchChain DEF Depth
  <2>2. Network(code) = None <=> why = "reset"
    BY <1>3, NoneAssumption DEF NetworkCause, Network, ThrownCodes
  <2>3. error \in {Fetch(code), << EraFailed >> \o Fetch(code)}
    BY <1>3 DEF ConnectErrors, NetworkCause
  <2> HIDE DEF code
  <2>4. CASE error = Fetch(code)
    <3>1. ConnectPinned(error) = error
      BY <2>1, <2>4, Classified DEF ConnectPinned, RefusesRevision, Link
    <3> QED
      BY <1>3, <2>1, <2>4, <3>1, NetworkDiagnosed DEF code, Link
  <2>5. CASE error = << EraFailed >> \o Fetch(code)
    <3>1. Chain(error, 3, EraFailed, code) /\ 3 < Depth
      <4>1. Chain(error, 2 + 1, EraFailed, code)
        BY <2>1, <2>5, WrappedIn DEF EraFailed
      <4> QED
        BY <2>1, <4>1 DEF Depth
    <3>2. CASE why # "reset"
      <4>1. ConnectPinned(error) = error
        BY <2>2, <3>1, <3>2, Classified DEF ConnectPinned
      <4> QED
        BY <1>3, <3>1, <4>1, NetworkDiagnosed DEF code, EraFailed, Link
    <3>3. CASE why = "reset"
      <4>1. ConnectPinned(error) =
              << Link("ProtocolNegotiationError", None, "cause") >> \o error
        BY <2>2, <3>1, <3>3, Classified DEF ConnectPinned, RefusesRevision, EraFailed, Link
      <4>2. Chain(ConnectPinned(error), 3 + 1, Link("ProtocolNegotiationError", None, "cause"),
                  code)
        BY <3>1, <4>1, WrappedIn
      <4> QED
        BY <1>3, <3>3, <4>2, NetworkDiagnosed DEF code, Link
    <3> QED
      BY <3>2, <3>3
  <2> QED
    BY <2>3, <2>4, <2>5
<1> QED
  BY <1>1, <1>2, <1>3 DEF ConnectCauses

LEMMA RequestDiagnosed ==
  ASSUME NEW why \in RequestCauses, NEW error \in RequestErrors(why),
         Mode \in {"call", "subscribe"}, why = "tool_rejected" => Mode = "call"
  PROVE  IsDiagnosed(why, error)
<1>1. CASE why = "tool_rejected"
  <2>1. PICK code \in {"INVALID_PARAMS", "METHOD_NOT_FOUND"} : error = Thrown("ProtocolError", code)
    BY <1>1 DEF RequestErrors
  <2>2. Chain(error, 1, Link("ProtocolError", code, None), code)
    BY <2>1, OneLink DEF Thrown
  <2> QED
    BY <1>1, <2>2, ClassDiagnosed DEF Link
<1>2. CASE why = "unauthorized"
  <2>1. PICK code \in {"401", "403"} : error = Thrown("SdkHttpError", code)
    BY <1>2 DEF RequestErrors
  <2>2. Chain(error, 1, Link("SdkHttpError", code, None), code) /\ Network(code) = None
    BY <2>1, OneLink DEF Thrown, Network
  <2> QED
    BY <1>2, <2>2, ClassDiagnosed DEF Link
<1>3. CASE why \in DOMAIN NetworkCause
  <2>1. Chain(Fetch(NetworkCause[why]), 2, Link("TypeError", None, "cause"), NetworkCause[why])
    BY FetchChain
  <2>2. error = Fetch(NetworkCause[why])
    BY <1>3 DEF RequestErrors, NetworkCause
  <2> QED
    BY <1>3, <2>1, <2>2, NetworkDiagnosed DEF Link
<1> QED
  BY <1>1, <1>2, <1>3 DEF RequestCauses

LEMMA SilenceDiagnosed ==
  ASSUME Mode \in {"call", "subscribe"}
  PROVE  /\ IsDiagnosed("gateway_silent",
                        << Link("AuthTimeoutError", None, "cause") >> \o Thrown("AbortError", None))
         /\ IsDiagnosed("silence", Thrown("SdkError", "REQUEST_TIMEOUT"))
<1>1. Chain(Thrown("AbortError", None), 1, Link("AbortError", None, None), None) /\ 1 < Depth
  BY OneLink DEF Thrown, Depth
<1>2. Chain(<< Link("AuthTimeoutError", None, "cause") >> \o Thrown("AbortError", None), 1 + 1,
            Link("AuthTimeoutError", None, "cause"), None)
  BY <1>1, WrappedIn
<1>3. /\ Chain(Thrown("SdkError", "REQUEST_TIMEOUT"), 1,
               Link("SdkError", "REQUEST_TIMEOUT", None), "REQUEST_TIMEOUT")
      /\ Network("REQUEST_TIMEOUT") = None
  BY OneLink DEF Thrown, Network
<1> QED
  BY <1>2, <1>3, ClassDiagnosed DEF Link

\* Whatever is thrown, there is a code for it.
LEMMA CodesAreThrown ==
  ASSUME NEW error
  PROVE  Reported(error) \in ThrownCodes
<1> DEFINE Known(code) == code \in ThrownCodes \cup {None}
<1>1. Known(AuthCode(error)) /\ Known(ClassifyNetworkError(error)) /\ Known(None)
  BY DEF AuthCode, ClassifyNetworkError, ThrownCodes
<1>2. /\ "INTERNAL_ERROR" \in ThrownCodes /\ "CALL_FAILED" \in ThrownCodes
      /\ "INTERNAL_ERROR" # None /\ "CALL_FAILED" # None
  BY NoneAssumption DEF ThrownCodes
<1> DEFINE refused == IF error[1].class = "SdkHttpError" /\ error[1].code \in {"401", "403"}
                      THEN "AUTH_FAILED" ELSE None
           negotiation == IF error[1].class = "ProtocolNegotiationError"
                          THEN "PROTOCOL_UNSUPPORTED" ELSE None
           rejected == IF error[1].class = "ProtocolError"
                          /\ error[1].code \in {"INVALID_PARAMS", "METHOD_NOT_FOUND"}
                       THEN "TOOL_REQUEST_REJECTED" ELSE None
<1>3. Known(refused) /\ Known(negotiation) /\ Known(rejected)
  BY DEF ThrownCodes
<1>4. /\ SubscribeCode(error) = FirstOf(<< AuthCode(error), negotiation,
                                          ClassifyNetworkError(error), "INTERNAL_ERROR" >>)
      /\ CallCode(error) = FirstOf(<< AuthCode(error), refused, negotiation, rejected,
                                     ClassifyNetworkError(error), "CALL_FAILED" >>)
  BY DEF SubscribeCode, CallCode
<1> HIDE DEF refused, negotiation, rejected
<1>5. SubscribeCode(error) \in ThrownCodes
  BY <1>1, <1>2, <1>3, <1>4, FirstOfFour
<1>6. CallCode(error) \in ThrownCodes
  BY <1>1, <1>2, <1>3, <1>4, FirstOfSix
<1> QED
  BY <1>5, <1>6 DEF Reported

\* The first check that fails gives the code; none does when there is none.
LEMMA NoneRefuses ==
  ASSUME NEW S, NEW codes \in Seq(S), FirstOf(codes) = None
  PROVE  \A i \in 1 .. Len(codes) : codes[i] = None
<1> DEFINE IsFirst(i) == codes[i] # None /\ \A j \in 1 .. (i - 1) : codes[j] = None
<1>1. SUFFICES ASSUME NEW n \in 1 .. Len(codes), codes[n] # None PROVE FALSE
  OBVIOUS
<1>2. \E i \in 1 .. Len(codes) : IsFirst(i)
  <2> DEFINE T == {i \in 1 .. Len(codes) : codes[i] # None}
  <2>1. T \subseteq Nat /\ n \in T
    BY <1>1
  <2>2. PICK least \in T : \A i \in T : least <= i
    <3> HIDE DEF T
    <3> QED
      BY <2>1, LeastNumber
  <2>3. \A j \in 1 .. (least - 1) : j \notin T /\ j \in 1 .. Len(codes)
    BY <2>1, <2>2
  <2> QED
    BY <2>2, <2>3
<1>3. DOMAIN codes = 1 .. Len(codes)
  OBVIOUS
<1>4. FirstOf(codes) = codes[CHOOSE i \in DOMAIN codes : IsFirst(i)]
  BY <1>1, <1>3 DEF FirstOf
<1> HIDE DEF IsFirst
<1>5. IsFirst(CHOOSE i \in DOMAIN codes : IsFirst(i))
  BY <1>2, <1>3
<1> QED
  BY <1>4, <1>5 DEF IsFirst

-----------------------------------------------------------------------------
(* The inductive invariant.                                                *)

\* The mode of a run is the mode of what it is doing.
Place ==
  /\ pc \in {"stdin", "connect", "tool"} => Mode = "call"
  /\ pc = "auth" => Mode \in {"call", "subscribe"}
  /\ pc = "subscribe" => Mode = "subscribe" /\ ~Jsonl
  /\ pc = "stream" => Mode = "subscribe" /\ Jsonl
  /\ pc = "watch" => Mode = "watch"
  /\ pc = "login" => Mode = "login"

\* There are documents in the one format, and no answer before the end.
Documents ==
  /\ IsSequence(output)
  /\ pc = "start" => output = << >>
  /\ pc # "done" => AnswerAt = {}
  /\ \A i \in DOMAIN output : output[i].format = Format

\* Nobody is contacted but with arguments that have passed the checks.
Vetted ==
  /\ pc \in {"start", "stdin"} => ~contacted
  /\ contacted \/ pc = "stdin" => Usage = None /\ Mode \in {"subscribe", "call", "login"}

\* The answer, the exit code and what went wrong agree, and the answer does not blame the
\* arguments when somebody has been contacted; until then there is none of them.
Concluding ==
  /\ pc # "done" => exitCode = 0 /\ cause = None
  /\ contacted /\ AnswerAt # {} => Final.error \notin UsageCodes
  /\ AnswerAt # {} /\ Mode # "watch" => (Final.error = None <=> exitCode = 0)
  /\ DiagnosisIsTheCause

Matches(text) == EvaluateSnapshot(ParseUntil(line.until), text)

\* A snapshot that matches is the last line before the answer of a success.
StopsAtMatch ==
  Mode = "subscribe" /\ Jsonl =>
    \A i \in DOMAIN output : output[i].kind = "snapshot" =>
      /\ output[i].text \in Texts
      /\ Matches(output[i].text) <=>
           i = Len(output) - 1 /\ Final.kind = "answer" /\ exitCode = 0

IInv ==
  /\ TypeOK /\ GapIsKept /\ Place /\ Documents /\ AnswersOnce /\ OneBudget
  /\ Vetted /\ Concluding /\ StopsAtMatch

\* A run has one mode.
LEMMA Modes ==
  Mode \in {"help", "version", "login", "logout", "watch", "call", "subscribe"}
BY DEF Mode

\* What an option says, it says to the end.
LEMMA SameLine ==
  ASSUME UNCHANGED line
  PROVE  /\ Mode' = Mode /\ Jsonl' = Jsonl /\ Format' = Format /\ Usage' = Usage
         /\ \A text : Matches(text)' = Matches(text)
BY DEF Mode, Json, Jsonl, Format, Usage, SubscribeUsage, CallUsage, WatchUsage, CacheUsage,
       UseStdin, Matches

LEMMA InitInv == Init => IInv
<1> SUFFICES ASSUME Init PROVE IInv
  OBVIOUS
<1>1. DeviceTypeOK /\ GapIsKept
  BY DEF Init, DeviceInit, DeviceTypeOK, GapIsKept
<1>2. IsSequence(output) /\ DOMAIN output = {} /\ AnswerAt = {}
  <2>1. << >> \in Seq({})
    OBVIOUS
  <2> QED
    BY <2>1 DEF Init, IsSequence, AnswerAt
<1>3. TypeOK
  <2>1. now = 0 /\ 0 \in 0 .. StdinLimit /\ 0 \in 0 .. 0 /\ 0 \in 0 .. 4
    BY CommandAssumption DEF Init, DeviceInit
  <2> QED
    BY <1>1, <1>2, <2>1 DEF Init, TypeOK
<1> QED
  BY <1>1, <1>2, <1>3 DEF Init, IInv, Place, Documents, AnswersOnce, OneBudget, Vetted,
                          Concluding, DiagnosisIsTheCause, StopsAtMatch

-----------------------------------------------------------------------------
(* Steps by what they print.                                               *)

\* The run goes on, and prints nothing.
LEMMA SilentInv ==
  ASSUME IInv, UNCHANGED << line, cause, output, exitCode >>,
         pc # "done", pc' \notin {"done", "start"} \/ UNCHANGED pc,
         TypeOK', GapIsKept', Place', OneBudget', Vetted'
  PROVE  IInv'
<1>1. /\ Mode' = Mode /\ Jsonl' = Jsonl /\ Format' = Format
      /\ \A text : Matches(text)' = Matches(text)
  BY SameLine
<1>2. AnswerAt' = AnswerAt
  BY DEF AnswerAt
<1>3. pc' # "done"
  OBVIOUS
<1>4. Documents'
  BY <1>1, <1>2, <1>3 DEF IInv, Documents
<1>5. AnswersOnce'
  BY <1>2, <1>3, <1>4 DEF AnswersOnce, Documents
<1>6. Concluding'
  BY <1>3, <1>4 DEF IInv, Concluding, Documents, DiagnosisIsTheCause
<1>7. StopsAtMatch'
  <2>1. Final' = Final
    BY DEF Final
  <2> QED
    BY <1>1, <2>1 DEF IInv, StopsAtMatch
<1> QED
  BY <1>4, <1>5, <1>6, <1>7 DEF IInv

\* A document that is no answer, and the run goes on.
LEMMA DocumentInv ==
  ASSUME IInv, NEW kind \in Kinds \ {"answer"}, NEW text,
         output' = Append(output, Document(kind, None, text)),
         kind = "snapshot" => text \in Texts /\ ~Matches(text),
         pc \notin {"done", "start"},
         UNCHANGED << now, line, pc, size, authStart, dueAt, contacted, cause, exitCode >>,
         DeviceTypeOK', GapIsKept'
  PROVE  IInv'
<1> DEFINE document == Document(kind, None, text)
<1>1. /\ Mode' = Mode /\ Jsonl' = Jsonl /\ Format' = Format /\ Usage' = Usage
      /\ \A t : Matches(t)' = Matches(t)
  BY SameLine
<1>2. document.kind = kind /\ document.format = Format /\ document.text = text
  BY DEF Document
<1> HIDE DEF document
<1>3. IsSequence(output) /\ output' = Append(output, document)
  BY DEF IInv, Documents, document
<1>4. /\ IsSequence(output') /\ Len(output) \in Nat
      /\ DOMAIN output = 1 .. Len(output) /\ DOMAIN output' = 1 .. (Len(output) + 1)
      /\ \A i \in DOMAIN output : output'[i] = output[i]
      /\ output'[Len(output) + 1] = document
  BY <1>3, AppendDocument
<1>5. \A i \in DOMAIN output' : i \in DOMAIN output \/ i = Len(output) + 1
  BY <1>4
<1>6. TypeOK'
  <2>1. \A i \in DOMAIN output' : output'[i].kind \in Kinds
    BY <1>2, <1>4, <1>5 DEF IInv, TypeOK, Kinds
  <2> QED
    BY <2>1 DEF IInv, TypeOK, Kinds
<1>7. AnswerAt' = {}
  BY <1>2, <1>4, <1>5 DEF IInv, Documents, AnswerAt
<1>8. Documents'
  BY <1>1, <1>2, <1>4, <1>5, <1>7 DEF IInv, Documents
<1>9. AnswersOnce'
  BY <1>7 DEF AnswersOnce
<1>10. Place' /\ OneBudget' /\ Vetted'
  BY <1>1 DEF IInv, Place, OneBudget, Vetted
<1>11. Concluding'
  BY <1>7 DEF IInv, Concluding, DiagnosisIsTheCause
<1>12. StopsAtMatch'
  <2>1. \A i \in DOMAIN output : Len(output) \in DOMAIN output /\ output[i].kind # "answer"
    BY <1>4 DEF IInv, Documents, AnswerAt
  <2>2. \A i \in DOMAIN output : output[i].kind = "snapshot" /\ Mode = "subscribe" /\ Jsonl =>
           output[i].text \in Texts /\ ~Matches(output[i].text)
    BY <2>1 DEF IInv, StopsAtMatch, Final
  <2>3. Final'.kind # "answer"
    BY <1>2, <1>4 DEF Final, Kinds
  <2>4. ASSUME NEW i \in DOMAIN output', output'[i].kind = "snapshot", Mode = "subscribe", Jsonl
        PROVE  output'[i].text \in Texts /\ ~Matches(output'[i].text)
    BY <1>2, <1>4, <1>5, <2>2, <2>4
  <2> QED
    BY <1>1, <2>3, <2>4 DEF StopsAtMatch
<1> QED
  BY <1>6, <1>8, <1>9, <1>10, <1>11, <1>12 DEF IInv

\* The answer, which is the end.
EndsWith(error, code) ==
  /\ Answers(error, code)
  /\ UNCHANGED << now, deviceVars, line, size, authStart, dueAt, contacted >>

LEMMA AnswerInv ==
  ASSUME IInv, NEW error, NEW code \in 0 .. 4, EndsWith(error, code),
         pc # "done", Mode \notin {"help", "version"},
         Mode = "subscribe" /\ Jsonl => code # 0,
         Mode # "watch" => (error = None <=> code = 0),
         contacted => error \notin UsageCodes,
         \/ cause' = None
         \/ /\ Diagnosed(cause', error, code)
            /\ cause' \in TooSlow => now >= authStart + Timeout
  PROVE  IInv' /\ PollStep
<1> USE DEF EndsWith
<1> DEFINE document == Answer(error)
<1>1. /\ Mode' = Mode /\ Jsonl' = Jsonl /\ Format' = Format /\ Usage' = Usage
      /\ \A t : Matches(t)' = Matches(t)
  BY SameLine
<1>2. document.kind = "answer" /\ document.format = Format /\ document.error = error
  BY DEF Document, Answer
<1>3. output' = Append(output, document) /\ exitCode' = code /\ pc' = "done"
  BY DEF Answers
<1> HIDE DEF document
<1>4. /\ IsSequence(output') /\ Len(output) \in Nat /\ Len(output') = Len(output) + 1
      /\ DOMAIN output = 1 .. Len(output) /\ DOMAIN output' = 1 .. (Len(output) + 1)
      /\ \A i \in DOMAIN output : output'[i] = output[i]
      /\ output'[Len(output) + 1] = document
  BY <1>3, AppendDocument DEF IInv, Documents
<1>5. \A i \in DOMAIN output' : i \in DOMAIN output \/ i = Len(output) + 1
  BY <1>4
<1>6. DeviceTypeOK' /\ GapIsKept' /\ PollStep
  BY DeviceIdle DEF IInv, TypeOK, DeviceTypeOK
<1>7. TypeOK'
  <2>1. \A i \in DOMAIN output' : output'[i].kind \in Kinds
    BY <1>2, <1>4, <1>5 DEF IInv, TypeOK, Kinds
  <2> QED
    BY <1>3, <1>6, <2>1 DEF IInv, TypeOK, Kinds
<1>8. AnswerAt' = {Len(output')}
  BY <1>2, <1>4, <1>5 DEF IInv, Documents, AnswerAt
<1>9. Documents'
  BY <1>1, <1>2, <1>3, <1>4, <1>5 DEF IInv, Documents
<1>10. output' # << >>
  BY <1>4
<1>11. AnswersOnce'
  BY <1>1, <1>3, <1>8, <1>10 DEF AnswersOnce
<1>12. Place' /\ OneBudget' /\ Vetted'
  BY <1>1, <1>3, CodesAssumption DEF IInv, Place, OneBudget, Vetted
<1>13. Final' = document
  BY <1>4 DEF Final
<1>14. Concluding'
  <2>1. DiagnosisIsTheCause'
    BY <1>1, <1>2, <1>3, <1>13 DEF DiagnosisIsTheCause, Diagnosed, GeneralCode
  <2> QED
    BY <1>1, <1>2, <1>3, <1>13, <2>1 DEF Concluding
<1>15. StopsAtMatch'
  <2>1. \A i \in DOMAIN output : Len(output) \in DOMAIN output /\ output[i].kind # "answer"
    BY <1>4 DEF IInv, Documents, AnswerAt
  <2>2. \A i \in DOMAIN output : output[i].kind = "snapshot" /\ Mode = "subscribe" /\ Jsonl =>
           output[i].text \in Texts /\ ~Matches(output[i].text)
    BY <2>1 DEF IInv, StopsAtMatch, Final
  <2>3. ASSUME NEW i \in DOMAIN output', output'[i].kind = "snapshot", Mode = "subscribe", Jsonl
        PROVE  output'[i].text \in Texts /\ ~Matches(output'[i].text)
    BY <1>2, <1>4, <1>5, <2>2, <2>3
  <2> QED
    BY <1>1, <1>3, <2>3 DEF StopsAtMatch
<1> QED
  BY <1>6, <1>7, <1>9, <1>11, <1>12, <1>14, <1>15 DEF IInv

-----------------------------------------------------------------------------
(* The steps.                                                              *)

\* What is thrown in the modes that catch it is reported as its cause.
LEMMA CatchesInv ==
  ASSUME IInv, NEW why, NEW error, Catches(why, error), IsDiagnosed(why, error),
         why \in TooSlow => now >= authStart + Timeout, pc # "done", Mode \in {"call", "subscribe"}
  PROVE  IInv' /\ PollStep
<1> DEFINE answer == Reported(error)
           code == ReportedExit(error)
<1>1. EndsWith(answer, code) /\ cause' = why
  BY DEF Catches, EndsWith, Reported, ReportedExit
<1>2. code \in 0 .. 4 /\ code # 0
  BY DEF ReportedExit, CallExit
<1>3. answer # None /\ answer \notin UsageCodes
  BY CodesAreThrown, NoneAssumption DEF ThrownCodes, UsageCodes
<1>4. Diagnosed(cause', answer, code)
  BY <1>1 DEF IsDiagnosed
<1> HIDE DEF answer, code
<1> QED
  BY <1>1, <1>2, <1>3, <1>4, AnswerInv

\* What is cut off when it is due has had the whole of the budget.
LEMMA BudgetOver ==
  ASSUME IInv, pc \in {"auth", "connect", "tool", "stream"}, now >= dueAt
  PROVE  now >= authStart + Timeout
<1>1. now \in Nat /\ dueAt \in Nat /\ authStart \in Nat /\ Timeout \in Nat
  BY CommandAssumption DEF IInv, TypeOK, DeviceTypeOK
<1>2. dueAt >= authStart + Timeout
  BY <1>1 DEF IInv, OneBudget
<1> QED
  BY <1>1, <1>2

LEMMA ThrowingSteps ==
  ASSUME IInv, \/ AuthFails \/ AuthTimesOut \/ ConnectFails \/ ToolFails \/ RequestTimesOut
               \/ SubscriptionThrows
  PROVE  IInv' /\ PollStep
<1>1. /\ pc \in {"auth", "connect", "tool", "subscribe", "stream"}
      /\ pc # "done" /\ Mode \in {"call", "subscribe"}
      /\ pc \in {"connect", "tool"} => Mode = "call"
  BY DEF IInv, Place, AuthFails, AuthTimesOut, ConnectFails, ToolFails, RequestTimesOut,
         SubscriptionThrows
<1>n. (AuthCauses \cup ConnectCauses \cup RequestCauses) \cap TooSlow = {}
  BY DEF AuthCauses, ConnectCauses, RequestCauses, NetworkCause, TooSlow
<1>2. CASE AuthFails
  BY <1>1, <1>2, <1>n, AuthDiagnosed, CatchesInv DEF AuthFails
<1>3. CASE AuthTimesOut \/ RequestTimesOut
  <2>1. pc \in {"auth", "connect", "tool"} /\ now >= dueAt
    BY <1>3 DEF AuthTimesOut, RequestTimesOut
  <2>2. now >= authStart + Timeout
    BY <2>1, BudgetOver
  <2> QED
    BY <1>1, <1>3, <2>2, SilenceDiagnosed, CatchesInv DEF AuthTimesOut, RequestTimesOut
<1>4. CASE \E why \in ConnectCauses : \E error \in ConnectErrors(why) :
             Catches(why, ConnectPinned(error))
  BY <1>1, <1>4, <1>n, ConnectDiagnosed, CatchesInv
<1>5. CASE \E why \in RequestCauses : \E error \in RequestErrors(why) :
             Catches(why, error) /\ (why = "tool_rejected" => Mode = "call")
  BY <1>1, <1>5, <1>n, RequestDiagnosed, CatchesInv
<1> QED
  BY <1>1, <1>2, <1>3, <1>4, <1>5 DEF ConnectFails, ToolFails, SubscriptionThrows

\* What is read from stdin is no argument.
LEMMA InvalidArgsInv == ASSUME IInv, pc = "stdin", InvalidArgs PROVE IInv' /\ PollStep
<1>1. /\ EndsWith("INVALID_ARGS", 3) /\ cause' = None /\ 3 \in 0 .. 4 /\ ~contacted
      /\ Mode = "call" /\ pc # "done"
  BY DEF InvalidArgs, EndsWith, IInv, Place, Vetted, Concluding
<1>2. "INVALID_ARGS" # None
  BY CodesAssumption DEF UsageCodes
<1> QED
  BY <1>1, <1>2, AnswerInv

\* Everything else that ends with an answer.
LEMMA EndingSteps ==
  ASSUME IInv,
         \/ Refuses \/ LogsOut \/ StdinTimesOut \/ ToolAnswers \/ SubscriptionReturns
         \/ StreamReturns \/ StreamTimesOut \/ WatchEnds \/ LoginEnds
  PROVE  IInv' /\ PollStep
<1>1. pc # "done" /\ Mode \notin {"help", "version"} /\ cause = None
  BY DEF IInv, Place, Concluding, Refuses, LogsOut, StdinTimesOut, ToolAnswers,
         SubscriptionReturns, StreamReturns, StreamTimesOut, WatchEnds, LoginEnds, Usage
<1>2. None \notin UsageCodes \cup ReturnedCodes \cup {"TOOL_ERROR", "failed"}
  BY CodesAssumption
<1>3. CASE Refuses
  <2>1. EndsWith(Usage, UsageExit) /\ cause' = None /\ Usage # None /\ ~contacted
    BY <1>1, <1>3 DEF Refuses, EndsWith, IInv, Vetted
  <2>2. UsageExit \in 0 .. 4 /\ UsageExit # 0
    BY DEF UsageExit
  <2> QED
    BY <1>1, <2>1, <2>2, AnswerInv
<1>4. CASE LogsOut
  <2>1. EndsWith(None, 0) /\ cause' = None /\ Mode = "logout" /\ 0 \in 0 .. 4
    BY <1>1, <1>4 DEF LogsOut, EndsWith
  <2> QED
    BY <1>1, <1>2, <2>1, AnswerInv
<1>5. CASE StdinTimesOut
  BY <1>5, InvalidArgsInv DEF StdinTimesOut
<1>6. CASE ToolAnswers
  <2>1. Mode = "call" /\ 0 \in 0 .. 4 /\ 1 \in 0 .. 4
    BY <1>6 DEF ToolAnswers, IInv, Place
  <2>2. CASE EndsWith(None, 0) /\ cause' = None
    BY <1>1, <1>2, <2>1, <2>2, AnswerInv
  <2>3. CASE EndsWith("TOOL_ERROR", 1) /\ cause' = "tool_failed"
    <3>1. Diagnosed("tool_failed", "TOOL_ERROR", 1) /\ "tool_failed" \notin TooSlow
      BY <2>1 DEF Diagnosed, Documented, TooSlow
    <3>2. "TOOL_ERROR" # None /\ "TOOL_ERROR" \notin UsageCodes
      BY <1>2 DEF UsageCodes
    <3> QED
      BY <1>1, <2>1, <2>3, <3>1, <3>2, AnswerInv
  <2> QED
    BY <1>1, <1>6, <2>2, <2>3 DEF ToolAnswers, EndsWith
<1>7. CASE SubscriptionReturns \/ StreamReturns
  <2>1. 0 \in 0 .. 4 /\ 1 \in 0 .. 4
    OBVIOUS
  <2>2. CASE EndsWith(None, 0) /\ pc = "subscribe" /\ cause' = None
    <3>1. ~(Mode = "subscribe" /\ Jsonl)
      BY <2>2 DEF IInv, Place
    <3> QED
      BY <1>1, <1>2, <2>1, <2>2, <3>1, AnswerInv
  <2>3. CASE \E code \in ReturnedCodes : EndsWith(code, 1) /\ cause' = None
    <3>1. PICK code \in ReturnedCodes : EndsWith(code, 1) /\ cause' = None
      BY <2>3
    <3>2. code # None /\ code \notin UsageCodes
      BY <1>2 DEF ReturnedCodes, UsageCodes
    <3> QED
      BY <1>1, <2>1, <3>1, <3>2, AnswerInv
  <2> QED
    BY <1>1, <1>7, <2>2, <2>3 DEF SubscriptionReturns, StreamReturns, EndsWith
<1>t. CASE StreamTimesOut
  <2>1. /\ EndsWith("NOTIFICATION_TIMEOUT", 1) /\ cause' = "server_silent"
        /\ Mode = "subscribe" /\ 1 \in 0 .. 4
    BY <1>t DEF StreamTimesOut, EndsWith, IInv, Place
  <2>2. now >= authStart + Timeout
    BY <1>t, BudgetOver DEF StreamTimesOut
  <2>3. Diagnosed("server_silent", "NOTIFICATION_TIMEOUT", 1)
    BY <2>1 DEF Diagnosed, Documented
  <2>4. "NOTIFICATION_TIMEOUT" # None /\ "NOTIFICATION_TIMEOUT" \notin UsageCodes
    BY <1>2 DEF ReturnedCodes, UsageCodes
  <2> QED
    BY <1>1, <2>1, <2>2, <2>3, <2>4, AnswerInv
<1>8. CASE WatchEnds
  <2>1. PICK code \in {0, 1, 3, 4} : EndsWith(None, code) /\ cause' = None
    BY <1>1, <1>8 DEF WatchEnds, EndsWith
  <2>2. code \in 0 .. 4 /\ Mode = "watch"
    BY <1>8 DEF WatchEnds, IInv, Place
  <2> QED
    BY <1>1, <1>2, <2>1, <2>2, AnswerInv
<1>9. CASE LoginEnds
  <2>1. \/ EndsWith(None, 0) /\ cause' = None
        \/ EndsWith("failed", 1) /\ cause' = None
    BY <1>1, <1>9 DEF LoginEnds, EndsWith
  <2>2. /\ Mode = "login" /\ 0 \in 0 .. 4 /\ 1 \in 0 .. 4
        /\ "failed" # None /\ "failed" \notin UsageCodes
    BY <1>2, <1>9 DEF LoginEnds, IInv, Place, UsageCodes
  <2> QED
    BY <1>1, <1>2, <2>1, <2>2, AnswerInv
<1> QED
  BY <1>3, <1>4, <1>5, <1>6, <1>7, <1>8, <1>9, <1>t

\* The arguments on stdin.
LEMMA StdinSteps == ASSUME IInv, StdinChunk \/ StdinEnds PROVE IInv' /\ PollStep
<1>1. pc = "stdin" /\ Mode = "call" /\ now \in Nat
  BY DEF StdinChunk, StdinEnds, IInv, Place, TypeOK, DeviceTypeOK
<1>2. CASE InvalidArgs
  BY <1>1, <1>2, InvalidArgsInv
<1>3. CASE ~InvalidArgs
  <2>1. \/ /\ size < StdinLimit /\ size' = size + 1
           /\ UNCHANGED << now, deviceVars, line, pc, authStart, dueAt, contacted, cause,
                           output, exitCode >>
        \/ StartsAuth /\ UNCHANGED << now, deviceVars, line, size, cause, output, exitCode >>
    BY <1>3 DEF StdinChunk, StdinEnds
  <2>2. DeviceTypeOK' /\ GapIsKept' /\ PollStep
    BY <1>1, <2>1, DeviceIdle DEF IInv, TypeOK
  <2>3. Mode' = Mode /\ Jsonl' = Jsonl /\ Usage' = Usage
    BY <2>1, SameLine
  <2>4. TypeOK'
    <3>1. size' \in 0 .. StdinLimit
      BY <2>1, CommandAssumption DEF IInv, TypeOK
    <3>2. authStart' \in 0 .. now' /\ dueAt' \in Nat
      BY <1>1, <2>1, CommandAssumption DEF IInv, TypeOK, StartsAuth
    <3> QED
      BY <1>1, <2>1, <2>2, <3>1, <3>2 DEF IInv, TypeOK, StartsAuth
  <2>5. Place' /\ OneBudget'
    BY <1>1, <2>1, <2>3, CommandAssumption DEF IInv, Place, OneBudget, StartsAuth
  <2>6. Vetted'
    BY <1>1, <2>1, <2>3 DEF IInv, Vetted, StartsAuth
  <2> QED
    BY <1>1, <2>1, <2>2, <2>4, <2>5, <2>6, SilentInv DEF StartsAuth
<1> QED
  BY <1>2, <1>3

\* The work begins.
LEMMA StartsInv == ASSUME IInv, Starts PROVE IInv' /\ PollStep
<1>1. /\ pc = "start" /\ now \in Nat
      /\ UNCHANGED << now, line, size, cause, output, exitCode >>
  BY DEF Starts, IInv, TypeOK, DeviceTypeOK
<1>2. Mode' = Mode /\ Jsonl' = Jsonl /\ Usage' = Usage
  BY <1>1, SameLine
<1>3. DeviceTypeOK' /\ GapIsKept' /\ PollStep
  <2>1. StartLogin \/ UNCHANGED deviceVars
    BY DEF Starts
  <2> QED
    BY <1>1, <2>1, DeviceIdle, DeviceSound DEF IInv, TypeOK, DeviceStep
<1>4. /\ authStart' \in 0 .. now' /\ dueAt' \in Nat
      /\ contacted' \in BOOLEAN
      /\ pc' \in {"auth", "stdin", "watch", "login"}
      /\ pc' = "auth" => dueAt' = authStart' + Timeout
  <2>1. /\ authStart \in 0 .. now /\ dueAt \in Nat /\ contacted \in BOOLEAN
        /\ now \in 0 .. now /\ now + Timeout \in Nat /\ TRUE \in BOOLEAN
    BY <1>1, CommandAssumption DEF IInv, TypeOK
  <2>2. CASE StartsAuth /\ UNCHANGED deviceVars
    BY <1>1, <2>1, <2>2 DEF StartsAuth
  <2>3. CASE pc' = "stdin" /\ dueAt' = now + Timeout /\ UNCHANGED << authStart, contacted >>
    BY <1>1, <2>1, <2>3
  <2>4. CASE pc' = "watch" /\ UNCHANGED << authStart, dueAt, contacted >>
    BY <1>1, <2>1, <2>4
  <2>5. CASE pc' = "login" /\ contacted' = TRUE /\ UNCHANGED << authStart, dueAt >>
    BY <1>1, <2>1, <2>5
  <2> QED
    BY <2>2, <2>3, <2>4, <2>5 DEF Starts
<1>5. TypeOK'
  BY <1>1, <1>3, <1>4 DEF IInv, TypeOK
<1>6. Place'
  BY <1>2 DEF Starts, StartsAuth, Place
<1>7. OneBudget'
  BY <1>4, CommandAssumption DEF OneBudget
<1>8. Vetted'
  BY <1>1, <1>2 DEF Starts, StartsAuth, IInv, Vetted
<1> QED
  BY <1>1, <1>3, <1>4, <1>5, <1>6, <1>7, <1>8, SilentInv

\* Authentication is over: the work has what is left.
LEMMA AuthenticatedInv == ASSUME IInv, Authenticated PROVE IInv' /\ PollStep
<1>1. /\ pc = "auth" /\ now \in Nat /\ authStart \in 0 .. now /\ Timeout \in Nat
      /\ UNCHANGED << now, deviceVars, line, size, authStart, contacted, cause, output, exitCode >>
  BY CommandAssumption DEF Authenticated, IInv, TypeOK, DeviceTypeOK
<1>2. Mode' = Mode /\ Jsonl' = Jsonl /\ Usage' = Usage /\ Mode \in {"call", "subscribe"}
  BY <1>1, SameLine DEF IInv, Place
<1>3. DeviceTypeOK' /\ GapIsKept' /\ PollStep
  BY <1>1, DeviceIdle DEF IInv, TypeOK
<1>4. /\ dueAt' \in Nat
      /\ \/ dueAt' = authStart' + Timeout
         \/ dueAt' > authStart' + Timeout /\ dueAt' <= now'
  BY <1>1 DEF Authenticated, Remaining
<1>5. /\ pc' \in {"connect", "stream", "subscribe"}
      /\ pc' = IF Mode = "call" THEN "connect" ELSE IF Jsonl THEN "stream" ELSE "subscribe"
  BY DEF Authenticated
<1>6. TypeOK'
  BY <1>1, <1>3, <1>4, <1>5 DEF IInv, TypeOK
<1>7. Place' /\ OneBudget' /\ Vetted'
  BY <1>1, <1>2, <1>4, <1>5 DEF IInv, Place, OneBudget, Vetted
<1> QED
  BY <1>1, <1>3, <1>5, <1>6, <1>7, SilentInv

LEMMA ConnectedInv == ASSUME IInv, Connected PROVE IInv' /\ PollStep
<1>1. /\ pc = "connect" /\ pc' = "tool" /\ now \in Nat
      /\ UNCHANGED << now, deviceVars, line, size, authStart, dueAt, contacted, cause, output,
                      exitCode >>
  BY DEF Connected, IInv, TypeOK, DeviceTypeOK
<1>2. Mode' = Mode /\ Jsonl' = Jsonl /\ Usage' = Usage
  BY <1>1, SameLine
<1>3. DeviceTypeOK' /\ GapIsKept' /\ PollStep
  BY <1>1, DeviceIdle DEF IInv, TypeOK
<1>4. TypeOK' /\ Place' /\ OneBudget' /\ Vetted'
  BY <1>1, <1>2, <1>3 DEF IInv, TypeOK, Place, OneBudget, Vetted
<1> QED
  BY <1>1, <1>3, <1>4, SilentInv

LEMMA TickInv == ASSUME IInv, Tick PROVE IInv' /\ PollStep
<1>1. /\ now \in Nat /\ now' = now + 1 /\ pc # "done"
      /\ UNCHANGED << deviceVars, commandVars >>
  BY DEF Tick, IInv, TypeOK, DeviceTypeOK
<1>2. Mode' = Mode /\ Jsonl' = Jsonl /\ Usage' = Usage
  BY <1>1, SameLine DEF commandVars
<1>3. DeviceTypeOK' /\ GapIsKept' /\ PollStep
  BY <1>1, DeviceIdle DEF IInv, TypeOK
<1>4. TypeOK'
  <2>1. authStart' \in 0 .. now'
    BY <1>1 DEF IInv, TypeOK, commandVars
  <2> QED
    BY <1>1, <1>3, <2>1 DEF IInv, TypeOK, commandVars
<1>5. Place' /\ OneBudget' /\ Vetted'
  <2>1. dueAt \in Nat /\ UNCHANGED << pc, dueAt, authStart, cause, exitCode, contacted >>
    BY <1>1 DEF IInv, TypeOK, commandVars
  <2> QED
    BY <1>1, <1>2, <2>1 DEF IInv, Place, OneBudget, Vetted
<1> QED
  BY <1>1, <1>3, <1>4, <1>5, SilentInv DEF commandVars

\* A step of the device flow; the first one prints the code.
LEMMA LoginInv == ASSUME IInv, LoginStep PROVE IInv' /\ PollStep
<1>1. /\ pc = "login" /\ now \in Nat
      /\ UNCHANGED << now, line, pc, size, authStart, dueAt, contacted, cause, exitCode >>
  BY DEF LoginStep, IInv, TypeOK, DeviceTypeOK
<1>2. DeviceStep
  BY DEF LoginStep, DeviceStep
<1>3. DeviceTypeOK' /\ GapIsKept' /\ PollStep
  BY <1>1, <1>2, DeviceSound DEF IInv, TypeOK
<1>4. /\ Mode' = Mode /\ Jsonl' = Jsonl /\ Format' = Format /\ Usage' = Usage
      /\ Mode = "login"
  BY <1>1, SameLine DEF IInv, Place
<1>5. CASE UNCHANGED output
  <2>1. TypeOK' /\ Place' /\ OneBudget' /\ Vetted'
    BY <1>1, <1>3, <1>4, <1>5 DEF IInv, TypeOK, Place, OneBudget, Vetted
  <2> QED
    BY <1>1, <1>3, <1>5, <2>1, SilentInv
<1>6. CASE output' = << Document("event", None, None) >>
  <2> DEFINE document == Document("event", None, None)
  <2>1. document.kind = "event" /\ document.format = Format
    BY DEF Document
  <2> HIDE DEF document
  <2>2. output' = << document >>
    BY <1>6 DEF document
  <2>3. IsSequence(output') /\ DOMAIN output' = {1} /\ output'[1] = document
    BY <2>2, OneDocument
  <2>4. TypeOK'
    BY <1>1, <1>3, <2>1, <2>3 DEF IInv, TypeOK
  <2>5. AnswerAt' = {}
    BY <2>1, <2>3 DEF AnswerAt
  <2>6. Documents'
    BY <1>1, <1>4, <2>1, <2>3, <2>5 DEF Documents
  <2>7. AnswersOnce' /\ Place' /\ OneBudget' /\ Vetted'
    BY <1>1, <1>4, <2>5 DEF IInv, AnswersOnce, Place, OneBudget, Vetted
  <2>8. Concluding' /\ StopsAtMatch'
    BY <1>1, <1>4, <2>5 DEF IInv, Concluding, DiagnosisIsTheCause, StopsAtMatch
  <2> QED
    BY <1>3, <2>4, <2>6, <2>7, <2>8 DEF IInv
<1> QED
  BY <1>5, <1>6 DEF LoginStep

\* --help and --version, and a login or logout without a store.
LEMMA NoAnswerInv == ASSUME IInv, Informs \/ Crashes PROVE IInv' /\ PollStep
<1>1. /\ pc = "start" /\ pc' = "done" /\ now \in Nat /\ output = << >>
      /\ UNCHANGED << now, deviceVars, line, size, authStart, dueAt, contacted, cause >>
      /\ exitCode' \in 0 .. 4
      /\ Mode \in {"help", "version", "login", "logout"}
  BY DEF Informs, Crashes, IInv, TypeOK, DeviceTypeOK, Documents
<1>2. Mode' = Mode /\ Jsonl' = Jsonl /\ Format' = Format /\ Usage' = Usage
  BY <1>1, SameLine
<1>3. DeviceTypeOK' /\ GapIsKept' /\ PollStep
  BY <1>1, DeviceIdle DEF IInv, TypeOK
<1> DEFINE document == Document("text", None, None)
<1>4. document.kind = "text" /\ document.format = Format
  BY DEF Document
<1>5. \/ output' = << >> /\ Mode \in {"login", "logout"}
      \/ output' = << document >> /\ Mode \in {"help", "version"}
  BY <1>1 DEF Informs, Crashes
<1> HIDE DEF document
<1>6. /\ IsSequence(output') /\ DOMAIN output' \subseteq {1}
      /\ \A i \in DOMAIN output' : output'[i] = document
  <2>1. IsSequence(<< >>) /\ DOMAIN << >> = {}
    <3>1. << >> \in Seq({})
      OBVIOUS
    <3> QED
      BY <3>1 DEF IsSequence
  <2>2. CASE output' = << >>
    BY <2>1, <2>2
  <2>3. CASE output' = << document >>
    BY <2>3, OneDocument
  <2> QED
    BY <1>5, <2>2, <2>3
<1>7. TypeOK'
  BY <1>1, <1>3, <1>4, <1>6 DEF IInv, TypeOK
<1>8. AnswerAt' = {}
  BY <1>4, <1>6 DEF AnswerAt
<1>9. Documents'
  BY <1>1, <1>2, <1>4, <1>6 DEF Documents
<1>10. AnswersOnce' /\ Place' /\ OneBudget' /\ Vetted'
  <2>1. cause = None /\ None \notin TooSlow
    BY <1>1, CodesAssumption DEF IInv, Concluding
  <2> QED
    BY <1>1, <1>2, <1>5, <1>8, <2>1 DEF IInv, AnswersOnce, Place, OneBudget, Vetted
<1>11. Concluding' /\ StopsAtMatch'
  BY <1>1, <1>2, <1>8 DEF IInv, Concluding, DiagnosisIsTheCause, StopsAtMatch
<1> QED
  BY <1>3, <1>7, <1>9, <1>10, <1>11 DEF IInv

\* The lines of a stream; a match is a snapshot and the answer at once.
LEMMA StreamInv == ASSUME IInv, Acknowledged \/ Snapshot PROVE IInv' /\ PollStep
<1>1. /\ pc = "stream" /\ Mode = "subscribe" /\ Jsonl /\ now \in Nat
      /\ UNCHANGED << now, deviceVars, line, size, authStart, dueAt, contacted, cause, exitCode >>
      /\ IsSequence(output)
  BY DEF Acknowledged, Snapshot, IInv, Place, TypeOK, DeviceTypeOK, Documents
<1>2. DeviceTypeOK' /\ GapIsKept' /\ PollStep
  BY <1>1, DeviceIdle DEF IInv, TypeOK
<1>3. CASE \E kind \in {"ack", "snapshot"} : \E text :
             /\ output' = Append(output, Document(kind, None, text)) /\ UNCHANGED pc
             /\ kind = "snapshot" => text \in Texts /\ ~Matches(text)
  <2>1. PICK kind \in {"ack", "snapshot"} : \E text :
               /\ output' = Append(output, Document(kind, None, text)) /\ UNCHANGED pc
               /\ kind = "snapshot" => text \in Texts /\ ~Matches(text)
    BY <1>3
  <2>2. PICK text :
          /\ output' = Append(output, Document(kind, None, text)) /\ UNCHANGED pc
          /\ kind = "snapshot" => text \in Texts /\ ~Matches(text)
    BY <2>1
  <2>3. kind \in Kinds \ {"answer"} /\ pc \notin {"done", "start"}
    BY <1>1 DEF Kinds
  <2> QED
    BY <1>1, <1>2, <2>2, <2>3, DocumentInv
<1>4. CASE /\ Snapshot /\ pc' = "done"
           /\ \E text \in Texts :
                /\ output' = output \o << Document("snapshot", None, text), Answer(None) >>
                /\ Matches(text)
  <2>1. PICK text \in Texts :
               /\ output' = output \o << Document("snapshot", None, text), Answer(None) >>
               /\ Matches(text)
    BY <1>4
  <2> DEFINE one == Document("snapshot", None, text)
             two == Answer(None)
             t == Append(output, one)
  <2>2. /\ one.kind = "snapshot" /\ one.format = Format /\ one.text = text
        /\ two.kind = "answer" /\ two.format = Format /\ two.error = None
    BY DEF Document, Answer
  <2> HIDE DEF one, two
  <2>3. output' = Append(t, two)
    BY <1>1, <2>1, AppendTwo DEF one, two
  <2>4. /\ IsSequence(t) /\ Len(output) \in Nat /\ Len(t) = Len(output) + 1
        /\ DOMAIN output = 1 .. Len(output) /\ DOMAIN t = 1 .. (Len(output) + 1)
        /\ \A i \in DOMAIN output : t[i] = output[i]
        /\ t[Len(output) + 1] = one
    BY <1>1, AppendDocument
  <2> HIDE DEF t
  <2>5. /\ IsSequence(output') /\ Len(output') = Len(t) + 1
        /\ DOMAIN output' = 1 .. (Len(t) + 1)
        /\ \A i \in DOMAIN t : output'[i] = t[i]
        /\ output'[Len(t) + 1] = two
    BY <2>3, <2>4, AppendDocument
  <2>6. /\ \A i \in DOMAIN output' :
              i \in DOMAIN output \/ i = Len(output) + 1 \/ i = Len(output) + 2
        /\ \A i \in DOMAIN output : output'[i] = output[i]
        /\ output'[Len(output) + 1] = one /\ output'[Len(output) + 2] = two
        /\ Len(output') = Len(output) + 2 /\ Len(output) + 2 \in DOMAIN output'
    BY <2>4, <2>5
  <2>7. /\ Mode' = Mode /\ Jsonl' = Jsonl /\ Format' = Format /\ Usage' = Usage
        /\ \A snapshot : Matches(snapshot)' = Matches(snapshot)
    BY <1>1, SameLine
  <2>8. TypeOK'
    <3>1. \A i \in DOMAIN output' : output'[i].kind \in Kinds
      BY <2>2, <2>6 DEF IInv, TypeOK, Kinds
    <3> QED
      BY <1>1, <1>2, <1>4, <3>1 DEF IInv, TypeOK, Kinds
  <2>9. AnswerAt' = {Len(output')}
    <3>1. \A i \in DOMAIN output : output[i].kind # "answer"
      BY <1>1 DEF IInv, Documents, AnswerAt
    <3> QED
      BY <2>2, <2>6, <3>1 DEF AnswerAt
  <2>10. Documents'
    BY <1>4, <2>2, <2>5, <2>6, <2>7 DEF IInv, Documents
  <2>11. AnswersOnce'
    BY <1>1, <1>4, <2>7, <2>9 DEF AnswersOnce
  <2>12. cause = None /\ None \notin TooSlow
    BY <1>1, CodesAssumption DEF IInv, Concluding
  <2>13. Place' /\ OneBudget' /\ Vetted'
    BY <1>1, <1>4, <2>7, <2>12 DEF IInv, Place, OneBudget, Vetted
  <2>14. Final' = two /\ exitCode' = 0 /\ cause' = None /\ pc' = "done"
    BY <1>1, <1>4, <2>6 DEF Final, IInv, Concluding
  <2>15. Concluding'
    BY <2>2, <2>14, CodesAssumption DEF Concluding, DiagnosisIsTheCause
  <2>16. StopsAtMatch'
    <3>1. \A i \in DOMAIN output : Len(output) \in DOMAIN output /\ output[i].kind # "answer"
      BY <1>1, <2>4 DEF IInv, Documents, AnswerAt
    <3>2. \A i \in DOMAIN output : output[i].kind = "snapshot" =>
             output[i].text \in Texts /\ ~Matches(output[i].text)
      BY <1>1, <3>1 DEF IInv, StopsAtMatch, Final
    <3>3. ASSUME NEW i \in DOMAIN output', output'[i].kind = "snapshot"
          PROVE  /\ output'[i].text \in Texts
                 /\ Matches(output'[i].text) <=> i = Len(output') - 1
      <4>1. CASE i \in DOMAIN output
        BY <2>4, <2>6, <3>2, <3>3, <4>1
      <4>2. CASE i = Len(output) + 1
        BY <2>1, <2>2, <2>4, <2>6, <4>2
      <4> QED
        BY <2>2, <2>6, <3>3, <4>1, <4>2
    <3> QED
      BY <2>2, <2>7, <2>14, <3>3 DEF StopsAtMatch
  <2> QED
    BY <1>2, <2>8, <2>10, <2>11, <2>13, <2>15, <2>16 DEF IInv
<1>5. Acknowledged => output' = Append(output, Document("ack", None, None))
  <2> SUFFICES ASSUME Acknowledged PROVE output' = Append(output, Document("ack", None, None))
    OBVIOUS
  <2> DEFINE document == Document("ack", None, None)
  <2>1. output = << >> /\ output' = << document >>
    BY DEF Acknowledged
  <2> HIDE DEF document
  <2>2. << >> \in Seq({document}) /\ Append(<< >>, document) = << document >>
    OBVIOUS
  <2> QED
    BY <2>1, <2>2 DEF document
<1>6. CASE Acknowledged
  <2>1. "ack" # "snapshot" /\ UNCHANGED pc
    BY <1>6 DEF Acknowledged
  <2> QED
    BY <1>3, <1>5, <1>6, <2>1
<1>7. CASE Snapshot
  <2>1. PICK text \in Texts :
               IF Matches(text)
               THEN /\ output' = output \o << Document("snapshot", None, text), Answer(None) >>
                    /\ pc' = "done"
               ELSE /\ output' = Append(output, Document("snapshot", None, text))
                    /\ UNCHANGED pc
    BY <1>7 DEF Snapshot, Matches
  <2> QED
    BY <1>3, <1>4, <1>7, <2>1
<1> QED
  BY <1>6, <1>7

LEMMA NextInv == ASSUME IInv, [Next]_vars PROVE IInv' /\ PollStep
<1>1. CASE UNCHANGED vars
  <2>1. UNCHANGED << now, deviceVars, commandVars >>
    BY <1>1 DEF vars
  <2>2. DeviceTypeOK' /\ GapIsKept' /\ PollStep
    BY <2>1, DeviceIdle DEF IInv, TypeOK, DeviceTypeOK
  <2>3. /\ Mode' = Mode /\ Jsonl' = Jsonl /\ Format' = Format /\ Usage' = Usage
        /\ \A text : Matches(text)' = Matches(text)
    BY <2>1, SameLine DEF commandVars
  <2>4. UNCHANGED << pc, dueAt, authStart, contacted, cause, output, exitCode, now >>
    BY <2>1 DEF commandVars
  <2>5. AnswerAt' = AnswerAt /\ Final' = Final
    BY <2>4 DEF AnswerAt, Final
  <2>6. TypeOK' /\ Place' /\ Documents' /\ AnswersOnce' /\ OneBudget' /\ Vetted'
    BY <2>1, <2>2, <2>3, <2>4, <2>5 DEF commandVars, IInv, TypeOK, Place, Documents, AnswersOnce,
                                        OneBudget, Vetted
  <2>7. Concluding'
    BY <2>3, <2>4, <2>5 DEF IInv, Concluding, DiagnosisIsTheCause, Diagnosed, GeneralCode
  <2>8. StopsAtMatch'
    BY <2>3, <2>4, <2>5 DEF IInv, StopsAtMatch
  <2> QED
    BY <2>2, <2>6, <2>7, <2>8 DEF IInv
<1>2. CASE OwnStep
  BY <1>2, NoAnswerInv, ThrowingSteps, EndingSteps, StartsInv, AuthenticatedInv DEF OwnStep
<1>3. CASE EndingStep
  BY <1>3, LoginInv, EndingSteps DEF EndingStep
<1>4. CASE OthersStep
  BY <1>4, StdinSteps, AuthenticatedInv, ThrowingSteps, EndingSteps, ConnectedInv, StreamInv
     DEF OthersStep
<1>5. CASE Tick
  BY <1>5, TickInv
<1> QED
  BY <1>1, <1>2, <1>3, <1>4, <1>5 DEF Next, Terminated

-----------------------------------------------------------------------------
(* What a vetted command line says.                                        *)

LEMMA CheckPasses ==
  ASSUME NEW fails, NEW code \in UsageCodes \cup {"INTERNAL_ERROR"}, Refusal(fails, code) = None
  PROVE  ~fails
<1>1. code # None
  BY CodesAssumption, NoneAssumption DEF ThrownCodes
<1> QED
  BY <1>1 DEF Refusal

LEMMA SubscribeVetted ==
  ASSUME SubscribeUsage = None
  PROVE  /\ Malformed \notin {line.url, line.uri, line.timeout, line.token, line.until}
         /\ ~(Json /\ Jsonl) /\ ((line.until # None) <=> Jsonl)
         /\ line.url # None /\ line.uri # None
         /\ Jsonl => ParseUntil(line.until).ok
<1> DEFINE c1 == Refusal(IsMalformed({line.url, line.uri, line.timeout, line.token})
                           \/ line.until = Malformed, "INTERNAL_ERROR")
           c2 == Refusal(Json /\ Jsonl, "INVALID_ARGS")
           c3 == Refusal(line.until # None /\ ~Jsonl, "INVALID_ARGS")
           c4 == Refusal(line.url = None, "SERVER_URL_UNKNOWN")
           c5 == Refusal(line.uri = None, "RESOURCE_URI_REQUIRED")
           c6 == Refusal(Jsonl /\ line.until = None, "UNTIL_REQUIRED")
           c7 == Refusal(Jsonl /\ line.until \notin {None, Malformed}
                           /\ ~ParseUntil(line.until).ok, "INVALID_ARGS")
           codes == << c1, c2, c3, c4, c5, c6, c7 >>
<1>1. FirstOf(codes) = None
  BY DEF SubscribeUsage
<1> HIDE DEF c1, c2, c3, c4, c5, c6, c7
<1>2. /\ codes \in Seq({c1, c2, c3, c4, c5, c6, c7}) /\ Len(codes) = 7
      /\ codes[1] = c1 /\ codes[2] = c2 /\ codes[3] = c3 /\ codes[4] = c4
      /\ codes[5] = c5 /\ codes[6] = c6 /\ codes[7] = c7
  OBVIOUS
<1> HIDE DEF codes
<1>3. \A i \in 1 .. 7 : codes[i] = None
  BY <1>1, <1>2, NoneRefuses
<1>4. /\ c1 = None /\ c2 = None /\ c3 = None /\ c4 = None
      /\ c5 = None /\ c6 = None /\ c7 = None
  BY <1>2, <1>3
<1>5. ~(IsMalformed({line.url, line.uri, line.timeout, line.token}) \/ line.until = Malformed)
  BY <1>4, CheckPasses DEF c1
<1>6. ~(Json /\ Jsonl)
  BY <1>4, CheckPasses DEF c2, UsageCodes
<1>7. ~(line.until # None /\ ~Jsonl)
  BY <1>4, CheckPasses DEF c3, UsageCodes
<1>8. ~(line.url = None) /\ ~(line.uri = None)
  BY <1>4, CheckPasses DEF c4, c5, UsageCodes
<1>9. ~(Jsonl /\ line.until = None)
  BY <1>4, CheckPasses DEF c6, UsageCodes
<1>10. ~(Jsonl /\ line.until \notin {None, Malformed} /\ ~ParseUntil(line.until).ok)
  BY <1>4, CheckPasses DEF c7, UsageCodes
<1> QED
  BY <1>5, <1>6, <1>7, <1>8, <1>9, <1>10 DEF IsMalformed

LEMMA CallVetted ==
  ASSUME CallUsage = None
  PROVE  /\ Malformed \notin {line.url, line.tool, line.timeout, line.token, line.args}
         /\ line.url # None /\ line.tool # None
         /\ line.args = None \/ (~UseStdin /\ IsObject(line.args))
<1> DEFINE c1 == Refusal(IsMalformed({line.url, line.tool, line.timeout, line.token}),
                         "INTERNAL_ERROR")
           c2 == Refusal(line.url = None, "SERVER_URL_UNKNOWN")
           c3 == Refusal(line.tool = None, "TOOL_NAME_REQUIRED")
           c4 == Refusal(line.args = Malformed, "INVALID_ARGS")
           c5 == Refusal(line.args # None /\ UseStdin, "INVALID_ARGS")
           c6 == Refusal(line.args \notin {None, Malformed} /\ ~IsObject(line.args),
                         "INVALID_ARGS")
           codes == << c1, c2, c3, c4, c5, c6 >>
<1>1. FirstOf(codes) = None
  BY DEF CallUsage
<1> HIDE DEF c1, c2, c3, c4, c5, c6
<1>2. /\ codes \in Seq({c1, c2, c3, c4, c5, c6}) /\ Len(codes) = 6
      /\ codes[1] = c1 /\ codes[2] = c2 /\ codes[3] = c3 /\ codes[4] = c4
      /\ codes[5] = c5 /\ codes[6] = c6
  OBVIOUS
<1> HIDE DEF codes
<1>3. \A i \in 1 .. 6 : codes[i] = None
  BY <1>1, <1>2, NoneRefuses
<1>4. c1 = None /\ c2 = None /\ c3 = None /\ c4 = None /\ c5 = None /\ c6 = None
  BY <1>2, <1>3
<1>5. ~IsMalformed({line.url, line.tool, line.timeout, line.token})
  BY <1>4, CheckPasses DEF c1
<1>6. ~(line.url = None) /\ ~(line.tool = None)
  BY <1>4, CheckPasses DEF c2, c3, UsageCodes
<1>7. ~(line.args = Malformed) /\ ~(line.args # None /\ UseStdin)
  BY <1>4, CheckPasses DEF c4, c5, UsageCodes
<1>8. ~(line.args \notin {None, Malformed} /\ ~IsObject(line.args))
  BY <1>4, CheckPasses DEF c6, UsageCodes
<1> QED
  BY <1>5, <1>6, <1>7, <1>8 DEF IsMalformed

LEMMA LoginVetted ==
  ASSUME CacheUsage = None
  PROVE  line.url \notin {None, Malformed}
<1> DEFINE c1 == Refusal(line.url \in {None, Malformed}, "SERVER_URL_UNKNOWN")
           c2 == Refusal(Mode = "logout" /\ line.url = "not a url", "INVALID_URL")
           codes == << c1, c2 >>
<1>1. FirstOf(codes) = None
  BY DEF CacheUsage
<1> HIDE DEF c1, c2
<1>2. codes \in Seq({c1, c2}) /\ Len(codes) = 2 /\ codes[1] = c1
  OBVIOUS
<1> HIDE DEF codes
<1>3. c1 = None
  BY <1>1, <1>2, NoneRefuses
<1> QED
  BY <1>3, CheckPasses DEF c1, UsageCodes

LEMMA ArgumentsVetted == ASSUME IInv PROVE ArgumentsComeFirst
<1> SUFFICES ASSUME contacted PROVE ArgumentsComeFirst
  BY DEF ArgumentsComeFirst
<1>1. Usage = None /\ Mode \in {"subscribe", "call", "login"}
  BY DEF IInv, Vetted
<1>2. AnswerAt # {} => Final.error \notin UsageCodes
  BY DEF IInv, Concluding
<1>3. CASE Mode = "subscribe"
  <2>1. SubscribeUsage = None
    BY <1>1, <1>3 DEF Usage
  <2> QED
    BY <1>2, <1>3, <2>1, SubscribeVetted DEF ArgumentsComeFirst
<1>4. CASE Mode = "call"
  <2>1. CallUsage = None
    BY <1>1, <1>4 DEF Usage
  <2> QED
    BY <1>2, <1>4, <2>1, CallVetted DEF ArgumentsComeFirst
<1>5. CASE Mode = "login"
  <2>1. CacheUsage = None
    BY <1>1, <1>5 DEF Usage
  <2> QED
    BY <1>2, <1>5, <2>1, LoginVetted DEF ArgumentsComeFirst
<1> QED
  BY <1>1, <1>3, <1>4, <1>5

-----------------------------------------------------------------------------
(* Digits.                                                                 *)

Decimals == ToSet(Digits)

\* The ten digits, their values, and what else a pointer is written with.
LEMMA DecimalFacts ==
  /\ \A i \in 1 .. 10 : Digits[i] \in Decimals /\ DigitOf(Digits[i]) = i - 1
  /\ \A d \in Decimals : DigitOf(d) \in 0 .. 9 /\ Digits[DigitOf(d) + 1] = d
  /\ DigitOf("0") = 0 /\ \A d \in Decimals \ {"0"} : DigitOf(d) >= 1
  /\ "~" \notin Decimals /\ "/" \notin Decimals /\ {"0", "1"} \subseteq Decimals
  /\ Decimals \cup {"~", "/"} \subseteq Chars
<1>1. /\ DOMAIN Digits = 1 .. 10
      /\ Digits[1] = "0" /\ Digits[2] = "1" /\ Digits[3] = "2" /\ Digits[4] = "3"
      /\ Digits[5] = "4" /\ Digits[6] = "5" /\ Digits[7] = "6" /\ Digits[8] = "7"
      /\ Digits[9] = "8" /\ Digits[10] = "9"
  BY DEF Digits
<1>2. Decimals = {Digits[i] : i \in 1 .. 10}
  BY <1>1 DEF Decimals, ToSet
<1>3. \A i, j \in 1 .. 10 : Digits[i] = Digits[j] => i = j
  <2>1. \A i \in 1 .. 10 : \/ i = 1 \/ i = 2 \/ i = 3 \/ i = 4 \/ i = 5
                           \/ i = 6 \/ i = 7 \/ i = 8 \/ i = 9 \/ i = 10
    OBVIOUS
  <2> QED
    BY <1>1, <2>1
<1>4. ASSUME NEW i \in 1 .. 10 PROVE DigitOf(Digits[i]) = i - 1
  <2>1. \A j \in 1 .. 10 : Digits[j] = Digits[i] <=> j = i
    BY <1>3
  <2>2. (CHOOSE j \in 1 .. 10 : Digits[j] = Digits[i]) = i
    BY <2>1
  <2> QED
    BY <2>2 DEF DigitOf
<1>5. ASSUME NEW d \in Decimals PROVE DigitOf(d) \in 0 .. 9 /\ Digits[DigitOf(d) + 1] = d
  <2>1. PICK i \in 1 .. 10 : d = Digits[i]
    BY <1>2
  <2> QED
    BY <1>4, <2>1
<1>6. /\ "~" \notin Decimals /\ "/" \notin Decimals /\ {"0", "1"} \subseteq Decimals
  <2>1. \A i \in 1 .. 10 : Digits[i] # "~" /\ Digits[i] # "/"
    <3>1. \A i \in 1 .. 10 : \/ i = 1 \/ i = 2 \/ i = 3 \/ i = 4 \/ i = 5
                             \/ i = 6 \/ i = 7 \/ i = 8 \/ i = 9 \/ i = 10
      OBVIOUS
    <3> QED
      BY <1>1, <3>1
  <2> QED
    BY <1>1, <1>2, <2>1
<1>7. DigitOf("0") = 0
  BY <1>1, <1>4
<1>8. \A d \in Decimals \ {"0"} : DigitOf(d) >= 1
  <2>1. \A d \in Decimals : DigitOf(d) = 0 => d = "0"
    BY <1>1, <1>5
  <2> QED
    BY <1>5, <2>1
<1>9. \A i \in 1 .. 10 : Digits[i] \in Decimals
  BY <1>2
<1>10. Decimals \cup {"~", "/"} \subseteq Chars
  BY JsonAssumption DEF Decimals
<1> QED
  BY <1>4, <1>5, <1>6, <1>7, <1>8, <1>9, <1>10

-----------------------------------------------------------------------------
(* Sequences, a last element at a time.                                    *)

\* One element more.
LEMMA SnocFacts ==
  ASSUME NEW S, NEW s \in Seq(S), NEW c \in S
  PROVE  /\ Append(s, c) \in Seq(S) /\ Len(s) \in Nat /\ Len(Append(s, c)) = Len(s) + 1
         /\ Append(s, c) # << >> /\ Front(Append(s, c)) = s
         /\ \A i \in 1 .. Len(s) : Append(s, c)[i] = s[i]
         /\ Append(s, c)[Len(s) + 1] = c
<1>1. /\ Append(s, c) \in Seq(S) /\ Len(s) \in Nat /\ Len(Append(s, c)) = Len(s) + 1
      /\ \A i \in 1 .. Len(s) : Append(s, c)[i] = s[i]
      /\ Append(s, c)[Len(s) + 1] = c
  OBVIOUS
<1>2. Append(s, c) # << >>
  BY <1>1
<1> DEFINE t == Append(s, c)
           u == SubSeq(t, 1, Len(t) - 1)
<1> HIDE DEF t
<1>3. u \in Seq(S) /\ Len(u) = Len(s) /\ \A i \in 1 .. Len(s) : u[i] = t[i]
  BY <1>1 DEF t
<1> HIDE DEF u
<1>4. u = s
  BY <1>1, <1>3, SeqEqual DEF t
<1> QED
  BY <1>1, <1>2, <1>4 DEF t, u, Front

LEMMA FrontType ==
  ASSUME NEW S, NEW s \in Seq(S)
  PROVE  Front(s) \in Seq(S)
<1>1. \A i \in 1 .. (Len(s) - 1) : s[i] \in S
  OBVIOUS
<1> QED
  BY <1>1 DEF Front

\* A sequence is its prefixes, one element more each.
Prefix(s, n) == SubSeq(s, 1, n)

LEMMA PrefixFacts ==
  ASSUME NEW S, NEW s \in Seq(S)
  PROVE  /\ Prefix(s, 0) = << >> /\ Prefix(s, Len(s)) = s
         /\ \A n \in 0 .. Len(s) : Prefix(s, n) \in Seq(S) /\ Len(Prefix(s, n)) = n
         /\ \A n \in 1 .. Len(s) : s[n] \in S /\ Prefix(s, n) = Append(Prefix(s, n - 1), s[n])
         /\ \A n \in 0 .. Len(s) : \A i \in 1 .. n : Prefix(s, n)[i] = s[i]
<1>1. ASSUME NEW n \in 0 .. Len(s)
      PROVE  /\ Prefix(s, n) \in Seq(S) /\ Len(Prefix(s, n)) = n
             /\ \A i \in 1 .. n : Prefix(s, n)[i] = s[i]
  <2>1. \A i \in 1 .. n : s[i] \in S
    OBVIOUS
  <2> QED
    BY <2>1 DEF Prefix
<1>2. Prefix(s, 0) = << >>
  BY DEF Prefix
<1>3. Prefix(s, Len(s)) = s
  BY DEF Prefix
<1>4. ASSUME NEW n \in 1 .. Len(s)
      PROVE  s[n] \in S /\ Prefix(s, n) = Append(Prefix(s, n - 1), s[n])
  <2>1. n - 1 \in 0 .. Len(s) /\ n \in 0 .. Len(s) /\ s[n] \in S
    OBVIOUS
  <2> DEFINE t == Prefix(s, n)
             p == Prefix(s, n - 1)
             u == Append(p, s[n])
  <2>2. /\ p \in Seq(S) /\ Len(p) = n - 1 /\ \A i \in 1 .. (n - 1) : p[i] = s[i]
        /\ t \in Seq(S) /\ Len(t) = n /\ \A i \in 1 .. n : t[i] = s[i]
    BY <1>1, <2>1
  <2> HIDE DEF p, t
  <2>3. u \in Seq(S) /\ Len(u) = n /\ u[n] = s[n] /\ \A i \in 1 .. (n - 1) : u[i] = p[i]
    BY <2>1, <2>2
  <2> HIDE DEF u
  <2>4. \A i \in 1 .. n : u[i] = t[i]
    <3>1. \A i \in 1 .. n : i = n \/ i \in 1 .. (n - 1)
      OBVIOUS
    <3> QED
      BY <2>2, <2>3, <3>1
  <2>5. t = u
    BY <2>2, <2>3, <2>4, SeqEqual
  <2> QED
    BY <2>1, <2>5 DEF t, u, p
<1> QED
  BY <1>1, <1>2, <1>3, <1>4

\* Two loops over N elements start alike, and go on alike.
InStep(f, g, N) ==
  /\ f[0] = g[0]
  /\ \A n \in 1 .. N : f[n - 1] = g[n - 1] => f[n] = g[n]

\* Such loops are the same.
LEMMA LoopsAgree ==
  ASSUME NEW N \in Nat, NEW f, NEW g, InStep(f, g, N)
  PROVE  \A n \in 0 .. N : f[n] = g[n]
<1> DEFINE T == {n \in 0 .. N : f[n] = g[n]}
<1>1. 0 \in T /\ \A n \in 1 .. N : n - 1 \in T => n \in T
  BY DEF InStep
<1>2. 0 .. N \subseteq T
  <2> HIDE DEF T
  <2> QED
    BY <1>1, PrefixInduction
<1> QED
  BY <1>2

-----------------------------------------------------------------------------
(* ReplacePair.                                                            *)

Replaced(text, n, digit, char, before) ==
  IF EndsPair(text, n, digit) THEN Append(Front(before), char) ELSE Append(before, text[n])

\* `done` is the run of ReplacePair's loop.
IsReplacing(done, text, digit, char) ==
  /\ done \in [0 .. Len(text) -> Seq(Chars)]
  /\ done[0] = << >>
  /\ \A n \in 1 .. Len(text) : done[n] = Replaced(text, n, digit, char, done[n - 1])

\* The loop of ReplacePair, as equations.
LEMMA ReplaceRun ==
  ASSUME NEW text \in Seq(Chars), NEW digit, NEW char \in Chars
  PROVE  \E done : /\ IsReplacing(done, text, digit, char)
                   /\ ReplacePair(text, digit, char) = done[Len(text)]
<1> DEFINE N == Len(text)
           S == Seq(Chars)
           step == [n \in 1 .. N |-> [s \in S |-> Replaced(text, n, digit, char, s)]]
           IsRun(f) == f = [n \in 0 .. N |->
                              IF n = 0 THEN << >> ELSE Replaced(text, n, digit, char, f[n - 1])]
           done == CHOOSE f : IsRun(f)
<1>1. N \in Nat /\ << >> \in S
  OBVIOUS
<1>2. ReplacePair(text, digit, char) = done[N]
  BY DEF ReplacePair, Replaced
<1>3. \A n \in 1 .. N : \A s \in S : Replaced(text, n, digit, char, s) \in S
  <2> SUFFICES ASSUME NEW n \in 1 .. N, NEW s \in S PROVE Replaced(text, n, digit, char, s) \in S
    OBVIOUS
  <2>1. Front(s) \in S /\ text[n] \in Chars
    BY FrontType
  <2>2. Append(Front(s), char) \in S /\ Append(s, text[n]) \in S
    BY <2>1
  <2> QED
    BY <2>2 DEF Replaced
<1> HIDE DEF N, S
<1>4. step \in [1 .. N -> [S -> S]]
  BY <1>3
<1>5. PICK f : IsLoop(f, N, S, << >>, step)
  <2> HIDE DEF step
  <2> QED
    BY <1>1, <1>4, PrefixRecursion
<1>6. IsRun(f)
  <2>1. f \in [0 .. N -> S] /\ f[0] = << >>
    BY <1>5 DEF IsLoop
  <2>2. ASSUME NEW n \in 1 .. N PROVE f[n] = Replaced(text, n, digit, char, f[n - 1])
    <3>1. n - 1 \in 0 .. N
      BY <1>1
    <3>2. f[n] = step[n][f[n - 1]]
      <4> HIDE DEF step
      <4> QED
        BY <1>5 DEF IsLoop
    <3>3. f[n - 1] \in S
      BY <2>1, <3>1
    <3> QED
      BY <3>2, <3>3
  <2> QED
    BY <1>1, <2>1, <2>2
<1>7. IsRun(done)
  <2> HIDE DEF IsRun
  <2> QED
    BY <1>6
<1> HIDE DEF done
<1>8. /\ done = [n \in 0 .. N |-> done[n]]
      /\ done[0] = << >>
      /\ \A n \in 1 .. N : done[n] = Replaced(text, n, digit, char, done[n - 1])
  BY <1>1, <1>7
<1>9. \A n \in 1 .. N : done[n - 1] \in S => done[n] \in S
  BY <1>3, <1>8
<1>10. done \in [0 .. N -> S]
  <2> HIDE DEF IsRun
  <2> QED
    BY <1>1, <1>8, <1>9, PrefixType, Zenon
<1>11. IsReplacing(done, text, digit, char)
  BY <1>8, <1>10 DEF IsReplacing, N, S
<1> QED
  BY <1>2, <1>11 DEF N

\* The text ends with a "~".
EndsTilde(text) == text # << >> /\ text[Len(text)] = "~"

LEMMA ReplaceEmpty ==
  ASSUME NEW digit, NEW char \in Chars
  PROVE  ReplacePair(<< >>, digit, char) = << >>
<1>1. << >> \in Seq(Chars) /\ Len(<< >>) = 0
  OBVIOUS
<1>2. PICK done : /\ IsReplacing(done, << >>, digit, char)
                  /\ ReplacePair(<< >>, digit, char) = done[Len(<< >>)]
  BY <1>1, ReplaceRun
<1> QED
  BY <1>1, <1>2 DEF IsReplacing

\* A character more: a pair is complete with it, or it is kept.
LEMMA ReplaceSnoc ==
  ASSUME NEW text \in Seq(Chars), NEW c \in Chars, NEW digit, NEW char \in Chars
  PROVE  /\ ReplacePair(text, digit, char) \in Seq(Chars)
         /\ ReplacePair(Append(text, c), digit, char) =
              IF EndsTilde(text) /\ c = digit
              THEN Append(Front(ReplacePair(text, digit, char)), char)
              ELSE Append(ReplacePair(text, digit, char), c)
<1> DEFINE N == Len(text)
           longer == Append(text, c)
<1>1. /\ longer \in Seq(Chars) /\ N \in Nat /\ Len(longer) = N + 1
      /\ \A i \in 1 .. N : longer[i] = text[i]
      /\ longer[N + 1] = c
  BY SnocFacts
<1> HIDE DEF longer
<1>2. PICK f : IsReplacing(f, text, digit, char) /\ ReplacePair(text, digit, char) = f[Len(text)]
  BY ReplaceRun
<1>3. PICK g : IsReplacing(g, longer, digit, char) /\ ReplacePair(longer, digit, char) = g[N + 1]
  BY <1>1, ReplaceRun
<1>4. EndsTilde(text) <=> N > 0 /\ text[N] = "~"
  BY DEF EndsTilde
<1> HIDE DEF N
<1>5. /\ f \in [0 .. N -> Seq(Chars)] /\ f[0] = << >> /\ g[0] = << >>
      /\ \A n \in 1 .. N : f[n] = Replaced(text, n, digit, char, f[n - 1])
      /\ \A n \in 1 .. (N + 1) : g[n] = Replaced(longer, n, digit, char, g[n - 1])
  BY <1>1, <1>2, <1>3 DEF IsReplacing, N
<1>6. ASSUME NEW n \in 1 .. N, NEW s
      PROVE  Replaced(text, n, digit, char, s) = Replaced(longer, n, digit, char, s)
  <2>1. longer[n] = text[n] /\ (n > 1 => longer[n - 1] = text[n - 1])
    BY <1>1
  <2>2. EndsPair(text, n, digit) <=> EndsPair(longer, n, digit)
    BY <2>1 DEF EndsPair
  <2> QED
    BY <2>1, <2>2 DEF Replaced
<1>7. \A n \in 1 .. N : f[n - 1] = g[n - 1] => f[n] = g[n]
  <2> SUFFICES ASSUME NEW n \in 1 .. N, f[n - 1] = g[n - 1] PROVE f[n] = g[n]
    OBVIOUS
  <2>1. n \in 1 .. (N + 1)
    BY <1>1
  <2> QED
    BY <1>5, <1>6, <2>1
<1>8. f[N] = g[N]
  <2>1. \A n \in 0 .. N : f[n] = g[n]
    <3>1. f[0] = g[0] /\ N \in Nat
      BY <1>1, <1>5
    <3> QED
      <4>1. InStep(f, g, N)
        BY <1>7, <3>1 DEF InStep
      <4> QED
        BY <3>1, <4>1, LoopsAgree
  <2> QED
    BY <1>1, <2>1
<1>9. g[N + 1] = Replaced(longer, N + 1, digit, char, f[N])
  <2>1. N + 1 \in 1 .. (N + 1) /\ (N + 1) - 1 = N
    BY <1>1
  <2> QED
    BY <1>5, <1>8, <2>1
<1>10. EndsPair(longer, N + 1, digit) <=> EndsTilde(text) /\ c = digit
  <2>1. (N + 1) - 1 = N /\ (N + 1 > 1 <=> N > 0) /\ (N > 0 => longer[N] = text[N])
    BY <1>1
  <2> QED
    BY <1>1, <1>4, <2>1 DEF EndsPair
<1>11. f[N] \in Seq(Chars) /\ ReplacePair(text, digit, char) = f[N]
  BY <1>1, <1>2, <1>5 DEF N
<1> QED
  BY <1>1, <1>3, <1>9, <1>10, <1>11 DEF Replaced, longer

-----------------------------------------------------------------------------
(* Escape.                                                                 *)

Escaped(char, before) ==
  IF char = "~" THEN before \o << "~", "0" >>
  ELSE IF char = "/" THEN before \o << "~", "1" >>
  ELSE Append(before, char)

IsEscaping(text, key) ==
  /\ text \in [0 .. Len(key) -> Seq(Chars)]
  /\ text[0] = << >>
  /\ \A n \in 1 .. Len(key) : text[n] = Escaped(key[n], text[n - 1])

\* What a character of a key becomes.
LEMMA EscapedChar ==
  ASSUME NEW text \in Seq(Chars), NEW char \in Chars
  PROVE  /\ Escaped(char, text) \in Seq(Chars)
         /\ char = "~" => Escaped(char, text) = Append(Append(text, "~"), "0")
         /\ char = "/" => Escaped(char, text) = Append(Append(text, "~"), "1")
         /\ char \notin {"~", "/"} => Escaped(char, text) = Append(text, char)
<1>1. {"~", "/", "0", "1"} \subseteq Chars
  BY DecimalFacts
<1>2. IsSequence(text)
  BY DEF IsSequence
<1>3. /\ text \o << "~", "0" >> = Append(Append(text, "~"), "0")
      /\ text \o << "~", "1" >> = Append(Append(text, "~"), "1")
  BY <1>2, AppendTwo
<1>4. /\ Append(text, "~") \in Seq(Chars) /\ Append(text, char) \in Seq(Chars)
      /\ Append(Append(text, "~"), "0") \in Seq(Chars)
      /\ Append(Append(text, "~"), "1") \in Seq(Chars)
  BY <1>1
<1> QED
  BY <1>3, <1>4 DEF Escaped

LEMMA EscapeRun ==
  ASSUME NEW key \in Seq(Chars)
  PROVE  \E run : IsEscaping(run, key) /\ Escape(key) = run[Len(key)]
<1> DEFINE N == Len(key)
           S == Seq(Chars)
           base == << >>
           after(n, x) == Escaped(key[n], x)
           step == [n \in 1 .. N |-> [x \in S |-> after(n, x)]]
           IsRun(f) == f = [n \in 0 .. N |-> IF n = 0 THEN base ELSE after(n, f[n - 1])]
           run == CHOOSE f : IsRun(f)
<1>1. N \in Nat /\ base \in S
  OBVIOUS
<1>2. Escape(key) = run[N]
  BY DEF Escape, Escaped
<1>3. \A n \in 1 .. N : \A x \in S : after(n, x) \in S
  <2>1. \A n \in 1 .. N : key[n] \in Chars
    OBVIOUS
  <2> QED
    BY <2>1, EscapedChar
<1> HIDE DEF N, S, base, after
<1>4. step \in [1 .. N -> [S -> S]]
  BY <1>3
<1>5. PICK f : IsLoop(f, N, S, base, step)
  <2> HIDE DEF step
  <2> QED
    BY <1>1, <1>4, PrefixRecursion
<1>6. IsRun(f)
  <2>1. f \in [0 .. N -> S] /\ f[0] = base
    BY <1>5 DEF IsLoop
  <2>2. ASSUME NEW n \in 1 .. N PROVE f[n] = after(n, f[n - 1])
    <3>1. n - 1 \in 0 .. N
      BY <1>1
    <3>2. f[n] = step[n][f[n - 1]]
      <4> HIDE DEF step
      <4> QED
        BY <1>5 DEF IsLoop
    <3>3. f[n - 1] \in S
      BY <2>1, <3>1
    <3> QED
      BY <3>2, <3>3
  <2> QED
    BY <1>1, <2>1, <2>2
<1>7. IsRun(run)
  <2> HIDE DEF IsRun
  <2> QED
    BY <1>6
<1> HIDE DEF run
<1>8. /\ run = [n \in 0 .. N |-> run[n]]
      /\ run[0] = base
      /\ \A n \in 1 .. N : run[n] = after(n, run[n - 1])
  BY <1>1, <1>7
<1>9. \A n \in 1 .. N : run[n - 1] \in S => run[n] \in S
  BY <1>3, <1>8
<1>10. run \in [0 .. N -> S]
  <2> HIDE DEF IsRun
  <2> QED
    BY <1>1, <1>8, <1>9, PrefixType, Zenon
<1>11. IsEscaping(run, key)
  BY <1>8, <1>10 DEF IsEscaping, N, S, base, after
<1> QED
  BY <1>2, <1>11 DEF N, S

\* A character more of a key.
LEMMA EscapeSnoc ==
  ASSUME NEW key \in Seq(Chars), NEW char \in Chars
  PROVE  /\ Escape(<< >>) = << >>
         /\ Escape(key) \in Seq(Chars)
         /\ Escape(Append(key, char)) = Escaped(char, Escape(key))
<1> DEFINE N == Len(key)
           longer == Append(key, char)
<1>1. /\ longer \in Seq(Chars) /\ N \in Nat /\ Len(longer) = N + 1
      /\ \A i \in 1 .. N : longer[i] = key[i]
      /\ longer[N + 1] = char
  BY SnocFacts
<1> HIDE DEF longer
<1>2. PICK f : IsEscaping(f, key) /\ Escape(key) = f[Len(key)]
  BY EscapeRun
<1>3. PICK g : IsEscaping(g, longer) /\ Escape(longer) = g[N + 1]
  BY <1>1, EscapeRun
<1>4. Escape(<< >>) = << >>
  <2>1. << >> \in Seq(Chars) /\ Len(<< >>) = 0
    OBVIOUS
  <2>2. PICK e : IsEscaping(e, << >>) /\ Escape(<< >>) = e[Len(<< >>)]
    BY <2>1, EscapeRun
  <2> QED
    BY <2>1, <2>2 DEF IsEscaping
<1> HIDE DEF N
<1>5. /\ f \in [0 .. N -> Seq(Chars)] /\ f[0] = g[0]
      /\ \A n \in 1 .. N : f[n] = Escaped(key[n], f[n - 1])
      /\ \A n \in 1 .. (N + 1) : g[n] = Escaped(longer[n], g[n - 1])
  BY <1>1, <1>2, <1>3 DEF IsEscaping, N
<1>6. \A n \in 1 .. N : f[n - 1] = g[n - 1] => f[n] = g[n]
  <2>1. \A n \in 1 .. N : n \in 1 .. (N + 1)
    BY <1>1
  <2> QED
    BY <1>1, <1>5, <2>1
<1>7. f[N] = g[N]
  <2>1. f[0] = g[0] /\ N \in Nat
    BY <1>1, <1>5
  <2>2. \A n \in 0 .. N : f[n] = g[n]
    <3>1. InStep(f, g, N)
      BY <1>6, <2>1 DEF InStep
    <3> QED
      BY <2>1, <3>1, LoopsAgree
  <2> QED
    BY <1>1, <2>2
<1>8. g[N + 1] = Escaped(char, f[N])
  <2>1. N + 1 \in 1 .. (N + 1) /\ (N + 1) - 1 = N
    BY <1>1
  <2> QED
    BY <1>1, <1>5, <1>7, <2>1
<1>9. f[N] \in Seq(Chars) /\ Escape(key) = f[N]
  BY <1>1, <1>2, <1>5 DEF N
<1> QED
  BY <1>3, <1>4, <1>8, <1>9 DEF longer

-----------------------------------------------------------------------------
(* Unescaping.                                                             *)

LEMMA EndsSnoc ==
  ASSUME NEW text \in Seq(Chars), NEW c \in Chars
  PROVE  EndsTilde(Append(text, c)) <=> c = "~"
<1>1. /\ Append(text, c) # << >> /\ Len(text) \in Nat /\ Len(Append(text, c)) = Len(text) + 1
      /\ Append(text, c)[Len(text) + 1] = c
  BY SnocFacts
<1> QED
  BY <1>1 DEF EndsTilde

\* Append, left folded where the provers are to match one text with another.
Followed(text, c) == Append(text, c)

\* A "~" and a character more.
LEMMA ReplaceTwo ==
  ASSUME NEW text \in Seq(Chars), NEW c \in Chars, NEW digit, digit # "~", NEW char \in Chars
  PROVE  /\ c = digit => ReplacePair(Followed(Followed(text, "~"), c), digit, char) =
                            Followed(ReplacePair(text, digit, char), char)
         /\ c # digit => ReplacePair(Followed(Followed(text, "~"), c), digit, char) =
                            Followed(Followed(ReplacePair(text, digit, char), "~"), c)
<1>1. "~" \in Chars
  BY DecimalFacts
<1> DEFINE middle == Append(text, "~")
           replaced == ReplacePair(text, digit, char)
<1>2. middle \in Seq(Chars) /\ EndsTilde(middle)
  BY <1>1, SnocFacts, EndsSnoc
<1>3. replaced \in Seq(Chars) /\ ReplacePair(middle, digit, char) = Append(replaced, "~")
  BY <1>1, ReplaceSnoc
<1> HIDE DEF middle, replaced
<1>4. ReplacePair(Append(middle, c), digit, char) =
        IF c = digit THEN Append(Front(Append(replaced, "~")), char)
        ELSE Append(Append(replaced, "~"), c)
  <2>1. ReplacePair(Append(middle, c), digit, char) =
          IF EndsTilde(middle) /\ c = digit
          THEN Append(Front(ReplacePair(middle, digit, char)), char)
          ELSE Append(ReplacePair(middle, digit, char), c)
    BY <1>2, ReplaceSnoc
  <2> QED
    BY <1>2, <1>3, <2>1
<1>5. Front(Append(replaced, "~")) = replaced
  BY <1>1, <1>3, SnocFacts
<1> QED
  BY <1>4, <1>5 DEF middle, replaced, Followed

\* A character after none, or after another than "~".
LEMMA ReplaceOne ==
  ASSUME NEW text \in Seq(Chars), ~EndsTilde(text), NEW c \in Chars, NEW digit,
         NEW char \in Chars
  PROVE  ReplacePair(Append(text, c), digit, char) = Append(ReplacePair(text, digit, char), c)
BY ReplaceSnoc

\* What a token says once the "~1" of it are replaced.
Half(token) == ReplacePair(token, "1", "/")

IsUndone(key) ==
  /\ ~EndsTilde(Escape(key))
  /\ ~EndsTilde(Half(Escape(key)))
  /\ Unescape(Escape(key)) = key

\* A character more of a key is unescaped like those before it.
LEMMA UndoneSnoc ==
  ASSUME NEW key \in Seq(Chars), IsUndone(key), NEW c \in Chars
  PROVE  IsUndone(Append(key, c))
<1> DEFINE token == Escape(key)
           half == Half(token)
           longer == Escape(Append(key, c))
<1>1. {"~", "/", "0", "1"} \subseteq Chars /\ "0" # "~" /\ "1" # "~"
  BY DecimalFacts
<1>2. token \in Seq(Chars) /\ longer = Escaped(c, token)
  BY EscapeSnoc
<1>3. half \in Seq(Chars)
  BY <1>1, <1>2, ReplaceSnoc DEF Half
<1>4. ~EndsTilde(token) /\ ~EndsTilde(half) /\ ReplacePair(half, "0", "~") = key
  BY DEF IsUndone, Unescape, Half
<1>5. SUFFICES /\ ~EndsTilde(longer) /\ ~EndsTilde(Half(longer))
               /\ ReplacePair(Half(longer), "0", "~") = Append(key, c)
  BY DEF IsUndone, Unescape, Half
<1> HIDE DEF token, half, longer
<1>6. CASE c = "~"
  <2>1. longer = Append(Append(token, "~"), "0")
    BY <1>2, <1>6, EscapedChar
  <2>2. Half(longer) = Append(Append(half, "~"), "0")
    <3>1. ReplacePair(Followed(Followed(token, "~"), "0"), "1", "/") =
            Followed(Followed(ReplacePair(token, "1", "/"), "~"), "0")
      BY <1>1, <1>2, ReplaceTwo
    <3> QED
      BY <2>1, <3>1 DEF Half, half, Followed
  <2>3. ReplacePair(Half(longer), "0", "~") = Append(key, "~")
    <3>1. ReplacePair(Followed(Followed(half, "~"), "0"), "0", "~") =
            Followed(ReplacePair(half, "0", "~"), "~")
      BY <1>1, <1>3, ReplaceTwo
    <3> QED
      BY <1>4, <2>2, <3>1 DEF Followed
  <2>4. Append(token, "~") \in Seq(Chars) /\ Append(half, "~") \in Seq(Chars)
    BY <1>1, <1>2, <1>3
  <2>5. ~EndsTilde(longer) /\ ~EndsTilde(Half(longer))
    BY <1>1, <2>1, <2>2, <2>4, EndsSnoc
  <2> QED
    BY <1>6, <2>3, <2>5
<1>7. CASE c = "/"
  <2>1. longer = Append(Append(token, "~"), "1")
    BY <1>2, <1>7, EscapedChar
  <2>2. Half(longer) = Append(half, "/")
    <3>1. ReplacePair(Followed(Followed(token, "~"), "1"), "1", "/") =
            Followed(ReplacePair(token, "1", "/"), "/")
      BY <1>1, <1>2, ReplaceTwo
    <3> QED
      BY <2>1, <3>1 DEF Half, half, Followed
  <2>3. ReplacePair(Half(longer), "0", "~") = Append(key, "/")
    BY <1>1, <1>3, <1>4, <2>2, ReplaceOne
  <2>4. Append(token, "~") \in Seq(Chars)
    BY <1>1, <1>2
  <2>5. ~EndsTilde(longer) /\ ~EndsTilde(Half(longer))
    BY <1>1, <1>3, <2>1, <2>2, <2>4, EndsSnoc
  <2> QED
    BY <1>7, <2>3, <2>5
<1>8. CASE c \notin {"~", "/"}
  <2>1. longer = Append(token, c)
    BY <1>2, <1>8, EscapedChar
  <2>2. Half(longer) = Append(half, c)
    BY <1>1, <1>2, <1>4, <2>1, ReplaceOne DEF Half, half
  <2>3. ReplacePair(Half(longer), "0", "~") = Append(key, c)
    BY <1>1, <1>3, <1>4, <2>2, ReplaceOne
  <2>4. ~EndsTilde(longer) /\ ~EndsTilde(Half(longer))
    BY <1>2, <1>3, <1>8, <2>1, <2>2, EndsSnoc
  <2> QED
    BY <2>3, <2>4
<1> QED
  BY <1>6, <1>7, <1>8

\* Unescaping undoes the escaping of every key.
LEMMA UnescapeEscape ==
  ASSUME NEW key \in Seq(Chars)
  PROVE  Unescape(Escape(key)) = key
<1> DEFINE N == Len(key)
           T == {n \in 0 .. N : IsUndone(Prefix(key, n))}
<1>1. 0 \in T
  <2>1. "/" \in Chars /\ "~" \in Chars
    BY DecimalFacts
  <2>2. Escape(<< >>) = << >> /\ Half(<< >>) = << >> /\ ReplacePair(<< >>, "0", "~") = << >>
    BY <2>1, EscapeSnoc, ReplaceEmpty DEF Half
  <2>3. IsUndone(<< >>)
    BY <2>2 DEF IsUndone, EndsTilde, Unescape, Half
  <2> QED
    BY <2>3, PrefixFacts
<1>2. ASSUME NEW n \in 1 .. N, n - 1 \in T PROVE n \in T
  <2>1. /\ key[n] \in Chars /\ Prefix(key, n) = Append(Prefix(key, n - 1), key[n])
        /\ n - 1 \in 0 .. N /\ n \in 0 .. N /\ Prefix(key, n - 1) \in Seq(Chars)
    BY PrefixFacts
  <2> QED
    BY <1>2, <2>1, UndoneSnoc
<1>3. 0 .. N \subseteq T
  <2>1. N \in Nat
    OBVIOUS
  <2> HIDE DEF T
  <2> QED
    BY <1>1, <1>2, <2>1, PrefixInduction
<1>4. N \in T
  BY <1>3
<1> QED
  BY <1>4, PrefixFacts DEF IsUndone

\* A token is the escape of some key.
LEMMA TokenIsEscape ==
  ASSUME NEW token \in Seq(Chars), IsToken(token)
  PROVE  \E key \in Seq(Chars) : Escape(key) = token
<1> DEFINE N == Len(token)
           IsEscaped(text) == \E key \in Seq(Chars) : Escape(key) = text
           T == {n \in 0 .. N :
                   IF n > 0 /\ token[n] = "~" THEN IsEscaped(Prefix(token, n - 1))
                   ELSE IsEscaped(Prefix(token, n))}
<1>1. << >> \in Seq(Chars) /\ Escape(<< >>) = << >> /\ Prefix(token, 0) = << >>
  <2>1. "~" \in Chars /\ << >> \in Seq(Chars)
    BY DecimalFacts
  <2> QED
    BY <2>1, EscapeSnoc, PrefixFacts
<1>2. 0 \in T
  <2>1. IsEscaped(Prefix(token, 0))
    BY <1>1, Zenon
  <2>2. N \in Nat
    OBVIOUS
  <2> HIDE DEF IsEscaped, N
  <2> QED
    BY <2>1, <2>2
<1>3. ASSUME NEW n \in 1 .. N, n - 1 \in T PROVE n \in T
  <2>1. /\ token[n] \in Chars /\ Prefix(token, n) = Append(Prefix(token, n - 1), token[n])
        /\ n - 1 \in 0 .. N /\ n \in 0 .. N /\ n \in DOMAIN token
    BY PrefixFacts
  <2>2. "~" \in Chars /\ "/" \in Chars
    BY DecimalFacts
  <2>3. CASE n > 1 /\ token[n - 1] = "~"
    <3>1. n - 1 \in 1 .. N /\ n - 1 \in DOMAIN token /\ n - 1 > 0 /\ (n - 1) + 1 = n
      BY <2>3
    <3>2. token[n] \in {"0", "1"}
      BY <2>3, <3>1 DEF IsToken
    <3>3. PICK key \in Seq(Chars) : Escape(key) = Prefix(token, (n - 1) - 1)
      BY <1>3, <2>3, <3>1
    <3>4. Prefix(token, n - 1) = Append(Prefix(token, (n - 1) - 1), token[n - 1])
      BY <3>1, PrefixFacts
    <3>5. Prefix(token, n) = Append(Append(Escape(key), "~"), token[n])
      BY <2>1, <2>3, <3>3, <3>4
    <3> DEFINE c == IF token[n] = "0" THEN "~" ELSE "/"
    <3>6. Escape(Append(key, c)) = Prefix(token, n)
      <4>1. c \in Chars
        BY <2>2
      <4> HIDE DEF c
      <4>2. Escape(key) \in Seq(Chars) /\ Escape(Append(key, c)) = Escaped(c, Escape(key))
        BY <4>1, EscapeSnoc
      <4>3. /\ c = "~" => Escaped(c, Escape(key)) = Append(Append(Escape(key), "~"), "0")
            /\ c = "/" => Escaped(c, Escape(key)) = Append(Append(Escape(key), "~"), "1")
        BY <4>1, <4>2, EscapedChar
      <4> QED
        BY <3>2, <3>5, <4>2, <4>3 DEF c
    <3>7. Append(key, c) \in Seq(Chars) /\ token[n] # "~"
      BY <2>2, <3>2
    <3> QED
      BY <2>1, <3>6, <3>7
  <2>4. CASE ~(n > 1 /\ token[n - 1] = "~")
    <3>1. IsEscaped(Prefix(token, n - 1))
      <4>1. n - 1 > 0 <=> n > 1
        OBVIOUS
      <4> QED
        BY <1>3, <2>4, <4>1
    <3>2. CASE token[n] = "~"
      BY <2>1, <3>1, <3>2
    <3>3. CASE token[n] # "~"
      <4>1. token[n] # "/"
        BY <2>1 DEF IsToken
      <4>2. PICK key \in Seq(Chars) : Escape(key) = Prefix(token, n - 1)
        BY <3>1
      <4>3. /\ Escape(key) \in Seq(Chars)
            /\ Escape(Append(key, token[n])) = Escaped(token[n], Escape(key))
        BY <2>1, EscapeSnoc
      <4>4. Escaped(token[n], Escape(key)) = Append(Escape(key), token[n])
        BY <2>1, <3>3, <4>1, <4>3, EscapedChar
      <4>5. Append(key, token[n]) \in Seq(Chars) /\ Escape(Append(key, token[n])) = Prefix(token, n)
        BY <2>1, <4>2, <4>3, <4>4
      <4> QED
        BY <2>1, <3>3, <4>5
    <3> QED
      BY <3>2, <3>3
  <2> QED
    BY <2>3, <2>4
<1>4. N \in T
  <2>1. N \in Nat
    OBVIOUS
  <2>2. 0 .. N \subseteq T
    <3> HIDE DEF T
    <3> QED
      BY <1>2, <1>3, <2>1, PrefixInduction
  <2> QED
    BY <2>1, <2>2
<1>5. ~(N > 0 /\ token[N] = "~")
  <2>1. N > 0 => N \in DOMAIN token /\ ~(N < Len(token))
    OBVIOUS
  <2> QED
    BY <2>1 DEF IsToken
<1>6. IsEscaped(Prefix(token, N))
  BY <1>4, <1>5
<1> QED
  BY <1>6, PrefixFacts

\* A token names one key.
LEMMA TokenNames ==
  ASSUME NEW token \in Seq(Chars), IsToken(token)
  PROVE  /\ Unescape(token) \in Seq(Chars)
         /\ \A key \in Seq(Chars) : Escape(key) = token <=> key = Unescape(token)
<1>1. PICK key \in Seq(Chars) : Escape(key) = token
  BY TokenIsEscape
<1>2. Unescape(token) = key
  BY <1>1, UnescapeEscape
<1> QED
  BY <1>1, <1>2, UnescapeEscape

\* Digits are written as they are.
LEMMA EscapeDigits ==
  ASSUME NEW text \in Seq(Decimals)
  PROVE  Escape(text) = text /\ Unescape(text) = text
<1> DEFINE N == Len(text)
           T == {n \in 0 .. N : Escape(Prefix(text, n)) = Prefix(text, n)}
<1>1. Decimals \subseteq Chars /\ "~" \notin Decimals /\ "/" \notin Decimals /\ "~" \in Chars
  BY DecimalFacts
<1>2. text \in Seq(Chars) /\ << >> \in Seq(Chars)
  BY <1>1
<1>3. 0 \in T
  BY <1>1, <1>2, EscapeSnoc, PrefixFacts
<1>4. ASSUME NEW n \in 1 .. N, n - 1 \in T PROVE n \in T
  <2>1. /\ text[n] \in Decimals /\ Prefix(text, n) = Append(Prefix(text, n - 1), text[n])
        /\ n - 1 \in 0 .. N /\ n \in 0 .. N /\ Prefix(text, n - 1) \in Seq(Chars)
    BY <1>2, PrefixFacts
  <2>2. text[n] \in Chars /\ text[n] \notin {"~", "/"}
    BY <1>1, <2>1
  <2>3. Escape(Prefix(text, n)) = Escaped(text[n], Prefix(text, n - 1))
    BY <1>4, <2>1, <2>2, EscapeSnoc
  <2> QED
    BY <2>1, <2>2, <2>3, EscapedChar
<1>5. N \in T
  <2>1. N \in Nat
    OBVIOUS
  <2>2. 0 .. N \subseteq T
    <3> HIDE DEF T
    <3> QED
      BY <1>3, <1>4, <2>1, PrefixInduction
  <2> QED
    BY <2>1, <2>2
<1>6. Escape(text) = text
  BY <1>5, PrefixFacts
<1> QED
  BY <1>2, <1>6, UnescapeEscape

-----------------------------------------------------------------------------
(* Numbers in decimal.                                                     *)

IsNumber(number, text) ==
  /\ number \in [0 .. Len(text) -> Nat]
  /\ number[0] = 0
  /\ \A n \in 1 .. Len(text) : number[n] = 10 * number[n - 1] + DigitOf(text[n])

LEMMA NumberRun ==
  ASSUME NEW text \in Seq(Decimals)
  PROVE  \E run : IsNumber(run, text) /\ Number(text) = run[Len(text)]
<1> DEFINE N == Len(text)
           S == Nat
           base == 0
           after(n, x) == 10 * x + DigitOf(text[n])
           step == [n \in 1 .. N |-> [x \in S |-> after(n, x)]]
           IsRun(f) == f = [n \in 0 .. N |-> IF n = 0 THEN base ELSE after(n, f[n - 1])]
           run == CHOOSE f : IsRun(f)
<1>1. N \in Nat /\ base \in S
  OBVIOUS
<1>2. Number(text) = run[N]
  BY DEF Number
<1>3. \A n \in 1 .. N : \A x \in S : after(n, x) \in S
  <2> SUFFICES ASSUME NEW n \in 1 .. N, NEW x \in S PROVE after(n, x) \in S
    OBVIOUS
  <2>1. text[n] \in Decimals
    OBVIOUS
  <2>2. DigitOf(text[n]) \in 0 .. 9
    BY <2>1, DecimalFacts
  <2> QED
    BY <2>2
<1> HIDE DEF N, S, base, after
<1>4. step \in [1 .. N -> [S -> S]]
  BY <1>3
<1>5. PICK f : IsLoop(f, N, S, base, step)
  <2> HIDE DEF step
  <2> QED
    BY <1>1, <1>4, PrefixRecursion
<1>6. IsRun(f)
  <2>1. f \in [0 .. N -> S] /\ f[0] = base
    BY <1>5 DEF IsLoop
  <2>2. ASSUME NEW n \in 1 .. N PROVE f[n] = after(n, f[n - 1])
    <3>1. n - 1 \in 0 .. N
      BY <1>1
    <3>2. f[n] = step[n][f[n - 1]]
      <4> HIDE DEF step
      <4> QED
        BY <1>5 DEF IsLoop
    <3>3. f[n - 1] \in S
      BY <2>1, <3>1
    <3> QED
      BY <3>2, <3>3
  <2> QED
    BY <1>1, <2>1, <2>2
<1>7. IsRun(run)
  <2> HIDE DEF IsRun
  <2> QED
    BY <1>6
<1> HIDE DEF run
<1>8. /\ run = [n \in 0 .. N |-> run[n]]
      /\ run[0] = base
      /\ \A n \in 1 .. N : run[n] = after(n, run[n - 1])
  BY <1>1, <1>7
<1>9. \A n \in 1 .. N : run[n - 1] \in S => run[n] \in S
  BY <1>3, <1>8
<1>10. run \in [0 .. N -> S]
  <2> HIDE DEF IsRun
  <2> QED
    BY <1>1, <1>8, <1>9, PrefixType, Zenon
<1>11. IsNumber(run, text)
  BY <1>8, <1>10 DEF IsNumber, N, S, base, after
<1> QED
  BY <1>2, <1>11 DEF N, S

\* A digit more.
LEMMA NumberSnoc ==
  ASSUME NEW text \in Seq(Decimals), NEW digit \in Decimals
  PROVE  /\ Number(<< >>) = 0 /\ Number(text) \in Nat
         /\ Number(Append(text, digit)) = 10 * Number(text) + DigitOf(digit)
<1> DEFINE N == Len(text)
           longer == Append(text, digit)
<1>1. /\ longer \in Seq(Decimals) /\ N \in Nat /\ Len(longer) = N + 1
      /\ \A i \in 1 .. N : longer[i] = text[i]
      /\ longer[N + 1] = digit
  BY SnocFacts
<1> HIDE DEF longer
<1>2. PICK f : IsNumber(f, text) /\ Number(text) = f[Len(text)]
  BY NumberRun
<1>3. PICK g : IsNumber(g, longer) /\ Number(longer) = g[N + 1]
  BY <1>1, NumberRun
<1>4. Number(<< >>) = 0
  <2>1. << >> \in Seq(Decimals) /\ Len(<< >>) = 0
    OBVIOUS
  <2>2. PICK e : IsNumber(e, << >>) /\ Number(<< >>) = e[Len(<< >>)]
    BY <2>1, NumberRun
  <2> QED
    BY <2>1, <2>2 DEF IsNumber
<1> HIDE DEF N
<1>5. /\ f \in [0 .. N -> Nat] /\ f[0] = g[0]
      /\ \A n \in 1 .. N : f[n] = 10 * f[n - 1] + DigitOf(text[n])
      /\ \A n \in 1 .. (N + 1) : g[n] = 10 * g[n - 1] + DigitOf(longer[n])
  BY <1>1, <1>2, <1>3 DEF IsNumber, N
<1>6. \A n \in 1 .. N : f[n - 1] = g[n - 1] => f[n] = g[n]
  <2>1. \A n \in 1 .. N : n \in 1 .. (N + 1)
    BY <1>1
  <2> QED
    BY <1>1, <1>5, <2>1
<1>7. f[N] = g[N]
  <2>1. f[0] = g[0] /\ N \in Nat
    BY <1>1, <1>5
  <2>2. \A n \in 0 .. N : f[n] = g[n]
    <3>1. InStep(f, g, N)
      BY <1>6, <2>1 DEF InStep
    <3> QED
      BY <2>1, <3>1, LoopsAgree
  <2> QED
    BY <1>1, <2>2
<1>8. g[N + 1] = 10 * f[N] + DigitOf(digit)
  <2>1. N + 1 \in 1 .. (N + 1) /\ (N + 1) - 1 = N
    BY <1>1
  <2> QED
    BY <1>1, <1>5, <1>7, <2>1
<1>9. f[N] \in Nat /\ Number(text) = f[N]
  BY <1>1, <1>2, <1>5 DEF N
<1> QED
  BY <1>3, <1>4, <1>8, <1>9 DEF longer

\* Division by ten, and back.
LEMMA DivTen ==
  ASSUME NEW k \in Nat
  PROVE  /\ k \div 10 \in Nat /\ k % 10 \in 0 .. 9 /\ k = 10 * (k \div 10) + (k % 10)
         /\ k >= 10 => k \div 10 \in 1 .. (k - 1)
OBVIOUS

LEMMA TenDiv ==
  ASSUME NEW m \in Nat, NEW d \in 0 .. 9
  PROVE  (10 * m + d) \div 10 = m /\ (10 * m + d) % 10 = d
OBVIOUS

\* The numeral of i - 1, from those before it.
NumeralAt(numerals, i) ==
  IF i <= 10 THEN << Digits[i] >>
  ELSE Append(numerals[((i - 1) \div 10) + 1], Digits[((i - 1) % 10) + 1])

\* The numerals of the n numbers from 0.
AreNumerals(numerals, n) ==
  /\ numerals \in Seq(Seq(Decimals)) /\ Len(numerals) = n
  /\ \A i \in 1 .. n : numerals[i] = NumeralAt(numerals, i)

\* A numeral more.
LEMMA NumeralsSnoc ==
  ASSUME NEW n \in Nat \ {0}, NEW numerals, AreNumerals(numerals, n - 1)
  PROVE  AreNumerals(Append(numerals, NumeralAt(numerals, n)), n)
<1> DEFINE S == Seq(Decimals)
           next == NumeralAt(numerals, n)
           longer == Append(numerals, next)
<1>1. numerals \in Seq(S) /\ Len(numerals) = n - 1 /\ n - 1 \in Nat
  BY DEF AreNumerals
<1>2. next \in S
  <2>1. CASE n <= 10
    <3>1. Digits[n] \in Decimals
      BY <2>1, DecimalFacts
    <3> QED
      BY <2>1, <3>1 DEF NumeralAt
  <2>2. CASE ~(n <= 10)
    <3>1. (n - 1) \div 10 \in 1 .. ((n - 1) - 1) /\ (n - 1) % 10 \in 0 .. 9
      BY <1>1, <2>2, DivTen
    <3> DEFINE m == ((n - 1) \div 10) + 1
               r == ((n - 1) % 10) + 1
    <3>2. m \in 1 .. (n - 1) /\ r \in 1 .. 10
      BY <3>1
    <3>3. next = Append(numerals[m], Digits[r])
      BY <2>2 DEF NumeralAt
    <3> HIDE DEF m, r, next
    <3>4. numerals[m] \in S
      <4> HIDE DEF S
      <4>1. numerals \in Seq(S) /\ m \in 1 .. Len(numerals)
        BY <1>1, <3>2
      <4> QED
        BY <4>1
    <3>5. Digits[r] \in Decimals
      BY <3>2, DecimalFacts
    <3> QED
      BY <3>3, <3>4, <3>5
  <2> QED
    BY <2>1, <2>2
<1> HIDE DEF S, next
<1>3. /\ longer \in Seq(S) /\ Len(longer) = n
      /\ \A i \in 1 .. (n - 1) : longer[i] = numerals[i]
      /\ longer[n] = next
  BY <1>1, <1>2, SnocFacts
<1> HIDE DEF longer
<1>4. ASSUME NEW i \in 1 .. n PROVE NumeralAt(longer, i) = NumeralAt(numerals, i)
  <2>1. CASE i <= 10
    BY <2>1 DEF NumeralAt
  <2>2. CASE ~(i <= 10)
    <3>1. (i - 1) \div 10 \in 1 .. ((i - 1) - 1)
      BY <2>2, DivTen
    <3>2. ((i - 1) \div 10) + 1 \in 1 .. (n - 1)
      BY <3>1
    <3> QED
      BY <1>3, <2>2, <3>2 DEF NumeralAt
  <2> QED
    BY <2>1, <2>2
<1>5. ASSUME NEW i \in 1 .. n PROVE longer[i] = NumeralAt(longer, i)
  <2>1. CASE i = n
    BY <1>3, <1>4, <2>1 DEF next
  <2>2. CASE i # n
    <3>1. i \in 1 .. (n - 1)
      BY <2>2
    <3> QED
      BY <1>3, <1>4, <3>1 DEF AreNumerals
  <2> QED
    BY <2>1, <2>2
<1>6. AreNumerals(longer, n)
  BY <1>3, <1>5 DEF AreNumerals, S
<1> QED
  BY <1>6 DEF longer, next

\* Numerals are what their loop says, each from those before it.
LEMMA NumeralsRun ==
  ASSUME NEW N \in Nat
  PROVE  AreNumerals(Numerals(N), N)
<1> DEFINE S == Seq(Seq(Decimals))
           after(n, x) == Append(x, NumeralAt(x, n))
           step == [n \in 1 .. N |-> [x \in S |-> IF AreNumerals(x, n - 1) THEN after(n, x)
                                                  ELSE << >>]]
           IsRun(f) == f = [n \in 0 .. N |-> IF n = 0 THEN << >> ELSE after(n, f[n - 1])]
           run == CHOOSE f : IsRun(f)
<1>1. << >> \in S /\ AreNumerals(<< >>, 0)
  BY DEF AreNumerals
<1>2. Numerals(N) = run[N]
  BY DEF Numerals, NumeralAt
<1>3. ASSUME NEW n \in 1 .. N, NEW x, AreNumerals(x, n - 1) PROVE AreNumerals(after(n, x), n)
  <2>1. n \in Nat \ {0}
    OBVIOUS
  <2> QED
    BY <1>3, <2>1, NumeralsSnoc
<1> HIDE DEF after
<1>4. step \in [1 .. N -> [S -> S]]
  <2>1. ASSUME NEW n \in 1 .. N, NEW x, AreNumerals(x, n - 1) PROVE after(n, x) \in S
    BY <1>3, <2>1 DEF AreNumerals
  <2> HIDE DEF S
  <2> QED
    BY <1>1, <2>1
<1>5. PICK f : IsLoop(f, N, S, << >>, step)
  <2> HIDE DEF S, step
  <2> QED
    BY <1>1, <1>4, PrefixRecursion
<1> HIDE DEF S
<1>6. IsRun(f)
  <2>1. f \in [0 .. N -> S] /\ f[0] = << >>
    BY <1>5 DEF IsLoop
  <2>2. ASSUME NEW n \in 1 .. N, AreNumerals(f[n - 1], n - 1) PROVE f[n] = after(n, f[n - 1])
    <3>1. n - 1 \in 0 .. N
      OBVIOUS
    <3>2. f[n] = step[n][f[n - 1]]
      <4> HIDE DEF step
      <4> QED
        BY <1>5 DEF IsLoop
    <3>3. f[n - 1] \in S
      BY <2>1, <3>1
    <3> QED
      BY <2>2, <3>2, <3>3
  <2> DEFINE T == {n \in 0 .. N : AreNumerals(f[n], n)}
  <2>3. 0 .. N \subseteq T
    <3>1. 0 \in T
      BY <1>1, <2>1
    <3>2. ASSUME NEW n \in 1 .. N, n - 1 \in T PROVE n \in T
      BY <1>3, <2>2, <3>2
    <3> HIDE DEF T
    <3> QED
      BY <3>1, <3>2, PrefixInduction
  <2>4. \A n \in 1 .. N : f[n] = after(n, f[n - 1])
    <3>1. \A n \in 1 .. N : n - 1 \in 0 .. N
      OBVIOUS
    <3> QED
      BY <2>2, <2>3, <3>1
  <2> QED
    BY <2>1, <2>4
<1>7. IsRun(run)
  <2> HIDE DEF IsRun
  <2> QED
    BY <1>6
<1> HIDE DEF run
<1>8. run[0] = << >> /\ \A n \in 1 .. N : run[n] = after(n, run[n - 1])
  <2>1. \A n \in 1 .. N : n \in 0 .. N /\ n # 0
    OBVIOUS
  <2> QED
    BY <1>7, <2>1
<1> DEFINE T == {n \in 0 .. N : AreNumerals(run[n], n)}
<1>9. 0 .. N \subseteq T
  <2>1. 0 \in T
    BY <1>1, <1>8
  <2>2. ASSUME NEW n \in 1 .. N, n - 1 \in T PROVE n \in T
    <3>1. AreNumerals(run[n - 1], n - 1) /\ run[n] = after(n, run[n - 1]) /\ n \in 0 .. N
      BY <1>8, <2>2
    <3>2. AreNumerals(after(n, run[n - 1]), n)
      BY <1>3, <3>1
    <3> QED
      BY <3>1, <3>2
  <2> HIDE DEF T
  <2> QED
    BY <2>1, <2>2, PrefixInduction
<1> QED
  BY <1>2, <1>9

\* Each numeral is that of its number.
LEMMA NumeralsAreIndices ==
  ASSUME NEW N \in Nat
  PROVE  /\ Numerals(N) \in Seq(Seq(Decimals)) /\ Len(Numerals(N)) = N
         /\ \A i \in 1 .. N : IsIndex(Numerals(N)[i]) /\ Number(Numerals(N)[i]) = i - 1
<1> DEFINE numerals == Numerals(N)
           IsRight(i) == /\ IsIndex(numerals[i]) /\ Number(numerals[i]) = i - 1
                         /\ i > 1 => numerals[i][1] # "0"
           T == {n \in 0 .. N : \A i \in 1 .. n : IsRight(i)}
<1>1. /\ numerals \in Seq(Seq(Decimals)) /\ Len(numerals) = N
      /\ \A i \in 1 .. N : numerals[i] = NumeralAt(numerals, i)
  BY NumeralsRun DEF AreNumerals
<1> HIDE DEF numerals
<1>2. ASSUME NEW n \in 1 .. N, \A i \in 1 .. (n - 1) : IsRight(i) PROVE IsRight(n)
  <2>1. CASE n <= 10
    <3> DEFINE d == Digits[n]
    <3>1. d \in Decimals /\ DigitOf(d) = n - 1 /\ DigitOf("0") = 0
      BY <2>1, DecimalFacts
    <3>2. numerals[n] = << d >>
      BY <1>1, <2>1 DEF NumeralAt
    <3> HIDE DEF d
    <3>3. << d >> \in Seq(Decimals) /\ Append(<< >>, d) = << d >> /\ << >> \in Seq(Decimals)
      BY <3>1
    <3>4. Number(<< d >>) = 10 * 0 + DigitOf(d)
      BY <3>1, <3>3, NumberSnoc
    <3>5. << d >> # << >> /\ Len(<< d >>) = 1 /\ << d >>[1] = d /\ ToSet(<< d >>) = {d}
      BY DEF ToSet
    <3>6. IsIndex(<< d >>)
      BY <3>1, <3>5 DEF IsIndex, Decimals
    <3>7. n > 1 => d # "0"
      BY <3>1
    <3> QED
      BY <3>1, <3>2, <3>4, <3>5, <3>6, <3>7
  <2>2. CASE ~(n <= 10)
    <3> DEFINE m == (n - 1) \div 10
               r == (n - 1) % 10
               p == numerals[m + 1]
               d == Digits[r + 1]
    <3>1. m \in 1 .. ((n - 1) - 1) /\ r \in 0 .. 9 /\ n - 1 = 10 * m + r
      BY <2>2, DivTen
    <3>2. numerals[n] = Append(p, d)
      BY <1>1, <2>2 DEF NumeralAt
    <3> HIDE DEF m, r
    <3>3. m + 1 \in 1 .. (n - 1) /\ m + 1 \in 1 .. N /\ m + 1 > 1 /\ r + 1 \in 1 .. 10
          /\ (m + 1) - 1 = m /\ (r + 1) - 1 = r
      BY <3>1
    <3>4. p \in Seq(Decimals) /\ IsIndex(p) /\ Number(p) = m /\ p[1] # "0"
      BY <1>1, <1>2, <3>3
    <3>5. d \in Decimals /\ DigitOf(d) = r
      BY <3>3, DecimalFacts
    <3> HIDE DEF p, d
    <3>6. /\ Append(p, d) \in Seq(Decimals) /\ Append(p, d) # << >>
          /\ Len(p) \in Nat \ {0} /\ Append(p, d)[1] = p[1]
      <4>1. Len(p) \in Nat \ {0}
        BY <3>4 DEF IsIndex
      <4>2. 1 \in 1 .. Len(p)
        BY <4>1
      <4> QED
        BY <3>4, <3>5, <4>1, <4>2, SnocFacts
    <3>7. Number(Append(p, d)) = n - 1
      BY <3>1, <3>4, <3>5, NumberSnoc
    <3>8. ToSet(Append(p, d)) \subseteq Decimals
      BY <3>6 DEF ToSet
    <3>9. IsIndex(Append(p, d))
      BY <3>4, <3>6, <3>8 DEF IsIndex, Decimals
    <3> QED
      BY <3>2, <3>4, <3>6, <3>7, <3>9
  <2> QED
    BY <2>1, <2>2
<1>3. 0 .. N \subseteq T
  <2>1. 0 \in T
    OBVIOUS
  <2>2. ASSUME NEW n \in 1 .. N, n - 1 \in T PROVE n \in T
    <3>1. \A i \in 1 .. (n - 1) : IsRight(i)
      BY <2>2
    <3>2. IsRight(n)
      BY <1>2, <3>1
    <3>3. \A i \in 1 .. n : i = n \/ i \in 1 .. (n - 1)
      OBVIOUS
    <3> HIDE DEF IsRight
    <3> QED
      BY <3>1, <3>2, <3>3
  <2> HIDE DEF T
  <2> QED
    BY <2>1, <2>2, PrefixInduction
<1>4. \A i \in 1 .. N : IsRight(i)
  <2>1. N \in T
    BY <1>3
  <2> QED
    BY <2>1
<1> QED
  BY <1>1, <1>4 DEF numerals

\* An index is the numeral of its number.
LEMMA IndexIsNumeral ==
  ASSUME NEW N \in Nat, NEW token \in Seq(Decimals), IsIndex(token), Number(token) < N
  PROVE  Number(token) \in Nat /\ Numerals(N)[Number(token) + 1] = token
<1>0. \A n \in 1 .. Len(token) :
        /\ token[n] \in Decimals /\ n - 1 \in 0 .. Len(token)
        /\ Prefix(token, n - 1) \in Seq(Decimals)
        /\ Prefix(token, n) = Append(Prefix(token, n - 1), token[n])
  <2>1. \A n \in 1 .. Len(token) : n - 1 \in 0 .. Len(token)
    OBVIOUS
  <2> QED
    BY <2>1, PrefixFacts
<1> DEFINE numerals == Numerals(N)
           L == Len(token)
           IsNamed(n) == LET p == Prefix(token, n)
                         IN Number(p) < N => numerals[Number(p) + 1] = p
           T == {n \in 0 .. L : n > 0 => (L > 1 => Number(Prefix(token, n)) >= 1) /\ IsNamed(n)}
<1>1. \A i \in 1 .. N : numerals[i] = NumeralAt(numerals, i)
  BY NumeralsRun DEF AreNumerals
<1>2. L \in Nat /\ L >= 1 /\ (L > 1 => token[1] # "0")
  BY DEF IsIndex
<1> HIDE DEF numerals
<1>3. ASSUME NEW n \in 1 .. L, n - 1 \in T PROVE n \in T
  <2> DEFINE p == Prefix(token, n - 1)
             d == token[n]
             q == Prefix(token, n)
             k == Number(p)
             j == DigitOf(d)
  <2>1. d \in Decimals /\ q = Append(p, d) /\ p \in Seq(Decimals) /\ n - 1 \in 0 .. L
    BY <1>0
  <2>2. /\ j \in 0 .. 9 /\ Digits[j + 1] = d /\ (d # "0" => j >= 1)
    BY <2>1, DecimalFacts
  <2>3. k \in Nat /\ Number(<< >>) = 0 /\ Number(q) = 10 * k + j
    <3> HIDE DEF p, d, q
    <3> QED
      BY <2>1, NumberSnoc
  <2>4. CASE n = 1
    <3>1. p = << >> /\ k = 0
      BY <2>3, <2>4, PrefixFacts
    <3>2. Number(q) = j /\ q = << d >>
      <4> HIDE DEF p, d, q, j, k
      <4>1. Append(<< >>, d) = << d >> /\ 10 * 0 + j = j
        BY <2>2
      <4> QED
        BY <2>1, <2>3, <3>1, <4>1
    <3>3. L > 1 => Number(q) >= 1
      BY <1>2, <2>2, <2>4, <3>2
    <3>4. Number(q) < N => numerals[Number(q) + 1] = q
      <4> SUFFICES ASSUME Number(q) < N PROVE numerals[Number(q) + 1] = q
        OBVIOUS
      <4> HIDE DEF p, d, q, j, k
      <4>1. j + 1 \in 1 .. N /\ j + 1 <= 10
        BY <2>2, <3>2
      <4> QED
        BY <1>1, <2>2, <3>2, <4>1 DEF NumeralAt
    <3> QED
      BY <3>3, <3>4
  <2>5. CASE n # 1
    <3>1. n - 1 > 0 /\ L > 1 /\ n - 1 \in 0 .. L
      BY <1>2, <2>5
    <3>2. k >= 1 /\ (k < N => numerals[k + 1] = p)
      BY <1>3, <3>1
    <3>3. Number(q) >= 1
      BY <2>2, <2>3, <3>2
    <3>4. Number(q) < N => numerals[Number(q) + 1] = q
      <4> SUFFICES ASSUME Number(q) < N PROVE numerals[Number(q) + 1] = q
        OBVIOUS
      <4> HIDE DEF p, d, q, j, k
      <4>1. k < N /\ ~(Number(q) + 1 <= 10) /\ Number(q) + 1 \in 1 .. N
            /\ (Number(q) + 1) - 1 = 10 * k + j
        BY <2>2, <2>3, <3>2
      <4>2. (10 * k + j) \div 10 = k /\ (10 * k + j) % 10 = j
        BY <2>2, <2>3, TenDiv
      <4>3. numerals[Number(q) + 1] = Append(numerals[k + 1], Digits[j + 1])
        BY <1>1, <4>1, <4>2 DEF NumeralAt
      <4> QED
        BY <2>1, <2>2, <3>2, <4>1, <4>3
    <3> QED
      BY <3>3, <3>4
  <2> QED
    BY <2>4, <2>5
<1>4. L \in T
  <2>1. 0 \in T
    BY <1>2
  <2>2. 0 .. L \subseteq T
    <3> HIDE DEF T, L
    <3> QED
      BY <1>2, <1>3, <2>1, PrefixInduction
  <2> QED
    BY <1>2, <2>2
<1>5. IsNamed(L)
  BY <1>2, <1>4
<1>6. Prefix(token, L) = token
  BY PrefixFacts
<1>7. Number(token) \in Nat
  <2>1. "0" \in Decimals
    BY DecimalFacts
  <2> QED
    BY <2>1, NumberSnoc
<1> QED
  BY <1>5, <1>6, <1>7 DEF numerals

-----------------------------------------------------------------------------
(* Pointers.                                                               *)

\* A value, as the set of what is found.
Found(value) == IF value = Absent THEN {} ELSE {value}

\* What is known of values, and of none.
LEMMA ValueFacts ==
  /\ \A value \in Values : IsValue(value)
  /\ Absent \notin Values
  /\ ~IsArray(Absent) /\ ~IsObject(Absent)
<1>1. DOMAIN Absent = {"absent"}
  BY DEF Absent
<1> QED
  BY <1>1, JsonAssumption DEF IsValue, IsArray, IsObject

\* What a token finds in an array: the element of its index.
LEMMA ElementAt ==
  ASSUME NEW value \in Values, DOMAIN value = {"elements"}, value.elements \in Seq(Values),
         NEW token \in Seq(Chars), IsToken(token)
  PROVE  /\ Step(value, Unescape(token)) \in Values \cup {Absent}
         /\ ChildrenAt(value, token) = Found(Step(value, Unescape(token)))
<1> DEFINE e == value.elements
           N == Len(e)
           key == Unescape(token)
           numerals == Numerals(N)
           at == {j \in 1 .. N : numerals[j] = token}
<1>1. N \in Nat /\ DOMAIN e = 1 .. N /\ \A j \in 1 .. N : e[j] \in Values
  OBVIOUS
<1>2. /\ numerals \in Seq(Seq(Decimals)) /\ Len(numerals) = N
      /\ \A j \in 1 .. N : IsIndex(numerals[j]) /\ Number(numerals[j]) = j - 1
  BY <1>1, NumeralsAreIndices
<1>3. key \in Seq(Chars) /\ Escape(key) = token
  BY TokenNames
<1>4. ChildrenAt(value, token) = {e[j] : j \in at}
  <2>1. Children(value) = {<< numerals[i], e[i] >> : i \in DOMAIN e}
    BY DEF Children, IsArray
  <2> HIDE DEF numerals, e
  <2>2. ASSUME NEW x \in ChildrenAt(value, token) PROVE x \in {e[j] : j \in at}
    <3>1. PICK c \in Children(value) : c[1] = token /\ x = c[2]
      BY <2>2 DEF ChildrenAt
    <3>2. PICK j \in DOMAIN e : c = << numerals[j], e[j] >>
      BY <2>1
    <3> QED
      BY <1>1, <3>1, <3>2
  <2>3. ASSUME NEW j \in at PROVE e[j] \in ChildrenAt(value, token)
    <3> DEFINE c == << numerals[j], e[j] >>
    <3>1. c \in Children(value) /\ c[1] = token /\ c[2] = e[j]
      BY <1>1, <2>1
    <3> HIDE DEF c
    <3> QED
      BY <3>1 DEF ChildrenAt
  <2> QED
    BY <2>2, <2>3
<1>5. Step(value, key) = IF IsIndex(key) /\ Number(key) < N THEN e[Number(key) + 1] ELSE Absent
  BY DEF Step, IsArray, IsObject
<1>6. \A j \in at : key = token /\ IsIndex(key) /\ Number(key) = j - 1
  <2> SUFFICES ASSUME NEW j \in at PROVE key = token /\ IsIndex(key) /\ Number(key) = j - 1
    OBVIOUS
  <2>1. token \in Seq(Decimals) /\ IsIndex(token) /\ Number(token) = j - 1
    <3> HIDE DEF numerals
    <3> QED
      BY <1>2
  <2>2. Unescape(token) = token
    BY <2>1, EscapeDigits
  <2> QED
    BY <2>1, <2>2
<1>7. Absent \notin Values
  BY ValueFacts
<1>8. CASE IsIndex(key) /\ Number(key) < N
  <2>1. key \in Seq(Decimals)
    <3> HIDE DEF key
    <3>1. key \in Seq(Chars) /\ ToSet(key) \subseteq Decimals
      BY <1>3, <1>8 DEF IsIndex, Decimals
    <3>2. \A i \in 1 .. Len(key) : key[i] \in ToSet(key)
      BY <3>1 DEF ToSet
    <3> QED
      BY <3>1, <3>2
  <2>2. key = token
    BY <1>3, <2>1, EscapeDigits
  <2>3. Number(key) \in Nat /\ numerals[Number(key) + 1] = key
    <3> HIDE DEF key
    <3> QED
      BY <1>1, <1>8, <2>1, IndexIsNumeral
  <2> DEFINE k == Number(key)
  <2> HIDE DEF numerals, key, e, N
  <2>4. at = {k + 1} /\ k + 1 \in 1 .. N
    BY <1>1, <1>6, <1>8, <2>2, <2>3
  <2>5. e[k + 1] \in Values /\ Step(value, key) = e[k + 1]
    BY <1>1, <1>5, <1>8, <2>4
  <2>6. ChildrenAt(value, token) = {e[k + 1]}
    BY <1>4, <2>4
  <2> QED
    BY <1>7, <2>5, <2>6 DEF Found, key
<1>9. CASE ~(IsIndex(key) /\ Number(key) < N)
  <2> HIDE DEF numerals, key, e, N
  <2>1. at = {}
    BY <1>1, <1>6, <1>9
  <2>2. Step(value, key) = Absent /\ ChildrenAt(value, token) = {}
    BY <1>4, <1>5, <1>9, <2>1
  <2> QED
    BY <2>2 DEF Found, key
<1> QED
  BY <1>8, <1>9

\* What a token finds in an object: the member of its key.
LEMMA MemberAt ==
  ASSUME NEW value \in Values, DOMAIN value = {"members"},
         \A key \in DOMAIN value.members : key \in Seq(Chars) /\ value.members[key] \in Values,
         NEW token \in Seq(Chars), IsToken(token)
  PROVE  /\ Step(value, Unescape(token)) \in Values \cup {Absent}
         /\ ChildrenAt(value, token) = Found(Step(value, Unescape(token)))
<1> DEFINE members == value.members
           name == Unescape(token)
           at == {key \in DOMAIN members : Escape(key) = token}
<1>1. ChildrenAt(value, token) = {members[key] : key \in at}
  <2>1. Children(value) = {<< Escape(key), members[key] >> : key \in DOMAIN members}
    BY DEF Children, IsArray, IsObject
  <2> HIDE DEF members
  <2>2. ASSUME NEW x \in ChildrenAt(value, token) PROVE x \in {members[key] : key \in at}
    <3>1. PICK c \in Children(value) : c[1] = token /\ x = c[2]
      BY <2>2 DEF ChildrenAt
    <3>2. PICK key \in DOMAIN members : c = << Escape(key), members[key] >>
      BY <2>1
    <3> QED
      BY <3>1, <3>2
  <2>3. ASSUME NEW key \in at PROVE members[key] \in ChildrenAt(value, token)
    <3> DEFINE c == << Escape(key), members[key] >>
    <3>1. c \in Children(value) /\ c[1] = token /\ c[2] = members[key]
      BY <2>1
    <3> HIDE DEF c
    <3> QED
      BY <3>1 DEF ChildrenAt
  <2> QED
    BY <2>2, <2>3
<1>2. Step(value, name) = IF name \in DOMAIN members THEN members[name] ELSE Absent
  BY DEF Step, IsArray, IsObject
<1>3. \A key \in DOMAIN members : Escape(key) = token <=> key = name
  BY TokenNames
<1>4. Absent \notin Values /\ \A key \in DOMAIN members : members[key] \in Values
  BY ValueFacts
<1> HIDE DEF members
<1>5. CASE name \in DOMAIN members
  <2> HIDE DEF name
  <2>1. at = {name}
    BY <1>3, <1>5
  <2> QED
    BY <1>1, <1>2, <1>4, <1>5, <2>1 DEF Found, name
<1>6. CASE name \notin DOMAIN members
  <2> HIDE DEF name
  <2>1. at = {}
    BY <1>3, <1>6
  <2> QED
    BY <1>1, <1>2, <1>6, <2>1 DEF Found, name
<1> QED
  BY <1>5, <1>6

\* What a token finds in a value is the child it is the token of.
LEMMA ChildrenFound ==
  ASSUME NEW value \in Values, NEW token \in Seq(Chars), IsToken(token)
  PROVE  /\ Step(value, Unescape(token)) \in Values \cup {Absent}
         /\ ChildrenAt(value, token) = Found(Step(value, Unescape(token)))
<1>1. IsValue(value)
  BY ValueFacts
<1>2. CASE DOMAIN value = {"scalar"}
  <2>1. ~IsArray(value) /\ ~IsObject(value)
    BY <1>2 DEF IsArray, IsObject
  <2>2. Children(value) = {} /\ Step(value, Unescape(token)) = Absent
    BY <2>1 DEF Children, Step
  <2> QED
    BY <2>2 DEF ChildrenAt, Found
<1> QED
  BY <1>1, <1>2, ElementAt, MemberAt DEF IsValue

IsResolving(run, document, pointer) ==
  /\ run \in [0 .. Len(pointer) -> Values \cup {Absent}]
  /\ run[0] = document
  /\ \A n \in 1 .. Len(pointer) : run[n] = Step(run[n - 1], Unescape(pointer[n]))

LEMMA StepType ==
  ASSUME NEW value \in Values \cup {Absent}, NEW token \in Seq(Chars), IsToken(token)
  PROVE  Step(value, Unescape(token)) \in Values \cup {Absent}
<1>1. Step(Absent, Unescape(token)) = Absent
  BY ValueFacts DEF Step
<1> QED
  BY <1>1, ChildrenFound

AreTokens(tokens) == tokens \in Seq(Seq(Chars)) /\ \A n \in DOMAIN tokens : IsToken(tokens[n])

\* The loop of ResolvePointer, as equations.
LEMMA ResolveRun ==
  ASSUME NEW document \in Values, NEW tokens, AreTokens(tokens)
  PROVE  \E run : /\ IsResolving(run, document, tokens)
                  /\ ResolvePointer(document, tokens) = run[Len(tokens)]
<1> DEFINE N == Len(tokens)
           S == Values \cup {Absent}
           base == document
           after(n, x) == Step(x, Unescape(tokens[n]))
           step == [n \in 1 .. N |-> [x \in S |-> after(n, x)]]
           IsRun(f) == f = [n \in 0 .. N |-> IF n = 0 THEN base ELSE after(n, f[n - 1])]
           run == CHOOSE f : IsRun(f)
<1>1. N \in Nat /\ base \in S
  BY DEF AreTokens
<1>2. ResolvePointer(document, tokens) = run[N]
  BY DEF ResolvePointer
<1>3. \A n \in 1 .. N : \A x \in S : after(n, x) \in S
  <2> SUFFICES ASSUME NEW n \in 1 .. N, NEW x \in S PROVE after(n, x) \in S
    OBVIOUS
  <2>1. tokens[n] \in Seq(Chars) /\ IsToken(tokens[n])
    BY DEF AreTokens
  <2> QED
    BY <2>1, StepType
<1> HIDE DEF N, S, base, after
<1>4. step \in [1 .. N -> [S -> S]]
  BY <1>3
<1>5. PICK f : IsLoop(f, N, S, base, step)
  <2> HIDE DEF step
  <2> QED
    BY <1>1, <1>4, PrefixRecursion
<1>6. IsRun(f)
  <2>1. f \in [0 .. N -> S] /\ f[0] = base
    BY <1>5 DEF IsLoop
  <2>2. ASSUME NEW n \in 1 .. N PROVE f[n] = after(n, f[n - 1])
    <3>1. n - 1 \in 0 .. N
      BY <1>1
    <3>2. f[n] = step[n][f[n - 1]]
      <4> HIDE DEF step
      <4> QED
        BY <1>5 DEF IsLoop
    <3>3. f[n - 1] \in S
      BY <2>1, <3>1
    <3> QED
      BY <3>2, <3>3
  <2> QED
    BY <1>1, <2>1, <2>2
<1>7. IsRun(run)
  <2> HIDE DEF IsRun
  <2> QED
    BY <1>6
<1> HIDE DEF run
<1>8. /\ run = [n \in 0 .. N |-> run[n]]
      /\ run[0] = base
      /\ \A n \in 1 .. N : run[n] = after(n, run[n - 1])
  BY <1>1, <1>7
<1>9. \A n \in 1 .. N : run[n - 1] \in S => run[n] \in S
  BY <1>3, <1>8
<1>10. run \in [0 .. N -> S]
  <2> HIDE DEF IsRun
  <2> QED
    BY <1>1, <1>8, <1>9, PrefixType, Zenon
<1>11. IsResolving(run, document, tokens)
  BY <1>8, <1>10 DEF IsResolving, N, S, base, after
<1> QED
  BY <1>2, <1>11 DEF N, S

IsNaming(run, document, tokens) ==
  /\ run \in [0 .. Len(tokens) -> SUBSET Values]
  /\ run[0] = {document}
  /\ \A n \in 1 .. Len(tokens) :
       run[n] = UNION {ChildrenAt(value, tokens[n]) : value \in run[n - 1]}

LEMMA NamedRun ==
  ASSUME NEW document \in Values, NEW tokens, AreTokens(tokens)
  PROVE  \E run : IsNaming(run, document, tokens) /\ Named(document, tokens) = run[Len(tokens)]
<1> DEFINE N == Len(tokens)
           S == SUBSET Values
           base == {document}
           after(n, x) == UNION {ChildrenAt(value, tokens[n]) : value \in x}
           step == [n \in 1 .. N |-> [x \in S |-> after(n, x)]]
           IsRun(f) == f = [n \in 0 .. N |-> IF n = 0 THEN base ELSE after(n, f[n - 1])]
           run == CHOOSE f : IsRun(f)
<1>1. N \in Nat /\ base \in S
  BY DEF AreTokens
<1>2. Named(document, tokens) = run[N]
  BY DEF Named
<1>3. \A n \in 1 .. N : \A x \in S : after(n, x) \in S
  <2> SUFFICES ASSUME NEW n \in 1 .. N, NEW x \in S PROVE after(n, x) \in S
    OBVIOUS
  <2>1. tokens[n] \in Seq(Chars) /\ IsToken(tokens[n])
    BY DEF AreTokens
  <2>2. \A value \in x : ChildrenAt(value, tokens[n]) \subseteq Values
    BY <2>1, ChildrenFound DEF Found
  <2> QED
    BY <2>2
<1> HIDE DEF N, S, base, after
<1>4. step \in [1 .. N -> [S -> S]]
  BY <1>3
<1>5. PICK f : IsLoop(f, N, S, base, step)
  <2> HIDE DEF step
  <2> QED
    BY <1>1, <1>4, PrefixRecursion
<1>6. IsRun(f)
  <2>1. f \in [0 .. N -> S] /\ f[0] = base
    BY <1>5 DEF IsLoop
  <2>2. ASSUME NEW n \in 1 .. N PROVE f[n] = after(n, f[n - 1])
    <3>1. n - 1 \in 0 .. N
      BY <1>1
    <3>2. f[n] = step[n][f[n - 1]]
      <4> HIDE DEF step
      <4> QED
        BY <1>5 DEF IsLoop
    <3>3. f[n - 1] \in S
      BY <2>1, <3>1
    <3> QED
      BY <3>2, <3>3
  <2> QED
    BY <1>1, <2>1, <2>2
<1>7. IsRun(run)
  <2> HIDE DEF IsRun
  <2> QED
    BY <1>6
<1> HIDE DEF run
<1>8. /\ run = [n \in 0 .. N |-> run[n]]
      /\ run[0] = base
      /\ \A n \in 1 .. N : run[n] = after(n, run[n - 1])
  BY <1>1, <1>7
<1>9. \A n \in 1 .. N : run[n - 1] \in S => run[n] \in S
  BY <1>3, <1>8
<1>10. run \in [0 .. N -> S]
  <2> HIDE DEF IsRun
  <2> QED
    BY <1>1, <1>8, <1>9, PrefixType, Zenon
<1>11. IsNaming(run, document, tokens)
  BY <1>8, <1>10 DEF IsNaming, N, S, base, after
<1> QED
  BY <1>2, <1>11 DEF N, S

\* What the code resolves a pointer to is what the pointer names.
LEMMA ResolvesWhatIsNamed ==
  ASSUME NEW document \in Values, NEW tokens, AreTokens(tokens)
  PROVE  Named(document, tokens) = Found(ResolvePointer(document, tokens))
<1> DEFINE N == Len(tokens)
<1>1. PICK value : /\ IsResolving(value, document, tokens)
                   /\ ResolvePointer(document, tokens) = value[N]
  BY ResolveRun
<1>2. PICK at : IsNaming(at, document, tokens) /\ Named(document, tokens) = at[N]
  BY NamedRun
<1>3. N \in Nat /\ \A n \in 1 .. N : tokens[n] \in Seq(Chars) /\ IsToken(tokens[n])
  BY DEF AreTokens
<1>4. /\ value \in [0 .. N -> Values \cup {Absent}] /\ value[0] = document
      /\ \A n \in 1 .. N : value[n] = Step(value[n - 1], Unescape(tokens[n]))
  BY <1>1 DEF IsResolving
<1>5. /\ at[0] = {document}
      /\ \A n \in 1 .. N : at[n] = UNION {ChildrenAt(v, tokens[n]) : v \in at[n - 1]}
  BY <1>2 DEF IsNaming
<1> HIDE DEF N
<1> DEFINE T == {n \in 0 .. N : at[n] = Found(value[n])}
<1>6. 0 \in T
  BY <1>3, <1>4, <1>5, ValueFacts DEF Found
<1>7. ASSUME NEW n \in 1 .. N, n - 1 \in T PROVE n \in T
  <2> DEFINE v == value[n - 1]
  <2>1. v \in Values \cup {Absent} /\ at[n - 1] = Found(v) /\ n \in 0 .. N
    BY <1>4, <1>7
  <2>2. /\ value[n] = Step(v, Unescape(tokens[n]))
        /\ at[n] = UNION {ChildrenAt(w, tokens[n]) : w \in Found(v)}
    BY <1>4, <1>5, <2>1
  <2> HIDE DEF v
  <2>3. CASE v = Absent
    <3>1. Found(v) = {} /\ Step(v, Unescape(tokens[n])) = Absent
      BY <2>3, ValueFacts DEF Found, Step
    <3>2. at[n] = {}
      BY <2>2, <3>1
    <3>3. Found(value[n]) = {}
      BY <2>2, <3>1 DEF Found
    <3> QED
      BY <2>1, <3>2, <3>3
  <2>4. CASE v # Absent
    <3>1. Found(v) = {v} /\ v \in Values
      BY <2>1, <2>4 DEF Found
    <3>2. at[n] = ChildrenAt(v, tokens[n])
      BY <2>2, <3>1
    <3>3. ChildrenAt(v, tokens[n]) = Found(Step(v, Unescape(tokens[n])))
      BY <1>3, <3>1, ChildrenFound
    <3> QED
      BY <2>1, <2>2, <3>2, <3>3
  <2> QED
    BY <2>3, <2>4
<1>8. N \in T
  <2>1. 0 .. N \subseteq T
    <3> HIDE DEF T
    <3> QED
      BY <1>3, <1>6, <1>7, PrefixInduction
  <2> QED
    BY <1>3, <2>1
<1> QED
  BY <1>1, <1>2, <1>8

\* A stream stops at the value that its pointer names.
LEMMA MatchIsNamed ==
  ASSUME IInv, Mode = "subscribe", Jsonl, contacted, NEW text \in Texts,
         \A n \in DOMAIN line.until.tokens : IsToken(line.until.tokens[n])
  PROVE  Matches(text) <=> text # NotJson /\ line.until.value \in Named(text, line.until.tokens)
<1> DEFINE tokens == line.until.tokens
           wanted == line.until.value
           value == ResolvePointer(text, tokens)
<1>1. Matches(text) <=> text # NotJson /\ value # Absent /\ value = wanted
  BY DEF Matches, EvaluateSnapshot, EvaluateUntil, ParseUntil
<1> HIDE DEF wanted, value
<1>2. AreTokens(tokens)
  <2>1. Usage = None /\ line \in CommandLines
    BY DEF IInv, TypeOK, Vetted
  <2>2. SubscribeUsage = None
    BY <2>1 DEF Usage
  <2>3. line.until \notin {None, Malformed}
    BY <2>2, SubscribeVetted
  <2>4. tokens \in Seq(Seq(Chars))
    BY <2>1, <2>3, JsonAssumption
  <2> QED
    BY <2>4 DEF AreTokens
<1>3. text # NotJson => text \in Values
  BY JsonAssumption
<1>4. text # NotJson => Named(text, tokens) = Found(value)
  <2> HIDE DEF tokens
  <2> QED
    BY <1>2, <1>3, ResolvesWhatIsNamed DEF value
<1>5. Matches(text) <=> text # NotJson /\ wanted \in Named(text, tokens)
  BY <1>1, <1>4 DEF Found
<1> QED
  BY <1>5 DEF wanted

LEMMA StreamIsRight == ASSUME IInv PROVE StreamStopsAtMatch
<1> SUFFICES ASSUME Mode = "subscribe", Jsonl, contacted,
                    \A n \in DOMAIN line.until.tokens : IsToken(line.until.tokens[n]),
                    NEW i \in DOMAIN output, output[i].kind = "snapshot"
             PROVE  (output[i].text # NotJson
                       /\ line.until.value \in Named(output[i].text, line.until.tokens))
                    <=> i = Len(output) - 1 /\ Final.kind = "answer" /\ exitCode = 0
  BY DEF StreamStopsAtMatch
<1>1. /\ output[i].text \in Texts
      /\ Matches(output[i].text) <=> i = Len(output) - 1 /\ Final.kind = "answer" /\ exitCode = 0
  BY DEF IInv, StopsAtMatch
<1>2. Matches(output[i].text) <=>
        output[i].text # NotJson /\ line.until.value \in Named(output[i].text, line.until.tokens)
  BY <1>1, MatchIsNamed
<1> QED
  BY <1>1, <1>2

-----------------------------------------------------------------------------
(* Theorems.                                                               *)

\* The inductive invariant: types, the gap between the polls, the place of each mode, the
\* documents, one answer and one budget, the arguments that have passed, what the answer
\* says of the cause, and the snapshot a stream stops at.
THEOREM Invariance == Spec => []IInv
<1>1. Init => IInv
  BY InitInv
<1>2. IInv /\ [Next]_vars => IInv'
  BY NextInv
<1> QED
  BY <1>1, <1>2, PTL DEF Spec

\* Every variable of a run keeps its type.
THEOREM TypeCorrectness == Spec => []TypeOK
<1>1. IInv => TypeOK
  BY DEF IInv
<1> QED
  BY <1>1, Invariance, PTL

\* A run gives one answer, as its last document, when it is over and not before, in the
\* format that was asked for.
THEOREM AnswersAreLast ==
  Spec => [](AnswersOnce /\ \A i \in DOMAIN output : output[i].format = Format)
<1>1. IInv => AnswersOnce /\ \A i \in DOMAIN output : output[i].format = Format
  BY DEF IInv, Documents
<1> QED
  BY <1>1, Invariance, PTL

\* Whatever the SDK and fetch wrap it in, what the README has a code for is reported with
\* that code, and what it has none for with the general one; a reset connection, which is
\* reported as an unsupported protocol when the SDK calls it a failed negotiation, is the one
\* exception.  The exit code of call is that of the kind of failure.
THEOREM Diagnosis == Spec => []DiagnosisIsTheCause
<1>1. IInv => DiagnosisIsTheCause
  BY DEF IInv, Concluding
<1> QED
  BY <1>1, Invariance, PTL

\* Nobody is contacted with arguments that say two things or too little.
THEOREM ArgumentsFirst == Spec => []ArgumentsComeFirst
<1>1. IInv => ArgumentsComeFirst
  BY ArgumentsVetted
<1> QED
  BY <1>1, Invariance, PTL

\* Whoever reads the last line and the exit code is told the same: one answer, in the format
\* asked for, of arguments that were checked first, and a stream's success is the first
\* snapshot with the wanted value where RFC 6901 has the pointer point.
THEOREM OneAnswerGiven == Spec => []OneAnswer
<1>1. IInv => OneAnswer
  <2> SUFFICES ASSUME IInv PROVE OneAnswer
    OBVIOUS
  <2>1. AnswersOnce /\ \A i \in DOMAIN output : output[i].format = Format
    BY DEF IInv, Documents
  <2>2. AnswerAt # {} /\ Mode # "watch" => (Final.error = None <=> exitCode = 0)
    BY DEF IInv, Concluding
  <2>3. ArgumentsComeFirst /\ StreamStopsAtMatch
    BY ArgumentsVetted, StreamIsRight
  <2> QED
    BY <2>1, <2>2, <2>3 DEF OneAnswer
<1> QED
  BY <1>1, Invariance, PTL

\* Authentication, connecting and the work share one budget: what is awaited is cut off at its
\* end, or at once when authentication took longer, and nothing is given up as too slow sooner.
THEOREM BudgetIsShared == Spec => []OneBudget
<1>1. IInv => OneBudget
  BY DEF IInv
<1> QED
  BY <1>1, Invariance, PTL

\* The gateway is never asked sooner than it said, nor about an expired code.
THEOREM PollingAsTold == Spec => PollsAsTold
<1>1. ASSUME IInv, [Next]_vars
      PROVE  [loginPc # "poll" /\ loginPc' = "poll" =>
                now >= polledAt + told /\ now <= expiry]_loginPc
  BY <1>1, NextInv DEF PollStep
<1> QED
  BY <1>1, Invariance, PTL DEF Spec, PollsAsTold
=============================================================================
