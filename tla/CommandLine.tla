----------------------------- MODULE CommandLine -----------------------------
(***************************************************************************)
(* One run of the command (src/src/client/cli.ts): which mode it is, which *)
(* arguments it refuses before it contacts anybody, authentication and the *)
(* work under one budget, and what it prints and exits with.  The work of  *)
(* the subscriptions and of the status watch is that of Subscription,      *)
(* Stream and StatusWatch: here only what comes of it matters.             *)
(*                                                                         *)
(* A command line is a record of its options with the environment variable *)
(* of each folded in: None when it is not given, Malformed when its value  *)
(* is missing or not one.  Why things go wrong is chosen by the            *)
(* environment; how the SDK and fetch wrap it is external.                 *)
(***************************************************************************)
EXTENDS ErrorCodes, JsonPointer, DeviceLogin

CONSTANTS
  Malformed,
  CommandLines,      \* the command lines tried
  Chars,             \* what the tokens of a pointer and the keys of an object are made of
  Values,            \* the JSON values that may be in them
  Texts,             \* what may be read: snapshots, and arguments on stdin
  Timeout,           \* --timeout-ms, in ticks
  StdinLimit,        \* 1 MiB, in chunks
  MaxSnapshots,      \* bound: snapshots of a stream
  MaxTime            \* bound: the clock stops here, but for what is due later

ASSUME CommandAssumption ==
  {Timeout, StdinLimit, MaxSnapshots, MaxTime} \subseteq Nat \ {0}

IsValue(value) ==
  \/ DOMAIN value = {"scalar"}
  \/ DOMAIN value = {"elements"} /\ value.elements \in Seq(Values)
  \/ /\ DOMAIN value = {"members"}
     /\ \A key \in DOMAIN value.members : key \in Seq(Chars) /\ value.members[key] \in Values

\* JSON.parse yields JSON values, and --until is cut at "/" into tokens.
ASSUME JsonAssumption ==
  /\ ToSet(Digits) \cup {"~", "/"} \subseteq Chars
  /\ \A value \in Values : IsValue(value)
  /\ Texts \subseteq Values \cup {NotJson}
  /\ \A command \in CommandLines :
       command.until \in {None, Malformed} \/ command.until.tokens \in Seq(Seq(Chars))

\* The codes of an answer that are not those of something thrown.
UsageCodes == {"INVALID_ARGS", "INVALID_ARGUMENT", "SERVER_URL_UNKNOWN", "TOOL_NAME_REQUIRED",
               "RESOURCE_URI_REQUIRED", "UNTIL_REQUIRED", "INVALID_URL"}

ReturnedCodes == {"RESOURCE_NOT_FOUND", "SUBSCRIPTION_FAILED", "SUBSCRIPTION_NOT_HONORED",
                  "NOTIFICATION_TIMEOUT", "SUBSCRIPTION_DISCONNECTED", "SUBSCRIPTION_CLOSED"}

\* The causes that are somebody's silence, as a timer tells it.
TooSlow == {"gateway_silent", "server_silent", "silence"}

ASSUME CodesAssumption ==
  None \notin UsageCodes \cup ReturnedCodes \cup TooSlow \cup {"TOOL_ERROR", "failed"}

VARIABLES
  line,        \* the command line
  pc,
  size,        \* chunks read from stdin
  authStart,
  dueAt,       \* when what is awaited is cut off
  contacted,   \* history: past the argument checks
  cause,       \* history: what went wrong
  output,      \* the documents on stdout
  exitCode

commandVars == << line, pc, size, authStart, dueAt, contacted, cause, output, exitCode >>

vars == << now, deviceVars, commandVars >>

-----------------------------------------------------------------------------
(* The command line.                                                       *)

\* The flags that end the program early come first, in this order.
Mode ==
  CASE "--help" \in line.flags             -> "help"
    [] "--version" \in line.flags          -> "version"
    [] "--login" \in line.flags            -> "login"
    [] "--logout" \in line.flags           -> "logout"
    [] line.first = "watch-review-status"  -> "watch"
    [] line.first = "call"                 -> "call"
    [] OTHER                               -> "subscribe"

Json == "--json" \in line.flags
Jsonl == "--jsonl" \in line.flags
UseStdin == "--args-stdin" \in line.flags

Format ==
  CASE Mode = "watch" \/ (Mode = "subscribe" /\ Jsonl)   -> "jsonl"
    [] Json /\ Mode \in {"call", "subscribe"}            -> "json"
    [] OTHER                                             -> "lines"

\* A check of the arguments: the code it refuses them with, if it fails.
Refusal(fails, code) == IF fails THEN code ELSE None

IsMalformed(options) == Malformed \in options

SubscribeUsage ==
  FirstOf(<<
    Refusal(IsMalformed({line.url, line.uri, line.timeout, line.token})
              \/ line.until = Malformed,                      "INTERNAL_ERROR"),
    Refusal(Json /\ Jsonl,                                    "INVALID_ARGS"),
    Refusal(line.until # None /\ ~Jsonl,                      "INVALID_ARGS"),
    Refusal(line.url = None,                                  "SERVER_URL_UNKNOWN"),
    Refusal(line.uri = None,                                  "RESOURCE_URI_REQUIRED"),
    Refusal(Jsonl /\ line.until = None,                       "UNTIL_REQUIRED"),
    Refusal(Jsonl /\ line.until \notin {None, Malformed}
              /\ ~ParseUntil(line.until).ok,                  "INVALID_ARGS") >>)

\* Without --args-stdin; what is read from there is checked when it has been read.
CallUsage ==
  FirstOf(<<
    Refusal(IsMalformed({line.url, line.tool, line.timeout, line.token}), "INTERNAL_ERROR"),
    Refusal(line.url = None,                                  "SERVER_URL_UNKNOWN"),
    Refusal(line.tool = None,                                 "TOOL_NAME_REQUIRED"),
    Refusal(line.args = Malformed,                            "INVALID_ARGS"),
    Refusal(line.args # None /\ UseStdin,                     "INVALID_ARGS"),
    Refusal(line.args \notin {None, Malformed}
              /\ ~IsObject(line.args),                        "INVALID_ARGS") >>)

\* parseStatusWatchArgs: all of its errors are one code.
WatchUsage ==
  Refusal(\/ line.unknown \/ IsMalformed({line.key, line.after, line.timeout})
          \/ None \in {line.key, line.after, line.file},      "INVALID_ARGUMENT")

\* --login and --logout ask for the URL alone.
CacheUsage ==
  FirstOf(<<
    Refusal(line.url \in {None, Malformed},                   "SERVER_URL_UNKNOWN"),
    Refusal(Mode = "logout" /\ line.url = "not a url",        "INVALID_URL") >>)

Usage ==
  CASE Mode = "subscribe"            -> SubscribeUsage
    [] Mode = "call"                 -> CallUsage
    [] Mode = "watch"                -> WatchUsage
    [] Mode \in {"login", "logout"}  -> CacheUsage
    [] OTHER                         -> None

UsageExit ==
  CASE Mode = "call"  -> 3
    [] Mode = "watch" -> 2
    [] OTHER          -> 1

-----------------------------------------------------------------------------
Init ==
  /\ DeviceInit
  /\ line \in CommandLines
  /\ pc = "start"
  /\ size = 0
  /\ authStart = 0
  /\ dueAt = 0
  /\ contacted = FALSE
  /\ cause = None
  /\ output = << >>
  /\ exitCode = 0

TypeOK ==
  /\ DeviceTypeOK
  /\ line \in CommandLines
  /\ pc \in {"start", "stdin", "login", "auth", "connect", "tool", "subscribe", "stream",
             "watch", "done"}
  /\ size \in 0 .. StdinLimit
  /\ authStart \in 0 .. now
  /\ dueAt \in Nat
  /\ contacted \in BOOLEAN
  /\ \A i \in DOMAIN output :
       output[i].kind \in {"text", "ack", "snapshot", "event", "answer"}
  /\ exitCode \in 0 .. 4

Document(kind, error, text) ==
  [format |-> Format, kind |-> kind, error |-> error, text |-> text]

Answer(error) == Document("answer", error, None)

\* The last document, and the exit code that goes with it.
Answers(error, code) ==
  /\ output' = Append(output, Answer(error))
  /\ exitCode' = code
  /\ pc' = "done"

Tick ==
  /\ pc # "done"
  /\ now < MaxTime \/ now < dueAt \/ now < wakeAt \/ now <= expiry
  /\ now' = now + 1
  /\ UNCHANGED << deviceVars, commandVars >>

-----------------------------------------------------------------------------
(* Before anybody is contacted.                                            *)

Informs ==
  /\ pc = "start"
  /\ Mode \in {"help", "version"}
  /\ output' = << Document("text", None, None) >>
  /\ pc' = "done"
  /\ UNCHANGED << now, deviceVars, line, size, authStart, dueAt, contacted, cause, exitCode >>

Refuses ==
  /\ pc = "start"
  /\ Usage # None
  /\ Answers(Usage, UsageExit)
  /\ UNCHANGED << now, deviceVars, line, size, authStart, dueAt, contacted, cause >>

\* authStart: from here on the budget counts.
StartsAuth ==
  /\ authStart' = now
  /\ dueAt' = now + Timeout
  /\ contacted' = TRUE
  /\ pc' = "auth"

Starts ==
  /\ pc = "start"
  /\ Usage = None
  /\ \/ /\ Mode = "subscribe" \/ (Mode = "call" /\ ~UseStdin)
        /\ StartsAuth
        /\ UNCHANGED << deviceVars >>
     \/ /\ Mode = "call" /\ UseStdin
        /\ pc' = "stdin"
        /\ dueAt' = now + Timeout
        /\ UNCHANGED << deviceVars, authStart, contacted >>
     \/ /\ Mode = "watch"
        /\ pc' = "watch"
        /\ UNCHANGED << deviceVars, authStart, dueAt, contacted >>
     \/ /\ Mode = "login"
        /\ StartLogin
        /\ pc' = "login"
        /\ contacted' = TRUE
        /\ UNCHANGED << authStart, dueAt >>
  /\ UNCHANGED << now, line, size, cause, output, exitCode >>

\* The row is deleted, if there is a store.
LogsOut ==
  /\ pc = "start"
  /\ Mode = "logout"
  /\ Usage = None
  /\ Answers(None, 0)
  /\ UNCHANGED << now, deviceVars, line, size, authStart, dueAt, contacted, cause >>

\* The store cannot be opened, or stays locked: nothing catches that.
Crashes ==
  /\ pc = "start"
  /\ Mode \in {"login", "logout"}
  /\ Usage = None
  /\ pc' = "done"
  /\ exitCode' = 1
  /\ UNCHANGED << now, deviceVars, line, size, authStart, dueAt, contacted, cause, output >>

-----------------------------------------------------------------------------
(* readCallArgsFromStdin: a wait with a budget of its own.                 *)

InvalidArgs ==
  /\ Answers("INVALID_ARGS", 3)
  /\ UNCHANGED << now, deviceVars, line, size, authStart, dueAt, contacted, cause >>

\* Mutant: one chunk more.
StdinChunkBeyond ==
  /\ pc = "stdin"
  /\ size' = size + 1
  /\ size <= StdinLimit
  /\ UNCHANGED << now, deviceVars, line, pc, authStart, dueAt, contacted, cause, output,
                  exitCode >>

StdinChunk ==
  /\ pc = "stdin"
  /\ \/ /\ size < StdinLimit
        /\ size' = size + 1
        /\ UNCHANGED << now, deviceVars, line, pc, authStart, dueAt, contacted, cause,
                        output, exitCode >>
     \/ size = StdinLimit /\ InvalidArgs

\* Mutant: no timer, the size alone ends the wait.
StdinNeverTimesOut == pc = "stdin" /\ size > StdinLimit /\ InvalidArgs

StdinTimesOut == pc = "stdin" /\ now >= dueAt /\ InvalidArgs

\* EOF.
StdinEnds ==
  /\ pc = "stdin"
  /\ \E text \in Texts :
       IF IsObject(text)
       THEN /\ StartsAuth
            /\ UNCHANGED << now, deviceVars, line, size, cause, output, exitCode >>
       ELSE InvalidArgs

-----------------------------------------------------------------------------
(* What may go wrong, and how it is thrown (external).                     *)

Fetch(code) == << Link("TypeError", None, "cause"), Link("Error", code, None) >>

\* What the SDK makes of a server it cannot negotiate with, or cannot reach.
EraFailed == Link("SdkError", "ERA_NEGOTIATION_FAILED", "data")

Thrown(class, code) == << Link(class, code, None) >>

NetworkCause ==
  [untrusted |-> "CERT_HAS_EXPIRED", unknown_host |-> "ENOTFOUND", refused |-> "ECONNREFUSED",
   reset |-> "ECONNRESET"]

AuthCauses == {"dead_credentials", "gateway_failing", "store_unusable"} \cup DOMAIN NetworkCause

AuthErrors(why) ==
  CASE why = "dead_credentials" ->
         {Thrown("AuthLoginRequiredError", None),
          << Link("AuthLoginRequiredError", None, "cause") >>
            \o Thrown("OAuthRequestError", None)}
    [] why = "gateway_failing" -> {Thrown("OAuthRequestError", None)}
    [] why = "store_unusable"  -> {Thrown("Error", "ERR_SQLITE_ERROR")}
    [] OTHER -> {Fetch(NetworkCause[why]),
                 << Link("Error", None, "cause") >> \o Fetch(NetworkCause[why])}

ConnectCauses == {"old_server", "unauthorized"} \cup DOMAIN NetworkCause

ConnectErrors(why) ==
  CASE why = "old_server"   -> {Thrown("UnsupportedProtocolVersionError", None), << EraFailed >>}
    [] why = "unauthorized" -> {Thrown("SdkHttpError", "401"), Thrown("SdkHttpError", "403")}
    [] OTHER -> {Fetch(NetworkCause[why]), << EraFailed >> \o Fetch(NetworkCause[why])}

RequestCauses == {"unauthorized", "tool_rejected"} \cup DOMAIN NetworkCause

RequestErrors(why) ==
  CASE why = "tool_rejected" ->
         {Thrown("ProtocolError", "INVALID_PARAMS"), Thrown("ProtocolError", "METHOD_NOT_FOUND")}
    [] why = "unauthorized" -> {Thrown("SdkHttpError", "401"), Thrown("SdkHttpError", "403")}
    [] OTHER -> {Fetch(NetworkCause[why])}

\* The catch block of the mode.
Catches(why, error) ==
  LET code == IF Mode = "call" THEN CallCode(error) ELSE SubscribeCode(error)
  IN /\ cause' = why
     /\ Answers(code, IF Mode = "call" THEN CallExit(code) ELSE 1)
     /\ UNCHANGED << now, deviceVars, line, size, authStart, dueAt, contacted >>

-----------------------------------------------------------------------------
(* resolveBearerToken, as GatewayAuth has it from the outside.             *)

\* Mutant: the work has the whole budget again.
RemainingInFull == Timeout

\* What authentication has left of the budget.
Remaining == IF now - authStart >= Timeout THEN 0 ELSE Timeout - (now - authStart)

\* A token was given, or found, or refreshed, or there is none.
Authenticated ==
  /\ pc = "auth"
  /\ dueAt' = now + Remaining
  /\ pc' = IF Mode = "call" THEN "connect" ELSE IF Jsonl THEN "stream" ELSE "subscribe"
  /\ UNCHANGED << now, deviceVars, line, size, authStart, contacted, cause, output, exitCode >>

\* Only a cached token can be refused.
AuthFails ==
  /\ pc = "auth"
  /\ line.token = None
  /\ \E why \in AuthCauses : \E error \in AuthErrors(why) : Catches(why, error)

AuthTimesOut ==
  /\ pc = "auth"
  /\ now >= dueAt
  /\ line.token = None
  /\ Catches("gateway_silent", << Link("AuthTimeoutError", None, "cause") >>
                                 \o Thrown("AbortError", None))

-----------------------------------------------------------------------------
(* runToolCall: connecting and calling, under one deadline.                *)

Connected ==
  /\ pc = "connect"
  /\ pc' = "tool"
  /\ UNCHANGED << now, deviceVars, line, size, authStart, dueAt, contacted, cause, output,
                  exitCode >>

ConnectFails ==
  /\ pc = "connect"
  /\ \E why \in ConnectCauses : \E error \in ConnectErrors(why) :
       Catches(why, ConnectPinned(error))

ToolFails ==
  /\ pc = "tool"
  /\ \E why \in RequestCauses : \E error \in RequestErrors(why) : Catches(why, error)

RequestTimesOut ==
  /\ pc \in {"connect", "tool"}
  /\ now >= dueAt
  /\ Catches("silence", Thrown("SdkError", "REQUEST_TIMEOUT"))

\* The tool was run; it may say that it failed.
ToolAnswers ==
  /\ pc = "tool"
  /\ \/ Answers(None, 0) /\ UNCHANGED cause
     \/ Answers("TOOL_ERROR", 1) /\ cause' = "tool_failed"
  /\ UNCHANGED << now, deviceVars, line, size, authStart, dueAt, contacted >>

-----------------------------------------------------------------------------
(* The subscriptions and the status watch, as their modules have them from *)
(* the outside.                                                            *)

\* runResourceSubscription returns.
SubscriptionReturns ==
  /\ pc = "subscribe"
  /\ \/ Answers(None, 0)
     \/ \E code \in ReturnedCodes : Answers(code, 1)
  /\ UNCHANGED << now, deviceVars, line, size, authStart, dueAt, contacted, cause >>

\* Either of the subscriptions throws: while it connects, or when listing or a read fails,
\* which a stream may do after any of its lines.
SubscriptionThrows ==
  /\ pc \in {"subscribe", "stream"}
  /\ \/ /\ output = << >>
        /\ \E why \in ConnectCauses : \E error \in ConnectErrors(why) :
             Catches(why, ConnectPinned(error))
     \/ \E why \in RequestCauses \ {"tool_rejected"} : \E error \in RequestErrors(why) :
          Catches(why, error)

Acknowledged ==
  /\ pc = "stream"
  /\ output = << >>
  /\ output' = << Document("ack", None, None) >>
  /\ UNCHANGED << now, deviceVars, line, pc, size, authStart, dueAt, contacted, cause,
                  exitCode >>

\* A snapshot is printed; when it matches --until it is the last, and the run a success.
\* It may come late: nothing looks at the clock between a read's answer and its line.
Snapshot ==
  /\ pc = "stream"
  /\ output # << >>
  /\ Len(output) <= MaxSnapshots
  /\ \E text \in Texts :
       IF EvaluateSnapshot(ParseUntil(line.until), text)
       THEN /\ output' = output \o << Document("snapshot", None, text), Answer(None) >>
            /\ pc' = "done"
       ELSE /\ output' = Append(output, Document("snapshot", None, text))
            /\ UNCHANGED pc
  /\ UNCHANGED << now, deviceVars, line, size, authStart, dueAt, contacted, cause, exitCode >>

StreamReturns ==
  /\ pc = "stream"
  /\ \E code \in ReturnedCodes \ {"NOTIFICATION_TIMEOUT"} : Answers(code, 1)
  /\ UNCHANGED << now, deviceVars, line, size, authStart, dueAt, contacted, cause >>

StreamTimesOut ==
  /\ pc = "stream"
  /\ now >= dueAt
  /\ Answers("NOTIFICATION_TIMEOUT", 1)
  /\ cause' = "server_silent"
  /\ UNCHANGED << now, deviceVars, line, size, authStart, dueAt, contacted >>

\* The exit code is runStatusWatch's, its terminal line the answer.
WatchEnds ==
  /\ pc = "watch"
  /\ \E code \in {0, 1, 3, 4} : Answers(None, code)
  /\ UNCHANGED << now, deviceVars, line, size, authStart, dueAt, contacted, cause >>

-----------------------------------------------------------------------------
(* --login.                                                                *)

LoginStep ==
  /\ pc = "login"
  /\ \/ DeviceAuthorized /\ output' = << Document("event", None, None) >>
     \/ (Poll \/ NotYet \/ Granted \/ Saved \/ LoginFails) /\ UNCHANGED output
  /\ UNCHANGED << now, line, pc, size, authStart, dueAt, contacted, cause, exitCode >>

LoginEnds ==
  /\ pc = "login"
  /\ \/ loginPc = "approved" /\ Answers(None, 0)
     \/ loginPc = "failed" /\ Answers("failed", 1)
  /\ UNCHANGED << now, deviceVars, line, size, authStart, dueAt, contacted, cause >>

-----------------------------------------------------------------------------
\* What goes on without anybody's answer: arguments, timers, a given token.
OwnStep ==
  \/ Informs \/ Refuses \/ Starts \/ LogsOut \/ Crashes
  \/ StdinTimesOut \/ AuthTimesOut \/ RequestTimesOut \/ StreamTimesOut
  \/ (line.token # None /\ Authenticated)

\* fetch answers or gives up, and the other modules' runs end.
EndingStep == LoginStep \/ LoginEnds \/ SubscriptionReturns \/ WatchEnds

OthersStep ==
  \/ StdinChunk \/ StdinEnds \/ Authenticated \/ AuthFails
  \/ Connected \/ ConnectFails \/ ToolFails \/ ToolAnswers
  \/ SubscriptionThrows \/ Acknowledged \/ Snapshot \/ StreamReturns

Terminated == pc = "done" /\ UNCHANGED vars

Next == OwnStep \/ EndingStep \/ OthersStep \/ Tick \/ Terminated

Spec == Init /\ [][Next]_vars

\* Timers that are due run, though stdin, the gateway and the server may stay silent.
FairSpec == Spec /\ WF_vars(Tick) /\ WF_vars(OwnStep) /\ WF_vars(EndingStep)

-----------------------------------------------------------------------------
(* Properties.                                                             *)

AnswerAt == {i \in DOMAIN output : output[i].kind = "answer"}

Final == output[Len(output)]

\* A run gives one answer, as its last document, when it is over and not before; but for
\* --help, --version, and a login or logout that cannot use the store.
AnswersOnce ==
  /\ AnswerAt # {} => AnswerAt = {Len(output)}
  /\ AnswerAt # {} <=> pc = "done" /\ (Mode \in {"login", "logout"} => output # << >>)
                                  /\ Mode \notin {"help", "version"}

\* Nobody is contacted with arguments that say two things or too little.
ArgumentsComeFirst ==
  contacted =>
    /\ line.url \notin {None, Malformed}
    /\ Mode # "login" => Malformed \notin {line.token, line.timeout}
    /\ Mode = "subscribe" => /\ line.uri # None
                            /\ ~(Json /\ Jsonl)
                            /\ (line.until # None) <=> Jsonl
    /\ Mode = "call" => line.tool # None /\ (line.args = None \/ ~UseStdin)
    /\ AnswerAt # {} => Final.error \notin UsageCodes

\* A stream succeeds with the first snapshot that has the wanted value where the pointer
\* says, if that is a pointer.
StreamStopsAtMatch ==
  /\ Mode = "subscribe" /\ Jsonl /\ contacted
  /\ \A n \in DOMAIN line.until.tokens : IsToken(line.until.tokens[n])
  => \A i \in DOMAIN output :
       output[i].kind = "snapshot" =>
         LET text == output[i].text
             matches == text # NotJson /\ line.until.value \in Named(text, line.until.tokens)
         IN matches <=> i = Len(output) - 1 /\ Final.kind = "answer" /\ exitCode = 0

\* A caller that reads the last line and the exit code is told the same, in the format it
\* asked for, and told of wrong arguments before anybody is contacted.
OneAnswer ==
  /\ AnswersOnce
  /\ ArgumentsComeFirst
  /\ StreamStopsAtMatch
  /\ \A i \in DOMAIN output : output[i].format = Format
  /\ AnswerAt # {} /\ Mode # "watch" => (Final.error = None <=> exitCode = 0)

\* The code the README has for what went wrong.
Documented ==
  [untrusted        |-> "TLS_CERT_UNTRUSTED",
   unknown_host     |-> "DNS_LOOKUP_FAILED",
   refused          |-> "CONNECTION_REFUSED",
   old_server       |-> "PROTOCOL_UNSUPPORTED",
   dead_credentials |-> "AUTH_LOGIN_REQUIRED",
   gateway_silent   |-> "AUTH_TIMEOUT",
   gateway_failing  |-> "AUTH_REFRESH_FAILED",
   server_silent    |-> "NOTIFICATION_TIMEOUT",
   tool_rejected    |-> "TOOL_REQUEST_REJECTED",
   tool_failed      |-> "TOOL_ERROR"]

\* The code of what has none of its own.
GeneralCode == IF Mode = "call" THEN "CALL_FAILED" ELSE "INTERNAL_ERROR"

\* What is reported of each cause, and with which exit code.  A connection that is reset
\* has no code of its own, and the revision is blamed when the SDK calls it a failed
\* negotiation.
Diagnosed(why, reported, code) ==
  /\ why \in DOMAIN Documented => reported = Documented[why]
  /\ why \in {"store_unusable", "silence"} => reported = GeneralCode
  /\ why = "unauthorized" =>
       reported = IF Mode = "call" THEN "AUTH_FAILED" ELSE GeneralCode
  /\ why = "reset" => reported \in {GeneralCode, "PROTOCOL_UNSUPPORTED"}
  /\ Mode = "call" =>
       code = CASE why = "tool_failed" -> 1
                [] why \in {"dead_credentials", "gateway_silent", "gateway_failing",
                           "unauthorized"} -> 2
                [] OTHER -> 3

\* What the README has a code for is reported with that code, though the SDK and fetch
\* wrap it in other errors; the rest, but for a reset connection, is reported as of no
\* known kind; and call tells a tool's failure from missing authorization and from the
\* rest by the exit code.
DiagnosisIsTheCause ==
  pc = "done" /\ cause # None => Diagnosed(cause, Final.error, exitCode)

\* What connectPinned promises, and does not keep for a reset connection: "Auth and
\* transport failures propagate untouched so they keep their own error codes"
\* (protocolNegotiation.ts:33), hence none of them is blamed on the protocol.
TransportKeepsItsCode ==
  pc = "done" /\ cause \in DOMAIN NetworkCause => Final.error # "PROTOCOL_UNSUPPORTED"

\* Authentication, connecting and the work are cut off by the end of one budget, or at
\* once when authentication took longer; and nothing is given up as too slow before that
\* budget is over, which does not count what reading stdin took.
OneBudget ==
  /\ pc \in {"auth", "connect", "tool", "stream"} =>
       \/ dueAt = authStart + Timeout
       \/ dueAt > authStart + Timeout /\ dueAt <= now
  /\ pc = "done" /\ cause \in TooSlow => now >= authStart + Timeout

\* Every run ends, whoever stays silent: arguments on stdin, the gateway, a tool, or the
\* server of a stream.  That the work of the other modules ends is theirs to show, and
\* assumed here (EndingStep): the status watch and a stream do, a one-shot subscription
\* unless it is notified for ever, see EndsUnlessNotified.
Ends == <>(pc = "done")
=============================================================================
