------------------------------ MODULE ErrorCodes ------------------------------
(***************************************************************************)
(* From what was thrown to the code that is reported:                      *)
(* networkErrorClassification.ts, protocolNegotiation.ts, and the catch    *)
(* blocks of cli.ts.                                                       *)
(*                                                                         *)
(* An error is the chain of its causes, itself first.  A link has a class, *)
(* a code (or status), and the property the next link hangs on: "cause",   *)
(* or "data" for an SdkError, whose cause is data.cause.                   *)
(***************************************************************************)
EXTENDS Integers, Sequences, FiniteSets, SequencesExt

CONSTANT None          \* null

\* TLS_CAUSE_CODES; one stands for all of them.
TlsCodes == {"CERT_HAS_EXPIRED"}

NetworkCodes == TlsCodes \cup {"ENOTFOUND", "ECONNREFUSED"}

\* The codes reported of what was thrown.
ThrownCodes ==
  {"AUTH_LOGIN_REQUIRED", "AUTH_TIMEOUT", "AUTH_REFRESH_FAILED", "AUTH_FAILED",
   "PROTOCOL_UNSUPPORTED", "TOOL_REQUEST_REJECTED", "TLS_CERT_UNTRUSTED",
   "DNS_LOOKUP_FAILED", "CONNECTION_REFUSED", "INTERNAL_ERROR", "CALL_FAILED"}

ASSUME NoneAssumption == None \notin ThrownCodes \cup NetworkCodes

Depth == 5             \* links findCauseCode looks at

\* nextCause: whether there is a way from a link to the next one.
NextCause(link) == link.via \in {"cause", "data"}

\* The first known code along the chain.
FindCauseCode(error) ==
  LET found == {i \in DOMAIN error :
                  /\ i <= Depth
                  /\ \A j \in 1 .. (i - 1) : NextCause(error[j])
                  /\ error[i].code \in NetworkCodes}
  IN IF found = {} THEN None
     ELSE error[CHOOSE i \in found : \A j \in found : i <= j].code

\* classifyNetworkError.
ClassifyNetworkError(error) ==
  LET code == FindCauseCode(error)
  IN CASE code \in TlsCodes       -> "TLS_CERT_UNTRUSTED"
       [] code = "ENOTFOUND"      -> "DNS_LOOKUP_FAILED"
       [] code = "ECONNREFUSED"   -> "CONNECTION_REFUSED"
       [] OTHER                   -> None

Link(class, code, via) == [class |-> class, code |-> code, via |-> via]

\* The server does not know this revision, or no server/discover at all.
RefusesRevision(error) ==
  \/ error[1].class = "UnsupportedProtocolVersionError"
  \/ error[1].class = "SdkError" /\ error[1].code = "ERA_NEGOTIATION_FAILED"

\* Mutant: whatever the negotiation fails of is taken for a refusal.
ConnectPinnedUnclassified(error) ==
  IF RefusesRevision(error)
  THEN << Link("ProtocolNegotiationError", None, "cause") >> \o error
  ELSE error

\* connectPinned: what it throws when client.connect throws `error`.
ConnectPinned(error) ==
  IF ClassifyNetworkError(error) = None /\ RefusesRevision(error)
  THEN << Link("ProtocolNegotiationError", None, "cause") >> \o error
  ELSE error

\* The codes of an error's class that both modes know.
AuthCode(error) ==
  CASE error[1].class = "AuthLoginRequiredError" -> "AUTH_LOGIN_REQUIRED"
    [] error[1].class = "AuthTimeoutError"       -> "AUTH_TIMEOUT"
    [] error[1].class = "OAuthRequestError"      -> "AUTH_REFRESH_FAILED"
    [] OTHER                                     -> None

\* The first code there is.
FirstOf(codes) ==
  IF \A i \in DOMAIN codes : codes[i] = None THEN None
  ELSE codes[CHOOSE i \in DOMAIN codes :
               codes[i] # None /\ \A j \in 1 .. (i - 1) : codes[j] = None]

\* The catch block of the subscribe modes.
SubscribeCode(error) ==
  FirstOf(<< AuthCode(error),
             IF error[1].class = "ProtocolNegotiationError" THEN "PROTOCOL_UNSUPPORTED" ELSE None,
             ClassifyNetworkError(error),
             "INTERNAL_ERROR" >>)

\* The catch block of call.
CallCode(error) ==
  FirstOf(<< AuthCode(error),
             IF error[1].class = "SdkHttpError" /\ error[1].code \in {"401", "403"}
             THEN "AUTH_FAILED" ELSE None,
             IF error[1].class = "ProtocolNegotiationError" THEN "PROTOCOL_UNSUPPORTED" ELSE None,
             IF error[1].class = "ProtocolError"
                /\ error[1].code \in {"INVALID_PARAMS", "METHOD_NOT_FOUND"}
             THEN "TOOL_REQUEST_REJECTED" ELSE None,
             ClassifyNetworkError(error),
             "CALL_FAILED" >>)

CallExit(code) ==
  IF code \in {"AUTH_LOGIN_REQUIRED", "AUTH_TIMEOUT", "AUTH_REFRESH_FAILED", "AUTH_FAILED"}
  THEN 2 ELSE 3
=============================================================================
