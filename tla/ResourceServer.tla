--------------------------- MODULE ResourceServer ---------------------------
(***************************************************************************)
(* The other side of a subscription, as the client code uses it through    *)
(* the MCP SDK: a server that holds one resource, answers reads, and keeps  *)
(* one listen stream.  Nothing here is code of src/src/client: it is       *)
(* the assumption under which the client is checked.                       *)
(*                                                                         *)
(*   history  the texts the resource has had; the current version is the   *)
(*            length of history                                            *)
(*   link     the listen request: "none", "requested", "open", and then    *)
(*            "graceful" (the server ends it), "remote" (it drops) or      *)
(*            "local" (the client closed it)                               *)
(*   honored  the acknowledged filter contains the requested uri           *)
(*   wire     the notifications sent on the stream and not yet handled     *)
(*                                                                         *)
(* The stream is one SSE response: notifications keep their order and a    *)
(* graceful end comes after them; a dropped stream loses a suffix of them. *)
(***************************************************************************)
EXTENDS Naturals, Sequences

CONSTANTS
  Texts,        \* the contents the resource may have
  Uri,          \* the uri the client asked for
  OtherUri,     \* some other uri of the server
  MaxVersion,   \* bound: the resource changes MaxVersion - 1 times
  MaxWire       \* bound: notifications on the stream at a time

VARIABLES history, link, honored, wire

serverVars == << history, link, honored, wire >>

Links == {"none", "requested", "open", "graceful", "remote", "local"}

Notifications == [uri : {Uri, OtherUri}, version : Nat]

ServerTypeOK ==
  /\ history \in Seq(Texts)
  /\ Len(history) > 0
  /\ link \in Links
  /\ honored \in BOOLEAN
  /\ wire \in Seq(Notifications)

Version == Len(history)

ServerInit ==
  /\ \E text \in Texts : history = << text >>
  /\ link = "none"
  /\ honored = FALSE
  /\ wire = << >>

\* The server accepts the listen request; the filter it honors may lack the uri.
Accept ==
  /\ link = "requested"
  /\ link' = "open"
  /\ honored' \in BOOLEAN
  /\ UNCHANGED << history, wire >>

\* The resource changes, and an open stream that honors the uri is told.  A
\* server may notify about an unchanged text.
Publish ==
  /\ Version < MaxVersion
  /\ Len(wire) < MaxWire
  /\ \E text \in Texts : history' = Append(history, text)
  /\ wire' = IF link = "open" /\ honored
             THEN Append(wire, [uri |-> Uri, version |-> Version + 1])
             ELSE wire
  /\ UNCHANGED << link, honored >>

\* A notification about another resource.
PublishOther ==
  /\ link = "open"
  /\ Len(wire) < MaxWire
  /\ wire' = Append(wire, [uri |-> OtherUri, version |-> Version])
  /\ UNCHANGED << history, link, honored >>

EndStream ==
  /\ link = "open"
  /\ link' = "graceful"
  /\ UNCHANGED << history, honored, wire >>

DropStream ==
  /\ link = "open"
  /\ link' = "remote"
  /\ \E n \in 0 .. Len(wire) : wire' = SubSeq(wire, 1, n)
  /\ UNCHANGED << history, honored >>

ServerNext == Accept \/ Publish \/ PublishOther \/ EndStream \/ DropStream

\* A notification about the subscribed uri is still on its way.
UpdateOnWire == \E i \in DOMAIN wire : wire[i].uri = Uri
=============================================================================
