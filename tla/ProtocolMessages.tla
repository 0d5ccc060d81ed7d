-------------------------- MODULE ProtocolMessages --------------------------
(***************************************************************************)
(* The messages of the protocol characteristic (proto/handshake.proto) and *)
(* how a phone tells them apart (handleProtocolMessage of iphone/ and      *)
(* android/handshake.go).  A message does not carry its type: the receiver *)
(* parses it as one type after the other and looks at a few fields.  In    *)
(* protobuf, a field of another wire type than the parser expects is       *)
(* unknown to it, which leaves its own field empty.                        *)
(*                                                                         *)
(* A first name is a number: 0 is the empty string, -1 a device ID in the  *)
(* place of a name.  Texts do not parse as nested messages by accident.    *)
(***************************************************************************)
EXTENDS Integers

NoName == 0
DeviceID == -1

Handshake(first, version) ==
  [kind |-> "handshake", first |-> first, version |-> version]

Gossip(first, version, newer) ==
  [kind |-> "gossip", first |-> first, version |-> version, newer |-> newer]

\* Both kinds of requests: sendProfileRequest expects version 0.
Request(expected) == [kind |-> "request", version |-> expected]

\* The optional fields 4 to 14 are empty.
Profile(first, last, version) ==
  [kind |-> "profile", first |-> first, last |-> last, version |-> version]

\* The fields that are on the wire, with their types: empty ones are left out.
If(condition, field) == IF condition THEN {field} ELSE {}

Fields(m) ==
  {<<1, "bytes">>} \cup
  CASE m.kind = "handshake" ->
         {<<2, "bytes">>, <<3, "varint">>} \cup If(m.version > 0, <<6, "varint">>)
    [] m.kind = "gossip" ->
         {<<2, "varint">>, <<3, "message">>, <<4, "varint">>}
    [] m.kind = "request" ->
         {<<2, "bytes">>} \cup If(m.version > 0, <<3, "varint">>)
    [] m.kind = "profile" ->
         If(m.first # NoName, <<2, "bytes">>) \cup If(m.last, <<3, "bytes">>)
           \cup If(m.version > 0, <<15, "varint">>)

\* What the receiver looks at.
LooksLikeGossip(f)       == <<3, "message">> \in f
LooksLikeHandshake(f)    == {<<1, "bytes">>, <<3, "varint">>} \subseteq f
LooksLikePhotoRequest(f) == {<<1, "bytes">>, <<3, "bytes">>} \subseteq f
LooksLikeRequest(f)      == {<<1, "bytes">>, <<2, "bytes">>} \subseteq f /\ <<15, "varint">> \notin f
LooksLikeProfile(f)      == <<1, "bytes">> \in f /\ \E n \in 2 .. 6 : <<n, "bytes">> \in f

\* Faulty: gossip is only looked for after handshakes and photo requests.
RouteGossipLate(m) ==
  LET f == Fields(m) IN
  IF LooksLikeHandshake(f) THEN "handshake"
  ELSE IF LooksLikeRequest(f) THEN "request"
  ELSE IF LooksLikeProfile(f) THEN "profile"
  ELSE "unknown"

\* handleProtocolMessage: the first that fits.
Route(m) ==
  LET f == Fields(m) IN
  IF LooksLikeGossip(f) THEN "gossip"
  ELSE IF LooksLikeHandshake(f) THEN "handshake"
  ELSE IF LooksLikePhotoRequest(f) THEN "photo request"
  ELSE IF LooksLikeRequest(f) THEN "request"
  ELSE IF LooksLikeProfile(f) THEN "profile"
  ELSE "unknown"

\* What handleHandshake reads in a message that looks like a handshake: the second
\* field of a request is the device ID it asks about, the sixth is empty.
ReadAsHandshake(m) ==
  IF m.kind = "request" THEN [first |-> DeviceID, version |-> 0]
                        ELSE [first |-> m.first, version |-> m.version]
=============================================================================
