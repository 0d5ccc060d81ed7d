----------------------------- MODULE AttBearer -----------------------------
(***************************************************************************)
(* One direction of a connection's ATT bearer: the goroutines of a central *)
(* that send requests (wire_gatt.go, wire_discovery.go and the MTU         *)
(* exchange of wire_connection.go, all through sendATTPacket), the request *)
(* tracker they share, the two byte streams, and the read loop of the peer *)
(* that serves them (handleATTPacket and its Fragmenter).                  *)
(*                                                                         *)
(* A value is abstracted to the fragments it is cut into; fragments with   *)
(* the same number have the same offset and length.  A server answers      *)
(* Prepare, Execute, discovery and CCCD writes; an ordinary Write Request  *)
(* gets no response from either platform (RespondToRequest of              *)
(* cb_peripheral_manager.go sets no status, SendResponse of                *)
(* bluetooth_advertiser.go only logs), so it stays pending for 30 seconds. *)
(***************************************************************************)
EXTENDS RequestTracker, Sequences, FiniteSets, SequencesExt

CONSTANTS Caller,         \* goroutines that send one request or long write each
          Handle,         \* characteristics that get long writes
          NoHandle,       \* of the operations that have none
          Fragments,      \* Prepare Writes per long write
          MaxLong,        \* bound: callers that do a long write
          MaxExpired      \* bound: timers that expire, 0 for the first 30 seconds

ASSUME BearerAssumption ==
  /\ IsFiniteSet(Handle)          \* handles are 16 bits wide
  /\ Fragments \in Nat \ {0}
  /\ MaxExpired \in Nat
  /\ {"write", "discover", "prepare", "execute"} \subseteq Opcode

VARIABLES
  cpc,        \* where each caller is
  kind,       \* what it is doing
  handle,     \* the characteristic of its long write
  part,       \* the fragment it has got to; Fragments + 1 for the Execute Write
  req,        \* the request whose channel it holds
  answer,     \* the packet in each request's response, if it is a Prepare's
  alive,      \* whether the connection is in w.connections
  up, down,   \* packets written and not yet read
  queue,      \* the server's Fragmenter.prepareQueue
  written     \* values its long writes have delivered to the GATT handler

callers == <<cpc, kind, handle, part, req>>
link    == <<alive, up, down>>
server  == <<queue, written>>
vars    == <<tracker, callers, answer, link, server>>

\* Reads behave as discovery does but for their caller, which never waits; the
\* MTU exchange as discovery does, without a timeout of its own.
Kinds     == {"none", "write", "subscribe", "discover", "long"}
Explicit  == {"discover", "long"}     \* StartRequest first, then wait
Fragment  == Caller \X (1 .. Fragments)
NoAnswer  == [handle |-> NoHandle, part |-> 0]

OpcodeOf(c) ==
  CASE kind[c] = "long"     -> IF part[c] > Fragments THEN "execute" ELSE "prepare"
    [] kind[c] = "discover" -> "discover"
    [] OTHER                -> "write"

LongWriter(c) == kind[c] = "long"

AttTypeOK ==
  /\ TrackerTypeOK
  /\ cpc \in [Caller -> {"idle", "start", "check", "compare", "register", "send",
                         "wait", "fail", "ok", "failed"}]
  /\ kind \in [Caller -> Kinds]
  /\ handle \in [Caller -> Handle \cup {NoHandle}]
  /\ part \in [Caller -> 1 .. Fragments + 1]
  /\ req \in [Caller -> 0 .. MaxRequests]
  /\ answer \in [Requests -> [handle : Handle \cup {NoHandle}, part : 0 .. Fragments]]
  /\ alive \in BOOLEAN
  /\ \A h \in Handle : \A f \in Range(queue[h]) : f \in Fragment

Init ==
  /\ TrackerInit
  /\ cpc = [c \in Caller |-> "idle"]
  /\ kind = [c \in Caller |-> "none"]
  /\ handle = [c \in Caller |-> NoHandle]
  /\ part = [c \in Caller |-> 1]
  /\ req = [c \in Caller |-> None]
  /\ answer = [i \in Requests |-> NoAnswer]
  /\ alive = TRUE
  /\ up = <<>>
  /\ down = <<>>
  /\ queue = [h \in Handle |-> <<>>]
  /\ written = <<>>

-----------------------------------------------------------------------------
\* SendGATTMessage with a small value, a CCCD value or a value longer than the
\* MTU, and the discovery calls.  sendATTPacket is next for the first two.
Begin(c) ==
  /\ cpc[c] = "idle"
  /\ \E k \in Kinds \ {"none"}, h \in Handle :
       /\ k = "long" => Cardinality({x \in Caller : LongWriter(x)}) < MaxLong
       /\ kind' = [kind EXCEPT ![c] = k]
       /\ handle' = [handle EXCEPT ![c] = IF k = "long" THEN h ELSE NoHandle]
       /\ cpc' = [cpc EXCEPT ![c] = IF k \in Explicit THEN "start" ELSE "check"]
  /\ UNCHANGED <<tracker, part, req, answer, link, server>>

Goto(c, where) == cpc' = [cpc EXCEPT ![c] = where]

\* The caller's own StartRequest.  Beyond the bound it is refused, too.
Start(c) ==
  /\ cpc[c] = "start"
  /\ IF CanStart
     THEN /\ StartRequest(OpcodeOf(c))
          /\ req' = [req EXCEPT ![c] = count + 1]
          /\ Goto(c, "check")
     ELSE /\ Goto(c, "failed")
          /\ UNCHANGED <<tracker, req>>
  /\ UNCHANGED <<kind, handle, part, answer, link, server>>

\* sendATTPacket looks the connection up and asks HasPending ...
Check(c) ==
  /\ cpc[c] = "check"
  /\ Goto(c, IF ~alive THEN "fail" ELSE IF HasPending THEN "compare" ELSE "register")
  /\ UNCHANGED <<tracker, kind, handle, part, req, answer, link, server>>

\* ... then reads the pending opcode, and refuses if it differs or is gone ...
Compare(c) ==
  /\ cpc[c] = "compare"
  /\ Goto(c, IF HasPending /\ opcode[pending] = OpcodeOf(c) THEN "send" ELSE "fail")
  /\ UNCHANGED <<tracker, kind, handle, part, req, answer, link, server>>

\* ... or registers the request, whose channel nobody will read.
Register(c) ==
  /\ cpc[c] = "register"
  /\ IF CanStart
     THEN StartRequest(OpcodeOf(c)) /\ Goto(c, "send")
     ELSE Goto(c, "fail") /\ UNCHANGED tracker
  /\ UNCHANGED <<kind, handle, part, req, answer, link, server>>

\* The packet goes out; without an explicit request the caller is done.
Send(c) ==
  /\ cpc[c] = "send"
  /\ IF alive
     THEN /\ up' = Append(up, [op |-> OpcodeOf(c), kind |-> kind[c], from |-> c,
                               handle |-> handle[c], part |-> part[c]])
          /\ Goto(c, IF kind[c] \in Explicit THEN "wait" ELSE "ok")
     ELSE Goto(c, "fail") /\ UNCHANGED up
  /\ UNCHANGED <<tracker, kind, handle, part, req, answer, alive, down, server>>

\* sendATTPacket returned an error: the explicit callers fail the pending request,
\* whosever it is by now.
Fail(c) ==
  /\ cpc[c] = "fail"
  /\ IF kind[c] \in Explicit /\ HasPending THEN FailRequest ELSE UNCHANGED tracker
  /\ Goto(c, "failed")
  /\ UNCHANGED <<kind, handle, part, req, answer, link, server>>

-----------------------------------------------------------------------------
\* sendFragmentedWrite's checks of a Prepare Write Response: type, handle, offset
\* and length, but not the value.
EchoMatches(c) ==
  /\ outcome[req[c]] = "reply"
  /\ answer[req[c]] = [handle |-> handle[c], part |-> part[c]]

\* Response.Error is nil: an Error Response counts, too.
Answered(c) == outcome[req[c]] \in {"reply", "error"}

ReceiveEcho(c) ==
  /\ cpc[c] = "wait"
  /\ OpcodeOf(c) = "prepare"
  /\ Ended(req[c])
  /\ IF EchoMatches(c)
     THEN Goto(c, "start") /\ part' = [part EXCEPT ![c] = @ + 1]
     ELSE Goto(c, "failed") /\ UNCHANGED part
  /\ UNCHANGED <<tracker, kind, handle, req, answer, link, server>>

ReceiveAnswer(c) ==
  /\ cpc[c] = "wait"
  /\ OpcodeOf(c) \in {"execute", "discover"}
  /\ Ended(req[c])
  /\ Goto(c, IF Answered(c) THEN "ok" ELSE "failed")
  /\ UNCHANGED <<tracker, kind, handle, part, req, answer, link, server>>

\* The discovery calls stop waiting after 30 seconds of their own.
GiveUp(c) ==
  /\ cpc[c] = "wait"
  /\ kind[c] = "discover"
  /\ req[c] <= expired
  /\ Goto(c, "failed")
  /\ UNCHANGED <<tracker, kind, handle, part, req, answer, link, server>>

CallerStep(c) ==
  \/ Start(c) \/ Check(c) \/ Compare(c) \/ Register(c) \/ Send(c) \/ Fail(c)
  \/ ReceiveEcho(c) \/ ReceiveAnswer(c) \/ GiveUp(c)

-----------------------------------------------------------------------------
\* The server's read loop handles one packet at a time.
Reply(m, result) ==
  down' = Append(down, [op |-> m.op, result |-> result, handle |-> m.handle, part |-> m.part])

\* Faulty: the offset of a fragment is not checked.
FitsAlways(m) == TRUE

\* AddPrepareWriteResponse: the fragment's offset is where the queue ends.
Fits(m) == m.part = Len(queue[m.handle]) + 1

ServePrepare ==
  /\ up # <<>> /\ Head(up).op = "prepare"
  /\ LET m == Head(up) IN
       IF Fits(m)
       THEN /\ queue' = [queue EXCEPT ![m.handle] = Append(@, <<m.from, m.part>>)]
            /\ Reply(m, "reply")
       ELSE Reply(m, "error") /\ UNCHANGED queue
  /\ up' = Tail(up)
  /\ UNCHANGED <<tracker, callers, answer, alive, written>>

\* Every handle with queued fragments is reassembled, delivered and cleared, in an
\* order that Go leaves open.
ServeExecute ==
  /\ up # <<>> /\ Head(up).op = "execute"
  /\ \E order \in SetToSeqs({h \in Handle : queue[h] # <<>>}) :
       written' = written \o [k \in 1 .. Len(order) |-> queue[order[k]]]
  /\ queue' = [h \in Handle |-> <<>>]
  /\ Reply(Head(up), "reply")
  /\ up' = Tail(up)
  /\ UNCHANGED <<tracker, callers, answer, alive>>

\* Discovery finds something or answers with an Error Response.
ServeDiscover ==
  /\ up # <<>> /\ Head(up).op = "discover"
  /\ \E result \in {"reply", "error"} : Reply(Head(up), result)
  /\ up' = Tail(up)
  /\ UNCHANGED <<tracker, callers, answer, alive, server>>

\* A CCCD write is answered, an ordinary write is not.
ServeWrite ==
  /\ up # <<>> /\ Head(up).op = "write"
  /\ IF Head(up).kind = "subscribe" THEN Reply(Head(up), "reply") ELSE UNCHANGED down
  /\ up' = Tail(up)
  /\ UNCHANGED <<tracker, callers, answer, alive, server>>

Serve == ServePrepare \/ ServeExecute \/ ServeDiscover \/ ServeWrite

\* The client's read loop hands a response to the tracker, which drops it when
\* nothing that it answers is pending.
Deliver ==
  /\ down # <<>>
  /\ LET m == Head(down) IN
       \/ /\ m.result = "reply" /\ CompleteRequest(m.op)
          /\ answer' = IF m.op = "prepare"
                       THEN [answer EXCEPT ![pending] = [handle |-> m.handle, part |-> m.part]]
                       ELSE answer
       \/ m.result = "error" /\ CompleteWithError /\ UNCHANGED answer
       \/ /\ HasPending => m.result = "reply" /\ opcode[pending] # m.op
          /\ UNCHANGED <<tracker, answer>>
  /\ down' = Tail(down)
  /\ UNCHANGED <<callers, alive, up, server>>

-----------------------------------------------------------------------------
\* The connection, and with it the peer's Fragmenter, is gone.
Drop ==
  /\ alive
  /\ alive' = FALSE
  /\ up' = <<>>
  /\ down' = <<>>
  /\ queue' = [h \in Handle |-> <<>>]
  /\ UNCHANGED <<callers, answer, written>>

\* Faulty: the slot is emptied and nobody is told.
DisconnectForgets == Drop /\ pending' = None
  /\ UNCHANGED <<count, opcode, outcome, goroutines, expired>>

\* Disconnect cancels the pending request; the end of the read loop does not.
Disconnect == Drop /\ IF HasPending THEN CancelPending ELSE UNCHANGED tracker

PeerCloses == Drop /\ UNCHANGED tracker

\* Timers matter only if one can expire within the bound.
Clock ==
  /\ MaxExpired > 0
  /\ Timeouts \/ (expired < MaxExpired /\ Expire)
  /\ UNCHANGED <<callers, answer, link, server>>

Next ==
  \/ \E c \in Caller : Begin(c) \/ CallerStep(c)
  \/ Serve
  \/ Deliver
  \/ Disconnect
  \/ PeerCloses
  \/ Clock

Spec == Init /\ [][Next]_vars

\* Goroutines run, read loops read, time passes.
Fairness ==
  /\ \A c \in Caller : WF_vars(CallerStep(c))
  /\ WF_vars(Serve)
  /\ WF_vars(Deliver)
  /\ WF_vars(Clock)

FairSpec == Spec /\ Fairness

-----------------------------------------------------------------------------
Value(c) == [k \in 1 .. Fragments |-> <<c, k>>]

\* Long writes on one characteristic, within the first 30 seconds of a connection:
\* whatever other requests come between the fragments, each is delivered at most
\* once and whole, and only delivered ones are reported as successful.
Writes == INSTANCE WriteService
            WITH Writer <- Caller,
                 told <- [c \in Caller |-> IF LongWriter(c) /\ cpc[c] \in {"ok", "failed"}
                                           THEN cpc[c] ELSE "nothing"]

WritesAreWhole == Writes!Spec

\* The callers and the peer drive the tracker as an open system may.
TrackerDriven == TrackerSpec

LongWritePackets(stream) == {i \in DOMAIN stream : stream[i].op \in {"prepare", "execute"}}

\* No request is sent for a caller that the tracker does not know of, so at most
\* one Prepare or Execute is under way, in either direction.
LongWriteSerial ==
  Cardinality(LongWritePackets(up)) + Cardinality(LongWritePackets(down)) <= 1

\* The callers, queues and requests are of their types, and sendATTPacket lets one
\* request of a long write at most onto the bearer.
AttInv == AttTypeOK /\ LongWriteSerial

\* Everybody who sends a request gets to the end of it, across refusals, lost
\* answers, disconnects and time-outs, the stale ones included.
CallersReturn == \A c \in Caller : cpc[c] # "idle" ~> cpc[c] \in {"ok", "failed"}
=============================================================================
