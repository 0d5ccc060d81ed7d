--------------------------- MODULE WireConnection ---------------------------
(***************************************************************************)
(* The connections of wire/wire_connection.go and wire/wire_readloop.go    *)
(* between two devices: Connect, the accept loop, Disconnect and the read  *)
(* loops, which share one map from peer UUID to connection on each device. *)
(* A peer's entries are independent of other peers', so two devices are    *)
(* all there is to see.                                                    *)
(*                                                                         *)
(* A call of Connect that gets past its first check takes a free socket;   *)
(* the socket is free again when nobody has anything left to do with it,   *)
(* so the number of calls is not bounded.  Neither the packets nor the     *)
(* stop channels are modelled: whoever closes a stop channel also closes   *)
(* the socket, so a read loop ends exactly when an end of its socket is    *)
(* closed.                                                                 *)
(***************************************************************************)
EXTENDS Integers

CONSTANTS Node,            \* the two devices
          Dialer,          \* devices that call Connect
          Disconnecting,   \* devices that call Disconnect
          MaxSockets,      \* bound: sockets in use at a time
          MaxCallbacks,    \* bound: spawned callbacks that have not run
          MaxCrashes       \* bound: crashes

ASSUME WireAssumption ==
  /\ \E m, n \in Node : m # n /\ Node = {m, n}
  /\ Dialer \subseteq Node
  /\ Disconnecting \subseteq Node
  /\ MaxSockets \in Nat
  /\ MaxCallbacks \in Nat
  /\ MaxCrashes \in Nat

Socket   == 1 .. MaxSockets
NoSocket == 0

Other(n) == CHOOSE m \in Node : m # n

VARIABLES
  dialer,       \* who called Connect
  dial,         \* where that call is
  incoming,     \* where handleIncomingConnection of the other device is
  ends,         \* the devices whose end of the socket is open
  connections,  \* w.connections[peer] of each device
  loop,         \* where each device's goroutine for a registered socket is
  callbacks,    \* disconnect callbacks that Disconnect has spawned
  up,           \* running devices
  crashes

sockets == <<dialer, dial, incoming>>
wire    == <<sockets, ends, connections, loop, callbacks, up, crashes>>

WireTypeOK ==
  /\ dialer \in [Socket -> Node]
  /\ dial \in [Socket -> {"none", "delay", "dialed", "returning"}]
  /\ incoming \in [Socket -> {"none", "accepted"}]
  /\ ends \in [Socket -> SUBSET Node]
  /\ connections \in [Node -> 0 .. MaxSockets]
  /\ loop \in [Socket -> [Node -> {"none", "registered", "reading", "cleaning", "closing"}]]
  /\ callbacks \in [Node -> 0 .. MaxCallbacks]
  /\ up \subseteq Node
  /\ crashes \in 0 .. MaxCrashes

WireInit ==
  /\ dialer = [s \in Socket |-> CHOOSE n \in Node : TRUE]
  /\ dial = [s \in Socket |-> "none"]
  /\ incoming = [s \in Socket |-> "none"]
  /\ ends = [s \in Socket |-> {}]
  /\ connections = [n \in Node |-> NoSocket]
  /\ loop = [s \in Socket |-> [n \in Node |-> "none"]]
  /\ callbacks = [n \in Node |-> 0]
  /\ up = Node
  /\ crashes = 0

SetLoop(s, n, where) == loop' = [loop EXCEPT ![s][n] = where]
CloseEnd(s, n) == ends' = [ends EXCEPT ![s] = @ \ {n}]

\* Nothing is left of the last call of Connect that used s.
Free(s) ==
  /\ dial[s] = "none"
  /\ incoming[s] = "none"
  /\ ends[s] = {}
  /\ \A n \in Node : loop[s][n] = "none"

NextFree(s) == Free(s) /\ \A r \in Socket : r < s => ~Free(r)

-----------------------------------------------------------------------------
\* Connect up to its delay; beyond it the entry it looked for may be there.
Connect(s, n) ==
  /\ n \in up
  /\ connections[n] = NoSocket
  /\ NextFree(s)
  /\ dialer' = [dialer EXCEPT ![s] = n]
  /\ dial' = [dial EXCEPT ![s] = "delay"]
  /\ UNCHANGED <<incoming, ends, connections, loop, callbacks, up, crashes>>

\* Dial the peer's socket and write our UUID to it.
Dial(s) ==
  /\ dial[s] = "delay"
  /\ Other(dialer[s]) \in up
  /\ dial' = [dial EXCEPT ![s] = "dialed"]
  /\ incoming' = [incoming EXCEPT ![s] = "accepted"]
  /\ ends' = [ends EXCEPT ![s] = Node]
  /\ UNCHANGED <<dialer, connections, loop, callbacks, up, crashes>>

DialFails(s) ==
  /\ dial[s] = "delay"
  /\ Other(dialer[s]) \notin up
  /\ dial' = [dial EXCEPT ![s] = "none"]
  /\ UNCHANGED <<dialer, incoming, ends, connections, loop, callbacks, up, crashes>>

\* Faulty: the map is not looked at again.
MayRegisterUnchecked(n) == TRUE

\* Under w.mu: is there no connection with the peer yet?
MayRegister(n) == connections[n] = NoSocket

Register(s, n) ==
  IF MayRegister(n)
  THEN /\ connections' = [connections EXCEPT ![n] = s]
       /\ SetLoop(s, n, "registered")
       /\ UNCHANGED ends
  ELSE CloseEnd(s, n) /\ UNCHANGED <<connections, loop>>

\* Connect checks again and stores the connection.
RegisterDialed(s) ==
  /\ dial[s] = "dialed"
  /\ Register(s, dialer[s])
  /\ dial' = [dial EXCEPT ![s] = IF MayRegister(dialer[s]) THEN "returning" ELSE "none"]
  /\ UNCHANGED <<dialer, incoming, callbacks, up, crashes>>

\* handleIncomingConnection knows the peer and stores the connection.
RegisterIncoming(s) ==
  /\ incoming[s] = "accepted"
  /\ Register(s, Other(dialer[s]))
  /\ incoming' = [incoming EXCEPT ![s] = "none"]
  /\ UNCHANGED <<dialer, dial, callbacks, up, crashes>>

\* The connect callback, and the read loop's goroutine.
StartLoop(s, n) ==
  /\ loop[s][n] = "registered"
  /\ SetLoop(s, n, "reading")
  /\ UNCHANGED <<sockets, ends, connections, callbacks, up, crashes>>

\* Connect returns to its caller once the read loop has been started.
Return(s) ==
  /\ dial[s] = "returning"
  /\ loop[s][dialer[s]] # "registered"
  /\ dial' = [dial EXCEPT ![s] = "none"]
  /\ UNCHANGED <<dialer, incoming, ends, connections, loop, callbacks, up, crashes>>

-----------------------------------------------------------------------------
\* Disconnect: the socket is closed, the entry removed, a callback spawned.
Disconnect(n) ==
  /\ n \in up
  /\ connections[n] # NoSocket
  /\ callbacks[n] < MaxCallbacks
  /\ CloseEnd(connections[n], n)
  /\ connections' = [connections EXCEPT ![n] = NoSocket]
  /\ callbacks' = [callbacks EXCEPT ![n] = @ + 1]
  /\ UNCHANGED <<sockets, loop, up, crashes>>

DisconnectCallback(n) ==
  /\ callbacks[n] > 0
  /\ callbacks' = [callbacks EXCEPT ![n] = @ - 1]
  /\ UNCHANGED <<sockets, ends, connections, loop, up, crashes>>

\* A read fails once either end is closed.
ReadFails(s, n) ==
  /\ loop[s][n] = "reading"
  /\ ends[s] # Node
  /\ SetLoop(s, n, "cleaning")
  /\ UNCHANGED <<sockets, ends, connections, callbacks, up, crashes>>

\* Faulty: the entry of a connection that died stays in the map.
EntryAfterCleanupKept(n) == connections

\* The clean-up removes the peer's entry, whichever connection it is for.
EntryAfterCleanup(n) == [connections EXCEPT ![n] = NoSocket]

CleanupDelete(s, n) ==
  /\ loop[s][n] = "cleaning"
  /\ connections' = EntryAfterCleanup(n)
  /\ SetLoop(s, n, "closing")
  /\ UNCHANGED <<sockets, ends, callbacks, up, crashes>>

\* Faulty: the read loop leaves its end of the socket open.
CleanupCloseForgets(s, n) ==
  /\ loop[s][n] = "closing"
  /\ SetLoop(s, n, "none")
  /\ UNCHANGED <<sockets, ends, connections, callbacks, up, crashes>>

\* ... then closes its end and calls the disconnect callback.
CleanupClose(s, n) ==
  /\ loop[s][n] = "closing"
  /\ CloseEnd(s, n)
  /\ SetLoop(s, n, "none")
  /\ UNCHANGED <<sockets, connections, callbacks, up, crashes>>

-----------------------------------------------------------------------------
\* A device dies with everything it had; the system closes its sockets.
Crash(n) ==
  /\ n \in up
  /\ crashes < MaxCrashes
  /\ crashes' = crashes + 1
  /\ up' = up \ {n}
  /\ ends' = [s \in Socket |-> ends[s] \ {n}]
  /\ connections' = [connections EXCEPT ![n] = NoSocket]
  /\ loop' = [s \in Socket |-> [loop[s] EXCEPT ![n] = "none"]]
  /\ dial' = [s \in Socket |-> IF dialer[s] = n THEN "none" ELSE dial[s]]
  /\ incoming' = [s \in Socket |-> IF dialer[s] = n THEN incoming[s] ELSE "none"]
  /\ callbacks' = [callbacks EXCEPT ![n] = 0]
  /\ UNCHANGED <<dialer>>

Restart(n) ==
  /\ n \notin up
  /\ up' = up \cup {n}
  /\ UNCHANGED <<sockets, ends, connections, loop, callbacks, crashes>>

SocketStep(s) ==
  \/ Dial(s) \/ DialFails(s) \/ RegisterDialed(s) \/ RegisterIncoming(s) \/ Return(s)
  \/ \E n \in Node : StartLoop(s, n) \/ ReadFails(s, n) \/ CleanupDelete(s, n) \/ CleanupClose(s, n)

WireNext ==
  \/ \E n \in Dialer, s \in Socket : Connect(s, n)
  \/ \E n \in Disconnecting : Disconnect(n)
  \/ \E s \in Socket : SocketStep(s)
  \/ \E n \in Node : DisconnectCallback(n) \/ Crash(n) \/ Restart(n)

WireSpec == WireInit /\ [][WireNext]_wire

\* Goroutines run; nobody has to call Connect or to restart a device.
WireFairness == \A s \in Socket : WF_wire(SocketStep(s))

FairWireSpec == WireSpec /\ WireFairness

-----------------------------------------------------------------------------
\* Both ends are open and both devices read from it.
Established(s) == ends[s] = Node /\ \A n \in Node : loop[s][n] = "reading"

\* The sockets that a device reads from, at both of whose ends something is left.
Reads(n) == {s \in Socket : ends[s] = Node /\ loop[s][n] \in {"registered", "reading"}}

\* A device that never calls Disconnect reads from one live socket at most, and
\* that is the one it sends on: whoever dialled, however the dials crossed, and
\* however late the clean-up of an earlier connection with the same peer runs.
SingleConnection == \A n \in Node \ Disconnecting : Reads(n) \subseteq {connections[n]}

\* An entry is in use or about to be removed: a device never keeps a peer as
\* connected, refusing the peer's new connections, with nobody at its socket.
EntryAttended ==
  \A n \in Node : connections[n] # NoSocket =>
    loop[connections[n]][n] \in {"registered", "reading", "cleaning"}

\* Sockets, entries and read loops are of their types, and the connection map tells the
\* truth both ways: whoever is read from is entered, whoever is entered is read from.
WireInv == WireTypeOK /\ SingleConnection /\ EntryAttended

\* A connection whose peer is gone is noticed and its entry removed.
DeadEntriesGo ==
  \A n \in Node, s \in Socket :
    connections[n] = s /\ ends[s] # Node ~> connections[n] # s

\* No socket stays half open: it becomes a connection of both devices or is closed
\* by both, the ones that lost against a crossing call of Connect included.
NoHalfOpen == \A s \in Socket : ends[s] # {} ~> Established(s) \/ ends[s] = {}
=============================================================================
