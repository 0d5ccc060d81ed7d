--------------------------- MODULE CentralManager ---------------------------
(***************************************************************************)
(* swift/cb_central_manager.go over WireConnection, with the iPhone's      *)
(* delegate (iphone/central_delegate.go) as its user: a device is          *)
(* discovered once, connected to if the role policy says so, and from then *)
(* on reconnected to by goroutines that retry until they succeed.          *)
(*                                                                         *)
(* Both devices are iPhones; Dialer holds those the role policy lets       *)
(* connect: the one with the larger device ID, or both when the IDs are    *)
(* not advertised.  The peer is the only other device, as in               *)
(* WireConnection.                                                         *)
(***************************************************************************)
EXTENDS WireConnection, FiniteSets

CONSTANTS Stopping      \* devices that call StopScan

ASSUME CentralAssumption == Stopping \subseteq Node

VARIABLES
  discovered,   \* ip.discovered has the peer
  connecting,   \* c.connectingDevices has the peer
  calling,      \* Connect's goroutine is about to call wire.Connect
  remembered,   \* c.pendingPeripherals has the peer
  auto,         \* c.autoReconnectActive
  retries,      \* sleeping attemptReconnect goroutines
  origin,       \* who called wire.Connect for each socket
  marked        \* identityManager.IsConnected(peer)

manager == <<discovered, connecting, calling, remembered, auto, retries, origin, marked>>
vars    == <<wire, manager>>

CentralTypeOK ==
  /\ WireTypeOK
  /\ \A f \in {discovered, connecting, calling, remembered, auto, marked} : f \in [Node -> BOOLEAN]
  /\ retries \in [Node -> Nat]
  /\ origin \in [Socket -> {"none", "app", "retry"}]

Init ==
  /\ WireInit
  /\ discovered = [n \in Node |-> FALSE]
  /\ connecting = [n \in Node |-> FALSE]
  /\ calling = [n \in Node |-> FALSE]
  /\ remembered = [n \in Node |-> FALSE]
  /\ auto = [n \in Node |-> TRUE]
  /\ retries = [n \in Node |-> 0]
  /\ origin = [s \in Socket |-> "none"]
  /\ marked = [n \in Node |-> FALSE]

Set(f, n, value) == [f EXCEPT ![n] = value]

-----------------------------------------------------------------------------
\* DidDiscoverPeripheral, once per device, and the Connect it makes.
Discover(n) ==
  /\ n \in up
  /\ Other(n) \in up
  /\ ~discovered[n]
  /\ discovered' = Set(discovered, n, TRUE)
  /\ IF n \in Dialer /\ ~marked[n] /\ ~connecting[n] /\ connections[n] = NoSocket
     THEN /\ connecting' = Set(connecting, n, TRUE)
          /\ calling' = Set(calling, n, TRUE)
          /\ remembered' = Set(remembered, n, TRUE)
     ELSE UNCHANGED <<connecting, calling, remembered>>
  /\ UNCHANGED <<wire, auto, retries, origin, marked>>

\* wire.Connect failed: Connect's goroutine retries while auto-reconnect is on,
\* attemptReconnect always.
RetriesAfterFailure(n, who) ==
  IF who = "retry" \/ auto[n] THEN Set(retries, n, retries[n] + 1) ELSE retries

\* wire.Connect gets past its first check.
ConnectFor(n, who) ==
  \E s \in Socket : Connect(s, n) /\ origin' = [origin EXCEPT ![s] = who]

\* Connect's goroutine calls wire.Connect.
AppConnect(n) ==
  /\ calling[n]
  /\ calling' = Set(calling, n, FALSE)
  /\ IF connections[n] = NoSocket
     THEN /\ ConnectFor(n, "app")
          /\ UNCHANGED <<connecting, retries>>
     ELSE /\ connecting' = Set(connecting, n, FALSE)
          /\ retries' = RetriesAfterFailure(n, "app")
          /\ UNCHANGED <<wire, origin>>
  /\ UNCHANGED <<discovered, remembered, auto, marked>>

\* attemptReconnect wakes up and calls wire.Connect.  While it fails at once, for
\* an entry that is there or a peer that is not, it only goes to sleep again.
Retry(n) ==
  /\ retries[n] > 0
  /\ remembered[n]
  /\ Other(n) \in up
  /\ ConnectFor(n, "retry")
  /\ retries' = Set(retries, n, retries[n] - 1)
  /\ UNCHANGED <<discovered, connecting, calling, remembered, auto, marked>>

\* attemptReconnect ends if CancelPeripheralConnection took the peripheral away.
RetryCancelled(n) ==
  /\ retries[n] > 0
  /\ ~remembered[n]
  /\ retries' = Set(retries, n, retries[n] - 1)
  /\ UNCHANGED <<wire, discovered, connecting, calling, remembered, auto, origin, marked>>

\* wire.Connect returns an error to whoever called it for s.
ConnectFailed(s) ==
  LET n == dialer[s] IN
  /\ retries' = RetriesAfterFailure(n, origin[s])
  /\ connecting' = IF origin[s] = "app" THEN Set(connecting, n, FALSE) ELSE connecting
  /\ UNCHANGED <<discovered, calling, remembered, auto, origin, marked>>

CentralDialFails(s) == DialFails(s) /\ ConnectFailed(s)

CentralRegisterDialed(s) ==
  /\ RegisterDialed(s)
  /\ IF MayRegister(dialer[s]) THEN UNCHANGED manager ELSE ConnectFailed(s)

\* The connect callback of a peripheral makes the peer known.
CentralStartLoop(s, n) ==
  /\ StartLoop(s, n)
  /\ discovered' = IF n = dialer[s] THEN discovered ELSE Set(discovered, n, TRUE)
  /\ UNCHANGED <<connecting, calling, remembered, auto, retries, origin, marked>>

\* wire.Connect returns: the connecting flag is cleared and DidConnectPeripheral
\* marks the peer, whatever has become of the connection.
DidConnect(s) ==
  LET n == dialer[s] IN
  /\ Return(s)
  /\ connecting' = IF origin[s] = "app" THEN Set(connecting, n, FALSE) ELSE connecting
  /\ marked' = Set(marked, n, TRUE)
  /\ UNCHANGED <<discovered, calling, remembered, auto, retries, origin>>

\* Faulty: the reconnect is left to the next scan.
NoReconnect(n) == retries

\* The disconnect callback: a goroutine is started if auto-reconnect is on.
Reconnect(n) ==
  IF auto[n] /\ remembered[n] THEN Set(retries, n, retries[n] + 1) ELSE retries

DidDisconnect(n) ==
  /\ marked' = Set(marked, n, FALSE)
  /\ retries' = Reconnect(n)
  /\ UNCHANGED <<discovered, connecting, calling, remembered, auto, origin>>

CentralCleanupClose(s, n) == CleanupClose(s, n) /\ DidDisconnect(n)

CentralDisconnectCallback(n) == DisconnectCallback(n) /\ DidDisconnect(n)

\* Faulty: the peer is still remembered, so that the callback of Disconnect and the
\* one of the read loop both reconnect.
CancelRemembers(n) ==
  /\ n \in Disconnecting \cap up
  /\ remembered[n]
  /\ connections[n] # NoSocket
  /\ Disconnect(n)
  /\ UNCHANGED manager

\* CancelPeripheralConnection forgets the peer and disconnects.
Cancel(n) ==
  /\ n \in Disconnecting \cap up
  /\ remembered[n]
  /\ remembered' = Set(remembered, n, FALSE)
  /\ IF connections[n] = NoSocket THEN UNCHANGED wire ELSE Disconnect(n)
  /\ UNCHANGED <<discovered, connecting, calling, auto, retries, origin, marked>>

\* StopScan, which Stop calls, turns auto-reconnect off.
StopScan(n) ==
  /\ n \in Stopping \cap up
  /\ auto[n]
  /\ auto' = Set(auto, n, FALSE)
  /\ UNCHANGED <<wire, discovered, connecting, calling, remembered, retries, origin, marked>>

CentralCrash(n) ==
  /\ Crash(n)
  /\ discovered' = Set(discovered, n, FALSE)
  /\ connecting' = Set(connecting, n, FALSE)
  /\ calling' = Set(calling, n, FALSE)
  /\ remembered' = Set(remembered, n, FALSE)
  /\ auto' = Set(auto, n, TRUE)
  /\ retries' = Set(retries, n, 0)
  /\ marked' = Set(marked, n, FALSE)
  /\ UNCHANGED origin

\* The goroutine that called wire.Connect, and the peer's accept loop.
DialStep(s) ==
  \/ Dial(s) /\ UNCHANGED manager
  \/ CentralDialFails(s)
  \/ CentralRegisterDialed(s)
  \/ DidConnect(s)

IncomingStep(s) == RegisterIncoming(s) /\ UNCHANGED manager

LoopStep(s, n) ==
  \/ CentralStartLoop(s, n)
  \/ (ReadFails(s, n) \/ CleanupDelete(s, n)) /\ UNCHANGED manager
  \/ CentralCleanupClose(s, n)

ManagerStep(n) ==
  \/ Discover(n) \/ AppConnect(n) \/ Retry(n) \/ RetryCancelled(n) \/ CentralDisconnectCallback(n)

CentralRestart(n) == Restart(n) /\ UNCHANGED manager

Next ==
  \/ \E s \in Socket : DialStep(s) \/ IncomingStep(s) \/ \E n \in Node : LoopStep(s, n)
  \/ \E n \in Node : ManagerStep(n) \/ Cancel(n) \/ StopScan(n) \/ CentralCrash(n) \/ CentralRestart(n)

Spec == Init /\ [][Next]_vars

\* Goroutines run, timers end, scans find the devices that run, and users restart
\* their phones.
Fairness ==
  /\ \A s \in Socket : WF_vars(DialStep(s)) /\ WF_vars(IncomingStep(s))
  /\ \A s \in Socket, n \in Node : WF_vars(LoopStep(s, n))
  /\ \A n \in Node : WF_vars(ManagerStep(n)) /\ WF_vars(CentralRestart(n))

FairSpec == Spec /\ Fairness

-----------------------------------------------------------------------------
Linked(n) ==
  \E s \in Socket : Established(s) /\ dialer[s] = n /\ \A m \in Node : connections[m] = s

\* With one device that dials, and crashes of either, the two end up connected for
\* good and the delegate that dialled knows it, unless the connection is cancelled
\* or auto-reconnect turned off.
ReconnectsAfterAll ==
  \A n \in Dialer :
    <>[](remembered[n] /\ auto[n]) => <>[](Linked(n) /\ marked[n])

\* The calls of wire.Connect under way or due: Connect's goroutine, sleeping
\* reconnects, and sockets being dialled.
Attempts(n) ==
  retries[n] + (IF calling[n] THEN 1 ELSE 0)
    + Cardinality({s \in Socket : dialer[s] = n /\ dial[s] \in {"delay", "dialed"}})

\* However disconnects, failures, cancellations and late callbacks interleave, a
\* device has one attempt at most under way: no second reconnect goroutine is left
\* behind to dial on its own, for ever, beside a connection another one made.
OneReconnector == \A n \in Dialer : Attempts(n) <= 1

\* The manager's marks are of their types, and attemptReconnect never runs twice.
CentralInv == CentralTypeOK /\ OneReconnector

=============================================================================
