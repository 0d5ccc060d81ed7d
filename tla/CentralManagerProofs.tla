------------------------ MODULE CentralManagerProofs ------------------------
(***************************************************************************)
(* The connections of wire/, and the CoreBluetooth manager that drives     *)
(* them, for any number of sockets, callbacks and crashes.                 *)
(*                                                                         *)
(* Connections: a device that does not call Disconnect never reads from    *)
(* two live sockets of a peer, and no device keeps an entry that nobody    *)
(* attends to.  The invariant ties the map to the read loops in both       *)
(* directions: a read loop that has not removed its entry yet owns the     *)
(* entry (LoopOwnsEntry, which needs the check under the lock before an    *)
(* entry is stored, and fails after a call of Disconnect), and an entry    *)
(* has a loop to remove it (EntryAttended).                                *)
(*                                                                         *)
(* Manager: every step of it is a step of the connections or leaves them   *)
(* alone, so what is proved of the connections holds under it.  With one   *)
(* device that dials, the calls of wire.Connect behave as one token, which *)
(* is in the hands of Connect's goroutine, of a sleeping reconnect, or of  *)
(* the socket that is dialled or read from (OneToken).                     *)
(***************************************************************************)
EXTENDS CentralManager, FiniteSetTheorems, TLAPS

Attending == {"registered", "reading", "cleaning"}

LoopOwnsEntry ==
  \A s \in Socket, n \in Node \ Disconnecting : loop[s][n] \in Attending => connections[n] = s

WireIInv == WireTypeOK /\ LoopOwnsEntry /\ EntryAttended

-----------------------------------------------------------------------------
\* Each of the two devices has another one.
LEMMA OtherNode ==
  /\ Node # {}
  /\ \A n \in Node : Other(n) \in Node /\ Other(n) # n
<1>1. PICK m \in Node, n \in Node : m # n /\ Node = {m, n}
  BY WireAssumption DEF WireAssumption
<1>2. \A k \in Node : \E l \in Node : l # k
  BY <1>1
<1> QED
  BY <1>1, <1>2 DEF Other

LEMMA SocketsAreNumbers ==
  /\ Socket \subseteq Nat
  /\ NoSocket \notin Socket
  /\ Socket \cup {NoSocket} = 0 .. MaxSockets
BY WireAssumption DEF Socket, NoSocket, WireAssumption

\* What storing a connection, or being refused, does to the invariant.
LEMMA RegisterKeeps ==
  ASSUME WireIInv, NEW s \in Socket, NEW n \in Node, Register(s, n),
         UNCHANGED <<dialer, callbacks, up, crashes>>,
         dial' \in [Socket -> {"none", "delay", "dialed", "returning"}],
         incoming' \in [Socket -> {"none", "accepted"}]
  PROVE  WireIInv'
<1>0. WireIInv
  OBVIOUS
<1> USE SocketsAreNumbers
<1>1. CASE MayRegister(n)
  <2>1. /\ connections[n] = NoSocket
        /\ connections' = [connections EXCEPT ![n] = s]
        /\ loop' = [loop EXCEPT ![s][n] = "registered"]
        /\ ends' = ends
    BY <1>1 DEF Register, MayRegister, SetLoop
  <2>2. WireTypeOK'
    BY <1>0, <2>1 DEF WireIInv, WireTypeOK
  <2>3. LoopOwnsEntry'
    BY <1>0, <2>1 DEF WireIInv, WireTypeOK, LoopOwnsEntry, Attending
  <2>4. EntryAttended'
    BY <1>0, <2>1 DEF WireIInv, WireTypeOK, EntryAttended
  <2> QED
    BY <2>2, <2>3, <2>4 DEF WireIInv
<1>2. CASE ~MayRegister(n)
  <2>1. /\ ends' = [ends EXCEPT ![s] = @ \ {n}]
        /\ UNCHANGED <<connections, loop>>
    BY <1>2 DEF Register, CloseEnd
  <2>2. WireTypeOK'
    BY <1>0, <2>1 DEF WireIInv, WireTypeOK
  <2> QED
    BY <1>0, <2>1, <2>2 DEF WireIInv, LoopOwnsEntry, EntryAttended
<1> QED
  BY <1>1, <1>2

LEMMA WireInitEstablishes == WireInit => WireIInv
<1> SUFFICES ASSUME WireInit
             PROVE  WireIInv
  OBVIOUS
<1>1. WireTypeOK
  <2>1. (CHOOSE n \in Node : TRUE) \in Node
    BY OtherNode
  <2> QED
    BY <2>1, SocketsAreNumbers, WireAssumption DEF WireInit, WireTypeOK, NoSocket, WireAssumption
<1>2. LoopOwnsEntry /\ EntryAttended
  BY DEF WireInit, LoopOwnsEntry, EntryAttended, Attending
<1> QED
  BY <1>1, <1>2 DEF WireIInv

LEMMA WireStepKeeps == WireIInv /\ [WireNext]_wire => WireIInv'
<1> SUFFICES ASSUME WireIInv, [WireNext]_wire
             PROVE  WireIInv'
  OBVIOUS
<1> USE SocketsAreNumbers, OtherNode
<1>0. WireIInv
  OBVIOUS
<1>1. ASSUME NEW n \in Dialer, NEW s \in Socket, Connect(s, n)
      PROVE  WireIInv'
  <2>1. n \in Node
    BY WireAssumption DEF WireAssumption
  <2> QED
    BY <1>0, <1>1, <2>1 DEF WireIInv, WireTypeOK, LoopOwnsEntry, EntryAttended, Connect
<1>2. ASSUME NEW n \in Disconnecting, Disconnect(n)
      PROVE  WireIInv'
  <2>1. n \in Node
    BY WireAssumption DEF WireAssumption
  <2>2. WireTypeOK'
    BY <1>0, <1>2, <2>1, WireAssumption
    DEF WireIInv, WireTypeOK, Disconnect, CloseEnd, sockets, WireAssumption
  <2>3. LoopOwnsEntry'
    BY <1>0, <1>2, <2>1 DEF WireIInv, WireTypeOK, LoopOwnsEntry, Disconnect
  <2>4. EntryAttended'
    BY <1>0, <1>2, <2>1 DEF WireIInv, WireTypeOK, EntryAttended, Disconnect
  <2> QED
    BY <2>2, <2>3, <2>4 DEF WireIInv
<1>3. ASSUME NEW s \in Socket, SocketStep(s)
      PROVE  WireIInv'
  <2>0. dialer[s] \in Node /\ Other(dialer[s]) \in Node
    BY <1>0 DEF WireIInv, WireTypeOK
  <2>1. CASE Dial(s)
    BY <1>0, <2>1 DEF WireIInv, WireTypeOK, LoopOwnsEntry, EntryAttended, Dial
  <2>2. CASE DialFails(s)
    BY <1>0, <2>2 DEF WireIInv, WireTypeOK, LoopOwnsEntry, EntryAttended, DialFails
  <2>3. CASE RegisterDialed(s)
    <3>1. /\ Register(s, dialer[s])
          /\ UNCHANGED <<dialer, callbacks, up, crashes>>
          /\ dial' \in [Socket -> {"none", "delay", "dialed", "returning"}]
          /\ incoming' \in [Socket -> {"none", "accepted"}]
      BY <1>0, <2>3 DEF WireIInv, WireTypeOK, RegisterDialed
    <3> QED
      BY <1>0, <2>0, <3>1, RegisterKeeps
  <2>4. CASE RegisterIncoming(s)
    <3>1. /\ Register(s, Other(dialer[s]))
          /\ UNCHANGED <<dialer, callbacks, up, crashes>>
          /\ dial' \in [Socket -> {"none", "delay", "dialed", "returning"}]
          /\ incoming' \in [Socket -> {"none", "accepted"}]
      BY <1>0, <2>4 DEF WireIInv, WireTypeOK, RegisterIncoming
    <3> QED
      BY <1>0, <2>0, <3>1, RegisterKeeps
  <2>5. CASE Return(s)
    BY <1>0, <2>5 DEF WireIInv, WireTypeOK, LoopOwnsEntry, EntryAttended, Return
  <2>6. ASSUME NEW n \in Node, StartLoop(s, n)
        PROVE  WireIInv'
    <3>1. WireTypeOK'
      BY <1>0, <2>6 DEF WireIInv, WireTypeOK, StartLoop, SetLoop, sockets
    <3>2. LoopOwnsEntry'
      BY <1>0, <2>6 DEF WireIInv, WireTypeOK, LoopOwnsEntry, Attending, StartLoop, SetLoop
    <3>3. EntryAttended'
      BY <1>0, <2>6 DEF WireIInv, WireTypeOK, EntryAttended, StartLoop, SetLoop
    <3> QED
      BY <3>1, <3>2, <3>3 DEF WireIInv
  <2>7. ASSUME NEW n \in Node, ReadFails(s, n)
        PROVE  WireIInv'
    <3>1. WireTypeOK'
      BY <1>0, <2>7 DEF WireIInv, WireTypeOK, ReadFails, SetLoop, sockets
    <3>2. LoopOwnsEntry'
      BY <1>0, <2>7 DEF WireIInv, WireTypeOK, LoopOwnsEntry, Attending, ReadFails, SetLoop
    <3>3. EntryAttended'
      BY <1>0, <2>7 DEF WireIInv, WireTypeOK, EntryAttended, ReadFails, SetLoop
    <3> QED
      BY <3>1, <3>2, <3>3 DEF WireIInv
  <2>8. ASSUME NEW n \in Node, CleanupDelete(s, n)
        PROVE  WireIInv'
    <3>1. /\ connections' = [connections EXCEPT ![n] = NoSocket]
          /\ loop' = [loop EXCEPT ![s][n] = "closing"]
          /\ loop[s][n] = "cleaning"
      BY <2>8 DEF CleanupDelete, EntryAfterCleanup, SetLoop
    <3>2. WireTypeOK'
      BY <1>0, <2>8, <3>1 DEF WireIInv, WireTypeOK, CleanupDelete, sockets
    <3>3. LoopOwnsEntry'
      BY <1>0, <3>1 DEF WireIInv, WireTypeOK, LoopOwnsEntry, Attending
    <3>4. EntryAttended'
      BY <1>0, <3>1 DEF WireIInv, WireTypeOK, EntryAttended
    <3> QED
      BY <3>2, <3>3, <3>4 DEF WireIInv
  <2>9. ASSUME NEW n \in Node, CleanupClose(s, n)
        PROVE  WireIInv'
    <3>1. WireTypeOK'
      BY <1>0, <2>9 DEF WireIInv, WireTypeOK, CleanupClose, SetLoop, CloseEnd, sockets
    <3>2. LoopOwnsEntry'
      BY <1>0, <2>9 DEF WireIInv, WireTypeOK, LoopOwnsEntry, Attending, CleanupClose, SetLoop
    <3>3. EntryAttended'
      BY <1>0, <2>9 DEF WireIInv, WireTypeOK, EntryAttended, CleanupClose, SetLoop
    <3> QED
      BY <3>1, <3>2, <3>3 DEF WireIInv
  <2> QED
    BY <1>3, <2>1, <2>2, <2>3, <2>4, <2>5, <2>6, <2>7, <2>8, <2>9 DEF SocketStep
<1>4. ASSUME NEW n \in Node, DisconnectCallback(n)
      PROVE  WireIInv'
  <2>1. WireTypeOK'
    BY <1>0, <1>4, WireAssumption DEF WireIInv, WireTypeOK, DisconnectCallback, sockets, WireAssumption
  <2> QED
    BY <1>0, <1>4, <2>1 DEF WireIInv, LoopOwnsEntry, EntryAttended, DisconnectCallback
<1>5. ASSUME NEW n \in Node, Crash(n)
      PROVE  WireIInv'
  <2>1. WireTypeOK'
    BY <1>0, <1>5, WireAssumption DEF WireIInv, WireTypeOK, Crash, WireAssumption
  <2>2. LoopOwnsEntry'
    BY <1>0, <1>5 DEF WireIInv, WireTypeOK, LoopOwnsEntry, Attending, Crash
  <2>3. EntryAttended'
    BY <1>0, <1>5 DEF WireIInv, WireTypeOK, EntryAttended, Crash
  <2> QED
    BY <2>1, <2>2, <2>3 DEF WireIInv
<1>6. ASSUME NEW n \in Node, Restart(n)
      PROVE  WireIInv'
  <2>1. WireTypeOK'
    BY <1>0, <1>6 DEF WireIInv, WireTypeOK, Restart, sockets
  <2> QED
    BY <1>0, <1>6, <2>1 DEF WireIInv, LoopOwnsEntry, EntryAttended, Restart
<1>7. CASE UNCHANGED wire
  BY <1>0, <1>7 DEF WireIInv, WireTypeOK, LoopOwnsEntry, EntryAttended, wire, sockets
<1> QED
  BY <1>1, <1>2, <1>3, <1>4, <1>5, <1>6, <1>7 DEF WireNext

THEOREM WireInvariant == WireSpec => []WireIInv
BY WireInitEstablishes, WireStepKeeps, PTL DEF WireSpec

-----------------------------------------------------------------------------
\* The connections, read loops and callbacks of wire/ stay of their types.
THEOREM WireTypeCorrect == WireSpec => []WireTypeOK
<1>1. WireIInv => WireTypeOK
  BY DEF WireIInv
<1> QED
  BY <1>1, WireInvariant, PTL

\* wire.go:25: as long as a device does not call Disconnect it has one connection
\* with a peer, in any interleaving of dials, accepts, failures and restarts.
THEOREM OneConnectionPerPeer == WireSpec => []SingleConnection
<1>1. WireIInv => SingleConnection
  BY DEF WireIInv, LoopOwnsEntry, Attending, SingleConnection, Reads
<1> QED
  BY <1>1, WireInvariant, PTL

\* wire_readloop.go:26: every entry of the map has a read loop that will remove it.
THEOREM EntriesAreAttended == WireSpec => []EntryAttended
<1>1. WireIInv => EntryAttended
  BY DEF WireIInv
<1> QED
  BY <1>1, WireInvariant, PTL

\* The connection map and the read loops tell the same story, for any number of
\* sockets, callbacks and crashes.
THEOREM WireHolds == WireSpec => []WireInv
BY WireTypeCorrect, OneConnectionPerPeer, EntriesAreAttended, PTL DEF WireInv
-----------------------------------------------------------------------------
\* Only the devices the role policy lets connect ever dial or retry.
OnlyDialersDial ==
  /\ \A s \in Socket : ~Free(s) => dialer[s] \in Dialer
  /\ \A n \in Node \ Dialer : ~calling[n] /\ retries[n] = 0 /\ ~remembered[n]

ManagerIInv == WireIInv /\ CentralTypeOK /\ OnlyDialersDial

LEMMA DialersAreNodes == Dialer \subseteq Node /\ Disconnecting \subseteq Node
BY WireAssumption DEF WireAssumption

\* Whoever calls wire.Connect or schedules a call of it is a dialer.
LEMMA NextDrivesWire == ManagerIInv /\ [Next]_vars => [WireNext]_wire
<1> SUFFICES ASSUME ManagerIInv, [Next]_vars
             PROVE  [WireNext]_wire
  OBVIOUS
<1>0. ManagerIInv
  OBVIOUS
<1> USE DialersAreNodes
<1>1. ASSUME NEW s \in Socket, DialStep(s)
      PROVE  WireNext
  BY <1>1 DEF DialStep, CentralDialFails, CentralRegisterDialed, DidConnect, WireNext, SocketStep
<1>2. ASSUME NEW s \in Socket, IncomingStep(s)
      PROVE  WireNext
  BY <1>2 DEF IncomingStep, WireNext, SocketStep
<1>3. ASSUME NEW s \in Socket, NEW n \in Node, LoopStep(s, n)
      PROVE  WireNext
  BY <1>3 DEF LoopStep, CentralStartLoop, CentralCleanupClose, WireNext, SocketStep
<1>4. ASSUME NEW n \in Node, ManagerStep(n)
      PROVE  WireNext \/ UNCHANGED wire
  <2>1. calling[n] \/ retries[n] > 0 => n \in Dialer
    BY <1>0 DEF ManagerIInv, OnlyDialersDial
  <2>2. CASE Discover(n)
    BY <2>2 DEF Discover
  <2>3. CASE AppConnect(n)
    BY <2>1, <2>3 DEF AppConnect, ConnectFor, WireNext
  <2>4. CASE Retry(n)
    BY <2>1, <2>4 DEF Retry, ConnectFor, WireNext
  <2>5. CASE RetryCancelled(n)
    BY <2>5 DEF RetryCancelled
  <2>6. CASE CentralDisconnectCallback(n)
    BY <2>6 DEF CentralDisconnectCallback, WireNext
  <2> QED
    BY <1>4, <2>2, <2>3, <2>4, <2>5, <2>6 DEF ManagerStep
<1>5. ASSUME NEW n \in Node, Cancel(n)
      PROVE  WireNext \/ UNCHANGED wire
  BY <1>5 DEF Cancel, WireNext
<1>6. ASSUME NEW n \in Node, StopScan(n) \/ CentralCrash(n) \/ CentralRestart(n)
      PROVE  WireNext \/ UNCHANGED wire
  BY <1>6 DEF StopScan, CentralCrash, CentralRestart, WireNext
<1>7. CASE UNCHANGED vars
  BY <1>7 DEF vars
<1> QED
  BY <1>1, <1>2, <1>3, <1>4, <1>5, <1>6, <1>7 DEF Next

\* The type invariant of the manager, variable by variable.
LEMMA CentralTypes ==
  CentralTypeOK <=>
    /\ WireTypeOK
    /\ discovered \in [Node -> BOOLEAN] /\ connecting \in [Node -> BOOLEAN]
    /\ calling \in [Node -> BOOLEAN] /\ remembered \in [Node -> BOOLEAN]
    /\ auto \in [Node -> BOOLEAN] /\ marked \in [Node -> BOOLEAN]
    /\ retries \in [Node -> Nat]
    /\ origin \in [Socket -> {"none", "app", "retry"}]
BY DEF CentralTypeOK

LEMMA CentralTypesNext ==
  CentralTypeOK' <=>
    /\ WireTypeOK'
    /\ discovered' \in [Node -> BOOLEAN] /\ connecting' \in [Node -> BOOLEAN]
    /\ calling' \in [Node -> BOOLEAN] /\ remembered' \in [Node -> BOOLEAN]
    /\ auto' \in [Node -> BOOLEAN] /\ marked' \in [Node -> BOOLEAN]
    /\ retries' \in [Node -> Nat]
    /\ origin' \in [Socket -> {"none", "app", "retry"}]
BY DEF CentralTypeOK

\* wire.Connect fails for a dialer, which may make it retry.
LEMMA FailureKeeps ==
  ASSUME ManagerIInv, WireTypeOK', NEW s \in Socket, ConnectFailed(s), dialer[s] \in Dialer,
         \A t \in Socket : ~Free(t)' => dialer[t]' \in Dialer
  PROVE  CentralTypeOK' /\ OnlyDialersDial'
<1> USE DialersAreNodes
<1>1. CentralTypeOK'
  BY CentralTypes, CentralTypesNext DEF ManagerIInv, ConnectFailed, RetriesAfterFailure, Set
<1>2. OnlyDialersDial'
  BY CentralTypes DEF ManagerIInv, OnlyDialersDial, ConnectFailed, RetriesAfterFailure, Set
<1> QED
  BY <1>1, <1>2

\* The disconnect callback of a device.
LEMMA CallbackKeeps ==
  ASSUME ManagerIInv, WireTypeOK', NEW n \in Node, DidDisconnect(n),
         \A t \in Socket : ~Free(t)' => dialer[t]' \in Dialer
  PROVE  CentralTypeOK' /\ OnlyDialersDial'
<1> USE DialersAreNodes
<1>1. CentralTypeOK'
  BY CentralTypes, CentralTypesNext DEF ManagerIInv, DidDisconnect, Reconnect, Set
<1>2. OnlyDialersDial'
  BY CentralTypes DEF ManagerIInv, OnlyDialersDial, DidDisconnect, Reconnect, Set
<1> QED
  BY <1>1, <1>2

\* Sockets are taken by dialers only; nothing else changes who dialled a socket in use.
LEMMA SocketsOfDialers ==
  ASSUME ManagerIInv, [Next]_vars
  PROVE  \A t \in Socket : ~Free(t)' => dialer[t]' \in Dialer
<1> USE DialersAreNodes, OtherNode
<1>0. /\ [WireNext]_wire
      /\ WireTypeOK
      /\ \A t \in Socket : ~Free(t) => dialer[t] \in Dialer
  BY NextDrivesWire DEF ManagerIInv, WireIInv, OnlyDialersDial
<1>1. ASSUME NEW n \in Dialer, NEW s \in Socket, Connect(s, n)
      PROVE  \A t \in Socket : ~Free(t)' => dialer[t]' \in Dialer
  BY <1>0, <1>1 DEF Connect, Free, WireTypeOK
<1>2. ASSUME NEW n \in Disconnecting, Disconnect(n)
      PROVE  \A t \in Socket : ~Free(t)' => dialer[t]' \in Dialer
  BY <1>0, <1>2 DEF Disconnect, CloseEnd, Free, WireTypeOK, sockets
<1>3. ASSUME NEW s \in Socket, SocketStep(s)
      PROVE  \A t \in Socket : ~Free(t)' => dialer[t]' \in Dialer
  <2>1. ~Free(s) /\ dialer' = dialer
    BY <1>3 DEF SocketStep, Dial, DialFails, RegisterDialed, RegisterIncoming, Return, StartLoop,
                ReadFails, CleanupDelete, CleanupClose, Free, sockets
  <2>2. ASSUME NEW t \in Socket, t # s
        PROVE  Free(t) => Free(t)'
    BY <1>0, <1>3, <2>2 DEF SocketStep, Dial, DialFails, RegisterDialed, RegisterIncoming, Return, StartLoop,
                ReadFails, CleanupDelete, CleanupClose, Register, SetLoop, CloseEnd, Free, WireTypeOK, sockets
  <2> QED
    BY <1>0, <2>1, <2>2
<1>4. ASSUME NEW n \in Node, DisconnectCallback(n) \/ Restart(n)
      PROVE  \A t \in Socket : ~Free(t)' => dialer[t]' \in Dialer
  BY <1>0, <1>4 DEF DisconnectCallback, Restart, Free, sockets
<1>5. ASSUME NEW n \in Node, Crash(n)
      PROVE  \A t \in Socket : ~Free(t)' => dialer[t]' \in Dialer
  BY <1>0, <1>5 DEF Crash, Free, WireTypeOK
<1>6. CASE UNCHANGED wire
  BY <1>0, <1>6 DEF wire, sockets, Free
<1> QED
  BY <1>0, <1>1, <1>2, <1>3, <1>4, <1>5, <1>6 DEF WireNext

LEMMA ManagerStepKeeps == ManagerIInv /\ [Next]_vars => ManagerIInv'
<1> SUFFICES ASSUME ManagerIInv, [Next]_vars
             PROVE  ManagerIInv'
  OBVIOUS
<1>0. ManagerIInv
  OBVIOUS
<1> USE DialersAreNodes, OtherNode
<1>1. WireIInv' /\ WireTypeOK'
  BY NextDrivesWire, WireStepKeeps DEF ManagerIInv, WireIInv
<1>2. \A t \in Socket : ~Free(t)' => dialer[t]' \in Dialer
  BY SocketsOfDialers
<1> DEFINE Goal == CentralTypeOK' /\ OnlyDialersDial'
<1>3. ASSUME UNCHANGED manager
      PROVE  Goal
  <2>1. CentralTypeOK'
    BY <1>0, <1>1, <1>3, CentralTypes, CentralTypesNext DEF ManagerIInv, manager
  <2> QED
    BY <1>0, <1>2, <1>3, <2>1 DEF ManagerIInv, OnlyDialersDial, manager
<1>4. ASSUME NEW s \in Socket, ConnectFailed(s), ~Free(s)
      PROVE  Goal
  BY <1>0, <1>1, <1>2, <1>4, FailureKeeps DEF ManagerIInv, OnlyDialersDial
<1>5. ASSUME NEW n \in Node, DidDisconnect(n)
      PROVE  Goal
  BY <1>0, <1>1, <1>2, <1>5, CallbackKeeps
<1>6. ASSUME NEW s \in Socket, DialStep(s)
      PROVE  Goal
  <2>1. CASE Dial(s) /\ UNCHANGED manager
    BY <1>3, <2>1
  <2>2. CASE CentralDialFails(s)
    BY <1>4, <2>2 DEF CentralDialFails, DialFails, Free
  <2>3. CASE CentralRegisterDialed(s)
    BY <1>3, <1>4, <2>3 DEF CentralRegisterDialed, RegisterDialed, Free
  <2>4. CASE DidConnect(s)
    <3>1. CentralTypeOK'
      BY <1>0, <1>1, <2>4, CentralTypes, CentralTypesNext DEF ManagerIInv, DidConnect, Set
    <3> QED
      BY <1>0, <1>2, <2>4, <3>1 DEF ManagerIInv, OnlyDialersDial, DidConnect
  <2> QED
    BY <1>6, <2>1, <2>2, <2>3, <2>4 DEF DialStep
<1>7. ASSUME NEW s \in Socket, NEW n \in Node, LoopStep(s, n)
      PROVE  Goal
  <2>1. CASE CentralStartLoop(s, n)
    <3>1. CentralTypeOK'
      BY <1>0, <1>1, <2>1, CentralTypes, CentralTypesNext DEF ManagerIInv, CentralStartLoop, Set
    <3> QED
      BY <1>0, <1>2, <2>1, <3>1 DEF ManagerIInv, OnlyDialersDial, CentralStartLoop
  <2> QED
    BY <1>3, <1>5, <1>7, <2>1 DEF LoopStep, CentralCleanupClose
<1>8. ASSUME NEW n \in Node, ManagerStep(n)
      PROVE  Goal
  <2>1. CASE Discover(n)
    <3>1. CentralTypeOK'
      BY <1>0, <1>1, <2>1, CentralTypes, CentralTypesNext DEF ManagerIInv, Discover, Set
    <3> QED
      BY <1>0, <1>2, <2>1, <3>1, CentralTypes DEF ManagerIInv, OnlyDialersDial, Discover, Set
  <2>2. CASE AppConnect(n)
    <3>1. n \in Dialer
      BY <1>0, <2>2 DEF ManagerIInv, OnlyDialersDial, AppConnect
    <3>2. CentralTypeOK'
      <4>1. retries' \in [Node -> Nat] /\ connecting' \in [Node -> BOOLEAN]
        <5>1. CASE connections[n] = NoSocket
          BY <1>0, <2>2, <5>1, CentralTypes DEF ManagerIInv, AppConnect
        <5>2. CASE connections[n] # NoSocket
          <6>1. /\ connecting' = [connecting EXCEPT ![n] = FALSE]
                /\ retries' = RetriesAfterFailure(n, "app")
            BY <2>2, <5>2 DEF AppConnect, Set
          <6> QED
            BY <1>0, <6>1, CentralTypes DEF ManagerIInv, RetriesAfterFailure, Set
        <5> QED
          BY <5>1, <5>2
      <4>2. origin' \in [Socket -> {"none", "app", "retry"}]
        BY <1>0, <2>2, CentralTypes DEF ManagerIInv, AppConnect, ConnectFor
      <4> QED
        BY <1>0, <1>1, <2>2, <4>1, <4>2, CentralTypes, CentralTypesNext DEF ManagerIInv, AppConnect, Set
    <3> QED
      BY <1>0, <1>2, <2>2, <3>1, <3>2, CentralTypes
      DEF ManagerIInv, OnlyDialersDial, AppConnect, RetriesAfterFailure, Set
  <2>3. CASE Retry(n) \/ RetryCancelled(n)
    <3>1. n \in Dialer
      BY <1>0, <2>3 DEF ManagerIInv, OnlyDialersDial, Retry, RetryCancelled
    <3>2. CentralTypeOK'
      BY <1>0, <1>1, <2>3, CentralTypes, CentralTypesNext
      DEF ManagerIInv, Retry, RetryCancelled, ConnectFor, Set
    <3> QED
      BY <1>0, <1>2, <2>3, <3>1, <3>2, CentralTypes
      DEF ManagerIInv, OnlyDialersDial, Retry, RetryCancelled, Set
  <2>4. CASE CentralDisconnectCallback(n)
    BY <1>5, <2>4 DEF CentralDisconnectCallback
  <2> QED
    BY <1>8, <2>1, <2>2, <2>3, <2>4 DEF ManagerStep
<1>9. ASSUME NEW n \in Node, Cancel(n) \/ StopScan(n)
      PROVE  Goal
  <2>1. CentralTypeOK'
    BY <1>0, <1>1, <1>9, CentralTypes, CentralTypesNext DEF ManagerIInv, Cancel, StopScan, Set
  <2> QED
    BY <1>0, <1>2, <1>9, <2>1, CentralTypes DEF ManagerIInv, OnlyDialersDial, Cancel, StopScan, Set
<1>10. ASSUME NEW n \in Node, CentralCrash(n)
       PROVE  Goal
  <2>1. CentralTypeOK'
    BY <1>0, <1>1, <1>10, CentralTypes, CentralTypesNext DEF ManagerIInv, CentralCrash, Set
  <2> QED
    BY <1>0, <1>2, <1>10, <2>1, CentralTypes DEF ManagerIInv, OnlyDialersDial, CentralCrash, Set
<1>11. Goal
  BY <1>3, <1>6, <1>7, <1>8, <1>9, <1>10 DEF Next, IncomingStep, CentralRestart, vars
<1> QED
  BY <1>1, <1>11 DEF ManagerIInv

LEMMA ManagerInit == Init => ManagerIInv
<1> SUFFICES ASSUME Init
             PROVE  ManagerIInv
  OBVIOUS
<1>1. WireIInv
  BY WireInitEstablishes DEF Init
<1>2. CentralTypeOK
  BY <1>1, CentralTypes DEF Init, WireIInv
<1>3. OnlyDialersDial
  BY DEF Init, WireInit, OnlyDialersDial, Free
<1> QED
  BY <1>1, <1>2, <1>3 DEF ManagerIInv

THEOREM ManagerInvariant == Spec => []ManagerIInv
BY ManagerInit, ManagerStepKeeps, PTL DEF Spec

\* cb_central_manager.go over wire_connection.go: every behaviour of the manager, of its
\* retries and of its callbacks is a behaviour of the connections; in particular nothing
\* the manager starts on its own ever dials for a device the role policy keeps waiting.
THEOREM ManagerDrivesWire == Spec => WireSpec
<1>1. Init => WireInit
  BY DEF Init
<1> QED
  BY <1>1, ManagerInvariant, NextDrivesWire, PTL DEF Spec, WireSpec

\* The connection map and the read loops tell the same story under the manager too.
THEOREM CentralWireHolds == Spec => []WireInv
BY ManagerDrivesWire, WireHolds, PTL

-----------------------------------------------------------------------------
\* The socket that n dials, or reads from after it dialled it.
Busy(s, n) == dialer[s] = n /\ (dial[s] \in {"delay", "dialed"} \/ loop[s][n] # "none")

DialBeforeLoop ==
  \A s \in Socket : dial[s] \in {"delay", "dialed"} => loop[s][dialer[s]] = "none"

\* One call of wire.Connect is due, under way, or has become a connection.
OneToken(n) ==
  /\ \A s, t \in Socket : Busy(s, n) /\ Busy(t, n) => s = t
  /\ (\E s \in Socket : Busy(s, n)) => retries[n] = 0 /\ ~calling[n]
  /\ calling[n] => retries[n] = 0
  /\ retries[n] <= 1

\* Nothing is under way for a peer that was not discovered.
NothingBefore(n) ==
  /\ ~remembered[n] /\ ~calling[n] /\ retries[n] = 0 /\ callbacks[n] = 0
  /\ \A s \in Socket : ~Busy(s, n)

\* A cancelled connection is not remembered when its callback comes.
TokenOf(n) ==
  /\ OneToken(n)
  /\ ~discovered[n] => NothingBefore(n)
  /\ callbacks[n] > 0 => ~remembered[n]

TokenIInv == ManagerIInv /\ DialBeforeLoop /\ \A n \in Dialer : TokenOf(n)

\* A step that starts nothing.
LEMMA TokenStays ==
  ASSUME NEW n \in Node, TokenOf(n), \A t \in Socket : Busy(t, n)' => Busy(t, n),
         retries'[n] = retries[n], calling'[n] = calling[n], remembered'[n] => remembered[n],
         discovered[n] => discovered'[n], ~discovered[n] => callbacks'[n] = callbacks[n],
         callbacks'[n] > 0 => ~remembered'[n]
  PROVE  TokenOf(n)'
BY DEF TokenOf, OneToken, NothingBefore

\* A socket has been taken.
LEMMA TokenTaken ==
  ASSUME NEW n \in Node, NEW s \in Socket, \A t \in Socket : Busy(t, n)' => t = s,
         retries'[n] = 0, ~calling'[n], discovered'[n], callbacks'[n] > 0 => ~remembered'[n]
  PROVE  TokenOf(n)'
BY DEF TokenOf, OneToken

\* A socket has been given back, and a retry may be due for it.
LEMMA TokenPassed ==
  ASSUME NEW n \in Node, \A t \in Socket : ~Busy(t, n)',
         retries'[n] = 0 \/ (retries'[n] = 1 /\ ~calling'[n]),
         discovered'[n], callbacks'[n] > 0 => ~remembered'[n]
  PROVE  TokenOf(n)'
BY DEF TokenOf, OneToken

LEMMA DialPrecedesLoop ==
  ASSUME ManagerIInv, DialBeforeLoop, [Next]_vars
  PROVE  DialBeforeLoop'
<1> USE DialersAreNodes, OtherNode
<1>0. /\ [WireNext]_wire
      /\ WireTypeOK
      /\ DialBeforeLoop
  BY NextDrivesWire DEF ManagerIInv, WireIInv
<1>1. ASSUME NEW n \in Dialer, NEW s \in Socket, Connect(s, n)
      PROVE  DialBeforeLoop'
  BY <1>0, <1>1 DEF Connect, NextFree, Free, DialBeforeLoop, WireTypeOK
<1>2. ASSUME NEW s \in Socket, SocketStep(s)
      PROVE  DialBeforeLoop'
  BY <1>0, <1>2 DEF SocketStep, Dial, DialFails, RegisterDialed, RegisterIncoming, Return, StartLoop,
       ReadFails, CleanupDelete, CleanupClose, Register, SetLoop, DialBeforeLoop, WireTypeOK, sockets
<1>3. ASSUME NEW n \in Node, Crash(n)
      PROVE  DialBeforeLoop'
  BY <1>0, <1>3 DEF Crash, DialBeforeLoop, WireTypeOK
<1> QED
  BY <1>0, <1>1, <1>2, <1>3
  DEF WireNext, Disconnect, DisconnectCallback, Restart, DialBeforeLoop, wire, sockets

\* The steps of a socket take no other one.
LEMMA SocketStepTakesNone ==
  ASSUME ManagerIInv, NEW n \in Dialer, \A m \in Dialer : m = n,
         NEW s \in Socket, SocketStep(s), NEW t \in Socket
  PROVE  Busy(t, n)' => Busy(t, n)
<1> USE DialersAreNodes, OtherNode
<1>0. WireTypeOK /\ (~Free(s) => dialer[s] = n)
  BY DEF ManagerIInv, WireIInv, OnlyDialersDial
<1>1. dialer' = dialer
  BY DEF SocketStep, Dial, DialFails, RegisterDialed, RegisterIncoming, Return, StartLoop,
         ReadFails, CleanupDelete, CleanupClose, sockets
<1>2. CASE RegisterIncoming(s)
  <2>1. dialer[s] = n /\ Other(n) # n /\ dial' = dial
    BY <1>0, <1>2 DEF RegisterIncoming, Free
  <2>2. loop' = loop \/ loop' = [loop EXCEPT ![s][Other(n)] = "registered"]
    BY <1>2, <2>1 DEF RegisterIncoming, Register, SetLoop
  <2>3. loop'[t][n] = loop[t][n]
    BY <1>0, <2>1, <2>2 DEF WireTypeOK
  <2> QED
    BY <1>1, <2>1, <2>3 DEF Busy
<1>3. CASE Dial(s) \/ DialFails(s) \/ Return(s)
  BY <1>0, <1>3 DEF Dial, DialFails, Return, Busy, WireTypeOK
<1>4. CASE RegisterDialed(s)
  <2>1. /\ dial[s] = "dialed"
        /\ dial' = [dial EXCEPT ![s] = IF MayRegister(dialer[s]) THEN "returning" ELSE "none"]
        /\ loop' = loop \/ loop' = [loop EXCEPT ![s][dialer[s]] = "registered"]
    BY <1>4 DEF RegisterDialed, Register, SetLoop
  <2>2. CASE t = s
    BY <1>1, <2>1, <2>2 DEF Busy
  <2>3. CASE t # s
    <3>1. dial'[t] = dial[t] /\ loop'[t] = loop[t]
      BY <1>0, <2>1, <2>3 DEF WireTypeOK
    <3> QED
      BY <1>1, <3>1 DEF Busy
  <2> QED
    BY <2>2, <2>3
<1>5. ASSUME NEW m \in Node, StartLoop(s, m) \/ ReadFails(s, m) \/ CleanupDelete(s, m) \/ CleanupClose(s, m)
      PROVE  Busy(t, n)' => Busy(t, n)
  <2>1. dial' = dial /\ loop[s][m] # "none" /\ \E where : loop' = [loop EXCEPT ![s][m] = where]
    BY <1>5 DEF StartLoop, ReadFails, CleanupDelete, CleanupClose, SetLoop, sockets
  <2>2. loop'[t][n] # "none" => loop[t][n] # "none"
    BY <1>0, <2>1 DEF WireTypeOK
  <2> QED
    BY <1>1, <2>1, <2>2 DEF Busy
<1> QED
  BY <1>2, <1>3, <1>4, <1>5 DEF SocketStep

\* wire.Connect fails for the socket s: its token is a retry now, or gone.
LEMMA FailurePassesToken ==
  ASSUME TokenIInv, NEW n \in Dialer, \A m \in Dialer : m = n,
         NEW s \in Socket,
         DialFails(s) \/ (RegisterDialed(s) /\ ~MayRegister(dialer[s])),
         ConnectFailed(s)
  PROVE  TokenOf(n)'
<1> USE DialersAreNodes
<1>0. /\ WireTypeOK /\ CentralTypeOK /\ TokenOf(n) /\ dialer[s] = n
      /\ dial[s] \in {"delay", "dialed"} /\ loop[s][n] = "none"
  BY DEF TokenIInv, ManagerIInv, WireIInv, OnlyDialersDial, Free, DialBeforeLoop, DialFails, RegisterDialed
<1>1. Busy(s, n)
  BY <1>0 DEF Busy
<1>2. /\ discovered[n] /\ retries[n] = 0 /\ ~calling[n]
      /\ \A t \in Socket : Busy(t, n) => t = s
  BY <1>0, <1>1 DEF TokenOf, OneToken, NothingBefore
<1>3. ~Busy(s, n)'
  BY <1>0 DEF DialFails, RegisterDialed, Register, CloseEnd, Busy, WireTypeOK
<1>4. \A t \in Socket : ~Busy(t, n)'
  BY <1>2, <1>3, SocketStepTakesNone DEF TokenIInv, SocketStep
<1>5. /\ retries'[n] = 0 \/ (retries'[n] = 1 /\ ~calling'[n])
      /\ discovered' = discovered /\ remembered' = remembered
  BY <1>0, <1>2, CentralTypes DEF ConnectFailed, RetriesAfterFailure, Set
<1>6. callbacks' = callbacks
  BY DEF DialFails, RegisterDialed
<1> QED
  BY <1>0, <1>2, <1>4, <1>5, <1>6, TokenPassed DEF TokenOf

LEMMA TokenStepKeeps ==
  ASSUME TokenIInv, [Next]_vars, NEW n \in Dialer, \A m \in Dialer : m = n
  PROVE  TokenOf(n)'
<1> USE DialersAreNodes, OtherNode
<1>0. /\ ManagerIInv /\ WireTypeOK /\ CentralTypeOK /\ DialBeforeLoop /\ TokenOf(n)
      /\ \A m \in Node : m # n => ~calling[m] /\ retries[m] = 0 /\ ~remembered[m]
      /\ \A s \in Socket : ~Free(s) => dialer[s] = n
      /\ callbacks[n] \in Nat
  <2>1. ManagerIInv /\ WireTypeOK /\ CentralTypeOK /\ OnlyDialersDial /\ DialBeforeLoop /\ TokenOf(n)
    BY DEF TokenIInv, ManagerIInv, WireIInv
  <2>2. callbacks[n] \in Nat
    BY <2>1, WireAssumption DEF WireTypeOK, WireAssumption
  <2> QED
    BY <2>1, <2>2 DEF OnlyDialersDial
<1> DEFINE Same(t) == Busy(t, n)' => Busy(t, n)
<1>1. ASSUME NEW s \in Socket, DialStep(s)
      PROVE  TokenOf(n)'
  <2>1. \A t \in Socket : Same(t)
    BY <1>0, <1>1, SocketStepTakesNone
    DEF DialStep, CentralDialFails, CentralRegisterDialed, DidConnect, SocketStep
  <2>2. CASE CentralDialFails(s) \/ (CentralRegisterDialed(s) /\ ~MayRegister(dialer[s]))
    <3>1. /\ DialFails(s) \/ (RegisterDialed(s) /\ ~MayRegister(dialer[s]))
          /\ ConnectFailed(s)
      BY <2>2 DEF CentralDialFails, CentralRegisterDialed
    <3> QED
      BY <3>1, FailurePassesToken
  <2>3. CASE (Dial(s) /\ UNCHANGED manager) \/ (CentralRegisterDialed(s) /\ MayRegister(dialer[s])) \/ DidConnect(s)
    <3>1. UNCHANGED <<retries, calling, remembered, discovered, callbacks>>
      BY <2>3 DEF CentralRegisterDialed, RegisterDialed, DidConnect, Return, Dial, manager
    <3> QED
      BY <1>0, <2>1, <3>1, TokenStays DEF TokenOf
  <2> QED
    BY <1>1, <2>2, <2>3 DEF DialStep
<1>2. ASSUME NEW s \in Socket, IncomingStep(s)
      PROVE  TokenOf(n)'
  <2>1. \A t \in Socket : Same(t)
    BY <1>0, <1>2, SocketStepTakesNone DEF IncomingStep, SocketStep
  <2>2. UNCHANGED <<retries, calling, remembered, discovered, callbacks>>
    BY <1>2 DEF IncomingStep, RegisterIncoming, manager
  <2> QED
    BY <1>0, <2>1, <2>2, TokenStays DEF TokenOf
<1>3. ASSUME NEW s \in Socket, NEW m \in Node, LoopStep(s, m)
      PROVE  TokenOf(n)'
  <2>1. \A t \in Socket : Same(t)
    BY <1>0, <1>3, SocketStepTakesNone DEF LoopStep, CentralStartLoop, CentralCleanupClose, SocketStep
  <2>2. dialer[s] = n
    BY <1>0, <1>3 DEF LoopStep, CentralStartLoop, StartLoop, ReadFails, CleanupDelete,
                      CentralCleanupClose, CleanupClose, Free
  <2>3. callbacks' = callbacks
    BY <1>3 DEF LoopStep, CentralStartLoop, StartLoop, ReadFails, CleanupDelete,
                CentralCleanupClose, CleanupClose
  <2>4. CASE CentralStartLoop(s, m)
    <3>1. UNCHANGED <<retries, calling, remembered>> /\ (discovered[n] => discovered'[n])
      BY <1>0, <2>4, CentralTypes DEF CentralStartLoop, Set
    <3> QED
      BY <1>0, <2>1, <2>3, <3>1, TokenStays DEF TokenOf
  <2>5. CASE (ReadFails(s, m) \/ CleanupDelete(s, m)) /\ UNCHANGED manager
    BY <1>0, <2>1, <2>3, <2>5, TokenStays DEF TokenOf, manager
  <2>6. CASE CentralCleanupClose(s, m) /\ m = n
    <3>1. Busy(s, n)
      BY <2>2, <2>6 DEF CentralCleanupClose, CleanupClose, Busy
    <3>2. /\ discovered[n] /\ retries[n] = 0 /\ ~calling[n]
          /\ \A t \in Socket : Busy(t, n) => t = s
      BY <1>0, <3>1 DEF TokenOf, OneToken, NothingBefore
    <3>3. ~Busy(s, n)'
      <4>1. loop[s][n] = "closing" /\ dialer' = dialer /\ dial' = dial /\ loop'[s][n] = "none"
        BY <1>0, <2>6 DEF CentralCleanupClose, CleanupClose, SetLoop, WireTypeOK, sockets
      <4>2. dial[s] \notin {"delay", "dialed"}
        BY <1>0, <2>2, <4>1 DEF DialBeforeLoop
      <4> QED
        BY <4>1, <4>2 DEF Busy
    <3>4. /\ retries'[n] \in {0, 1} /\ UNCHANGED <<calling, remembered, discovered>>
      BY <1>0, <2>6, <3>2, CentralTypes DEF CentralCleanupClose, DidDisconnect, Reconnect, Set
    <3> QED
      BY <1>0, <2>1, <2>3, <3>2, <3>3, <3>4, TokenPassed DEF TokenOf
  <2>7. CASE CentralCleanupClose(s, m) /\ m # n
    <3>1. retries' = retries /\ UNCHANGED <<calling, remembered, discovered>>
      BY <1>0, <2>7 DEF CentralCleanupClose, DidDisconnect, Reconnect
    <3> QED
      BY <1>0, <2>1, <2>3, <3>1, TokenStays DEF TokenOf
  <2> QED
    BY <1>3, <2>4, <2>5, <2>6, <2>7 DEF LoopStep
<1>4. ASSUME NEW m \in Node, ManagerStep(m)
      PROVE  TokenOf(n)'
  <2>1. CASE m # n /\ Discover(m)
    <3>1. /\ UNCHANGED <<dialer, dial, loop, callbacks, retries>>
          /\ m \notin Dialer
      BY <2>1 DEF Discover, wire, sockets
    <3>2. /\ UNCHANGED <<calling, remembered>>
          /\ discovered[n] => discovered'[n]
      BY <1>0, <2>1, <3>1, CentralTypes DEF Discover, Set
    <3>3. \A t \in Socket : Same(t)
      BY <3>1 DEF Busy
    <3> QED
      BY <1>0, <3>1, <3>2, <3>3, TokenStays DEF TokenOf
  <2>2. CASE m # n /\ (AppConnect(m) \/ Retry(m) \/ RetryCancelled(m))
    <3>1. calling[m] \/ retries[m] > 0
      BY <2>2 DEF AppConnect, Retry, RetryCancelled
    <3> QED
      BY <1>0, <2>2, <3>1
  <2>3. CASE m # n /\ CentralDisconnectCallback(m)
    <3>1. /\ UNCHANGED <<dialer, dial, loop, retries, calling, remembered, discovered>>
          /\ callbacks'[n] = callbacks[n]
      BY <1>0, <2>3 DEF CentralDisconnectCallback, DisconnectCallback, DidDisconnect, Reconnect, WireTypeOK, sockets
    <3>2. \A t \in Socket : Same(t)
      BY <3>1 DEF Busy
    <3> QED
      BY <1>0, <3>1, <3>2, TokenStays DEF TokenOf
  <2>4. CASE Discover(n)
    <3>1. NothingBefore(n)
      BY <1>0, <2>4 DEF Discover, TokenOf
    <3>2. UNCHANGED <<dialer, dial, loop, callbacks, retries>> /\ discovered'[n]
      BY <1>0, <2>4, CentralTypes DEF Discover, Set, wire, sockets
    <3>3. \A t \in Socket : ~Busy(t, n)'
      BY <3>1, <3>2 DEF NothingBefore, Busy
    <3> QED
      BY <3>1, <3>2, <3>3, TokenPassed DEF NothingBefore
  <2>5. CASE AppConnect(n)
    <3>1. /\ retries[n] = 0 /\ ~calling'[n] /\ discovered'[n] /\ \A t \in Socket : ~Busy(t, n)
          /\ UNCHANGED <<remembered, callbacks>>
      BY <1>0, <2>5, CentralTypes
      DEF AppConnect, ConnectFor, Connect, wire, Set, TokenOf, OneToken, NothingBefore
    <3>2. CASE connections[n] = NoSocket
      <4>1. PICK s \in Socket : Connect(s, n)
        BY <2>5, <3>2 DEF AppConnect, ConnectFor
      <4>2. \A t \in Socket : Busy(t, n)' => t = s
        BY <1>0, <3>1, <4>1 DEF Connect, Busy, WireTypeOK
      <4>3. retries' = retries
        BY <2>5, <3>2 DEF AppConnect
      <4> QED
        BY <1>0, <3>1, <4>2, <4>3, TokenTaken DEF TokenOf
    <3>3. CASE connections[n] # NoSocket
      <4>1. UNCHANGED <<dialer, dial, loop>> /\ retries' = RetriesAfterFailure(n, "app")
        BY <2>5, <3>3 DEF AppConnect, wire, sockets
      <4>2. \A t \in Socket : ~Busy(t, n)'
        BY <3>1, <4>1 DEF Busy
      <4>3. retries'[n] \in {0, 1}
        BY <1>0, <3>1, <4>1, CentralTypes DEF RetriesAfterFailure, Set
      <4> QED
        BY <1>0, <3>1, <4>2, <4>3, TokenPassed DEF TokenOf
    <3> QED
      BY <3>2, <3>3
  <2>6. CASE Retry(n)
    <3>1. /\ retries[n] > 0 /\ ~calling[n] /\ discovered[n] /\ \A t \in Socket : ~Busy(t, n)
      BY <1>0, <2>6, CentralTypes DEF Retry, TokenOf, OneToken, NothingBefore
    <3>2. /\ retries'[n] = 0 /\ UNCHANGED <<calling, discovered, remembered, callbacks>>
      BY <1>0, <2>6, CentralTypes DEF Retry, ConnectFor, Connect, Set, TokenOf, OneToken
    <3>3. PICK s \in Socket : Connect(s, n)
      BY <2>6 DEF Retry, ConnectFor
    <3>4. \A t \in Socket : Busy(t, n)' => t = s
      BY <1>0, <3>1, <3>3 DEF Connect, Busy, WireTypeOK
    <3> QED
      BY <1>0, <3>1, <3>2, <3>4, TokenTaken DEF TokenOf
  <2>7. CASE RetryCancelled(n)
    <3>1. /\ retries[n] > 0 /\ ~calling[n] /\ discovered[n] /\ \A t \in Socket : ~Busy(t, n)
      BY <1>0, <2>7, CentralTypes DEF RetryCancelled, TokenOf, OneToken, NothingBefore
    <3>2. /\ retries'[n] = 0
          /\ UNCHANGED <<dialer, dial, loop, calling, discovered, remembered, callbacks>>
      BY <1>0, <2>7, CentralTypes DEF RetryCancelled, Set, TokenOf, OneToken, wire, sockets
    <3>3. \A t \in Socket : ~Busy(t, n)'
      BY <3>1, <3>2 DEF Busy
    <3> QED
      BY <1>0, <3>1, <3>2, <3>3, TokenPassed DEF TokenOf
  <2>8. CASE CentralDisconnectCallback(n)
    <3>1. callbacks[n] > 0 /\ ~remembered[n] /\ discovered[n]
      BY <1>0, <2>8 DEF CentralDisconnectCallback, DisconnectCallback, TokenOf, NothingBefore
    <3>2. /\ UNCHANGED <<dialer, dial, loop, retries, calling, remembered, discovered>>
      BY <2>8, <3>1
      DEF CentralDisconnectCallback, DisconnectCallback, DidDisconnect, Reconnect, sockets
    <3>3. \A t \in Socket : Same(t)
      BY <3>2 DEF Busy
    <3> QED
      BY <1>0, <3>1, <3>2, <3>3, TokenStays
  <2> QED
    BY <1>4, <2>1, <2>2, <2>3, <2>4, <2>5, <2>6, <2>7, <2>8 DEF ManagerStep
<1>5. ASSUME NEW m \in Node, Cancel(m)
      PROVE  TokenOf(n)'
  <2>1. m = n /\ discovered[n]
    BY <1>0, <1>5 DEF Cancel, TokenOf, NothingBefore
  <2>2. /\ UNCHANGED <<dialer, dial, loop, retries, calling, discovered>>
        /\ ~remembered'[n]
    BY <1>0, <1>5, <2>1, CentralTypes DEF Cancel, Disconnect, Set, wire, sockets
  <2>3. \A t \in Socket : Same(t)
    BY <2>2 DEF Busy
  <2> QED
    BY <1>0, <2>1, <2>2, <2>3, TokenStays
<1>6. ASSUME NEW m \in Node, StopScan(m) \/ CentralRestart(m)
      PROVE  TokenOf(n)'
  <2>1. UNCHANGED <<dialer, dial, loop, retries, calling, discovered, remembered, callbacks>>
    BY <1>6 DEF StopScan, CentralRestart, Restart, manager, wire, sockets
  <2>2. \A t \in Socket : Same(t)
    BY <2>1 DEF Busy
  <2> QED
    BY <1>0, <2>1, <2>2, TokenStays DEF TokenOf
<1>7. ASSUME NEW m \in Node, CentralCrash(m)
      PROVE  TokenOf(n)'
  <2>1. CASE m = n
    <3>1. /\ ~calling'[n] /\ retries'[n] = 0 /\ ~remembered'[n] /\ callbacks'[n] = 0
      BY <1>0, <1>7, <2>1, CentralTypes DEF CentralCrash, Crash, Set, WireTypeOK
    <3>2. \A t \in Socket : ~Busy(t, n)'
      BY <1>0, <1>7, <2>1 DEF CentralCrash, Crash, Busy, WireTypeOK
    <3> QED
      BY <3>1, <3>2 DEF TokenOf, OneToken, NothingBefore
  <2>2. CASE m # n
    <3>1. /\ calling'[n] = calling[n] /\ retries'[n] = retries[n] /\ remembered'[n] = remembered[n]
          /\ discovered'[n] = discovered[n] /\ callbacks'[n] = callbacks[n]
      BY <1>0, <1>7, <2>2, CentralTypes DEF CentralCrash, Crash, Set, WireTypeOK
    <3>2. \A t \in Socket : Same(t)
      BY <1>0, <1>7, <2>2 DEF CentralCrash, Crash, Busy, WireTypeOK
    <3> QED
      BY <1>0, <3>1, <3>2, TokenStays DEF TokenOf
  <2> QED
    BY <2>1, <2>2
<1>8. CASE UNCHANGED vars
  <2>1. UNCHANGED <<dialer, dial, loop, retries, calling, discovered, remembered, callbacks>>
    BY <1>8 DEF vars, manager, wire, sockets
  <2>2. \A t \in Socket : Same(t)
    BY <2>1 DEF Busy
  <2> QED
    BY <1>0, <2>1, <2>2, TokenStays DEF TokenOf
<1> QED
  BY <1>1, <1>2, <1>3, <1>4, <1>5, <1>6, <1>7, <1>8 DEF Next

LEMMA TokenInit == Init => TokenIInv
<1> SUFFICES ASSUME Init
             PROVE  TokenIInv
  OBVIOUS
<1> USE DialersAreNodes
<1>1. ManagerIInv
  BY ManagerInit
<1>2. DialBeforeLoop
  BY DEF Init, WireInit, DialBeforeLoop
<1>3. ASSUME NEW n \in Dialer
      PROVE  TokenOf(n)
  BY OtherNode DEF Init, WireInit, TokenOf, OneToken, NothingBefore, Busy
<1> QED
  BY <1>1, <1>2, <1>3 DEF TokenIInv

\* The calls of wire.Connect that are due or under way are one at most.
LEMMA TokenBoundsAttempts ==
  ASSUME CentralTypeOK, NEW n \in Node, TokenOf(n)
  PROVE  Attempts(n) <= 1
<1> DEFINE Dialing == {s \in Socket : dialer[s] = n /\ dial[s] \in {"delay", "dialed"}}
<1>1. /\ retries[n] \in {0, 1} /\ (calling[n] => retries[n] = 0)
      /\ \A s \in Dialing : retries[n] = 0 /\ ~calling[n]
      /\ \A s, t \in Dialing : s = t
  BY CentralTypes DEF TokenOf, OneToken, Busy
<1>2. CASE Dialing = {}
  <2>1. Cardinality(Dialing) = 0
    BY <1>2, FS_EmptySet
  <2> QED
    BY <1>1, <2>1 DEF Attempts
<1>3. CASE Dialing # {}
  <2>1. PICK s \in Dialing : TRUE
    BY <1>3
  <2>2. Dialing = {s}
    BY <1>1, <2>1
  <2>3. Cardinality(Dialing) = 1
    BY <2>2, FS_Singleton
  <2> QED
    BY <1>1, <2>1, <2>3 DEF Attempts
<1> QED
  BY <1>2, <1>3

\* cb_central_manager.go: the manager's marks stay of their types.
THEOREM CentralTypeCorrect == Spec => []CentralTypeOK
<1>1. ManagerIInv => CentralTypeOK
  BY DEF ManagerIInv
<1> QED
  BY <1>1, ManagerInvariant, PTL

\* cb_central_manager.go: where the role policy lets one of the two devices connect, as it
\* does whenever their IDs are advertised, failures, late callbacks, cancellations and
\* restarts never leave that device with two attempts to connect under way.
THEOREM CentralHolds ==
  ASSUME \A m, n \in Dialer : m = n
  PROVE  Spec => []CentralInv
<1>1. Init => TokenIInv
  BY TokenInit
<1>2. TokenIInv /\ [Next]_vars => TokenIInv'
  <2> SUFFICES ASSUME TokenIInv, [Next]_vars
               PROVE  TokenIInv'
    OBVIOUS
  <2>1. ManagerIInv' /\ DialBeforeLoop'
    BY ManagerStepKeeps, DialPrecedesLoop DEF TokenIInv
  <2>2. \A n \in Dialer : TokenOf(n)'
    BY TokenStepKeeps
  <2> QED
    BY <2>1, <2>2 DEF TokenIInv
<1>3. TokenIInv => CentralInv
  BY TokenBoundsAttempts, DialersAreNodes DEF TokenIInv, ManagerIInv, CentralInv, OneReconnector
<1> QED
  BY <1>1, <1>2, <1>3, PTL DEF Spec
=============================================================================
