---------------------------- MODULE AndroidCentral ----------------------------
(* An Android phone as a central of several peers: the scan callback, the    *)
(* slots of connectedGatts, ConnectGatt with its dialling goroutine, and     *)
(* attemptReconnect (android/scan_callback.go, android/gatt_callback.go,     *)
(* kotlin/bluetooth_device.go, kotlin/bluetooth_gatt.go).  The wire below is *)
(* reduced to its entry for a peer and to read loops that end; WireConnection*)
(* has its detail.  The wire has one disconnect callback, which every        *)
(* ConnectGatt replaces.  Scan results are heard once per peer and run of    *)
(* the application, so that a peer has at most one BluetoothGatt.  The       *)
(* handshake marks that a disconnect clears are in ProfileSession.           *)
EXTENDS Naturals

CONSTANTS Peer,
          Dials,        \* peers whose advertised device ID is smaller than ours
          Anonymous,    \* peers that advertise no device ID: both sides dial
          MaxDrops,     \* bound on connections the peers lose
          None

ASSUME CentralAssumption ==
    /\ Dials \subseteq Peer /\ Anonymous \subseteq Peer
    /\ Dials \cap Anonymous = {}
    /\ None \notin Peer
    /\ MaxDrops \in Nat

\* Where a goroutine that calls wire.Connect is: before the sleep of
\* attemptReconnect, before Connect, in Connect's delay, and before the report.
Stage == {"asleep", "begin", "delay", "up", "refused"}

VARIABLES
    autoConnect,  \* argument of every ConnectGatt; the application passes FALSE
    discovered,   \* peers in the map of that name
    scan,         \* how far OnScanResult and connectToDevice are with a peer
    slot,         \* connectedGatts: "none", "reserved" (nil) or "gatt"
    connected,    \* the identity manager's marks
    served,       \* peers the GATT server has already reported as connected
    callbackFor,  \* whose ConnectGatt set the wire's disconnect callback last
    dialers,      \* goroutines that call wire.Connect, counted by peer and stage
    link,         \* the wire's entry: "none", "ours", "theirs" or "dead"
    ended,        \* read loops that removed the entry and will call the callback
    discovering,  \* peers for which DiscoverServices runs
    subscribed,   \* peers that hold our subscriptions on the present connection
    drops         \* connections lost so far

vars == <<autoConnect, discovered, scan, slot, connected, served, callbackFor, dialers, link,
          ended, discovering, subscribed, drops>>

app == <<autoConnect, discovered, scan, slot, connected, served>>

Init ==
    /\ autoConnect \in BOOLEAN
    /\ discovered = {}
    /\ scan = [p \in Peer |-> "idle"]
    /\ slot = [p \in Peer |-> "none"]
    /\ connected = {}
    /\ served = {}
    /\ callbackFor = None
    /\ dialers = [p \in Peer |-> [s \in Stage |-> 0]]
    /\ link = [p \in Peer |-> "none"]
    /\ ended = [p \in Peer |-> 0]
    /\ discovering = {}
    /\ subscribed = {}
    /\ drops = 0

Spawn(p, s) == dialers' = [dialers EXCEPT ![p][s] = @ + 1]
Move(p, s, t) == dialers' = [dialers EXCEPT ![p][s] = @ - 1, ![p][t] = @ + 1]

------------------------------------------------------------------------------
(* The application finds a peer and connects to it *)

\* OnScanResult under the lock; only a peer it does not know yet counts.
OnScanResult(p) ==
    /\ p \notin discovered
    /\ discovered' = discovered \cup {p}
    /\ scan' = [scan EXCEPT ![p] = IF p \in Dials \cup Anonymous /\ p \notin connected
                                     THEN "decided" ELSE "over"]
    /\ UNCHANGED <<autoConnect, slot, connected, served, callbackFor, dialers, link, ended,
                   discovering, subscribed, drops>>

\* connectToDevice reserves the slot, if there is none.
Reserve(p) ==
    /\ scan[p] = "decided"
    /\ IF slot[p] = "none"
         THEN /\ slot' = [slot EXCEPT ![p] = "reserved"]
              /\ scan' = [scan EXCEPT ![p] = "reserved"]
         ELSE /\ scan' = [scan EXCEPT ![p] = "over"]
              /\ UNCHANGED slot
    /\ UNCHANGED <<autoConnect, discovered, connected, served, callbackFor, dialers, link, ended,
                   discovering, subscribed, drops>>

\* ConnectGatt replaces the wire's callback and starts a goroutine.
ConnectGatt(p) ==
    /\ scan[p] = "reserved"
    /\ callbackFor' = p
    /\ Spawn(p, "begin")
    /\ scan' = [scan EXCEPT ![p] = "called"]
    /\ UNCHANGED <<autoConnect, discovered, slot, connected, served, link, ended, discovering,
                   subscribed, drops>>

StoreGatt(p) ==
    /\ scan[p] = "called"
    /\ slot' = [slot EXCEPT ![p] = "gatt"]
    /\ scan' = [scan EXCEPT ![p] = "over"]
    /\ UNCHANGED <<autoConnect, discovered, connected, served, callbackFor, dialers, link, ended,
                   discovering, subscribed, drops>>

\* Faulty: the mark stays.
ReportDisconnectedKeepsMark(p) ==
    /\ slot' = [slot EXCEPT ![p] = "none"]
    /\ UNCHANGED <<autoConnect, discovered, scan, connected, served>>

\* OnConnectionStateChange(STATE_DISCONNECTED): marks and slot go.
ReportDisconnected(p) ==
    /\ connected' = connected \ {p}
    /\ slot' = [slot EXCEPT ![p] = "none"]
    /\ UNCHANGED <<autoConnect, discovered, scan, served>>

------------------------------------------------------------------------------
(* The goroutines that dial: ConnectGatt's, and attemptReconnect *)

\* attemptReconnect sleeps for five seconds; the report of an earlier
\* connection is assumed not to take as long.
Wake(p) ==
    /\ dialers[p]["asleep"] > 0
    /\ dialers[p]["up"] = 0
    /\ Move(p, "asleep", "begin")
    /\ UNCHANGED <<app, callbackFor, link, ended, discovering, subscribed, drops>>

\* wire.Connect refuses at once if there is an entry, a dead one included.
BeginConnect(p) ==
    /\ dialers[p]["begin"] > 0
    /\ Move(p, "begin", IF link[p] = "none" THEN "delay" ELSE "refused")
    /\ UNCHANGED <<app, callbackFor, link, ended, discovering, subscribed, drops>>

\* The delay is at least 30 ms; StoreGatt, one statement after ConnectGatt, is
\* assumed to be faster.
DelayOver(p) == dialers[p]["delay"] > 0 /\ scan[p] # "called"

DialFails(p) ==
    /\ DelayOver(p)
    /\ Move(p, "delay", "refused")
    /\ UNCHANGED <<app, callbackFor, link, ended, discovering, subscribed, drops>>

DialSucceeds(p) ==
    /\ DelayOver(p)
    /\ IF link[p] = "none"
         THEN /\ Move(p, "delay", "up")
              /\ link' = [link EXCEPT ![p] = "ours"]
         ELSE /\ Move(p, "delay", "refused")
              /\ UNCHANGED link
    /\ UNCHANGED <<app, callbackFor, ended, discovering, subscribed, drops>>

\* Faulty: services are left undiscovered.
ReportConnectedOnly(p) ==
    /\ dialers[p]["up"] > 0
    /\ dialers' = [dialers EXCEPT ![p]["up"] = @ - 1]
    /\ connected' = connected \cup {p}
    /\ UNCHANGED <<autoConnect, discovered, scan, slot, served, callbackFor, link, ended,
                   discovering, subscribed, drops>>

\* OnConnectionStateChange(STATE_CONNECTED): marked, and services are discovered.
ReportConnected(p) ==
    /\ dialers[p]["up"] > 0
    /\ dialers' = [dialers EXCEPT ![p]["up"] = @ - 1]
    /\ connected' = connected \cup {p}
    /\ discovering' = discovering \cup {p}
    /\ UNCHANGED <<autoConnect, discovered, scan, slot, served, callbackFor, link, ended,
                   subscribed, drops>>

\* Faulty: a refused dial is the last one.
ReportRefusedForGood(p) ==
    /\ dialers[p]["refused"] > 0
    /\ dialers' = [dialers EXCEPT ![p]["refused"] = @ - 1]
    /\ ReportDisconnected(p)
    /\ UNCHANGED <<callbackFor, link, ended, discovering, subscribed, drops>>

ReportRefused(p) ==
    /\ dialers[p]["refused"] > 0
    /\ IF autoConnect
         THEN Move(p, "refused", "asleep")
         ELSE dialers' = [dialers EXCEPT ![p]["refused"] = @ - 1]
    /\ ReportDisconnected(p)
    /\ UNCHANGED <<callbackFor, link, ended, discovering, subscribed, drops>>

\* OnServicesDiscovered: the CCCD writes and the handshake are queued behind
\* each other.  Without the connection the table still comes from a file, or
\* discovery fails, and nothing is subscribed to.
ServicesDiscovered(p) ==
    /\ p \in discovering
    /\ discovering' = discovering \ {p}
    /\ subscribed' = IF link[p] = "ours" THEN subscribed \cup {p} ELSE subscribed
    /\ UNCHANGED <<app, callbackFor, dialers, link, ended, drops>>

------------------------------------------------------------------------------
(* The wire and the peers *)

\* A peer that dials by the role policy, or that does not know better, connects
\* to us; handleIncomingCentralConnection puts it among the discovered.
Incoming(p) ==
    /\ p \notin Dials
    /\ link[p] = "none"
    /\ link' = [link EXCEPT ![p] = "theirs"]
    /\ discovered' = IF slot[p] = "none" THEN discovered \cup {p} ELSE discovered
    /\ UNCHANGED <<autoConnect, scan, slot, connected, served, callbackFor, dialers, ended,
                   discovering, subscribed, drops>>

\* The GATT server reports a central with its first message, and only once.
FirstMessage(p) ==
    /\ link[p] = "theirs"
    /\ p \notin served
    /\ served' = served \cup {p}
    /\ connected' = connected \cup {p}
    /\ UNCHANGED <<autoConnect, discovered, scan, slot, callbackFor, dialers, link, ended,
                   discovering, subscribed, drops>>

Drop(p) ==
    /\ link[p] \in {"ours", "theirs"}
    /\ drops < MaxDrops
    /\ drops' = drops + 1
    /\ link' = [link EXCEPT ![p] = "dead"]
    /\ subscribed' = subscribed \ {p}
    /\ UNCHANGED <<app, callbackFor, dialers, ended, discovering>>

\* Faulty: the callback is called by two goroutines.
RemoveEntryTwice(p) ==
    /\ link[p] = "dead"
    /\ link' = [link EXCEPT ![p] = "none"]
    /\ ended' = [ended EXCEPT ![p] = @ + 2]
    /\ UNCHANGED <<app, callbackFor, dialers, discovering, subscribed, drops>>

\* The read loop ends: it removes the entry ...
RemoveEntry(p) ==
    /\ link[p] = "dead"
    /\ link' = [link EXCEPT ![p] = "none"]
    /\ ended' = [ended EXCEPT ![p] = @ + 1]
    /\ UNCHANGED <<app, callbackFor, dialers, discovering, subscribed, drops>>

\* Faulty: the callback reports its own peer whoever was disconnected.
DisconnectCallbackAnyPeer(p) ==
    /\ ended[p] > 0
    /\ ended' = [ended EXCEPT ![p] = @ - 1]
    /\ IF callbackFor # None
         THEN /\ ReportDisconnected(callbackFor)
              /\ IF autoConnect THEN Spawn(callbackFor, "asleep") ELSE UNCHANGED dialers
         ELSE UNCHANGED <<app, dialers>>
    /\ UNCHANGED <<callbackFor, link, discovering, subscribed, drops>>

\* ... then it calls whatever callback is set, which knows one peer only.
DisconnectCallback(p) ==
    /\ ended[p] > 0
    /\ ended' = [ended EXCEPT ![p] = @ - 1]
    /\ IF callbackFor = p
         THEN /\ ReportDisconnected(p)
              /\ IF autoConnect THEN Spawn(p, "asleep") ELSE UNCHANGED dialers
         ELSE UNCHANGED <<app, dialers>>
    /\ UNCHANGED <<callbackFor, link, discovering, subscribed, drops>>

Dialling(p) ==
    \/ Wake(p)
    \/ BeginConnect(p)
    \/ DialFails(p)
    \/ DialSucceeds(p)
    \/ ReportConnected(p)
    \/ ReportRefused(p)

Connecting(p) == Reserve(p) \/ ConnectGatt(p) \/ StoreGatt(p)
ReadLoop(p) == RemoveEntry(p) \/ DisconnectCallback(p)
Environment(p) == OnScanResult(p) \/ Incoming(p) \/ FirstMessage(p) \/ Drop(p)

Next == \E p \in Peer :
    Dialling(p) \/ Connecting(p) \/ ReadLoop(p) \/ ServicesDiscovered(p) \/ Environment(p)

\* Goroutines run, and a dial of a running peer does not fail for ever.
Fairness ==
    \A p \in Peer :
        /\ WF_vars(Wake(p) \/ BeginConnect(p) \/ ReportRefused(p))
        /\ SF_vars(DialSucceeds(p))
        /\ WF_vars(ReportConnected(p) \/ ServicesDiscovered(p))
        /\ WF_vars(Connecting(p))
        /\ WF_vars(ReadLoop(p))

Spec == Init /\ [][Next]_vars /\ Fairness

------------------------------------------------------------------------------
\* The stages in which p is, or is going to be, dialled.
StagesOf(p) == {s \in Stage \ {"up"} : dialers[p][s] > 0}

\* Variables have the values the code can give them; a peer has no more dialling
\* goroutines than ConnectGatt and its lost connections started.
AndroidTypeOK ==
    /\ autoConnect \in BOOLEAN
    /\ discovered \subseteq Peer
    /\ scan \in [Peer -> {"idle", "decided", "reserved", "called", "over"}]
    /\ slot \in [Peer -> {"none", "reserved", "gatt"}]
    /\ connected \subseteq Peer /\ served \subseteq Peer
    /\ callbackFor \in Peer \cup {None}
    /\ dialers \in [Peer -> [Stage -> 0 .. (MaxDrops + 1)]]
    /\ link \in [Peer -> {"none", "ours", "theirs", "dead"}]
    /\ ended \in [Peer -> 0 .. MaxDrops]
    /\ discovering \subseteq Peer /\ subscribed \subseteq Peer
    /\ drops \in 0 .. MaxDrops

\* At most one goroutine dials a peer that does not dial us: the one that
\* ConnectGatt started, or the reconnect that its failure or the loss of its
\* connection started, and never while the connection stands.
OneDialer ==
    \A p \in Dials :
        /\ \A s, t \in StagesOf(p) : s = t /\ dialers[p][s] = 1
        /\ StagesOf(p) # {} => link[p] = "none"

\* A slot that blocks connectToDevice belongs to a connection, to one in the
\* making, or to one whose loss is about to be reported; unless another
\* ConnectGatt has replaced the callback that would have reported it.
SlotIsLive ==
    \A p \in Dials :
        slot[p] # "none" =>
            \/ scan[p] \in {"reserved", "called"}
            \/ StagesOf(p) # {}
            \/ link[p] \in {"ours", "dead"}
            \/ ended[p] > 0
            \/ callbackFor # p

\* The application's marks are of their types, connectToDevice and attemptReconnect
\* never dial side by side, and no slot of connectedGatts blocks a peer for good.
AndroidInv == AndroidTypeOK /\ OneDialer /\ SlotIsLive

\* Of a peer that does not dial us, the application is told "disconnected" only
\* when the wire has no connection with it.
NoFalseDisconnect ==
    [][\A p \in Dials : (p \in connected /\ p \notin connected') => link[p] # "ours"]_vars

\* The last peer connected to: when a connection that was reported is lost,
\* the mark goes or a new connection comes.
LossIsNoticed ==
    \A p \in Dials :
        (callbackFor = p /\ link[p] = "dead" /\ dialers[p]["up"] = 0 /\ p \notin discovering) ~>
            (p \notin connected \/ link[p] = "ours" \/ callbackFor # p)

\* Every connection we made is discovered and subscribed to, or lost.
SubscribedInTheEnd ==
    \A p \in Peer : (link[p] = "ours") ~> (p \in subscribed \/ link[p] # "ours")

\* With autoConnect the phone keeps trying until it is connected, whichever
\* way a connection ended, as long as the callback is this peer's.
AutoReconnects ==
    \A p \in Dials :
        (autoConnect /\ callbackFor = p) ~> (link[p] = "ours" \/ callbackFor # p)
==============================================================================
