------------------------------ MODULE Advertising ------------------------------
(* How phones find each other and who dials whom: the socket file and        *)
(* advertising.bin of every phone, which outlive a crash, the scan loops     *)
(* that look at them once a second, and the role policy that the advertised  *)
(* name decides (wire/discovery.go, wire/wire.go; ScanForPeripherals and     *)
(* DidDiscoverPeripheral of the iPhones, StartScan and OnScanResult of the   *)
(* Androids).  The name is the device ID; names are numbers in the order in  *)
(* which Go compares the strings.  An advertisement of the applications is   *)
(* exactly as long as the encoder allows, so encoding always succeeds.       *)
(* A dial is one step that finds the peer listening or not: its races are in *)
(* WireConnection, the retries in CentralManager and AndroidCentral.  What   *)
(* comes before and after it takes time: the decision to connect is made     *)
(* under a lock and Connect is called after it, and the one who is dialed    *)
(* stores the connection first and tells the application later.              *)
EXTENDS Naturals, FiniteSets

CONSTANTS Phone,
          IDs,            \* device IDs
          DeviceName,     \* "Device-...", what is read where no file is
          UnknownDevice,  \* "Unknown Device", what is made of a file without contents
          MaxStops,       \* bound on crashes and shutdowns
          MaxLosses       \* bound on connections lost while both phones run

ASSUME AdvertisingAssumption ==
    /\ IDs \subseteq Nat /\ {DeviceName, UnknownDevice, MaxStops, MaxLosses} \subseteq Nat
    /\ DeviceName < UnknownDevice
    /\ {DeviceName, UnknownDevice} \cap IDs = {}

VARIABLES
    platform, deviceID,  \* of each phone; they survive restarts
    process,     \* "down", "listening", "ready", "writing", "running" or "closing"
    socket,      \* phones whose socket file exists
    file,        \* advertising.bin: "absent", "empty" or "full"
    listed,      \* peers the present tick of the scan loop has yet to handle
    reported,    \* discoveredDevices of an iPhone's central manager
    discovered,  \* the application's map of that name
    decided,     \* peers Connect is going to be called for
    dialing,     \* peers a phone tries to connect to
    accepted,    \* peers whose connection is stored and the application not yet told
    served,      \* peers an Android's GATT server has marked as connected
    link,        \* connections: <<who dialed, who accepted>>
    misread,     \* history: peers judged by anything else than their advertisement
    found,       \* history: peers found connected when they were to be connected to
    tried,       \* history: peers an Android has dialed
    stops, losses

fixed == <<platform, deviceID>>
files == <<process, socket, file>>
scan == <<listed, reported, misread>>
roles == <<discovered, decided, dialing, found>>
server == <<accepted, served>>
memory == <<scan, roles, server, tried>>
vars == <<fixed, files, memory, link, stops, losses>>

Nobody == [p \in Phone |-> {}]

Init ==
    /\ platform \in [Phone -> {"ios", "android"}]
    /\ deviceID \in {id \in [Phone -> IDs] : \A p, q \in Phone : id[p] = id[q] => p = q}
    /\ process = [p \in Phone |-> "down"]
    /\ socket = {}
    /\ file = [p \in Phone |-> "absent"]
    /\ listed = Nobody /\ reported = Nobody /\ misread = Nobody
    /\ discovered = Nobody /\ decided = Nobody /\ dialing = Nobody /\ found = Nobody
    /\ accepted = Nobody /\ served = Nobody /\ tried = Nobody
    /\ link = {}
    /\ stops = 0 /\ losses = 0

Linked(p, q) == {<<p, q>>, <<q, p>>} \cap link # {}
Listening(p) == process[p] # "down"

------------------------------------------------------------------------------
(* A phone comes up *)

\* wire.Start replaces the socket file and listens: connections are accepted at once.
Start(p) ==
    /\ process[p] = "down"
    /\ process' = [process EXCEPT ![p] = "listening"]
    /\ socket' = socket \cup {p}
    /\ UNCHANGED <<fixed, file, memory, link, stops, losses>>

\* From now on the application hears of them, and its services are there.
SetConnectCallback(p) ==
    /\ process[p] = "listening"
    /\ process' = [process EXCEPT ![p] = "ready"]
    /\ UNCHANGED <<fixed, socket, file, memory, link, stops, losses>>

\* StartAdvertising comes after that: os.WriteFile empties the file first ...
StartAdvertising(p) ==
    /\ process[p] = "ready"
    /\ process' = [process EXCEPT ![p] = "writing"]
    /\ file' = [file EXCEPT ![p] = "empty"]
    /\ UNCHANGED <<fixed, socket, memory, link, stops, losses>>

\* ... then writes it; after that the phone scans.
WriteAdvertisingData(p) ==
    /\ process[p] = "writing"
    /\ process' = [process EXCEPT ![p] = "running"]
    /\ file' = [file EXCEPT ![p] = "full"]
    /\ UNCHANGED <<fixed, socket, memory, link, stops, losses>>

------------------------------------------------------------------------------
(* The scan loop *)

\* Faulty: a phone finds itself.
ListAvailableDevicesAll(p) == {q \in socket : file[q] # "absent"}

\* Every file that is there counts, whether its owner runs or not.
ListAvailableDevices(p) == {q \in socket \ {p} : file[q] # "absent"}

\* StartDiscovery: a tick takes a list and works through it.
Tick(p) ==
    /\ process[p] = "running"
    /\ listed[p] = {} /\ ListAvailableDevices(p) # {}
    /\ listed' = [listed EXCEPT ![p] = ListAvailableDevices(p)]
    /\ UNCHANGED <<fixed, files, reported, misread, roles, server, tried, link, stops, losses>>

\* ReadAdvertisingData comes later, when the file may be gone (no error) or empty (an
\* error, of which both platforms make an unnamed advertisement).
Advertisement(q) ==
    CASE file[q] = "full"   -> [name |-> deviceID[q], services |-> TRUE]
      [] file[q] = "absent" -> [name |-> DeviceName, services |-> FALSE]
      [] file[q] = "empty"  -> [name |-> UnknownDevice, services |-> FALSE]

\* Faulty: on one platform the smaller ID dials.
ShouldInitiateConnectionTwisted(p, name) ==
    IF platform[p] = "ios" THEN deviceID[p] > name ELSE deviceID[p] < name

\* shouldInitiateConnection.  Any name of 6 to 16 characters passes for an ID, and the
\* placeholders have 14 and 15.
ShouldInitiateConnection(p, name) == deviceID[p] > name

\* DidDiscoverPeripheral, OnScanResult: a peer counts once, and is not connected to if
\* it is marked as connected.  An iPhone marks only peers that it has dialed itself.
Discover(p, q, name) ==
    IF q \in discovered[p] THEN UNCHANGED roles
    ELSE /\ discovered' = [discovered EXCEPT ![p] = @ \cup {q}]
         /\ decided' = IF q \notin served[p] /\ ShouldInitiateConnection(p, name)
                       THEN [decided EXCEPT ![p] = @ \cup {q}] ELSE decided
         /\ found' = IF q \in served[p] THEN [found EXCEPT ![p] = @ \cup {q}] ELSE found
         /\ UNCHANGED dialing

Misread(p, q) ==
    misread' = IF Advertisement(q).name = deviceID[q] THEN misread
               ELSE [misread EXCEPT ![p] = @ \cup {q}]

Handle(p, q) ==
    /\ process[p] \in {"running", "closing"}
    /\ q \in listed[p]
    /\ listed' = [listed EXCEPT ![p] = @ \ {q}]

\* An iPhone marks the peer as reported, and only then reads what it advertises and
\* leaves out what does not advertise the service.
ScanForPeripherals(p, q) ==
    /\ platform[p] = "ios" /\ Handle(p, q)
    /\ IF q \in reported[p] THEN UNCHANGED <<reported, misread, roles>>
       ELSE /\ reported' = [reported EXCEPT ![p] = @ \cup {q}]
            /\ Misread(p, q)
            /\ IF Advertisement(q).services THEN Discover(p, q, Advertisement(q).name)
               ELSE UNCHANGED roles
    /\ UNCHANGED <<fixed, files, server, tried, link, stops, losses>>

\* An Android takes whatever it reads, until it knows the peer.
StartScan(p, q) ==
    /\ platform[p] = "android" /\ Handle(p, q)
    /\ Discover(p, q, Advertisement(q).name)
    /\ IF q \in discovered[p] THEN UNCHANGED misread ELSE Misread(p, q)
    /\ UNCHANGED <<fixed, files, reported, server, tried, link, stops, losses>>

------------------------------------------------------------------------------
(* Connections *)

\* Connect of an iPhone's central manager ignores a peer that is connected: it does not
\* become a pending one.  connectToDevice does not look.
Connect(p, q) ==
    /\ process[p] \in {"running", "closing"}
    /\ q \in decided[p]
    /\ decided' = [decided EXCEPT ![p] = @ \ {q}]
    /\ IF platform[p] = "ios" /\ Linked(p, q)
         THEN found' = [found EXCEPT ![p] = @ \cup {q}] /\ UNCHANGED dialing
         ELSE dialing' = [dialing EXCEPT ![p] = @ \cup {q}] /\ UNCHANGED found
    /\ UNCHANGED <<fixed, files, scan, discovered, server, tried, link, stops, losses>>

\* Faulty: nobody tries again.
KeepsDialingNever(p) == FALSE

\* An iPhone keeps a peer among its pending ones for ever: refused dials are repeated
\* and lost connections made anew.  An Android dials once.
KeepsDialing(p) == platform[p] = "ios"

Dialed(p, q) ==
    /\ dialing' = IF KeepsDialing(p) THEN dialing ELSE [dialing EXCEPT ![p] = @ \ {q}]
    /\ tried' = IF platform[p] = "ios" THEN tried ELSE [tried EXCEPT ![p] = @ \cup {q}]

\* handleIncomingConnection of the peer stores the connection.
Dial(p, q) ==
    /\ process[p] \in {"running", "closing"}
    /\ q \in dialing[p]
    /\ Listening(q) /\ ~Linked(p, q)
    /\ link' = link \cup {<<p, q>>}
    /\ accepted' = [accepted EXCEPT ![q] = @ \cup {p}]
    /\ Dialed(p, q)
    /\ UNCHANGED <<fixed, files, scan, discovered, decided, found, served, stops, losses>>

\* A socket file without a listener, and a peer that is connected by now, refuse.
DialRefused(p, q) ==
    /\ process[p] \in {"running", "closing"}
    /\ q \in dialing[p]
    /\ ~Listening(q) \/ Linked(p, q)
    /\ Dialed(p, q)
    /\ UNCHANGED <<fixed, files, scan, discovered, decided, found, server, link, stops, losses>>

\* handleIncomingConnection goes on: handleIncomingCentralConnection, if it is set by
\* now, puts the one who dialed among the discovered, and its advertisement is not
\* going to be looked at.
Incoming(p, q) ==
    /\ q \in accepted[p]
    /\ accepted' = [accepted EXCEPT ![p] = @ \ {q}]
    /\ IF process[p] = "listening" \/ q \in discovered[p] THEN UNCHANGED <<discovered, misread>>
       ELSE /\ discovered' = [discovered EXCEPT ![p] = @ \cup {q}]
            /\ misread' = [misread EXCEPT ![p] = @ \cup {q}]
    /\ UNCHANGED <<fixed, files, listed, reported, decided, dialing, found, served, tried, link,
                   stops, losses>>

\* Messages are read after that.  The GATT server of an Android reports a peer as
\* connected with its first message, and never as disconnected.
FirstMessage(p, q) ==
    /\ platform[p] = "android"
    /\ process[p] \notin {"down", "listening"}
    /\ Linked(p, q) /\ q \notin accepted[p]
    /\ q \notin served[p]
    /\ served' = [served EXCEPT ![p] = @ \cup {q}]
    /\ UNCHANGED <<fixed, files, scan, roles, accepted, tried, link, stops, losses>>

Lose(p, q) ==
    /\ <<p, q>> \in link
    /\ losses < MaxLosses
    /\ losses' = losses + 1
    /\ link' = link \ {<<p, q>>}
    /\ UNCHANGED <<fixed, files, memory, stops>>

------------------------------------------------------------------------------
(* A phone goes down *)

\* The process ends with all it knows, and its connections with it.
End(p) ==
    /\ process' = [process EXCEPT ![p] = "down"]
    /\ listed' = [listed EXCEPT ![p] = {}]
    /\ reported' = [reported EXCEPT ![p] = {}]
    /\ misread' = [misread EXCEPT ![p] = {}]
    /\ discovered' = [discovered EXCEPT ![p] = {}]
    /\ decided' = [decided EXCEPT ![p] = {}]
    /\ dialing' = [dialing EXCEPT ![p] = {}]
    /\ found' = [found EXCEPT ![p] = {}]
    /\ accepted' = [accepted EXCEPT ![p] = {}]
    /\ served' = [served EXCEPT ![p] = {}]
    /\ tried' = [tried EXCEPT ![p] = {}]
    /\ link' = {l \in link : p \notin {l[1], l[2]}}

\* Both files stay.
Crash(p) ==
    /\ Listening(p) /\ stops < MaxStops
    /\ stops' = stops + 1
    /\ End(p)
    /\ UNCHANGED <<fixed, socket, file, losses>>

\* Stop: the scan loop is told to end, but finishes its tick; advertising.bin goes ...
StopAdvertising(p) ==
    /\ process[p] = "running" /\ stops < MaxStops
    /\ stops' = stops + 1
    /\ process' = [process EXCEPT ![p] = "closing"]
    /\ file' = [file EXCEPT ![p] = "absent"]
    /\ UNCHANGED <<fixed, socket, memory, link, losses>>

\* ... and, after wire.Stop, the socket.
StopWire(p) ==
    /\ process[p] = "closing"
    /\ socket' = socket \ {p}
    /\ End(p)
    /\ UNCHANGED <<fixed, file, stops, losses>>

Up(p) == SetConnectCallback(p) \/ StartAdvertising(p) \/ WriteAdvertisingData(p)
Scan(p) == Tick(p) \/ \E q \in Phone : ScanForPeripherals(p, q) \/ StartScan(p, q)

Next ==
    \E p \in Phone :
        \/ Start(p) \/ Up(p) \/ Scan(p)
        \/ Crash(p) \/ StopAdvertising(p) \/ StopWire(p)
        \/ \E q \in Phone : \/ Connect(p, q) \/ Dial(p, q) \/ DialRefused(p, q)
                            \/ Incoming(p, q) \/ FirstMessage(p, q) \/ Lose(p, q)

\* Goroutines run on; whether and when a phone is started, is up to its user.
Fairness ==
    \A p \in Phone :
        /\ WF_vars(Up(p)) /\ WF_vars(Scan(p))
        /\ \A q \in Phone : /\ WF_vars(Connect(p, q)) /\ WF_vars(Incoming(p, q))
                            /\ WF_vars(Dial(p, q) \/ DialRefused(p, q))

Spec == Init /\ [][Next]_vars /\ Fairness

------------------------------------------------------------------------------
(* Properties *)

\* The peers that a phone is going to dial, dials or, if it is an Android, has dialed.
Initiates(p) == decided[p] \cup dialing[p] \cup tried[p]

\* Variables have the values the code can give them; nobody discovers or dials itself.
AdvertisingTypeOK ==
    /\ platform \in [Phone -> {"ios", "android"}] /\ deviceID \in [Phone -> IDs]
    /\ process \in [Phone -> {"down", "listening", "ready", "writing", "running", "closing"}]
    /\ socket \subseteq Phone
    /\ file \in [Phone -> {"absent", "empty", "full"}]
    /\ \A p \in Phone :
          /\ listed[p] \cup discovered[p] \cup reported[p] \subseteq Phone \ {p}
          /\ accepted[p] \cup served[p] \subseteq Phone \ {p}
          /\ Initiates(p) \cup found[p] \subseteq discovered[p]
          /\ misread[p] \subseteq discovered[p] \cup reported[p]
          /\ Listening(p) => p \in socket
          /\ process[p] = "running" => file[p] = "full"
    /\ link \subseteq Phone \X Phone /\ \A p \in Phone : <<p, p>> \notin link
    /\ stops \in 0 .. MaxStops /\ losses \in 0 .. MaxLosses

\* The role policy keeps two phones from dialing each other, through crashes, stale
\* files and connections made before the scan, unless one of them judged the other by a
\* placeholder; and no connection was dialed against it otherwise.
OneSideDials ==
    /\ \A p, q \in Phone :
           q \in Initiates(p) /\ p \in Initiates(q) => q \in misread[p] \/ p \in misread[q]
    /\ \A l \in link : deviceID[l[1]] > deviceID[l[2]] \/ l[2] \in misread[l[1]]

\* Two phones that both run in the end are connected in the end, whatever of them
\* crashed, was shut down or left files behind.  Three things prevent it for good: the
\* one with the larger ID judged the other by a file without contents or by a connection
\* that the other made; it is an Android and has used up its only dial; or, when it was
\* about to dial, the other had connected to it (which takes a misread name there) before
\* the application knew, and that connection was lost later.
MeetInTheEnd ==
    \A p, q \in Phone :
        deviceID[p] > deviceID[q] =>
            <>[](process[p] = "running" /\ process[q] = "running"
                    => \/ Linked(p, q)
                       \/ q \in misread[p] \/ q \in tried[p] \/ q \in found[p])
=============================================================================
