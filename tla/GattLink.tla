------------------------------- MODULE GattLink -------------------------------
(* Centrals that discover a GATT server, subscribe to its characteristics    *)
(* and receive its notifications (wire/wire_discovery.go, wire_att.go,       *)
(* wire_gatt.go, gatt/cccd.go; swift/cb_peripheral.go and                    *)
(* cb_peripheral_manager.go, kotlin/bluetooth_gatt.go and                    *)
(* bluetooth_advertiser.go).  A connection is a pair of FIFO queues that a   *)
(* loss empties; the sockets themselves are in WireConnection, the MTU       *)
(* exchange, the time-outs of an idle bearer and plain writes in AttBearer.  *)
(* The server accepts connections before its services exist.  The phones run *)
(* the same application, so that a central decodes a notification with a     *)
(* table like the server's; it subscribes and never unsubscribes.            *)
EXTENDS AttributeTable, FiniteSets

CONSTANTS Central,
          Layouts,         \* the lists of services an application may register
          Wanted,          \* characteristics the application subscribes to, in order
          Photo,           \* the one it subscribes to again for a photo
          MaxFailures,     \* bound on connections lost and restarts of the server
          MaxNotes,        \* bound on notifications sent
          MaxRequests      \* bound on subscriptions renewed for a photo

CharsOf(services) == UNION {Range(services[i].characteristics) : i \in DOMAIN services}

\* A layout is what the applications build: primary services, whose characteristics
\* have UUIDs of their own.
ASSUME GattLinkAssumption ==
    /\ Layouts \subseteq Seq([uuid : UUID, primary : BOOLEAN,
                              characteristics : Seq([uuid : UUID, notify : BOOLEAN])])
    /\ Wanted \in Seq(UUID)
    /\ \A services \in Layouts :
          /\ services # <<>>
          /\ \A i \in DOMAIN services : services[i].primary
          /\ \A char \in CharsOf(services) : char.uuid \in Range(Wanted) => char.notify
          /\ Cardinality({char.uuid : char \in CharsOf(services)})
                = FoldLeft(LAMBDA n, s : n + Len(s.characteristics), 0, services)
    /\ Photo \in Range(Wanted)
    /\ {MaxFailures, MaxNotes, MaxRequests} \subseteq Nat

VARIABLES
    layout,      \* the services of this application
    phase,       \* of the server's process: "down", "starting" or "ready"
    added,       \* services registered in this run
    published,   \* services in gatt.json, which outlives the process
    subscribers, \* <<central, characteristic>> of the server's manager
    delivering,  \* subscriptions that read loops hand to the manager
    conn,        \* the number of a central's connection, 0 without one
    made,        \* connections a central has made
    toServer, toCentral,
    cccd,        \* value handles enabled on a central's connection
    cache,       \* the discovery cache of that connection
    tracker,     \* the request pending on it
    tasks,       \* goroutines of DiscoverServices, by central
    known,       \* characteristics of CBPeripheral.Services
    notifying,   \* notifyingCharacteristics
    asked,       \* history: <<central, characteristic>> written for in this server run
    heard,       \* history: <<sent as, delivered as>> of notifications
    failures, notes, requests

server == <<layout, phase, added, published, subscribers, delivering>>
central == <<cache, tracker, tasks, known, notifying, asked>>
bounds == <<failures, notes, requests>>
vars == <<server, conn, made, toServer, toCentral, cccd, central, heard, bounds>>

Registered == SubSeq(layout, 1, added)
\* What gatt.json lists as notifiable: names, not handles.
Notifiable(services) == {x.uuid : x \in {y \in CharsOf(services) : y.notify}}
Published == Notifiable(SubSeq(layout, 1, published))
\* The table after the first n services of a layout have been added.
Tables == [services \in Layouts |->
              [n \in 0..Len(services) |-> BuildAttributeDatabase(services)[n]]]
Table == Tables[layout][added]
OwnTable == Tables[layout][Len(layout)]
UUIDsOf(services) == {char.uuid : char \in CharsOf(services)}

Init ==
    /\ layout \in Layouts
    /\ phase = "starting" /\ added = 0 /\ published = 0
    /\ subscribers = {} /\ delivering = {}
    /\ conn = [c \in Central |-> 0]
    /\ made = [c \in Central |-> 0]
    /\ toServer = [c \in Central |-> <<>>]
    /\ toCentral = [c \in Central |-> <<>>]
    /\ cccd = [c \in Central |-> {}]
    /\ cache = [c \in Central |-> EmptyCache]
    /\ tracker = [c \in Central |-> "none"]
    /\ tasks = [c \in Central |-> {}]
    /\ known = [c \in Central |-> {}]
    /\ notifying = [c \in Central |-> {}]
    /\ asked = {} /\ heard = {}
    /\ failures = 0 /\ notes = 0 /\ requests = 0

------------------------------------------------------------------------------
(* The goroutine of DiscoverServices *)

\* Every step looks the connection up anew; "at" is the one DiscoverServices or
\* DiscoverCharacteristics has captured.
NewTask(n) == [id |-> n, at |-> 0, op |-> "services", stage |-> "lookup",
               left |-> <<>>, found |-> <<>>, range |-> <<1, LastHandle>>]

Become(c, t, new) == tasks' = [tasks EXCEPT ![c] = (@ \ {t}) \cup {new}]

\* The characteristics of the next service, or the conversion after the last.
NextService(t) ==
    IF Len(t.left) > 1
    THEN [t EXCEPT !.op = "characteristics", !.stage = "lookup", !.left = Tail(@)]
    ELSE [t EXCEPT !.stage = "convert", !.left = <<>>]

\* An error of DiscoverServices leads to the published file, one of
\* DiscoverCharacteristics to the next service.
Failed(t) == IF t.op = "services" THEN [t EXCEPT !.stage = "legacy"] ELSE NextService(t)
Answered(t) == IF t.op = "services" THEN [t EXCEPT !.stage = "collect"] ELSE NextService(t)

Lookup(c) == \E t \in tasks[c] :
    /\ t.stage = "lookup"
    /\ LET services == {i \in DOMAIN cache[c].services :
                           t.op = "characteristics" /\ cache[c].services[i].uuid = t.left[1].uuid}
           s == cache[c].services[CHOOSE i \in services : \A j \in services : i <= j]
       IN IF conn[c] = 0 \/ (t.op = "characteristics" /\ services = {})
          THEN Become(c, t, Failed(t))
          ELSE Become(c, t, [t EXCEPT !.at = conn[c], !.stage = "delay",
                                      !.range = IF t.op = "services" THEN <<1, LastHandle>>
                                                ELSE <<s.start, s.end>>])
    /\ UNCHANGED <<server, conn, made, toServer, toCentral, cccd, cache, tracker, known,
                   notifying, asked, heard, bounds>>

Request(t) == [op |-> t.op, first |-> t.range[1], last |-> t.range[2]]

\* After the delay: the captured connection's cache is cleared and its tracker
\* registers the request, but the packet goes out on the present connection, which
\* another task may be using.
SendRequest(c) == \E t \in tasks[c] :
    /\ t.stage = "delay"
    /\ LET mine == t.at = conn[c]
           cleared == IF mine /\ t.op = "services" THEN [cache[c] EXCEPT !.services = <<>>]
                      ELSE cache[c]
           accepted == conn[c] # 0 /\ tracker[c] \in IF mine THEN {"none"} ELSE {"none", t.op}
       IN /\ cache' = [cache EXCEPT ![c] = cleared]
          /\ IF accepted
             THEN /\ tracker' = [tracker EXCEPT ![c] = t.op]
                  /\ toServer' = [toServer EXCEPT ![c] = Append(@, Request(t))]
                  /\ Become(c, t, [t EXCEPT !.stage = IF mine THEN "waiting" ELSE "stray"])
             ELSE /\ Become(c, t, Failed(t))
                  /\ UNCHANGED <<tracker, toServer>>
    /\ UNCHANGED <<server, conn, made, toCentral, cccd, known, notifying, asked, heard, bounds>>

\* The response of a stray request completes another tracker: only time ends the wait.
Timeout(c) == \E t \in tasks[c] :
    /\ t.stage = "stray"
    /\ Become(c, t, Failed(t))
    /\ UNCHANGED <<server, conn, made, toServer, toCentral, cccd, cache, tracker, known,
                   notifying, asked, heard, bounds>>

\* GetDiscoveredServices after the response, of whatever connection there is now.
Collect(c) == \E t \in tasks[c] :
    /\ t.stage = "collect"
    /\ LET services == cache[c].services
       IN IF conn[c] = 0 THEN tasks' = [tasks EXCEPT ![c] = @ \ {t}]
          ELSE Become(c, t, IF services = <<>> THEN [t EXCEPT !.stage = "convert"]
                            ELSE [t EXCEPT !.op = "characteristics", !.stage = "lookup",
                                           !.left = services, !.found = services])
    /\ UNCHANGED <<server, conn, made, toServer, toCentral, cccd, cache, tracker, known,
                   notifying, asked, heard, bounds>>

Subscribing(t) == [t EXCEPT !.stage = "subscribe", !.left = Wanted]

\* GetDiscoveredCharacteristics of the services found.
Discovered(c, found) ==
    {x.uuid : x \in {y \in cache[c].chars :
        y.notify /\ conn[c] # 0 /\ \E i \in DOMAIN found : found[i].start = y.service}}

\* The services found, with the characteristics that the cache holds for them.
Convert(c) == \E t \in tasks[c] :
    /\ t.stage = "convert"
    /\ known' = [known EXCEPT ![c] = Discovered(c, t.found)]
    /\ Become(c, t, Subscribing(t))
    /\ UNCHANGED <<server, conn, made, toServer, toCentral, cccd, cache, tracker, notifying,
                   asked, heard, bounds>>

\* discoverServicesLegacy reads the published file.
DiscoverServicesLegacy(c) == \E t \in tasks[c] :
    /\ t.stage = "legacy"
    /\ known' = [known EXCEPT ![c] = Published]
    /\ Become(c, t, Subscribing(t))
    /\ UNCHANGED <<server, conn, made, toServer, toCentral, cccd, cache, tracker, notifying,
                   asked, heard, bounds>>

------------------------------------------------------------------------------
(* The application of a central *)

\* sendATTPacket takes a write if no request of another kind is pending, and
\* uuidToHandle knows only what discovery has put into the cache.
MayWrite(c, u) ==
    conn[c] # 0 /\ u \in DOMAIN cache[c].handles /\ tracker[c] \in {"none", "write"}

\* A subscription writes the attribute after the value, whatever that is.
WriteConfiguration(c, u) == [op |-> "write", handle |-> cache[c].handles[u] + 1]

\* SetNotifyValue, or SetCharacteristicNotification and WriteDescriptor: the local
\* mark first, then the write, if it can be sent.
SetNotifyValue(c, u) ==
    /\ notifying' = [notifying EXCEPT ![c] = @ \cup {u}]
    /\ IF MayWrite(c, u)
       THEN /\ tracker' = [tracker EXCEPT ![c] = "write"]
            /\ toServer' = [toServer EXCEPT ![c] = Append(@, WriteConfiguration(c, u))]
            /\ asked' = asked \cup {<<c, u>>}
       ELSE UNCHANGED <<tracker, toServer, asked>>

\* OnServicesDiscovered goes through the wanted characteristics and ends.
NextWanted(t) == IF Len(t.left) = 1 THEN {} ELSE {[t EXCEPT !.left = Tail(@)]}

\* DidDiscoverServices, OnServicesDiscovered: one wanted characteristic after another.
Subscribe(c) == \E t \in tasks[c] :
    /\ t.stage = "subscribe"
    /\ tasks' = [tasks EXCEPT ![c] = (@ \ {t}) \cup NextWanted(t)]
    /\ IF t.left[1] \in known[c] THEN SetNotifyValue(c, t.left[1])
       ELSE UNCHANGED <<notifying, tracker, toServer, asked>>
    /\ UNCHANGED <<server, conn, made, toCentral, cccd, cache, known, heard, bounds>>

\* requestAndReceivePhoto subscribes again at any later time.
RequestPhoto(c) ==
    /\ requests < MaxRequests
    /\ Photo \in known[c]
    /\ SetNotifyValue(c, Photo)
    /\ requests' = requests + 1
    /\ UNCHANGED <<server, conn, made, toCentral, cccd, cache, tasks, known, heard, failures, notes>>

\* A connection is accepted as soon as the server's process listens.
Connect(c) ==
    /\ phase # "down"
    /\ conn[c] = 0
    /\ made' = [made EXCEPT ![c] = @ + 1]
    /\ conn' = [conn EXCEPT ![c] = made'[c]]
    /\ cccd' = [cccd EXCEPT ![c] = {}]
    /\ cache' = [cache EXCEPT ![c] = EmptyCache]
    /\ tracker' = [tracker EXCEPT ![c] = "none"]
    /\ tasks' = [tasks EXCEPT ![c] = @ \cup {NewTask(made'[c])}]
    /\ UNCHANGED <<server, toServer, toCentral, known, notifying, asked, heard, bounds>>

\* The connections of a set of centrals end: what was under way is lost, and a
\* request pending on them fails.
LoseAll(C) ==
    /\ conn' = [c \in Central |-> IF c \in C THEN 0 ELSE conn[c]]
    /\ toServer' = [c \in Central |-> IF c \in C THEN <<>> ELSE toServer[c]]
    /\ toCentral' = [c \in Central |-> IF c \in C THEN <<>> ELSE toCentral[c]]
    /\ cccd' = [c \in Central |-> IF c \in C THEN {} ELSE cccd[c]]
    /\ cache' = [c \in Central |-> IF c \in C THEN EmptyCache ELSE cache[c]]
    /\ tracker' = [c \in Central |-> IF c \in C THEN "none" ELSE tracker[c]]
    /\ tasks' = [c \in Central |->
                    IF c \notin C THEN tasks[c]
                    ELSE {IF t.stage = "waiting" /\ t.at = conn[c] THEN Failed(t) ELSE t :
                             t \in tasks[c]}]

Lose(c) ==
    /\ conn[c] # 0 /\ failures < MaxFailures
    /\ failures' = failures + 1
    /\ LoseAll({c})
    /\ UNCHANGED <<server, made, known, notifying, asked, heard, notes, requests>>

------------------------------------------------------------------------------
(* The server *)

\* Its process ends; gatt.json stays.
Crash ==
    /\ phase # "down" /\ failures < MaxFailures
    /\ failures' = failures + 1
    /\ phase' = "down"
    /\ added' = 0 /\ subscribers' = {} /\ delivering' = {} /\ asked' = {}
    /\ LoseAll(Central)
    /\ UNCHANGED <<layout, published, made, known, notifying, heard, notes, requests>>

\* wire.Start listens; the services follow.
Start ==
    /\ phase = "down"
    /\ phase' = "starting"
    /\ UNCHANGED <<layout, added, published, subscribers, delivering, conn, made, toServer,
                   toCentral, cccd, central, heard, bounds>>

\* AddService rebuilds the table and writes gatt.json.
AddService ==
    /\ phase = "starting" /\ added < Len(layout)
    /\ added' = added + 1
    /\ published' = added'
    /\ UNCHANGED <<layout, phase, subscribers, delivering, conn, made, toServer, toCentral, cccd,
                   central, heard, bounds>>

StartAdvertising ==
    /\ phase = "starting" /\ added = Len(layout)
    /\ phase' = "ready"
    /\ UNCHANGED <<layout, added, published, subscribers, delivering, conn, made, toServer,
                   toCentral, cccd, central, heard, bounds>>

Response(data, op) == IF data = <<>> THEN [op |-> "error"] ELSE [op |-> op, data |-> data]

\* handleATTPacket takes the next request when it is done with the one before.
Read(c, op) ==
    /\ toServer[c] # <<>> /\ Head(toServer[c]).op = op
    /\ \A d \in delivering : ~(d.central = c /\ d.at = conn[c])
    /\ toServer' = [toServer EXCEPT ![c] = Tail(@)]

Respond(c, r) == toCentral' = [toCentral EXCEPT ![c] = Append(@, r)]

ServeServices(c) ==
    /\ Read(c, "services")
    /\ LET p == Head(toServer[c])
       IN Respond(c, Response(DiscoverServices(Table, p.first, p.last), p.op))
    /\ UNCHANGED <<server, conn, made, cccd, central, heard, bounds>>

ServeCharacteristics(c) ==
    /\ Read(c, "characteristics")
    /\ LET p == Head(toServer[c])
       IN Respond(c, Response(DiscoverCharacteristics(Table, p.first, p.last), p.op))
    /\ UNCHANGED <<server, conn, made, cccd, central, heard, bounds>>

\* SetSubscription enables the attribute before the descriptor.
SetSubscription(c, handle) == cccd' = [cccd EXCEPT ![c] = @ \cup {handle}]

\* A write of a configuration descriptor is recorded, answered, and goes on to the
\* manager with the names of the attribute before it; a write of anything else is the
\* business of other modules.
ServeWrite(c) ==
    /\ Read(c, "write")
    /\ LET h == Head(toServer[c]).handle
       IN IF h \in DOMAIN Table /\ Table[h].type = "cccd"
          THEN /\ SetSubscription(c, h - 1)
               /\ Respond(c, [op |-> "written"])
               /\ delivering' = delivering \cup
                     {[central |-> c, at |-> conn[c], name |-> HandleToUUIDs(Table, h - 1)]}
          ELSE UNCHANGED <<cccd, toCentral, delivering>>
    /\ UNCHANGED <<layout, phase, added, published, subscribers, conn, made, central, heard, bounds>>

Serve(c) == ServeServices(c) \/ ServeCharacteristics(c) \/ ServeWrite(c)

\* Faulty: the first notifiable characteristic of the service, as for a write that
\* names the descriptor.
DeliverFirst(d) ==
    /\ delivering' = delivering \ {d}
    /\ subscribers' = subscribers \cup
          {<<d.central, SelectSeq(Registered[i].characteristics, LAMBDA x : x.notify)[1].uuid>> :
              i \in {j \in DOMAIN Registered : Registered[j].uuid = d.name.service}}
    /\ UNCHANGED <<layout, phase, added, published, conn, made, toServer, toCentral, cccd, central,
                   heard, bounds>>

\* handleCharacteristicMessage looks for the service by name, and in it for the
\* characteristic by name.
Named(name) ==
    \E i \in DOMAIN Registered :
        Registered[i].uuid = name.service /\ name.char \in UUIDsOf(<<Registered[i]>>)

\* A write to its configuration enters the central in the manager's list.
AddSubscriber(d) ==
    subscribers' = IF Named(d.name) THEN subscribers \cup {<<d.central, d.name.char>>}
                   ELSE subscribers

\* The read loop gets to the manager even when its connection has ended.
Deliver(d) ==
    /\ delivering' = delivering \ {d}
    /\ AddSubscriber(d)
    /\ UNCHANGED <<layout, phase, added, published, conn, made, toServer, toCentral, cccd, central,
                   heard, bounds>>

\* UpdateValue, NotifyCharacteristicChanged: the manager's list decides.
MayNotify(c, u) == <<c, u>> \in subscribers /\ conn[c] # 0

\* NotifyCharacteristic: the name finds the handle.
Notification(u) == [op |-> "notify", handle |-> LocalUUIDToHandle(Table, u), sent |-> u]

Notify(c, u) ==
    /\ notes < MaxNotes
    /\ MayNotify(c, u)
    /\ Respond(c, Notification(u))
    /\ notes' = notes + 1
    /\ UNCHANGED <<server, conn, made, toServer, cccd, central, heard, failures, requests>>

------------------------------------------------------------------------------
(* The central's read loop *)

\* CompleteRequest, which wakes the goroutine that waits on this connection.  An
\* error completes any request and is no error to it.
Complete(c, ops) ==
    IF tracker[c] \in ops
    THEN /\ tracker' = [tracker EXCEPT ![c] = "none"]
         /\ tasks' = [tasks EXCEPT ![c] =
                {IF t.stage = "waiting" /\ t.at = conn[c] /\ t.op = tracker[c]
                 THEN Answered(t) ELSE t : t \in @}]
    ELSE UNCHANGED <<tracker, tasks>>

Take(c, op) == toCentral[c] # <<>> /\ Head(toCentral[c]).op = op
               /\ toCentral' = [toCentral EXCEPT ![c] = Tail(@)]

ReceiveServices(c) ==
    /\ Take(c, "services")
    /\ cache' = [cache EXCEPT ![c] = AddServices(@, Head(toCentral[c]).data)]
    /\ Complete(c, {"services"})
    /\ UNCHANGED <<server, conn, made, toServer, cccd, known, notifying, asked, heard, bounds>>

\* Faulty: the response is lost on the way to the tracker.
ReceiveCharacteristicsOnly(c) ==
    /\ Take(c, "characteristics")
    /\ cache' = [cache EXCEPT ![c] = AddCharacteristics(@, Head(toCentral[c]).data)]
    /\ UNCHANGED <<server, conn, made, toServer, cccd, tracker, tasks, known, notifying, asked,
                   heard, bounds>>

ReceiveCharacteristics(c) ==
    /\ Take(c, "characteristics")
    /\ cache' = [cache EXCEPT ![c] = AddCharacteristics(@, Head(toCentral[c]).data)]
    /\ Complete(c, {"characteristics"})
    /\ UNCHANGED <<server, conn, made, toServer, cccd, known, notifying, asked, heard, bounds>>

ReceiveError(c) ==
    /\ Take(c, "error")
    /\ Complete(c, {"services", "characteristics", "write"})
    /\ UNCHANGED <<server, conn, made, toServer, cccd, cache, known, notifying, asked, heard, bounds>>

ReceiveWriteResponse(c) ==
    /\ Take(c, "written")
    /\ Complete(c, {"write"})
    /\ UNCHANGED <<server, conn, made, toServer, cccd, cache, known, notifying, asked, heard, bounds>>

\* HandleGATTMessage delivers what is known and was subscribed to.
Listens(c, name) == name \in known[c] \cap notifying[c]

Hears(c, sent, name) ==
    heard' = IF Listens(c, name) THEN heard \cup {<<sent, name>>} ELSE heard

\* Faulty: a handle names the next attribute that has a known name.
ReceiveNotificationOffByOne(c) ==
    /\ Take(c, "notify")
    /\ LET p == Head(toCentral[c])
           near == {h \in DOMAIN OwnTable : h > p.handle /\ OwnTable[h].type \in known[c]}
       IN Hears(c, p.sent, IF near = {} THEN NoUUID
                           ELSE OwnTable[CHOOSE h \in near : \A g \in near : h <= g].type)
    /\ UNCHANGED <<server, conn, made, toServer, cccd, central, bounds>>

\* attToGATTMessage: a notification is named after the central's own table.
ReceiveNotification(c) ==
    /\ Take(c, "notify")
    /\ LET p == Head(toCentral[c]) IN Hears(c, p.sent, HandleToUUIDs(OwnTable, p.handle).char)
    /\ UNCHANGED <<server, conn, made, toServer, cccd, central, bounds>>

Task(c) ==
    \/ Lookup(c) \/ SendRequest(c) \/ Timeout(c) \/ Collect(c) \/ Convert(c)
    \/ DiscoverServicesLegacy(c) \/ Subscribe(c)

Receive(c) ==
    \/ ReceiveServices(c) \/ ReceiveCharacteristics(c) \/ ReceiveError(c)
    \/ ReceiveWriteResponse(c) \/ ReceiveNotification(c)

Next ==
    \/ Start \/ AddService \/ StartAdvertising \/ Crash
    \/ \E c \in Central :
          \/ Connect(c) \/ Lose(c) \/ Task(c) \/ RequestPhoto(c) \/ Receive(c) \/ Serve(c)
          \/ \E u \in UUIDsOf(layout) : Notify(c, u)
    \/ \E d \in delivering : Deliver(d)

\* Goroutines and read loops run on.  Connections, losses, crashes and what the
\* applications send come from outside.
Fairness ==
    /\ WF_vars(Start) /\ WF_vars(AddService) /\ WF_vars(StartAdvertising)
    /\ \A c \in Central : /\ WF_vars(Task(c)) /\ WF_vars(Receive(c)) /\ WF_vars(Serve(c))
                          /\ WF_vars(\E d \in delivering : d.central = c /\ Deliver(d))

Spec == Init /\ [][Next]_vars /\ Fairness

------------------------------------------------------------------------------
(* Properties *)

Wants == Range(Wanted) \cap UUIDsOf(layout)
Ops == {"services", "characteristics", "write"}
Handles == 1..Len(OwnTable)

\* Type invariant: what the goroutines, queues, caches and the manager may hold.
LinkTypeOK ==
    /\ layout \in Layouts /\ phase \in {"down", "starting", "ready"}
    /\ added \in 0..Len(layout) /\ published \in 0..Len(layout)
    /\ phase = "ready" => added = Len(layout)
    /\ subscribers \subseteq Central \X UUIDsOf(layout)
    /\ \A d \in delivering : d.central \in Central /\ d.at \in 1..made[d.central]
    /\ \A c \in Central :
          /\ made[c] \in 0..(MaxFailures + 1) /\ conn[c] \in {0, made[c]}
          /\ conn[c] = 0 => toServer[c] = <<>> /\ toCentral[c] = <<>> /\ cache[c] = EmptyCache
          /\ cccd[c] \subseteq Handles
          /\ tracker[c] \in {"none"} \cup Ops
          /\ known[c] \subseteq UUIDsOf(layout) /\ notifying[c] \subseteq known[c] \cup Wants
          /\ \A t \in tasks[c] : t.at <= made[c] /\ t.id \in 1..made[c]
    /\ asked \subseteq Central \X Wants

\* Whatever a discovery has put in a cache while the table grew, connections broke and
\* goroutines of earlier connections wrote into it, a handle in it is the value of the
\* characteristic it is kept for, in that characteristic's service.
CacheIsExact ==
    \A c \in Central : \A u \in DOMAIN cache[c].handles :
        \E i \in DOMAIN layout :
            /\ u \in UUIDsOf(<<layout[i]>>)
            /\ HandleToUUIDs(Table, cache[c].handles[u]) = [char |-> u, service |-> layout[i].uuid]

\* The manager lists a central for a characteristic only if that central wrote for
\* this very characteristic in this run of the server.
SubscriberAsked == subscribers \subseteq asked

\* The two records of a subscription agree: what the connection has enabled the
\* manager lists too, but for the one subscription its read loop is handing over.
EnabledIsSubscribed ==
    \A c \in Central : \A h \in cccd[c] :
        \/ <<c, HandleToUUIDs(Table, h).char>> \in subscribers
        \/ \E d \in delivering : d.central = c /\ d.name = HandleToUUIDs(Table, h)

\* Queues, caches and subscriptions are of their types, and the bearer's record of a
\* subscription (gatt/cccd.go) never runs ahead of the manager's.
LinkInv == LinkTypeOK /\ EnabledIsSubscribed

\* A notification is delivered as the characteristic it was sent for, though it
\* travels as a handle that each side names by its own table.
HeardAsSent == \A pair \in heard : pair[1] = pair[2]

\* Over a connection made to a server that is ready the central comes to hold all the
\* subscriptions it wants, unless the connection is lost.  No goroutine of an earlier
\* discovery may be left, nor a request of one: they would use this bearer.
SubscribedInTheEnd ==
    \A c \in Central : \A n \in 1..(MaxFailures + 1) :
        (/\ conn[c] = n /\ phase = "ready" /\ tasks[c] = {NewTask(n)}
         /\ tracker[c] = "none" /\ toServer[c] = <<>> /\ toCentral[c] = <<>>)
            ~> (conn[c] # n \/ \A u \in Wants : /\ <<c, u>> \in subscribers
                                                /\ LocalUUIDToHandle(Table, u) \in cccd[c])
=============================================================================
