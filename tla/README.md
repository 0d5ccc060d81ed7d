# TLA+ models of auraphone-blue

auraphone-blue simulates phones that find each other over Bluetooth Low Energy,
exchange handshakes, profiles and photos, and gossip about third phones. Every
"phone" is a set of Go objects on a layered stack: an iPhone or Android
application, a copy of Apple's or Android's Bluetooth API, and a "wire" package
that plays the radio over Unix domain sockets. Every connection has goroutines
of its own, and almost every piece of state below is shared by several of them.

This directory holds TLA+ modules for the parts in which that concurrency, and
crashes, decide whether the program works; TLC configurations for small
instances; and proofs, checked by TLAPS, for instances of any size.

    tlc -workers 2 -config Wire.cfg WireConnection      # model-check
    tlapm CentralManagerProofs.tla                      # check the proofs

## 1. The system

| Part (source) | State | Operations | Interacts with | What is hard |
|---|---|---|---|---|
| **Identity manager** (`phone/identity_manager.go`) | maps peripheral UUID → device ID and back, connected set, state file | RegisterDevice, MarkConnected, MarkDisconnected, SaveToDisk, LoadFromDisk, getters | called by the handshake handlers of every link, by the scanner, by Stop | UUID rotation and device reuse touch both maps; saves overlap on one temporary file; crash between any two steps |
| **ATT request tracker** (`wire/att/request_tracker.go`) | the one outstanding request of a connection, its timer, its response channel | StartRequest, CompleteRequest, FailRequest, CancelPending, handleTimeout | sendATTPacket, long writes, discovery, MTU exchange, read loop | a timeout goroutine per request looks at the slot twice, 30 s apart |
| **ATT bearer** (`wire/wire_att.go`, `wire_gatt.go`, `wire_discovery.go`, `att/fragmenter.go`) | packets in flight, queue of prepared fragments per handle, discovery cache, MTU | SendGATTMessage, sendFragmentedWrite, DiscoverServices…, handleATTPacket | tracker, connections, the GATT handler above | callers of one connection interleave between a check and its use, and between the fragments of a long write |
| **Connections and read loops** (`wire/wire.go`, `wire_connection.go`, `wire_readloop.go`) | peer UUID → connection, callbacks | Start, Connect, accept, Disconnect, read loop and clean-up | both phones; central manager by callbacks | calls of Connect cross; stale read loops; half-open sockets; crashes |
| **Central manager** (`swift/cb_central_manager.go`, `iphone/central_delegate.go`) | connecting, pending and connected peripherals, auto-reconnect | Scan, Connect, attemptReconnect, Cancel, StopScan | wire, identity manager | a chain of goroutines, each started by the failure of the one before |
| **Peripheral, peripheral manager** (`swift/cb_peripheral.go`, `cb_peripheral_manager.go`) | services, write queue, subscriptions | discovery, reads, queued writes, notifications | wire, delegates | discovery goroutines outlive connections; subscriptions outlive them too; delegates replaced while notifications arrive |
| **Android stack** (`kotlin/`) | the GATT operation queue, connection state, advertiser | ConnectGatt, operations one at a time, Close, reconnect | wire, application callbacks | the queue is replaced while its processor runs; one disconnect callback for all connections |
| **Advertising and scanning** (`wire/discovery.go`, the scanners of both stacks) | socket files, `advertising.bin`, peers reported and discovered | StartAdvertising, StartDiscovery, ReadAdvertisingData, role policy | file system, central managers, applications | files outlive crashes and are read while they are written; every peer is looked at once |
| **Applications** (`iphone/`, `android/`) | handshake marks, discovered devices, photo slots, profile caches | handshakes, photo requests and chunks, profiles, gossip | everything below; mesh view | delegates, timers and both roles of a link interleave |
| **Mesh view** (`phone/mesh_view.go`) | what each known device has, request flags, gossip round, state file | MergeGossip, UpdateDevice, MarkPhoto…, SelectRandomNeighbors, save, load | gossip, photo transfer | news arrive late and over several paths; flags survive a crash |
| **Photo cache** (`phone/photo_cache.go`) | photos by hash, a transfer in progress | chunking, reassembly, hash check | photo transfer | lost and foreign chunks |
| **GATT database, CCCDs, discovery cache** (`wire/gatt*`, `wire_utils.go`) | attribute table, subscriptions, what discovery found | building, searching, handle look-up | bearer, both stacks | the table grows while clients read it; handles and names are translated on both sides |
| L2CAP and connection parameters, packet encodings, GUI, logs, health files, test reports | files, widgets | input and output | – | not protocol state |

What makes each part correct:

* identity: both maps inverse; rotation leaves no trace of the old address; a
  crash brings back what was last saved;
* tracker: a request gets exactly one answer, and always gets one;
* bearer: a long write arrives once and whole or not at all; "success" means it
  arrived; nobody waits for ever;
* connections: one live connection with a peer, no dead entry that blocks new
  ones, no half-open socket;
* central manager: reconnects after any failure, with one attempt at a time,
  and not after it was told to stop;
* discovery and GATT: what a client believes of a server's table is true of it;
  who subscribed is notified, under the right name, and nobody else;
* Android: operations one at a time and in order, none lost or repeated; one
  goroutine dials a peer; a loss is reported when, and only when, there is one;
* advertising: of two phones one dials, and they end up connected;
* mesh and profiles: newer news wins (where links form no circle); all phones agree in
  the end;
* photos: what is stored under a hash has that hash, and a photo that is wanted
  is eventually asked for.

## 2. Modules

| Module | What it is |
|---|---|
| `IdentityManager` | the identity manager, its file and the handlers that drive it |
| `IdentityMatching` | abstract: a durable one-to-one matching |
| `MCIdentityManager` | symmetry for TLC |
| `RequestTracker` | the tracker, its timeout goroutines and timers |
| `AttBearer` | EXTENDS `RequestTracker`: callers, both streams, the serving peer |
| `WriteService` | abstract: long writes carried out at most once and whole |
| `WireConnection` | connections of two devices: dial, accept, read loops, crashes |
| `CentralManager` | EXTENDS `WireConnection`: connecting and reconnecting above it |
| `ProtocolMessages` | the messages of the protocol characteristic and how a receiver tells them apart |
| `ProfileSession` | EXTENDS `ProtocolMessages`: handshakes, profiles and gossip of two phones |
| `GattOperationQueue` | the operation queue of a BluetoothGatt: callers, processors, Close |
| `SerialExecutor` | abstract: operations one at a time, in the order of the calls |
| `AndroidCentral` | an Android as a central of several peers: slots, dials, reports, reconnects |
| `AttributeTable` | the GATT server's table, discovery searches, the client's cache (operators only) |
| `GattLink` | EXTENDS `AttributeTable`: discovery, subscriptions and notifications over connections |
| `MCGattLink` | layouts of one and of two services for TLC |
| `MeshView` | one entry of the mesh view and the methods that change it (operators only) |
| `PhotoSharing` | EXTENDS `MeshView`: gossip, requests, relays and chunks of a photo |
| `MCPhotoSharing` | the topologies and photos for TLC |
| `Advertising` | socket and advertising files, scan loops, role policy, dials |
| `*Proofs` | the theorems of the module they are named after; those of `RequestTracker` are in `AttBearerProofs`, those of `WireConnection` in `CentralManagerProofs`, those of `GattOperationQueue` and `AndroidCentral` in `AndroidStackProofs` |

### IdentityManager

`hardwareToDevice`, `deviceToHardware` and `connectedDevices` are the three
fields of the same names. RegisterDevice holds the write lock and is one action;
SaveToDisk holds only the *read* lock and takes three steps (open the temporary
file, write, rename), so the model gives each saving goroutine a `pc` and a file
descriptor `fd`. When one goroutine renames the shared temporary file, the
descriptors of the others then name the state file itself (`AfterRename`);
a rename without a temporary file fails, which the handlers only log
(`SaveRenameFails`). Goroutines that register or mark must wait for the readers
(`CanWriteLock`). `Restart` is a crash at any point and a load of the state file,
truncated ones included. Peers' UUIDs and device IDs are a set each; the peer
named `OurHardware` stands for the goroutine that runs Stop.

### RequestTracker and AttBearer

Requests are numbered; a number also names the request's channel, timer and
goroutine. All methods run under one mutex and are one action each, but
handleTimeout takes the mutex twice, and in between waits on the timer of
*whatever request it found first*: `ArmTimeout`, `ReceiveTimer`, `FireTimeout`.
A Go timer's channel yields one value, so `taken` records who got it. All timers
run 30 seconds, so they expire in order and the number of expired ones is the
whole clock.

`AttBearer` adds `Caller`s, goroutines that each send a plain write, a CCCD write,
a discovery request or a long write. `Check`, `Compare`, `Register` and `Send` are
the separate critical sections of sendATTPacket; `Start` is the StartRequest that
long writes and discovery do themselves. The server's Fragmenter is `queue`; it
commits every handle at an Execute Write, in an order Go leaves open. `Drop` is the end of the
connection: Disconnect cancels the pending request, the end of a read loop does
not. Values are abstracted to (writer, fragment number) pairs, opcodes to four
strings.

### WireConnection and CentralManager

A socket is what one call of Connect makes and is reused when nothing is left of
it, so that calls are unbounded. `dial` and `incoming` are the places at which
Connect and handleIncomingConnection are, between their critical sections; `loop` is the
goroutine each device runs for a connection it stored, from `registered` over
`reading` to the two steps of its clean-up, first the map entry (`CleanupDelete`),
then the socket (`CleanupClose`). Disconnect spawns its callback as a goroutine
(`callbacks`), so a device gets two callbacks for one connection. A crash loses
all of a device's state and closes its sockets.

`CentralManager` runs the iPhone's manager and delegate over it: each wire action
that calls back is conjoined with what the callback does (`CentralCleanupClose`,
`DidConnect`, ...). `retries` counts the sleeping attemptReconnect goroutines. `Dialer` is the role
policy: the phone with the larger device ID connects.

### ProtocolMessages and ProfileSession

A message on the protocol characteristic has no type field: the receiver tries
one protobuf parser after the other and looks at a few fields. `Fields` says
which field numbers a message puts on the wire, with which wire types, and
`Route` is the order in which handleProtocolMessage tries; what comes out need not
be what was sent. Names are numbers: the *n*-th edit sets first name *n*+1, so that a
name tells how old it is.

`ProfileSession` is a central (iPhone) and a peripheral (`android` chooses which
platform) that connect, greet, lose the connection and connect again. `greeted` is
`handshaked`, `marked` the mesh view's connected mark, `view` its entry of the peer,
`cached` the stored profile, `shown` the name in the list of devices. A profile update
is three steps, `Update` (which copies the profile), `ReadVersion` and
`SendUpdate`, because broadcastProfileUpdate starts a goroutine that reads the
version under a lock of its own. A central writes, a peripheral only notifies, so
that it can never ask for a profile. Messages of one direction keep their order;
the goroutine that writes a request is part of the handler that starts it. A lost
connection is noticed by both before the next one (reconnecting sleeps for two
seconds first). Phones without photos, third phones' entries and the disk are left out.

### GattOperationQueue

`startOperationQueue` finds the queue running (`FindStarted`) or holds the mutex over the
making of two channels (`OpenQueue`, `StartProcessor`); the send that follows holds
nothing. Channels come in generations: Close closes the present `queueDone`, and the
next operation makes new ones. processOperationQueue reads the two *fields* in
every round, without the mutex, and Go evaluates them one after the other
(`ReadQueueField`, `ReadDoneField`), so a processor can see the queue of one generation
with the stop channel of another; that, and select's random choice, is in the model.
`execute` is one step for all operations but long writes: WriteCharacteristic of more than
the MTU goes to sendFragmentedWrite, where the processor sends `left` requests, one after the
other, and after each waits on its response channel (`waiting`) until the peer answers,
Disconnect cancels or 30 seconds are over.

### AndroidCentral

`scan` is how far OnScanResult, connectToDevice and ConnectGatt are with a peer,
`slot` its entry in `connectedGatts` (absent, nil, or a BluetoothGatt).
The goroutines that call wire.Connect, one from ConnectGatt and others from
attemptReconnect, are counted by stage (`dialers`). `callbackFor` is the peer whose
ConnectGatt set the wire's only disconnect callback last: `DisconnectCallback` is called
for every lost connection and reports it only if it is that peer's. `link` is the wire's
entry, where `dead` is one whose read loop has not yet removed it. Peers are of
three kinds: those we dial, those that dial us, and anonymous ones, where both do.
`autoConnect` is chosen at the start; the application passes false.

### AttributeTable and GattLink

A table is the sequence of its attributes, so that a handle is a position. The
operators are the code's functions; a loop that builds something is a recursive
function from the number of its rounds to what they have built (`ServiceStages`,
`BuildAttributeDatabase`).

`GattLink` has one server, whose socket accepts connections before its services exist
(`phase`, `added`), and centrals with a goroutine per discovery (`tasks`). Such a
goroutine looks the connection up, sleeps, clears *that* connection's cache and registers
with *its* tracker, but sends on the connection there is by then (`Lookup`,
`SendRequest`); a goroutine of a lost connection thus reaches into the next one. The
bearer's record of subscriptions (`cccd`) and the manager's (`subscribers`) are separate: the read
loop changes the first and hands over to the second (`Deliver`), and only the first goes
with the connection. A notification travels as a handle and gets its name
from the receiver's own table. `gatt.json`, which the fallback of discovery reads,
outlives a crash.

### MeshView and PhotoSharing

`PhotoSharing` has one phone with photos of its own, and follows what all others
know about it: `entry` (the mesh view's), `gossiped` (who said he knows of
the photo), `slot` (the transfer in progress), `taken` (links whose central has replaced
its delegate by one that passes on chunks only), `streams` (goroutines that send chunks).
Timestamps are ages, kept dense, and equal within a second. What is looked at is
a scenario, chosen at the start: links, numbers of chunks, losses, refused writes.

### Advertising

A phone goes from `down` over `listening` (socket), `ready` (the application has set its
callback), `writing` (os.WriteFile has emptied `advertising.bin`), `running` to `closing`; a
crash at any point leaves both files. `Tick` is one round of StartDiscovery, which takes a
list; every peer of the list is then read and handled by a step of its own, when its file may
be gone or empty. What follows takes several steps too. DidDiscoverPeripheral decides to
connect and unlocks (`decided`), and calls Connect later: an iPhone's central manager ignores
it when the wire is connected by then, an Android dials all the same (`dialing`). At the other
end the connection is stored first (`accepted`); the callback that makes the one who
dialed a discovered device comes after that (`Incoming`), and does nothing if it is not set
yet. Before discovering a peer, an Android may have marked it as connected because of a message
to its GATT server (`served`). `misread`, `tried` and `found` are history variables:
who was judged by something else than its advertisement, which peers an Android has spent its
one dial on, and who was not dialed because it was connected or marked so.

## 3. Runs

| Run | Question | Result |
|---|---|---|
| `identity` | do rotations, reuses, overlapping saves and crashes keep the maps inverse, and the file current? | holds; refines `IdentityMatching` |
| `att` | do long writes arrive whole and once among other traffic? | holds on one characteristic within 30 s; refines `WriteService` |
| `att_clock` | is each request answered once, and always? Does every caller return? | holds, although timers are stolen; the bearer implements the tracker's specification |
| `wire` | one connection, no orphaned entries, no half-open sockets? | holds for a device that does not call Disconnect |
| `central` | one reconnect attempt at a time, and a connection in the end? | holds |
| `session` | do two phones greet on each connection, and agree in the end? Is anything filed under a wrong version? | holds, but for an Android that was not told of a disconnect |
| `session_names` | is the name in the device list ever something else than a name? (`iphone/handshake.go:205`) | yes, a device ID |
| `gatt_queue` | are operations carried out one at a time, in order, once, do they end when no peer answers, and do processors stop? | order and one at a time hold until Close, refining `SerialExecutor`; the rest always |
| `android_central` | one dial at a time, no slot that blocks, true reports, reconnects? | holds for the peer whose callback is set, and unless both sides dial |
| `gatt_link` | does discovery find what is there, and do subscriptions and notifications reach who asked? | holds, also over lost connections and a restarted server |
| `photo` | does anybody go back to a photo of before, and do news and the photo arrive? | holds on lines of links (on trees, by proof; not on circles); photos of direct neighbours only, of one chunk |
| `advertising` | does one side dial, and do phones that run meet? | holds, but for peers judged by a placeholder or found connected, and Androids whose one dial is spent |

`session_names` ends in a violation: it checks a sentence of a comment against what the
code does, and the finding in PROJECT.json quotes it.

Invariants of one module are checked together: `IdentityInv`, `AttInv`, `TrackerInv`,
`WireInv`, `CentralInv`, `SessionInv`, `QueueInv`, `AndroidInv` and `LinkInv` are
conjunctions of the type invariant and of safety properties that have names and comments
of their own.

Bounds, and why they suffice:

* `identity`: three peers and two devices. A rotation, a reuse, and both at once
  need two of each; a third peer gives three overlapping saves, which is what it
  takes for a descriptor to become unlinked while another still writes.
* `att`: three callers, one characteristic, two fragments per long write: two long writes
  can be cut into each other with a third request between them. `MaxRequests` 9 is never
  the limit. `att_clock` has two callers and two expiring timers, as timer
  stealing needs two.
* `wire`: two sockets at a time are a crossing pair, or an old and a new connection; one
  crash. `central`: three sockets, because an accepted socket may outlive
  both the connection and its replacement, and two crashes, one of each phone.
* `session`: the peripheral edits twice, which is what it takes for an update to carry
  old contents with a new version, and one connection is lost, at any point.
* `gatt_queue`: three operations, two of them long writes of three requests (two fragments
  and the Execute Write), a channel of two, and two generations (`MaxOpens`), both of which can
  be closed: the channel can be full, two processors can wait for responses at once, and
  one of the first generation can move to the second one's channels and be stopped by the last
  Close. The safety properties are proved for any number of restarts and requests.
* `android_central`: a peer we dial and an anonymous one, two lost connections: a callback can
  be replaced, and a reconnect can be lost again. Peers that dial us are a case of
  the anonymous one, which may be dialed first.
* `gatt_link`: one central, one lost connection or restart, one renewed
  subscription, one notification; two layouts, one with both characteristics in a
  service, one with services that are added one by one and a characteristic nobody wants.
  A second central shares nothing with the first but the table and the manager's list.
* `photo`: two phones with a photo of two chunks, a new one, a loss and a refused write; three
  in a line with a loss, or with a new photo. Two hops are what it takes for
  old news to cross newer ones.
* `advertising`: two phones of either platform, two crashes or shutdowns, one lost
  connection; of three IDs one is smaller than both placeholders, one between them and
  one larger than both.

### Fairness

Goroutines that can run do run (weak fairness of each caller, read loop,
timeout goroutine and retry), and time passes (`Expire`, `Clock`). Nobody is
assumed to start a request, call Connect, save or register. `CentralManager` also assumes
that scans find a running phone and that a crashed phone is started again, as
a user would; without them nothing promises a connection. `ReconnectsAfterAll` is
claimed for one dialling phone only: two that dial can refuse each other's
sockets at every one of their fixed two-second retries. In `ProfileSession` a gossip
message replaces an entry only if it was made in a later second; it is assumed that
this happens again and again, and that the five-second timer finds the link idle
then. Edits and disconnects are never assumed.

In `GattOperationQueue` a processor goes on when it can, and a request of a long write that is
neither answered nor cancelled times out (`TimedOut`): that is `EveryRequestEnds` of
`RequestTracker`, which `att_clock` checks. Neither the peer's answer (`Answered`) nor Disconnect
(`Cancelled`) nor Close is assumed. The other operations are a send on a socket and a callback,
which are taken to return. `AndroidCentral` assumes strong
fairness of a dial (`DialSucceeds`): a peer that runs is not missed every time. `GattLink`
assumes nothing of connections, `PhotoSharing` that connections come back (the central
retries every two seconds) and, by strong fairness, that the gossip timer sometimes finds a link
without messages. In `Advertising` phones are started by their users, or not.

## 4. Proofs

All theorems are for any value of the constants, under the `ASSUME` named in each
module (sets are disjoint from their sentinels, bounds are naturals, there are
two devices).

* **`IdentityManagerProofs`** – `IdentityHolds` (with its parts `TypeCorrect`,
  `MapsStayInverse`, `OwnIdentityStays`), `RotationIsClean`, `DurableAtRest`, `Implements`. The
  inductive invariant has two halves. `MapsInv`: the maps are inverse and every
  snapshot on disk is a partial injection, without which a restart could break
  them. `DescriptorsInv` and `Synced \/ Pending`: either a load would return the
  present maps, or a goroutine remains that will write them into the file the
  state path names by then; the shared temporary file makes this subtle, since a
  rename may publish a half-written file whose writer then completes it in place.
* **`AttBearerProofs`**, in three layers.
  `TrackerHolds` (`TrackerTypeCorrect`, `PendingIsWatched`, `OpenExactlyPending`) and
  `ChannelsAnsweredOnce` are about the tracker alone. Their invariant says that only the
  newest request can be pending, that its own goroutine waits for its own
  timer, and that if somebody else took that timer's tick, he has yet to come back
  to the slot. `BearerDrivesTracker`: every step of the bearer is a step
  of the tracker's specification or leaves it alone; so the tracker's theorems
  hold on a connection (`BearerHolds`). `BearerTypeCorrect` is the bearer's type invariant.
  `BearerSerial` is `AttInv` for the first 30 seconds (`MaxExpired = 0`; afterwards the stale
  answers of section 5 break it, which is a fact of the code and not of the proof).
  `BearerIInv` finds the one packet on both streams that somebody waits for (`Traffic`): it is
  the request of the caller that holds the pending slot, or the response to it; whoever has not
  been told the end of his request holds the slot, and plain writes pass in any number.
  `LongWritesAreWhole` is the refinement of `WriteService`, under the same hypothesis and
  for one characteristic (`OneHandle`; with two, an Execute Write commits the other one's
  fragments). `WriteIInv` relates the server's queue to the caller: as long as a caller
  with an answered fragment has not been delivered, the queue holds its fragments and
  nothing else (`Queued`), so that no two callers can be half-way, and an answer that is
  on its way or in the channel tells the truth (`Echoed`, `Accepted`).
* **`CentralManagerProofs`**. `WireHolds` (`WireTypeCorrect`, `OneConnectionPerPeer`,
  `EntriesAreAttended`) is about the wire alone. `LoopOwnsEntry` (a read loop that has not
  cleaned up owns the map entry) is what the second look under the lock establishes, and what
  Disconnect breaks; it holds for the devices that do not call it. `ManagerDrivesWire`: the
  central manager uses the wire as its specification allows, so `CentralWireHolds`.
  `CentralHolds` is `CentralInv`, if one phone dials. Its invariant passes a token on (`TokenOf`):
  a sleeping attempt, a dial, a connection and the clean-up that will start the
  next attempt exclude each other. With two dialling phones it is false, as TLC confirms with
  `Dialer` both nodes and no crash: a dial that is refused because the peer has just
  connected leaves a retry, and the end of the peer's connection starts another.
* **`ProfileSessionProofs`** – `SessionHolds` (`SessionTypeCorrect`, `NothingAhead`), for any
  number of edits and disconnects. The invariant is about what is under way: every message
  in a channel could have been sent by its sender in its present state (`Honest`), and
  so could what the goroutines in `sends` hold; an edit only widens that set.
  `RouteSound` says what misreading can do: what is taken for gossip or a profile was
  sent as one, and only requests are taken for handshakes.
* **`AndroidStackProofs`**, of two modules. `QueueHolds` and `Serial` are about
  `GattOperationQueue`, for any number of
  operations, of restarts and any capacity. An operation is in a channel, with a
  processor or with its caller, exactly as its `pc` says, and in a channel only once (channels
  are sequences, so this is stated by positions). `Serial` is the refinement of `SerialExecutor`:
  until Close there is one generation and one processor (`OneGeneration`); every step
  maps to a step of the executor or a stutter, those of a long write to stutters
  (`WriteStepKeeps`).
  `AndroidHolds` and `DisconnectsAreTrue` are about `AndroidCentral`, for any number of
  peers and losses. The invariant counts: the goroutines before their report, the
  lost connections whose callback is still to come, a standing connection and a
  call still to be made are one at most for a peer that does not dial us (`OnePlace`).
  `Counted` bounds them by the number of losses for any peer. A lemma per action shows
  what it does to the peer it is about; `OthersKeep` does the rest.
* **`AdvertisingProofs`** – `AdvertisingTypeCorrect` and `RolesHold`, for any number of
  phones. The invariant (`Judged`) is that whom a phone is going to dial, dials or has dialed,
  and to whom it has a connection that it dialed, has the smaller device ID or was misread;
  crashes clear both sides of it together, and connections go with the process of either end.
* **`GattLinkProofs`** – `LinkHolds`, `CachesAreExact`, `SubscribersAsked` and
  `NotificationsHeardAsSent`, for any number of centrals, any lists of services, any number of
  losses, restarts and notifications. It has two parts.
  The first is about `AttributeTable` alone. The recursive functions are never
  evaluated by induction over data: `Chain` shows, by a least number without a suitable
  start (`UpTo`, from the well-founded order of the naturals), that rounds which each lead from one set of
  values to the next have such a function, and thus that the one chosen is
  of that kind. From it `DatabaseStages` gets what a table of n services looks
  like (`GoodTable`: it begins with a header, a declaration points to the next attribute,
  which has its UUID, and the header before it is of a service that has this characteristic),
  `TableGrows` that it changes at its end only, `ServicesFound`,
  `CharacteristicsFound` and `CharacteristicsAdded` that searches and caching
  keep handles `Exact`: of that type, in a service with that characteristic. Exactness for n services is exactness for
  more (`ExactGrows`).
  The second part is the invariant `LinkIInv`: not only caches, but responses and writes
  under way are exact for the services registered so far (`RequestsOf`, `AnswersOf`), since a
  response may be served before a service is added and cached after it, or requested on
  one connection and taken by a goroutine of another; every subscription
  under way, handed over or listed has been asked for (`QueuesOK`, `ManagerOK`), which is
  why the queues must be empty while there is no connection: a restart clears what was asked.
  One lemma per action; eight `...Frame` lemmas for the parts it leaves alone.
  The assumptions are `TableAssumption` (UUIDs of characteristics are none of the reserved
  types) and `GattLinkAssumption`; its part that the UUIDs of characteristics differ, which
  `CharHandleMap` and `localUUIDToHandle` seem to need, is not used: a cached
  handle is *a* characteristic of that UUID without it, *the* one with it.

* **`PhotoSharingProofs`** – `PhotoTypesHold` and `NewsNeverGoBack`, for any number of
  phones, photos, chunks, losses and restarts, under `PhotoAssumption` (the phones are
  finitely many, the owner is one of them, a link has two ends).
  `TypeIInv` adds to the types that messages are under way on connected links only, that
  the owner holds the photo it shows and that of an unknown device no photo is known.
  `NewsNeverGoBack` is `NeverBack`, on any tree of links. The code compares ages alone, so
  what has to be shown is that younger news are never of an older photo. `NewsOK`, for a
  function from phones to their parents: whoever is not next to the owner knows nothing
  younger, and no later photo, than its parent (`Behind`), so that a child's
  gossip never changes its parent's entry; and to a neighbour of the owner the handshakes under
  way announce photos in order, none before the one it knows and none after the present
  one (`InOrder`), which with a channel that is empty when gossip is sent leaves no way for old
  news. That time passes keeps this, because the ages that the model keeps dense grow with the
  true ones (`DenseAges`, from cardinalities). The tree is needed: on a circle the theorem
  is false, and it was an attempt to prove it that showed it (section 5).

Only model-checked: what holds under fairness (`EveryRequestEnds`,
`CallersReturn`, `DeadEntriesGo`, `NoHalfOpen`, `ReconnectsAfterAll`,
`HandshakesComplete`, `ViewsSettle`, `AcceptedEnds`, `ProcessorsStop`, `LossIsNoticed`,
both `SubscribedInTheEnd`, `AutoReconnects`, `NewsArrive`, `DirectPhotoArrives`,
`MeetInTheEnd`), which is out of the provers' reach. Every invariant, action property and
refinement that a passing run checks is also a theorem, under the hypotheses named above.

## 5. Observed, without a run of their own

Identity and device IDs

* SaveToDisk is not the "atomic write" of its comment (`identity_manager.go:192`, `223`):
  it holds the read lock only, and after the first of two overlapping saves renames the shared
  temporary file, the second one's descriptor is the state file itself, truncated until it is
  written. A crash there loses all mappings.
* profileVersion starts at 0 with every run, so that peers take the first updates after
  a restart for old ones.

Bearer

* The timeout goroutine of an answered request stays on its timer and, when it fires,
  times out whatever request is pending by then (`request_tracker.go:105-132`).
* A long write that is given up (`wire_gatt.go:223`) leaves its fragments with the server,
  and the Execute Write of another characteristic commits them as a truncated value,
  although `fragmenter.go:102` promises "the fully reassembled value" and 133 a clearing on
  errors.
* With time-outs, a late Prepare Write Response can complete the next Prepare
  Write of the same offset and length (`wire_gatt.go:237` compares no value).
* An Error Response completes any pending request, with no error for the one that waits: a
  refused Execute Write is a success, and "Attribute Not Found" a discovery of no services.
* An ordinary Write Request is answered by neither platform, so it holds the
  connection's one request slot for 30 seconds; long writes, discovery and CCCD writes
  fail meanwhile.

Connections

* A read loop deletes its peer's entry whatever connection that is (`wire_readloop.go:27`):
  after Disconnect and a new Connect the old loop removes the new entry, against
  "peer UUID -> single connection" (`wire.go:25`).
* CancelPeripheralConnection during the delay of wire.Connect disconnects
  nothing, and the connection is made afterwards; attemptReconnect never looks at
  `autoReconnectActive`, so goroutines that sleep when StopScan turns reconnecting off
  dial all the same (`cb_central_manager.go:397` against 217-219).
* The late disconnect callback of an old connection clears the handshake and
  connected marks of a newer one on the accepting phone.
* `handleIncomingConnection` and Connect of two phones that both dial can
  refuse each other in lock-step.

Android

* An Android that is the peripheral is not told of a disconnect and keeps its
  handshake mark, so that it does not answer the central's next handshake
  (`android/handshake.go:188`); `HandshakesComplete` excepts this case, and fails
  without the exception.
* After Close and a new operation the processors of two generations may execute side by side,
  which "one at a time" (`bluetooth_gatt.go:96-97`, `106`, `128`) does not expect; operations
  of the closed generation are never called back, and a full queue drops with a log line.
* A disconnect of a peer whose callback was replaced by a later ConnectGatt is
  reported to nobody: its marks and its slot stay, and it is never dialed again.
* The report CONNECTED may come after the report of the same connection's loss, which
  marks the peer as connected for good.
* A dial that is refused because the peer has connected to us reports DISCONNECTED,
  which wipes the marks and the slot of the standing connection. With anonymous
  peers and autoConnect that chain never ends.
* OnConnectionStateChange(DISCONNECTED) deletes the slot, and attemptReconnect never puts
  it back (`gatt_callback.go:42`); Stop calls Close on slots that are still nil
  (`android.go:149-152`).

Discovery and subscriptions

* Subscribed centrals are not removed on a disconnect (only `bluetooth_advertiser.go:349`
  and `cccd.go:24` speak of it), so a manager notifies a central that has not subscribed on
  this connection; the central drops what it does not listen to.
* A table has two configuration descriptors for each notifiable characteristic; the last
  service's range ends at 0xFFFF; RemoveService and ClearServices do not rebuild the table;
  services of mixed UUID widths make the response of discovery fail.
* localUUIDToHandle loops with a uint16 up to 0xFFFF inclusive (`wire_utils.go:27`), so that
  for a characteristic that is not there it never returns.

Profiles and photos

* A profile with a last name is read as a photo request (field 3 is a byte string) and
  dropped, and sendProfileMessage sends a profile only if it has one: after a
  handshake no profile gets through, and updates only without a last name.
* A disconnect callback of the peripheral that comes after the next handshake would
  leave that handshake unanswered for iPhones too; the two seconds before a reconnect
  are what prevents it.
* Photo chunks of 512 bytes plus framing never fit a notification at the largest
  MTU of 512 (`photo_cache.go:194`, `wire_att.go:713`): only photos of one short chunk pass
  from a peripheral to a central.
* MergeGossip keeps `PhotoRequestSent` when a photo changes, the flag is persisted, and nothing
  resets it when the relay that was asked does not have the photo; handlePhotoData marks a
  photo as received whatever was saved.
* A central that requested a photo has replaced its delegate for the rest of the connection
  and hears no handshakes and gossip any more (`photo_transfer.go:122`); so relays work
  only where the one who asks is a peripheral. A transfer slot of an earlier connection
  keeps a handshake from requesting the photo again.
* SetProfilePhoto does not announce the photo; the next gossip does.
* UpdateDevice stamps what a handshake says with the time of its arrival
  (`mesh_view.go:196`). Where links form a circle (a, b and c in a triangle, a with a new photo),
  a's handshake with the old photo can be under way to b while gossip brings the new one
  from a over c; b then returns to the old photo, and tells c of it as the younger news,
  until a's next gossip. `NeverBack` is therefore stated for trees of links.

Advertising

* Placeholders for missing names have the length of device IDs and are judged as such. An
  iPhone that reads a file while it is empty or gone never reports that peer again;
  an Android dials a peer once, so that a stale file of a crashed phone uses up its dial.
  A phone that was dialed by a peer that misread it, and heard of that before its own scan
  found the peer, never dials itself.
* A phone with the smaller ID that misread its peer may connect after the peer has decided to
  dial (`central_delegate.go:60-97`) and before its Connect, which then does nothing
  (`cb_central_manager.go:293-311`); or before the peer's callback is set (`iphone.go:76`), so
  that its scan discovers a connected phone. Nothing is pending then, and when the connection is
  lost nobody makes it again. The same happens to an Android whose GATT server was sent a
  message before its scan found the sender: the mark of its identity manager, which nothing
  clears, keeps it from connecting. `MeetInTheEnd` excepts these peers (`found`).

## 6. Not modelled, and what could follow

Not modelled:

* the GUI, the launcher, loggers, reports, health files and the photo timeline, which no
  protocol state depends on;
* encoders and decoders of single packets (`att/packet.go`, `advertising/packet.go`,
  `l2cap/packet.go`), functions on byte strings that the repository's unit tests cover,
  and the generated protobuf code;
* connection parameters, which are checked field by field, stored, and read by
  nothing, and connection events, which delay a send;
* the write queue and the reads of CBPeripheral, reliable writes, include and descriptor
  discovery: no application uses them;
* wire.Stop beside running goroutines (it is the death of the process here), the device
  ID's file, disks that fail.

What could follow: `AttBearer` over `WireConnection`, across reconnects; profiles of
third phones that gossip relays; `PhotoSharing` with Android peripherals, which keep their
handshake mark.
