---------------------------- MODULE PhotoSharing ----------------------------
(***************************************************************************)
(* How one phone's photo spreads: handshakes, gossip over several hops,    *)
(* requests, relays, chunks and their assembly (gossip.go, handshake.go,   *)
(* photo_transfer.go and the delegates of iphone/, with phone/mesh_view.go *)
(* and phone/photo_cache.go).  All phones are iPhones; only the Owner has  *)
(* a photo of its own.  What is said about other phones, names and         *)
(* profiles (ProfileSession) are left out.                                 *)
(*                                                                         *)
(* A link has a central, who writes, and a peripheral, who notifies.       *)
(* Connecting, discovering services and subscribing are one step here; in  *)
(* the two seconds before a reconnect goroutines that were started run,    *)
(* and the goroutine that requests a photo is part of what starts it.      *)
(* Every five seconds a gossip message finds its link free of messages.    *)
(***************************************************************************)
EXTENDS MeshView, Sequences, SequencesExt, FiniteSets

CONSTANTS
  Phone, Owner,
  Scenarios,    \* what is looked at, each a record of
                \*   links: the set of pairs <<central, peripheral>>
                \*   chunks: the number of chunks of each of the owner's photos, in turn
                \*   losses: bound: disconnects and restarts
                \*   refusals: bound: writes of chunks that find the request slot taken
  MaxStreams    \* bound: streams of one direction when gossip or a connection starts more

ASSUME PhotoAssumption ==
  /\ Owner \in Phone /\ IsFiniteSet(Phone)
  /\ Scenarios \subseteq [links : SUBSET (Phone \X Phone), chunks : Seq(Nat \ {0}),
                          losses : Nat, refusals : Nat]
  /\ \A s \in Scenarios : Len(s.chunks) > 0 /\ \A l \in s.links : l[1] # l[2]
  /\ MaxStreams \in Nat

VARIABLES
  scenario,   \* never changes
  up,         \* the links that are connected
  losses, refusals,
  photo,      \* the owner's photoHash
  entry,      \* meshView.devices' entry of the owner
  disk,       \* HavePhoto and PhotoRequestSent as last saved; the rest is always current
  connected,  \* meshView.connectedDevices
  gossiped,   \* meshView.neighbors: the photo hashes each neighbor has gossiped about
  greeted,    \* ip.handshaked
  cache,      \* photos of the photo cache
  slot,       \* ip.photoTransfers, by peer
  taken,      \* links whose central's CBPeripheral has a photoTransferDelegate
  streams,    \* goroutines in sendPhotoChunksWithData: photo and next chunk
  channel     \* messages under way

radio     == <<scenario, up, losses>>
knowledge == <<entry, disk, connected, gossiped, greeted>>
receiving == <<cache, slot, taken>>
sending   == <<streams, refusals>>
vars      == <<radio, photo, knowledge, receiving, sending, channel>>

links  == scenario.links
Chunks == scenario.chunks
Photos == 1 .. Len(Chunks)
NoSlot == [photo |-> NoPhoto, total |-> 0, got |-> <<>>]

Full(n) == [i \in 1 .. Chunks[n] |-> <<n, i>>]   \* all chunks of a photo, in order

Handshake(n) == [kind |-> "handshake", photo |-> n]
Request(n)   == [kind |-> "request", photo |-> n]
Chunk(n, i)  == [kind |-> "chunk", photo |-> n, index |-> i]
Subscribe    == [kind |-> "subscribe"]

Message == {Subscribe} \cup [kind : {"handshake", "request"}, photo : 0 .. Len(Chunks)]
             \cup [kind : {"chunk"}, photo : Photos, index : Nat]

PhotoTypeOK ==
  /\ scenario \in Scenarios
  /\ up \subseteq links
  /\ losses \in 0 .. scenario.losses
  /\ refusals \in 0 .. scenario.refusals
  /\ photo \in Photos
  /\ entry \in [Phone -> Entry(0 .. Len(Chunks), 0 .. Cardinality(Phone))]
  /\ disk \in [Phone -> [have : BOOLEAN, requested : BOOLEAN]]
  /\ connected \in [Phone -> SUBSET Phone]
  /\ gossiped \in [Phone -> [Phone -> SUBSET Photos]]
  /\ greeted \in [Phone -> SUBSET Phone]
  /\ cache \in [Phone -> SUBSET Photos]
  /\ taken \subseteq links
  /\ \A p, q \in Phone :
       /\ slot[p][q].photo \in 0 .. Len(Chunks)
       /\ slot[p][q].total > 0 => Len(slot[p][q].got) < slot[p][q].total
       /\ \A i \in DOMAIN streams[p][q] :
            /\ streams[p][q][i].photo \in cache[p]
            /\ streams[p][q][i].next \in 1 .. Chunks[streams[p][q][i].photo]
       /\ \A i \in DOMAIN channel[p][q] : channel[p][q][i] \in Message

ByPeer(x) == [p \in Phone |-> [q \in Phone |-> x]]

\* The owner has chosen a photo before the radio starts.
Init ==
  /\ scenario \in Scenarios
  /\ up = {}
  /\ losses = 0
  /\ refusals = 0
  /\ photo = 1
  /\ entry = [p \in Phone |-> Unknown]
  /\ disk = [p \in Phone |-> [have |-> FALSE, requested |-> FALSE]]
  /\ connected = [p \in Phone |-> {}]
  /\ gossiped = ByPeer({})
  /\ greeted = [p \in Phone |-> {}]
  /\ cache = [p \in Phone |-> IF p = Owner THEN {1} ELSE {}]
  /\ slot = ByPeer(NoSlot)
  /\ taken = {}
  /\ streams = ByPeer(<<>>)
  /\ channel = ByPeer(<<>>)

-----------------------------------------------------------------------------
Linked(p, q)    == {<<p, q>>, <<q, p>>} \cap up # {}
OwnPhoto(p)     == IF p = Owner THEN photo ELSE NoPhoto
Saved(p)        == [have |-> entry'[p].have, requested |-> entry'[p].requested]  \* SaveToDisk

\* p sends messages to q, or fails to and logs it.
Sent(p, q, messages) == IF Linked(p, q) THEN channel[p][q] \o messages ELSE channel[p][q]

\* sendPhotoChunksWithData starts.
Started(p, q, n) ==
  IF n = NoPhoto THEN streams
  ELSE [streams EXCEPT ![p][q] = Append(@, [photo |-> n, next |-> 1])]

-----------------------------------------------------------------------------
\* The central connects, becomes the delegate of its CBPeripheral again, subscribes to
\* protocol and photo, and sends the handshake (DidConnectPeripheral,
\* DidDiscoverServices).  Without the owner, all that the handshakes change here is that
\* the phones know each other as connected and save their views.
Connect(c, p) ==
  /\ <<c, p>> \in links \ up
  /\ Len(streams[p][c]) < MaxStreams
  /\ up' = up \cup {<<c, p>>}
  /\ taken' = taken \ {<<c, p>>}
  /\ UNCHANGED <<scenario, losses, photo, entry, gossiped, cache, slot, sending>>
  /\ IF Owner \in {c, p}
     THEN /\ channel' = [channel EXCEPT ![c][p] = <<Subscribe, Handshake(OwnPhoto(c))>>]
          /\ UNCHANGED <<disk, connected, greeted>>
     ELSE LET meet(f) == [f EXCEPT ![c] = @ \cup {p}, ![p] = @ \cup {c}] IN
          /\ connected' = meet(connected)
          /\ greeted' = meet(greeted)
          /\ disk' = [disk EXCEPT ![c] = Saved(c), ![p] = Saved(p)]
          /\ UNCHANGED channel

\* What DidDisconnectPeripheral makes of the entry: MarkDeviceDisconnected.
AfterDisconnect(e, gone) == IF Owner \in gone THEN MarkDeviceDisconnected(e) ELSE e

\* The ends of the links in lost notice; transfer slots and neighbors are kept.
Disconnect(lost) ==
  LET gone(p) == {q \in Phone : {<<p, q>>, <<q, p>>} \cap lost # {}} IN
  /\ up' = up \ lost
  /\ losses' = losses + 1
  /\ channel' = [p \in Phone |-> [q \in Phone |-> IF q \in gone(p) THEN <<>> ELSE channel[p][q]]]
  /\ connected' = [p \in Phone |-> connected[p] \ gone(p)]
  /\ greeted' = [p \in Phone |-> greeted[p] \ gone(p)]

Drop(c, p) ==
  /\ <<c, p>> \in up
  /\ losses < scenario.losses
  /\ Disconnect({<<c, p>>})
  /\ entry' = [x \in Phone |-> IF x \in {c, p} THEN AfterDisconnect(entry[x], {c, p} \ {x}) ELSE entry[x]]
  /\ UNCHANGED <<scenario, photo, disk, gossiped, receiving, sending>>

\* A phone's process ends and starts again: NewMeshView loads the entries from the disk.
Restart(p) ==
  /\ p \in UNION {{l[1], l[2]} : l \in links} \ {Owner}
  /\ losses < scenario.losses
  /\ Disconnect({l \in up : p \in {l[1], l[2]}})
  /\ entry' = [x \in Phone |->
                 IF x = p THEN [entry[p] EXCEPT !.have = disk[p].have, !.requested = disk[p].requested]
                 ELSE entry[x]]
  /\ gossiped' = [gossiped EXCEPT ![p] = [q \in Phone |-> {}]]
  /\ slot' = [slot EXCEPT ![p] = [q \in Phone |-> NoSlot]]
  /\ streams' = [streams EXCEPT ![p] = [q \in Phone |-> <<>>]]
  /\ UNCHANGED <<scenario, photo, disk, cache, taken, refusals>>

\* SetProfilePhoto: the new photo is cached, and announced by gossip and handshakes only.
SetProfilePhoto ==
  /\ photo < Len(Chunks)
  /\ photo' = photo + 1
  /\ cache' = [cache EXCEPT ![Owner] = @ \cup {photo + 1}]
  /\ UNCHANGED <<radio, knowledge, slot, taken, sending, channel>>

\* A second passes.  Only the order of the ages matters, so they are kept dense.
Tick ==
  LET ages == {entry[p].age : p \in {q \in Phone : entry[q].known}} IN
  /\ entry' = [p \in Phone |->
                 IF entry[p].known
                 THEN [entry[p] EXCEPT !.age = Cardinality({a \in ages : a <= entry[p].age})]
                 ELSE entry[p]]
  /\ UNCHANGED <<radio, photo, disk, connected, gossiped, greeted, receiving, sending, channel>>

-----------------------------------------------------------------------------
\* requestAndReceivePhoto, of q: the slot is overwritten, then a peripheral asks by a
\* notification, and a central, with a delegate for the transfer, by subscribing again.
Waiting(n) == [NoSlot EXCEPT !.photo = n]

RequestAndReceivePhoto(p, q, n) ==
  /\ slot' = [slot EXCEPT ![p][q] = Waiting(n)]
  /\ taken' = IF <<p, q>> \in links THEN taken \cup {<<p, q>>} ELSE taken

RequestFor(p, q, n) == IF <<p, q>> \in links THEN Subscribe ELSE Request(n)

\* handleHandshakeProto: the photo is requested, unless the slot waits for it already.
Wanted(p, q, n) == n # NoPhoto /\ n \notin cache[p] /\ slot[p][q].photo # n

HandleHandshake(p, q, n) ==
  /\ entry' = IF q = Owner THEN [entry EXCEPT ![p] = UpdateDevice(@, n, cache[p])] ELSE entry
  /\ connected' = [connected EXCEPT ![p] = @ \cup {q}]
  /\ disk' = [disk EXCEPT ![p] = Saved(p)]
  /\ greeted' = [greeted EXCEPT ![p] = @ \cup {q}]
  /\ IF Wanted(p, q, n) THEN RequestAndReceivePhoto(p, q, n) ELSE UNCHANGED <<slot, taken>>
  /\ channel' = [channel EXCEPT
       ![q][p] = Tail(@),
       ![p][q] = Sent(p, q, (IF q \in greeted[p] THEN <<>> ELSE <<Handshake(OwnPhoto(p))>>)
                              \o (IF Wanted(p, q, n) THEN <<RequestFor(p, q, n)>> ELSE <<>>))]
  /\ UNCHANGED <<gossiped, cache, streams>>

\* CentralDidSubscribe, to the photo: sendPhotoChunks sends the phone's own.
HandleSubscribe(p, q) ==
  /\ streams' = Started(p, q, OwnPhoto(p))
  /\ channel' = [channel EXCEPT ![q][p] = Tail(@)]
  /\ UNCHANGED <<knowledge, receiving>>

\* Faulty: the photo that is asked for is not looked up.
HandlePhotoRequestAny(p, q, n) ==
  /\ streams' = Started(p, q, n)
  /\ channel' = [channel EXCEPT ![q][p] = Tail(@)]
  /\ UNCHANGED <<knowledge, receiving>>

\* handlePhotoRequest serves any cached photo.
HandlePhotoRequest(p, q, n) ==
  /\ streams' = Started(p, q, IF n \in cache[p] THEN n ELSE NoPhoto)
  /\ channel' = [channel EXCEPT ![q][p] = Tail(@)]
  /\ UNCHANGED <<knowledge, receiving>>

\* AddChunk, to the slot that is there, whatever photo and chunk it waits for.
WithChunk(s, n, i) ==
  [photo |-> IF s = NoSlot THEN n ELSE s.photo,
   total |-> IF s.total = 0 THEN Chunks[n] ELSE s.total,
   got   |-> Append(s.got, <<n, i>>)]

IsComplete(s) == Len(s.got) >= s.total

\* SavePhoto files the data under its own hash: a photo only if it is exactly one.
SavedAs(got) == {n \in Photos : got = Full(n)}

\* handlePhotoData.
HandlePhotoData(p, q, n, i) ==
  LET s == WithChunk(slot[p][q], n, i) IN
  /\ IF IsComplete(s)
     THEN /\ cache' = [cache EXCEPT ![p] = @ \cup SavedAs(s.got)]
          /\ entry' = [entry EXCEPT ![p] = MarkPhotoReceived(@)]
          /\ slot' = [slot EXCEPT ![p][q] = NoSlot]
     ELSE /\ slot' = [slot EXCEPT ![p][q] = s]
          /\ UNCHANGED <<cache, entry>>
  /\ channel' = [channel EXCEPT ![q][p] = Tail(@)]
  /\ UNCHANGED <<disk, connected, gossiped, greeted, taken, streams>>

\* A photoTransferDelegate passes on nothing but chunks.
Deaf(p, q) == <<p, q>> \in taken

Ignore(p, q) ==
  /\ channel' = [channel EXCEPT ![q][p] = Tail(@)]
  /\ UNCHANGED <<knowledge, receiving, streams>>

Receive(p, q) ==
  /\ channel[q][p] # <<>>
  /\ LET m == Head(channel[q][p]) IN
       \/ m.kind = "chunk" /\ HandlePhotoData(p, q, m.photo, m.index)
       \/ m.kind # "chunk" /\ Deaf(p, q) /\ Ignore(p, q)
       \/ m.kind = "handshake" /\ ~Deaf(p, q) /\ HandleHandshake(p, q, m.photo)
       \/ m.kind = "request" /\ ~Deaf(p, q) /\ HandlePhotoRequest(p, q, m.photo)
       \/ m.kind = "subscribe" /\ HandleSubscribe(p, q)
  /\ UNCHANGED <<radio, photo, refusals>>

-----------------------------------------------------------------------------
\* A chunk fits no notification, but the last one of a photo is assumed to be shorter.
Fits(p, q, n, i) == <<p, q>> \in links \/ i = Chunks[n]

\* One round of sendPhotoChunksWithData's loop: a chunk that cannot be sent is skipped.
SendChunk(p, q, refused) ==
  /\ \E k \in DOMAIN streams[p][q] :
       LET s == streams[p][q][k] IN
       /\ refused => Linked(p, q) /\ <<p, q>> \in links /\ refusals < scenario.refusals
       /\ refusals' = IF refused THEN refusals + 1 ELSE refusals
       /\ streams' = [streams EXCEPT ![p][q] =
            IF s.next = Chunks[s.photo] THEN RemoveAt(@, k) ELSE [@ EXCEPT ![k].next = s.next + 1]]
       /\ channel' = [channel EXCEPT ![p][q] =
            IF refused \/ ~Fits(p, q, s.photo, s.next) THEN @
            ELSE Sent(p, q, <<Chunk(s.photo, s.next)>>)]
  /\ UNCHANGED <<radio, photo, knowledge, receiving>>

-----------------------------------------------------------------------------
\* BuildGossipMessage: what p says about the owner, if it knows of it.
Says(p)     == p = Owner \/ entry[p].known
SaysPhoto(p) == IF p = Owner THEN photo ELSE entry[p].photo
SaysAge(p)   == IF p = Owner THEN 0 ELSE entry[p].age

Merged(p, q) ==
  IF Says(q) THEN MergeGossip(entry[p], SaysPhoto(q), SaysAge(q), cache[p]) ELSE entry[p]

\* Whom handleGossipMessage may ask: neighbors who gossiped about the photo, or else
\* the owner, if it is connected.  Map iteration is in any order.
Sources(p, n, said) ==
  LET able == FindNeighborsWithPhoto(n, connected[p], said) IN
  IF able # {} THEN able ELSE connected[p] \cap {Owner}

\* sendGossipToConnected of q, and handleGossipMessage of p: UpdateNeighborData,
\* MergeGossip, SaveToDisk, and then a request if a photo is missing.
Gossip(q, p) ==
  /\ Linked(p, q) /\ p # Owner /\ ~Deaf(p, q)
  /\ channel[p][q] = <<>> /\ channel[q][p] = <<>>
  /\ Len(streams[q][p]) < MaxStreams
  /\ LET e == Merged(p, q)
         said == [gossiped[p] EXCEPT ![q] =
                    IF Says(q) /\ SaysPhoto(q) # NoPhoto THEN @ \cup {SaysPhoto(q)} ELSE @]
         from == IF PhotoIsMissing(e) THEN Sources(p, e.photo, said) ELSE {}
     IN /\ gossiped' = [gossiped EXCEPT ![p] = said]
        /\ disk' = [disk EXCEPT ![p] = [have |-> e.have, requested |-> e.requested]]
        /\ \/ /\ from = {}
              /\ entry' = [entry EXCEPT ![p] = e]
              /\ UNCHANGED <<slot, taken, channel>>
           \/ \E s \in from :
                /\ entry' = [entry EXCEPT ![p] = MarkPhotoRequested(e)]
                /\ RequestAndReceivePhoto(p, s, e.photo)
                /\ channel' = [channel EXCEPT ![p][s] = Sent(p, s, <<RequestFor(p, s, e.photo)>>)]
  /\ UNCHANGED <<radio, photo, connected, greeted, cache, sending>>

-----------------------------------------------------------------------------
Next ==
  \/ SetProfilePhoto \/ Tick
  \/ \E p \in Phone : Restart(p)
  \/ \E p, q \in Phone :
       \/ Connect(p, q) \/ Drop(p, q) \/ Receive(p, q) \/ Gossip(p, q)
       \/ \E refused \in BOOLEAN : SendChunk(p, q, refused)

Spec == Init /\ [][Next]_vars

\* Reconnects succeed, goroutines and read loops run, seconds pass, and the gossip
\* timers fire again and again at a time when the link is idle.
Fairness ==
  /\ WF_vars(Tick)
  /\ WF_vars(\E p, q \in Phone : Connect(p, q) \/ Receive(p, q) \/ SendChunk(p, q, FALSE))
  /\ \A p, q \in Phone : p # q => SF_vars(Gossip(p, q))

FairSpec == Spec /\ Fairness
-----------------------------------------------------------------------------
\* The phones that the owner's gossip reaches over connected links.
Hearing ==
  {p \in Phone : \A S \in SUBSET Phone :
     Owner \in S /\ (\A q \in S, r \in Phone : Linked(r, q) /\ ~Deaf(r, q) => r \in S) => p \in S}

\* News of the present photo reach everybody that gossip reaches, although relays pass on
\* old news and gossip is not taken in the second of a handshake; and there "do we have
\* their photo cached locally?" (mesh_view.go:22) is answered rightly in the end.
NewsArrive ==
  \A p \in Phone \ {Owner} :
    <>[](p \in Hearing => /\ entry[p].known
                          /\ entry[p].photo = photo
                          /\ entry[p].have <=> photo \in cache[p])

\* Every phone but the owner has one neighbor at most that is nearer to the owner.
OnTree ==
  \E parent \in [Phone -> Phone] :
    \A l \in links : \E c \in Phone \ {Owner} : {l[1], l[2]} = {c, parent[c]}

\* Whatever the order in which gossip and handshakes arrive, and whoever repeats old
\* news, nobody on a tree of links goes back to a photo of before.  On a circle he may: a
\* handshake is new when it arrives, and gossip that went the other way was faster.
NeverBack == [][OnTree => \A p \in Phone : entry[p].photo <= entry'[p].photo]_entry

\* A phone whose only neighbor is the owner gets the photo that gossip tells it of, if it
\* is one chunk and no chunk was ever refused, even after a disconnect, a restart or a
\* photo that could not be assembled.
DirectPhotoArrives ==
  \A p \in Phone \ {Owner} :
    (UNION {{l[1], l[2]} : l \in links} = {p, Owner})
      => <>[](p \in Hearing /\ Chunks[photo] = 1 /\ refusals = 0 => photo \in cache[p])

=============================================================================
