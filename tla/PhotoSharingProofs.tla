------------------------- MODULE PhotoSharingProofs -------------------------
(***************************************************************************)
(* For any number of phones, photos, chunks, losses and links: what phones *)
(* know, hold and send is of its types; and on a tree of links nobody goes *)
(* back to a photo of before.                                              *)
(***************************************************************************)
EXTENDS PhotoSharing, FiniteSetTheorems, SequenceTheorems, TLAPS

Known == 0 .. Len(Chunks)
Ages  == 0 .. Cardinality(Phone)

\* A slot that has all chunks it waits for is emptied at once.
Slot == {s \in [photo : Known, total : Nat, got : Seq(Nat \X Nat)] :
           s.total > 0 => Len(s.got) < s.total}

\* What a phone that holds these photos may be sending.
Stream(held) == {s \in [photo : Photos, next : Nat] : s.photo \in held /\ s.next \in 1 .. Chunks[s.photo]}

RadioOK ==
  /\ scenario \in Scenarios
  /\ up \subseteq links
  /\ losses \in 0 .. scenario.losses
  /\ refusals \in 0 .. scenario.refusals

\* Of whom nothing is known, no photo is known.
KnowledgeOK ==
  /\ photo \in Photos
  /\ entry \in [Phone -> Entry(Known, Ages)]
  /\ \A p \in Phone : entry[p].known \/ entry[p].photo = NoPhoto
  /\ disk \in [Phone -> [have : BOOLEAN, requested : BOOLEAN]]
  /\ connected \in [Phone -> SUBSET Phone]
  /\ gossiped \in [Phone -> [Phone -> SUBSET Photos]]
  /\ greeted \in [Phone -> SUBSET Phone]

\* The owner holds the photo it shows.
ReceivingOK ==
  /\ cache \in [Phone -> SUBSET Photos]
  /\ photo \in cache[Owner]
  /\ taken \subseteq links
  /\ slot \in [Phone -> [Phone -> Slot]]

SendingOK ==
  /\ streams \in [Phone -> [Phone -> Seq([photo : Photos, next : Nat])]]
  /\ \A p, q \in Phone : streams[p][q] \in Seq(Stream(cache[p]))

\* Messages are under way on connected links only.
ChannelsOK ==
  /\ channel \in [Phone -> [Phone -> Seq(Message)]]
  /\ \A p, q \in Phone : channel[p][q] # <<>> => Linked(p, q)

TypeIInv == RadioOK /\ KnowledgeOK /\ ReceivingOK /\ SendingOK /\ ChannelsOK

-----------------------------------------------------------------------------
(* Types *)

LEMMA ElementsOf ==
  ASSUME NEW S, NEW s \in Seq(S)
  PROVE \A i \in DOMAIN s : s[i] \in S
OBVIOUS

LEMMA WiderSeq ==
  ASSUME NEW S, NEW T, S \subseteq T, NEW s \in Seq(S)
  PROVE s \in Seq(T)
<1>1. Len(s) \in Nat /\ s \in [1 .. Len(s) -> S]
  OBVIOUS
<1>2. s \in [1 .. Len(s) -> T]
  BY <1>1
<1> QED  BY <1>1, <1>2

\* A matrix by phones of which one element is replaced.
LEMMA Replaced ==
  ASSUME NEW S, NEW f \in [Phone -> [Phone -> S]], NEW p \in Phone, NEW q \in Phone, NEW v \in S
  PROVE /\ [f EXCEPT ![p][q] = v] \in [Phone -> [Phone -> S]]
        /\ [f EXCEPT ![p][q] = v][p][q] = v
        /\ \A x, y \in Phone : <<x, y>> # <<p, q>> => [f EXCEPT ![p][q] = v][x][y] = f[x][y]
OBVIOUS

LEMMA Scenario ==
  ASSUME RadioOK
  PROVE /\ Chunks \in Seq(Nat \ {0}) /\ Len(Chunks) \in Nat /\ Len(Chunks) > 0
        /\ \A n \in Photos : n \in Nat /\ n # 0 /\ n \in Known /\ Chunks[n] \in Nat \ {0}
        /\ links \subseteq Phone \X Phone /\ \A l \in links : l[1] # l[2]
        /\ scenario.losses \in Nat /\ scenario.refusals \in Nat
<1>1. scenario \in [links : SUBSET (Phone \X Phone), chunks : Seq(Nat \ {0}),
                    losses : Nat, refusals : Nat]
  BY PhotoAssumption DEF RadioOK
<1>2. Chunks \in Seq(Nat \ {0}) /\ Len(Chunks) \in Nat
  BY <1>1 DEF Chunks
<1>3. Len(Chunks) > 0 /\ \A l \in links : l[1] # l[2]
  BY PhotoAssumption DEF RadioOK, Chunks, links
<1>4. \A n \in Photos : n \in Nat /\ n # 0 /\ n \in Known /\ Chunks[n] \in Nat \ {0}
  BY <1>2 DEF Photos, Known
<1> QED  BY <1>1, <1>2, <1>3, <1>4 DEF links

LEMMA Fixed ==
  ASSUME UNCHANGED scenario
  PROVE /\ links' = links /\ Chunks' = Chunks /\ Photos' = Photos /\ Known' = Known
        /\ Slot' = Slot /\ Message' = Message
        /\ \A held : Stream(held)' = Stream(held)
<1>1. links' = links /\ Chunks' = Chunks
  BY DEF links, Chunks
<1>2. Photos' = Photos /\ Known' = Known
  BY <1>1 DEF Photos, Known
<1>3. Slot' = Slot
  BY <1>2 DEF Slot
<1>4. Message' = Message
  BY <1>1, <1>2 DEF Message, Subscribe
<1>5. \A held : Stream(held)' = Stream(held)
  BY <1>1, <1>2 DEF Stream
<1> QED  BY <1>1, <1>2, <1>3, <1>4, <1>5

LEMMA TypeIInvTypes == TypeIInv => PhotoTypeOK
<1> SUFFICES ASSUME TypeIInv PROVE PhotoTypeOK
  OBVIOUS
<1> USE DEF TypeIInv
<1>1. /\ scenario \in Scenarios /\ up \subseteq links
      /\ losses \in 0 .. scenario.losses /\ refusals \in 0 .. scenario.refusals
  BY DEF RadioOK
<1>2. /\ photo \in Photos
      /\ entry \in [Phone -> Entry(0 .. Len(Chunks), 0 .. Cardinality(Phone))]
      /\ disk \in [Phone -> [have : BOOLEAN, requested : BOOLEAN]]
      /\ connected \in [Phone -> SUBSET Phone]
      /\ gossiped \in [Phone -> [Phone -> SUBSET Photos]]
      /\ greeted \in [Phone -> SUBSET Phone]
  BY DEF KnowledgeOK, Known, Ages
<1>3. cache \in [Phone -> SUBSET Photos] /\ taken \subseteq links
  BY DEF ReceivingOK
<1>4. ASSUME NEW p \in Phone, NEW q \in Phone
      PROVE /\ slot[p][q].photo \in 0 .. Len(Chunks)
            /\ slot[p][q].total > 0 => Len(slot[p][q].got) < slot[p][q].total
  <2>1. slot[p][q] \in Slot
    BY DEF ReceivingOK
  <2> QED  BY <2>1 DEF Slot, Known
<1>5. ASSUME NEW p \in Phone, NEW q \in Phone, NEW i \in DOMAIN streams[p][q]
      PROVE /\ streams[p][q][i].photo \in cache[p]
            /\ streams[p][q][i].next \in 1 .. Chunks[streams[p][q][i].photo]
  <2>1. streams[p][q] \in Seq(Stream(cache[p]))
    BY DEF SendingOK
  <2>2. streams[p][q][i] \in Stream(cache[p])
    BY <2>1, ElementsOf
  <2> QED  BY <2>2 DEF Stream
<1>6. ASSUME NEW p \in Phone, NEW q \in Phone, NEW i \in DOMAIN channel[p][q]
      PROVE channel[p][q][i] \in Message
  <2>1. channel[p][q] \in Seq(Message)
    BY DEF ChannelsOK
  <2> QED  BY <2>1, ElementsOf
<1> QED  BY <1>1, <1>2, <1>3, <1>4, <1>5, <1>6 DEF PhotoTypeOK

LEMMA InitTypes == Init => TypeIInv
<1> SUFFICES ASSUME Init PROVE TypeIInv
  OBVIOUS
<1> USE DEF Init
<1>1. RadioOK
  <2>1. scenario.losses \in Nat /\ scenario.refusals \in Nat
    BY PhotoAssumption
  <2> QED  BY <2>1 DEF RadioOK
<1>2. 1 \in Photos /\ 0 \in Known
  BY <1>1, Scenario DEF Photos, Known
<1>3. KnowledgeOK
  <2>1. Cardinality(Phone) \in Nat
    BY PhotoAssumption, FS_CardinalityType
  <2>2. Unknown \in Entry(Known, Ages) /\ Unknown.photo = NoPhoto
    BY <1>2, <2>1 DEF Unknown, Entry, Ages, NoPhoto
  <2>3. entry \in [Phone -> Entry(Known, Ages)] /\ \A p \in Phone : entry[p].photo = NoPhoto
    BY <2>2
  <2> QED  BY <1>2, <2>3 DEF KnowledgeOK, ByPeer
<1>4. ReceivingOK
  <2>1. NoSlot \in Slot
    BY <1>2 DEF NoSlot, Slot, NoPhoto
  <2> QED  BY <1>2, <2>1, PhotoAssumption DEF ReceivingOK, ByPeer
<1>5. SendingOK /\ ChannelsOK
  BY DEF SendingOK, ChannelsOK, ByPeer
<1> QED  BY <1>1, <1>3, <1>4, <1>5 DEF TypeIInv

(* What a step leaves alone stays as it was. *)

LEMMA RadioFrame == RadioOK /\ UNCHANGED <<radio, refusals>> => RadioOK'
BY Fixed DEF RadioOK, radio

LEMMA KnowledgeFrame == KnowledgeOK /\ UNCHANGED <<scenario, photo, knowledge>> => KnowledgeOK'
BY Fixed DEF KnowledgeOK, knowledge, Ages

LEMMA ReceivingFrame == ReceivingOK /\ UNCHANGED <<scenario, photo, receiving>> => ReceivingOK'
BY Fixed DEF ReceivingOK, receiving

LEMMA SendingFrame ==
  ASSUME SendingOK, UNCHANGED <<scenario, streams>>, \A p \in Phone : cache[p] \subseteq cache'[p]
  PROVE SendingOK'
<1>1. Photos' = Photos /\ \A held : Stream(held)' = Stream(held)
  BY Fixed
<1>2. ASSUME NEW p \in Phone, NEW q \in Phone PROVE streams[p][q] \in Seq(Stream(cache'[p]))
  <2>1. Stream(cache[p]) \subseteq Stream(cache'[p])
    BY DEF Stream
  <2>2. streams[p][q] \in Seq(Stream(cache[p]))
    BY DEF SendingOK
  <2> QED  BY <2>1, <2>2, WiderSeq
<1>3. \A p, q \in Phone : streams'[p][q] \in Seq(Stream(cache[p]))'
  BY <1>1, <1>2
<1> QED  BY <1>1, <1>3 DEF SendingOK

LEMMA ChannelsFrame == ChannelsOK /\ UNCHANGED <<scenario, channel, up>> => ChannelsOK'
BY Fixed DEF ChannelsOK, Linked

(* The steps *)

\* What a channel becomes when messages go in, and when one comes out.
LEMMA SentGood ==
  ASSUME ChannelsOK, NEW p \in Phone, NEW q \in Phone, NEW messages \in Seq(Message)
  PROVE /\ Sent(p, q, messages) \in Seq(Message)
        /\ Sent(p, q, messages) # <<>> => Linked(p, q)
<1>1. channel[p][q] \in Seq(Message)
  BY DEF ChannelsOK
<1>2. channel[p][q] \o messages \in Seq(Message)
  BY <1>1
<1> QED  BY <1>1, <1>2 DEF Sent, ChannelsOK

\* Channels of which one has changed, while the links are the same.
LEMMA OneChannel ==
  ASSUME ChannelsOK, UNCHANGED <<scenario, up>>, NEW p \in Phone, NEW q \in Phone,
         NEW s \in Seq(Message), s # <<>> => Linked(p, q),
         channel' = [channel EXCEPT ![p][q] = s]
  PROVE ChannelsOK'
<1>1. channel \in [Phone -> [Phone -> Seq(Message)]]
  BY DEF ChannelsOK
<1>2. /\ channel' \in [Phone -> [Phone -> Seq(Message)]]
      /\ channel'[p][q] = s
      /\ \A x, y \in Phone : <<x, y>> # <<p, q>> => channel'[x][y] = channel[x][y]
  BY <1>1, Replaced
<1>3. ASSUME NEW x \in Phone, NEW y \in Phone, channel'[x][y] # <<>> PROVE Linked(x, y)
  BY <1>2, <1>3 DEF ChannelsOK
<1>4. Message' = Message /\ \A x, y \in Phone : Linked(x, y)' <=> Linked(x, y)
  BY Fixed DEF Linked
<1> QED  BY <1>2, <1>3, <1>4 DEF ChannelsOK

LEMMA Taken ==
  ASSUME ChannelsOK, NEW p \in Phone, NEW q \in Phone, channel[p][q] # <<>>
  PROVE /\ Linked(p, q)
        /\ Head(channel[p][q]) \in Message
        /\ Tail(channel[p][q]) \in Seq(Message)
BY DEF ChannelsOK

\* Two ends of a link are two phones.
LEMMA Ends ==
  ASSUME RadioOK, NEW p \in Phone, NEW q \in Phone, Linked(p, q)
  PROVE p # q /\ Linked(q, p) /\ (<<p, q>> \in links \/ <<q, p>> \in links)
<1>1. PICK l \in up : l = <<p, q>> \/ l = <<q, p>>
  BY DEF Linked
<1>2. l \in links /\ l[1] # l[2]
  BY <1>1, Scenario DEF RadioOK
<1> QED  BY <1>1, <1>2 DEF Linked

LEMMA Messages ==
  ASSUME RadioOK, KnowledgeOK
  PROVE /\ Subscribe \in Message
        /\ \A n \in Known : Handshake(n) \in Message /\ Request(n) \in Message
        /\ \A n \in Photos, i \in Nat : Chunk(n, i) \in Message
        /\ \A p : OwnPhoto(p) \in Known
        /\ 0 \in Known
<1>1. 0 \in Known
  BY Scenario DEF Known
<1>2. \A p : OwnPhoto(p) \in Known
  BY <1>1, Scenario DEF OwnPhoto, KnowledgeOK, NoPhoto
<1> QED  BY <1>1, <1>2 DEF Message, Known, Handshake, Request, Chunk

LEMMA ConnectTypes ==
  ASSUME TypeIInv, NEW c \in Phone, NEW p \in Phone, Connect(c, p)
  PROVE TypeIInv'
<1> USE DEF TypeIInv, Connect
<1>1. UNCHANGED scenario /\ <<c, p>> \in links
  OBVIOUS
<1>2. RadioOK'
  BY Fixed DEF RadioOK, sending
<1>3. KnowledgeOK'
  <2>1. connected' \in [Phone -> SUBSET Phone] /\ greeted' \in [Phone -> SUBSET Phone]
    <3>1. connected \in [Phone -> SUBSET Phone] /\ greeted \in [Phone -> SUBSET Phone]
      BY DEF KnowledgeOK
    <3> QED  BY <3>1
  <2>2. disk' \in [Phone -> [have : BOOLEAN, requested : BOOLEAN]]
    <3>1. \A x \in Phone : Saved(x) \in [have : BOOLEAN, requested : BOOLEAN]
      BY DEF Saved, KnowledgeOK, Entry
    <3>2. disk \in [Phone -> [have : BOOLEAN, requested : BOOLEAN]]
      BY DEF KnowledgeOK
    <3>3. CASE Owner \in {c, p}
      BY <3>2, <3>3
    <3>4. CASE Owner \notin {c, p}
      <4> DEFINE s == Saved(c)
                 t == Saved(p)
      <4>1. s \in [have : BOOLEAN, requested : BOOLEAN] /\ t \in [have : BOOLEAN, requested : BOOLEAN]
        BY <3>1
      <4>2. disk' = [disk EXCEPT ![c] = s, ![p] = t]
        BY <3>4
      <4> HIDE DEF s, t
      <4> QED  BY <3>2, <4>1, <4>2
    <3> QED  BY <3>3, <3>4
  <2> QED  BY <2>1, <2>2, Fixed DEF KnowledgeOK, Ages
<1>4. ReceivingOK'
  BY Fixed DEF ReceivingOK
<1>5. SendingOK'
  BY SendingFrame DEF sending
<1>6. ChannelsOK'
  <2>1. CASE Owner \in {c, p}
    <3>1. <<Subscribe, Handshake(OwnPhoto(c))>> \in Seq(Message)
      BY Messages
    <3>2. channel \in [Phone -> [Phone -> Seq(Message)]]
      BY DEF ChannelsOK
    <3> DEFINE s == <<Subscribe, Handshake(OwnPhoto(c))>>
    <3>5. channel' = [channel EXCEPT ![c][p] = s]
      BY <2>1
    <3> HIDE DEF s
    <3>3. /\ channel' \in [Phone -> [Phone -> Seq(Message)]]
          /\ \A x, y \in Phone : <<x, y>> # <<c, p>> => channel'[x][y] = channel[x][y]
      <4>1. s \in Seq(Message)
        BY <3>1 DEF s
      <4> QED  BY <4>1, <3>2, <3>5, Replaced
    <3>4. ASSUME NEW x \in Phone, NEW y \in Phone, channel'[x][y] # <<>> PROVE Linked(x, y)'
      <4>1. CASE <<x, y>> = <<c, p>>
        BY <4>1 DEF Linked
      <4>2. CASE <<x, y>> # <<c, p>>
        <5>1. Linked(x, y)
          BY <3>3, <3>4, <4>2 DEF ChannelsOK
        <5> QED  BY <5>1 DEF Linked
      <4> QED  BY <4>1, <4>2
    <3> QED  BY <3>3, <3>4, Fixed DEF ChannelsOK
  <2>2. CASE Owner \notin {c, p}
    BY <2>2, Fixed DEF ChannelsOK, Linked
  <2> QED  BY <2>1, <2>2
<1> QED  BY <1>2, <1>3, <1>4, <1>5, <1>6

\* What the loss of links does, whatever else a step does to entries and slots.
LEMMA LossTypes ==
  ASSUME RadioOK, KnowledgeOK, ChannelsOK, NEW lost, Disconnect(lost),
         losses < scenario.losses, UNCHANGED <<scenario, refusals>>
  PROVE /\ RadioOK' /\ ChannelsOK'
        /\ connected' \in [Phone -> SUBSET Phone] /\ greeted' \in [Phone -> SUBSET Phone]
<1> USE DEF Disconnect
<1>1. RadioOK'
  <2>1. losses + 1 \in 0 .. scenario.losses
    BY Scenario DEF RadioOK
  <2> QED  BY <2>1, Fixed DEF RadioOK
<1>2. connected' \in [Phone -> SUBSET Phone] /\ greeted' \in [Phone -> SUBSET Phone]
  <2>1. connected \in [Phone -> SUBSET Phone] /\ greeted \in [Phone -> SUBSET Phone]
    BY DEF KnowledgeOK
  <2> QED  BY <2>1
<1>3. ChannelsOK'
  <2>1. channel \in [Phone -> [Phone -> Seq(Message)]]
    BY DEF ChannelsOK
  <2>2. ASSUME NEW x \in Phone, NEW y \in Phone
        PROVE /\ channel'[x][y] \in Seq(Message)
              /\ channel'[x][y] # <<>> => Linked(x, y)'
    <3>1. CASE {<<x, y>>, <<y, x>>} \cap lost # {}
      BY <3>1
    <3>2. CASE {<<x, y>>, <<y, x>>} \cap lost = {}
      <4>1. channel'[x][y] = channel[x][y]
        BY <3>2
      <4>2. Linked(x, y) => Linked(x, y)'
        BY <3>2 DEF Linked
      <4> QED  BY <2>1, <4>1, <4>2 DEF ChannelsOK
    <3> QED  BY <3>1, <3>2
  <2>3. channel' \in [Phone -> [Phone -> Seq(Message)]]
    <3> DEFINE row(x) == [y \in Phone |-> channel'[x][y]]
    <3>1. channel' = [x \in Phone |-> row(x)]
      OBVIOUS
    <3>2. \A x \in Phone : row(x) \in [Phone -> Seq(Message)]
      BY <2>2
    <3> HIDE DEF row
    <3> QED  BY <3>1, <3>2
  <2> QED  BY <2>2, <2>3, Fixed DEF ChannelsOK
<1> QED  BY <1>1, <1>2, <1>3

\* Entries of which some have other flags, and whom they are about is the same.
LEMMA FlagsTypes ==
  ASSUME KnowledgeOK, UNCHANGED <<scenario, photo, disk, gossiped>>,
         connected' \in [Phone -> SUBSET Phone], greeted' \in [Phone -> SUBSET Phone],
         DOMAIN entry' = Phone, entry' = [p \in Phone |-> entry'[p]],
         \A p \in Phone : \E have, requested \in BOOLEAN :
           entry'[p] = [entry[p] EXCEPT !.have = have, !.requested = requested]
  PROVE KnowledgeOK'
<1>1. ASSUME NEW p \in Phone
      PROVE entry'[p] \in Entry(Known, Ages) /\ (entry'[p].known \/ entry'[p].photo = NoPhoto)
  <2>1. PICK have \in BOOLEAN, requested \in BOOLEAN :
           entry'[p] = [entry[p] EXCEPT !.have = have, !.requested = requested]
    OBVIOUS
  <2>2. entry[p] \in Entry(Known, Ages) /\ (entry[p].known \/ entry[p].photo = NoPhoto)
    BY DEF KnowledgeOK
  <2> DEFINE e == entry[p]
  <2>3. ASSUME e \in Entry(Known, Ages)
        PROVE /\ [e EXCEPT !.have = have, !.requested = requested] \in Entry(Known, Ages)
              /\ [e EXCEPT !.have = have, !.requested = requested].known = e.known
              /\ [e EXCEPT !.have = have, !.requested = requested].photo = e.photo
    <3> HIDE DEF e
    <3> QED  BY <2>3 DEF Entry
  <2> QED  BY <2>1, <2>2, <2>3
<1>2. entry' \in [Phone -> Entry(Known, Ages)]
  BY <1>1
<1> QED  BY <1>1, <1>2, Fixed DEF KnowledgeOK, Ages

LEMMA DropTypes ==
  ASSUME TypeIInv, NEW c \in Phone, NEW p \in Phone, Drop(c, p)
  PROVE TypeIInv'
<1> USE DEF TypeIInv, Drop
<1>1. Disconnect({<<c, p>>}) /\ losses < scenario.losses /\ UNCHANGED <<scenario, refusals>>
  BY DEF sending
<1>2. /\ RadioOK' /\ ChannelsOK'
      /\ connected' \in [Phone -> SUBSET Phone] /\ greeted' \in [Phone -> SUBSET Phone]
  BY <1>1, LossTypes
<1>3. KnowledgeOK'
  <2>1. ASSUME NEW x \in Phone
        PROVE \E have, requested \in BOOLEAN :
                entry'[x] = [entry[x] EXCEPT !.have = have, !.requested = requested]
    <3>1. entry[x] \in Entry(Known, Ages)
      BY DEF KnowledgeOK
    <3>2. /\ entry[x] = [entry[x] EXCEPT !.have = entry[x].have, !.requested = entry[x].requested]
          /\ MarkDeviceDisconnected(entry[x])
               = [entry[x] EXCEPT !.have = entry[x].have, !.requested = FALSE]
          /\ entry[x].have \in BOOLEAN /\ entry[x].requested \in BOOLEAN
      BY <3>1 DEF Entry, MarkDeviceDisconnected
    <3>3. entry'[x] \in {entry[x], MarkDeviceDisconnected(entry[x])}
      BY DEF AfterDisconnect
    <3> QED  BY <3>2, <3>3
  <2>2. DOMAIN entry' = Phone /\ entry' = [x \in Phone |-> entry'[x]]
    OBVIOUS
  <2> QED  BY <1>2, <2>1, <2>2, FlagsTypes
<1>4. ReceivingOK'
  BY ReceivingFrame
<1>5. SendingOK'
  BY SendingFrame DEF sending, receiving
<1> QED  BY <1>2, <1>3, <1>4, <1>5

LEMMA RestartTypes ==
  ASSUME TypeIInv, NEW p \in Phone, Restart(p)
  PROVE TypeIInv'
<1> USE DEF TypeIInv, Restart
<1>1. PICK lost : Disconnect(lost)
  OBVIOUS
<1>2. /\ RadioOK' /\ ChannelsOK'
      /\ connected' \in [Phone -> SUBSET Phone] /\ greeted' \in [Phone -> SUBSET Phone]
  BY <1>1, LossTypes
<1>3. KnowledgeOK'
  <2>1. ASSUME NEW x \in Phone
        PROVE /\ entry'[x] \in Entry(Known, Ages)
              /\ entry'[x].known \/ entry'[x].photo = NoPhoto
    <3>1. entry[x] \in Entry(Known, Ages) /\ (entry[x].known \/ entry[x].photo = NoPhoto)
      BY DEF KnowledgeOK
    <3>2. disk[x].have \in BOOLEAN /\ disk[x].requested \in BOOLEAN
      BY DEF KnowledgeOK
    <3>3. entry'[x] \in {entry[x], [entry[x] EXCEPT !.have = disk[x].have, !.requested = disk[x].requested]}
      OBVIOUS
    <3> QED  BY <3>1, <3>2, <3>3 DEF Entry
  <2>2. entry' \in [Phone -> Entry(Known, Ages)]
    BY <2>1
  <2>3. gossiped' \in [Phone -> [Phone -> SUBSET Photos]]
    BY DEF KnowledgeOK
  <2> QED  BY <1>2, <2>1, <2>2, <2>3, Fixed DEF KnowledgeOK, Ages
<1>4. ReceivingOK'
  <2>1. NoSlot \in Slot
    BY Messages DEF NoSlot, Slot, NoPhoto
  <2>2. slot' \in [Phone -> [Phone -> Slot]]
    BY <2>1 DEF ReceivingOK
  <2> QED  BY <2>2, Fixed DEF ReceivingOK
<1>5. SendingOK'
  <2> DEFINE all == [photo : Photos, next : Nat]
             none == [q \in Phone |-> <<>>]
  <2>4. streams \in [Phone -> [Phone -> Seq(all)]]
        /\ \A x, y \in Phone : streams[x][y] \in Seq(Stream(cache[x]))
    BY DEF SendingOK
  <2>5. streams' = [streams EXCEPT ![p] = none]
    OBVIOUS
  <2>6. none \in [Phone -> Seq(all)] /\ \A x, y \in Phone : none[y] \in Seq(Stream(cache[x]))
    <3> HIDE DEF all
    <3> QED  OBVIOUS
  <2> HIDE DEF none, all
  <2>1. streams' \in [Phone -> [Phone -> Seq(all)]]
    BY <2>4, <2>5, <2>6
  <2>2. \A x, y \in Phone : streams'[x][y] \in Seq(Stream(cache[x]))
    <3> TAKE x, y \in Phone
    <3>1. CASE x = p
      BY <2>4, <2>5, <2>6, <3>1
    <3>2. CASE x # p
      BY <2>4, <2>5, <3>2
    <3> QED  BY <3>1, <3>2
  <2>3. \A x, y \in Phone : streams'[x][y] \in Seq(Stream(cache[x]))'
    BY <2>2, Fixed
  <2> QED  BY <2>1, <2>3, Fixed DEF SendingOK, all
<1> QED  BY <1>2, <1>3, <1>4, <1>5

LEMMA SetProfilePhotoTypes == ASSUME TypeIInv, SetProfilePhoto PROVE TypeIInv'
<1> USE DEF TypeIInv, SetProfilePhoto
<1>1. UNCHANGED <<scenario, up>>
  BY DEF radio
<1>2. RadioOK'
  BY RadioFrame DEF sending
<1>3. photo' \in Photos /\ photo \in Photos
  BY Scenario DEF KnowledgeOK, Photos
<1>4. KnowledgeOK'
  BY <1>1, <1>3, Fixed DEF KnowledgeOK, knowledge, Ages
<1>5. cache' \in [Phone -> SUBSET Photos] /\ photo' \in cache'[Owner]
      /\ \A p \in Phone : cache[p] \subseteq cache'[p]
  BY <1>3, PhotoAssumption DEF ReceivingOK
<1>6. ReceivingOK'
  BY <1>1, <1>5, Fixed DEF ReceivingOK
<1>7. SendingOK'
  BY <1>1, <1>5, SendingFrame DEF sending
<1>8. ChannelsOK'
  BY <1>1, ChannelsFrame
<1> QED  BY <1>2, <1>4, <1>6, <1>7, <1>8

-----------------------------------------------------------------------------
(* Ages *)

\* The ages that are known, and how many of them are not above one.
Dense(a) == LET ages == {entry[p].age : p \in {q \in Phone : entry[q].known}}
            IN Cardinality({x \in ages : x <= a})

LEMMA DenseAges ==
  ASSUME KnowledgeOK
  PROVE /\ \A a : Dense(a) \in Ages
        /\ \A a, b \in Nat : a <= b => Dense(a) <= Dense(b)
<1> DEFINE ages == {entry[p].age : p \in {q \in Phone : entry[q].known}}
           upTo(a) == {x \in ages : x <= a}
<1>1. IsFiniteSet(ages) /\ Cardinality(ages) <= Cardinality(Phone)
  <2> DEFINE known == {q \in Phone : entry[q].known}
  <2>1. IsFiniteSet(known) /\ Cardinality(known) <= Cardinality(Phone)
    BY PhotoAssumption, FS_Subset
  <2>2. IsFiniteSet(ages) /\ Cardinality(ages) <= Cardinality(known)
    <3> DEFINE age == [p \in known |-> entry[p].age]
    <3>1. age \in Surjection(known, ages)
      BY DEF Surjection
    <3> QED  BY <2>1, <3>1, FS_Surjection
  <2>3. Cardinality(known) \in Nat /\ Cardinality(ages) \in Nat /\ Cardinality(Phone) \in Nat
    BY <2>1, <2>2, PhotoAssumption, FS_CardinalityType
  <2> QED  BY <2>1, <2>2, <2>3
<1>2. \A a : IsFiniteSet(upTo(a)) /\ Cardinality(upTo(a)) <= Cardinality(ages)
  <2>1. \A a : upTo(a) \subseteq ages
    OBVIOUS
  <2> HIDE DEF ages, upTo
  <2> QED  BY <1>1, <2>1, FS_Subset
<1>3. /\ Cardinality(Phone) \in Nat /\ Cardinality(ages) \in Nat
      /\ \A a : Cardinality(upTo(a)) \in Nat
  BY <1>1, <1>2, PhotoAssumption, FS_CardinalityType
<1>4. \A a : Dense(a) = Cardinality(upTo(a))
  BY DEF Dense
<1>5. ASSUME NEW a \in Nat, NEW b \in Nat, a <= b PROVE Cardinality(upTo(a)) <= Cardinality(upTo(b))
  <2>1. ages \subseteq Nat
    BY PhotoAssumption, FS_CardinalityType DEF KnowledgeOK, Entry, Ages
  <2> HIDE DEF ages
  <2>2. upTo(a) \subseteq upTo(b)
    <3>1. \A x \in ages : x <= a => x <= b
      BY <1>5, <2>1
    <3> QED  BY <3>1
  <2> HIDE DEF upTo
  <2> QED  BY <1>2, <2>2, FS_Subset
<1>6. \A a : Dense(a) \in Ages
  <2> HIDE DEF ages, upTo
  <2> QED  BY <1>1, <1>2, <1>3, <1>4 DEF Ages
<1> QED  BY <1>4, <1>5, <1>6

\* What Tick does to an entry.
LEMMA TickEntries ==
  ASSUME KnowledgeOK, Tick
  PROVE \A p \in Phone :
          entry'[p] = IF entry[p].known THEN [entry[p] EXCEPT !.age = Dense(entry[p].age)]
                      ELSE entry[p]
BY DEF Tick, Dense

LEMMA TickTypes == ASSUME TypeIInv, Tick PROVE TypeIInv'
<1> USE DEF TypeIInv
<1>1. /\ UNCHANGED scenario
      /\ UNCHANGED <<radio, photo, disk, connected, gossiped, greeted, receiving, sending, channel>>
  BY DEF Tick, radio
<1>2. ASSUME NEW p \in Phone
      PROVE entry'[p] \in Entry(Known, Ages) /\ (entry'[p].known \/ entry'[p].photo = NoPhoto)
  <2>1. entry[p] \in Entry(Known, Ages) /\ (entry[p].known \/ entry[p].photo = NoPhoto)
    BY DEF KnowledgeOK
  <2>2. Dense(entry[p].age) \in Ages
    BY DenseAges
  <2> QED  BY <2>1, <2>2, TickEntries DEF Entry
<1>3. entry' \in [Phone -> Entry(Known, Ages)]
  BY <1>2 DEF Tick
<1>4. KnowledgeOK'
  BY <1>1, <1>2, <1>3, Fixed DEF KnowledgeOK, Ages
<1>5. RadioOK' /\ ReceivingOK' /\ SendingOK' /\ ChannelsOK'
  BY <1>1, RadioFrame, ReceivingFrame, SendingFrame, ChannelsFrame DEF radio, sending, receiving
<1> QED  BY <1>4, <1>5

-----------------------------------------------------------------------------
(* Requests, streams and slots *)

LEMMA StartedGood ==
  ASSUME SendingOK, RadioOK, NEW p \in Phone, NEW q \in Phone, NEW n \in cache[p] \cup {NoPhoto},
         cache[p] \subseteq Photos, streams' = Started(p, q, n), UNCHANGED <<scenario, cache>>
  PROVE SendingOK'
<1>1. CASE n = NoPhoto
  BY <1>1, SendingFrame DEF Started
<1>2. CASE n # NoPhoto
  <2> DEFINE s == [photo |-> n, next |-> 1]
             v == Append(streams[p][q], s)
  <2>1. n \in Photos /\ n \in cache[p]
    BY <1>2
  <2>2. Chunks[n] \in Nat \ {0}
    BY <2>1, Scenario
  <2>3. s \in Stream(cache[p]) /\ s \in [photo : Photos, next : Nat]
    BY <2>1, <2>2 DEF Stream
  <2>4. /\ streams \in [Phone -> [Phone -> Seq([photo : Photos, next : Nat])]]
        /\ \A x, y \in Phone : streams[x][y] \in Seq(Stream(cache[x]))
    BY DEF SendingOK
  <2> DEFINE all == [photo : Photos, next : Nat]
  <2> HIDE DEF s, all
  <2>5. v \in Seq(Stream(cache[p])) /\ v \in Seq(all)
    <3>1. streams[p][q] \in Seq(Stream(cache[p])) /\ streams[p][q] \in Seq(all)
      BY <2>4 DEF all
    <3>2. s \in Stream(cache[p]) /\ s \in all
      BY <2>3 DEF all
    <3> QED  BY <3>1, <3>2, AppendProperties
  <2>6. streams' = [streams EXCEPT ![p][q] = v]
    BY <1>2 DEF Started, s
  <2> HIDE DEF v
  <2>7. /\ streams' \in [Phone -> [Phone -> Seq(all)]]
        /\ streams'[p][q] = v
        /\ \A x, y \in Phone : <<x, y>> # <<p, q>> => streams'[x][y] = streams[x][y]
    <3>1. streams \in [Phone -> [Phone -> Seq(all)]]
      BY <2>4 DEF all
    <3> QED  BY <3>1, <2>5, <2>6, Replaced
  <2>8. \A x, y \in Phone : streams'[x][y] \in Seq(Stream(cache[x]))
    BY <2>4, <2>5, <2>7
  <2>9. \A x, y \in Phone : streams'[x][y] \in Seq(Stream(cache[x]))'
    BY <2>8, Fixed
  <2> QED  BY <2>7, <2>9, Fixed DEF SendingOK, all
<1> QED  BY <1>1, <1>2

LEMMA RequestedGood ==
  ASSUME RadioOK, ReceivingOK, KnowledgeOK, NEW p \in Phone, NEW q \in Phone, NEW n \in Known,
         RequestAndReceivePhoto(p, q, n), UNCHANGED <<scenario, photo, cache>>
  PROVE ReceivingOK'
<1>1. Waiting(n) \in Slot
  <2>1. 0 \in Known /\ <<>> \in Seq(Nat \X Nat)
    BY Messages
  <2>2. Waiting(n) = [photo |-> n, total |-> 0, got |-> <<>>]
    BY DEF Waiting, NoSlot
  <2> QED  BY <2>1, <2>2 DEF Slot
<1>2. slot \in [Phone -> [Phone -> Slot]]
  BY DEF ReceivingOK
<1>3. slot' = [slot EXCEPT ![p][q] = Waiting(n)]
  BY DEF RequestAndReceivePhoto
<1>4. slot' \in [Phone -> [Phone -> Slot]]
  BY <1>1, <1>2, <1>3, Replaced
<1>5. taken' \subseteq links
  BY DEF RequestAndReceivePhoto, ReceivingOK
<1> QED  BY <1>4, <1>5, Fixed DEF ReceivingOK

\* One entry has changed.
LEMMA EntryTypes ==
  ASSUME KnowledgeOK, NEW p \in Phone, NEW e \in Entry(Known, Ages), e.known \/ e.photo = NoPhoto,
         entry' = [entry EXCEPT ![p] = e], UNCHANGED <<scenario, photo>>,
         disk' \in [Phone -> [have : BOOLEAN, requested : BOOLEAN]],
         connected' \in [Phone -> SUBSET Phone], greeted' \in [Phone -> SUBSET Phone],
         gossiped' \in [Phone -> [Phone -> SUBSET Photos]]
  PROVE KnowledgeOK'
<1>1. entry' \in [Phone -> Entry(Known, Ages)]
  BY DEF KnowledgeOK
<1>2. \A x \in Phone : entry'[x].known \/ entry'[x].photo = NoPhoto
  BY DEF KnowledgeOK
<1> QED  BY <1>1, <1>2, Fixed DEF KnowledgeOK, Ages

LEMMA EntryOf ==
  ASSUME KnowledgeOK, NEW p \in Phone
  PROVE /\ entry[p] \in Entry(Known, Ages) /\ (entry[p].known \/ entry[p].photo = NoPhoto)
        /\ entry[p].known \in BOOLEAN /\ entry[p].have \in BOOLEAN /\ entry[p].requested \in BOOLEAN
        /\ entry[p].photo \in Known /\ entry[p].age \in Ages
        /\ 0 \in Ages /\ Ages \subseteq Nat
<1>1. entry[p] \in Entry(Known, Ages) /\ (entry[p].known \/ entry[p].photo = NoPhoto)
  BY DEF KnowledgeOK
<1>2. 0 \in Ages /\ Ages \subseteq Nat
  BY PhotoAssumption, FS_CardinalityType DEF Ages
<1> QED  BY <1>1, <1>2 DEF Entry

LEMMA UpdatedEntry ==
  ASSUME KnowledgeOK, NEW p \in Phone, NEW n \in Known
  PROVE LET e == UpdateDevice(entry[p], n, cache[p])
        IN e \in Entry(Known, Ages) /\ e.known /\ e.age = 0
             /\ e.photo = IF n = NoPhoto THEN entry[p].photo ELSE n
<1> DEFINE old == entry[p]
           e == UpdateDevice(old, n, cache[p])
<1>1. old \in Entry(Known, Ages) /\ (old.known \/ old.photo = NoPhoto) /\ 0 \in Ages
  BY EntryOf
<1> HIDE DEF old
<1>2. CASE ~old.known
  <2>1. e = [known |-> TRUE, photo |-> n, age |-> 0, have |-> n \in cache[p], requested |-> FALSE]
    BY <1>2 DEF UpdateDevice, NewEntry
  <2> QED  BY <1>1, <1>2, <2>1 DEF Entry, old
<1>3. CASE old.known /\ n = NoPhoto
  <2>1. e = [old EXCEPT !.age = 0]
    BY <1>3 DEF UpdateDevice
  <2> QED  BY <1>1, <1>3, <2>1 DEF Entry, old
<1>4. CASE old.known /\ n # NoPhoto
  <2>1. e = [old EXCEPT !.photo = n, !.age = 0, !.have = n \in cache[p],
                        !.requested = old.requested /\ n = old.photo]
    BY <1>1, <1>4 DEF UpdateDevice
  <2>2. e = [known |-> TRUE, photo |-> n, age |-> 0, have |-> n \in cache[p],
             requested |-> old.requested /\ n = old.photo]
    BY <1>1, <1>4, <2>1 DEF Entry
  <2> HIDE DEF e
  <2>3. e \in Entry(Known, Ages) /\ e.known /\ e.age = 0 /\ e.photo = n
    BY <1>1, <2>2 DEF Entry
  <2> QED  BY <1>4, <2>3 DEF e, old
<1> QED  BY <1>2, <1>3, <1>4

LEMMA MergedEntry ==
  ASSUME KnowledgeOK, NEW p \in Phone, NEW n \in Known, NEW a \in Ages
  PROVE LET e == MergeGossip(entry[p], n, a, cache[p])
        IN /\ e \in Entry(Known, Ages) /\ e.known
           /\ IF entry[p].known /\ a >= entry[p].age
              THEN e.photo = entry[p].photo /\ e.age = entry[p].age
              ELSE e.photo = n /\ e.age = a
<1> DEFINE old == entry[p]
           e == MergeGossip(old, n, a, cache[p])
<1>1. old \in Entry(Known, Ages)
  BY EntryOf
<1> HIDE DEF old
<1>2. CASE ~old.known
  <2>1. e = [known |-> TRUE, photo |-> n, age |-> a, have |-> n \in cache[p], requested |-> FALSE]
    BY <1>2 DEF MergeGossip, NewEntry
  <2> QED  BY <1>1, <1>2, <2>1 DEF Entry, old
<1>3. CASE old.known /\ a >= old.age
  <2>1. e = old
    BY <1>3 DEF MergeGossip
  <2> QED  BY <1>1, <1>3, <2>1 DEF old
<1>4. CASE old.known /\ ~(a >= old.age)
  <2>1. e = [old EXCEPT !.photo = n, !.age = a, !.have = n \in cache[p]]
    BY <1>4 DEF MergeGossip
  <2>2. e = [known |-> TRUE, photo |-> n, age |-> a, have |-> n \in cache[p],
             requested |-> old.requested]
    BY <1>1, <1>4, <2>1 DEF Entry
  <2> HIDE DEF e
  <2>3. e \in Entry(Known, Ages) /\ e.known /\ e.age = a /\ e.photo = n
    BY <1>1, <2>2 DEF Entry
  <2> QED  BY <1>4, <2>3 DEF e, old
<1> QED  BY <1>2, <1>3, <1>4

-----------------------------------------------------------------------------
(* Receiving *)

\* A handshake leaves its channel, and the answer goes into the other: a handshake, if it is
\* the first one, and a request.
LEMMA HandshakeChannels ==
  ASSUME TypeIInv, NEW p \in Phone, NEW q \in Phone, NEW n \in Known, channel[q][p] # <<>>,
         HandleHandshake(p, q, n)
  PROVE /\ Linked(q, p) /\ Linked(p, q) /\ p # q
        /\ channel' \in [Phone -> [Phone -> Seq(Message)]]
        /\ channel'[q][p] = Tail(channel[q][p])
        /\ \E messages \in Seq(Message) :
             /\ channel'[p][q] = channel[p][q] \o messages
             /\ \A i \in DOMAIN messages :
                  messages[i].kind = "handshake" => messages[i].photo = OwnPhoto(p)
        /\ \A x, y \in Phone :
             <<x, y>> \notin {<<p, q>>, <<q, p>>} => channel'[x][y] = channel[x][y]
<1> USE DEF TypeIInv
<1> DEFINE rest == Tail(channel[q][p])
           greeting == IF q \in greeted[p] THEN <<>> ELSE <<Handshake(OwnPhoto(p))>>
           request == IF Wanted(p, q, n) THEN <<RequestFor(p, q, n)>> ELSE <<>>
           messages == greeting \o request
           answer == channel[p][q] \o messages
<1>1. Linked(q, p) /\ rest \in Seq(Message)
  BY Taken
<1>2. p # q /\ Linked(p, q)
  BY <1>1, Ends
<1>3. /\ messages \in Seq(Message)
      /\ \A i \in DOMAIN messages :
           messages[i].kind = "handshake" => messages[i].photo = OwnPhoto(p)
  <2>1. Handshake(OwnPhoto(p)) \in Message /\ RequestFor(p, q, n) \in Message
    BY Messages DEF RequestFor
  <2>2. /\ Handshake(OwnPhoto(p)).photo = OwnPhoto(p)
        /\ RequestFor(p, q, n).kind # "handshake"
    BY DEF Handshake, RequestFor, Subscribe, Request
  <2> DEFINE h == Handshake(OwnPhoto(p))
             r == RequestFor(p, q, n)
  <2> HIDE DEF h, r
  <2>4. h \in Message /\ r \in Message /\ h.photo = OwnPhoto(p) /\ r.kind # "handshake"
    BY <2>1, <2>2 DEF h, r
  <2>5. greeting \in Seq(Message) /\ \A i \in DOMAIN greeting : greeting[i].photo = OwnPhoto(p)
    <3>1. greeting \in {<<>>, <<h>>}
      BY DEF h
    <3> HIDE DEF greeting
    <3>2. CASE greeting = <<>>
      BY <3>2
    <3>3. CASE greeting = <<h>>
      BY <2>4, <3>3
    <3> QED  BY <3>1, <3>2, <3>3
  <2>6. request \in Seq(Message) /\ \A i \in DOMAIN request : request[i].kind # "handshake"
    <3>1. request \in {<<>>, <<r>>}
      BY DEF r
    <3> HIDE DEF request
    <3>2. CASE request = <<>>
      BY <3>2
    <3>3. CASE request = <<r>>
      BY <2>4, <3>3
    <3> QED  BY <3>1, <3>2, <3>3
  <2> HIDE DEF greeting, request
  <2>7. /\ messages \in Seq(Message)
        /\ Len(greeting) \in Nat /\ Len(request) \in Nat
        /\ DOMAIN messages = 1 .. Len(greeting) + Len(request)
        /\ \A i \in DOMAIN messages :
             messages[i] = IF i <= Len(greeting) THEN greeting[i] ELSE request[i - Len(greeting)]
    BY <2>5, <2>6, ConcatProperties
  <2> HIDE DEF messages
  <2>8. \A i \in DOMAIN messages :
          IF i <= Len(greeting) THEN i \in DOMAIN greeting ELSE i - Len(greeting) \in DOMAIN request
    BY <2>5, <2>6, <2>7
  <2> QED  BY <2>5, <2>6, <2>7, <2>8
<1>4. answer \in Seq(Message) /\ Sent(p, q, messages) = answer
  <2> HIDE DEF messages
  <2>1. channel[p][q] \in Seq(Message)
    BY DEF ChannelsOK
  <2> QED  BY <1>2, <1>3, <2>1, ConcatProperties DEF Sent
<1>5. channel' = [channel EXCEPT ![q][p] = rest, ![p][q] = Sent(p, q, messages)]
  BY DEF HandleHandshake
<1> DEFINE f == [channel EXCEPT ![q][p] = rest]
<1>6. channel' = [f EXCEPT ![p][q] = answer]
  <2> HIDE DEF messages, answer
  <2> QED  BY <1>4, <1>5
<1>7. channel \in [Phone -> [Phone -> Seq(Message)]]
  BY DEF ChannelsOK
<1>8. /\ f \in [Phone -> [Phone -> Seq(Message)]] /\ f[q][p] = rest
      /\ \A x, y \in Phone : <<x, y>> # <<q, p>> => f[x][y] = channel[x][y]
  <2> HIDE DEF rest
  <2> QED  BY <1>1, <1>7, Replaced
<1> HIDE DEF f, rest
<1>9. /\ channel' \in [Phone -> [Phone -> Seq(Message)]] /\ channel'[p][q] = answer
      /\ \A x, y \in Phone : <<x, y>> # <<p, q>> => channel'[x][y] = f[x][y]
  <2> HIDE DEF answer
  <2> QED  BY <1>4, <1>6, <1>8, Replaced
<1>10. channel'[q][p] = rest
  BY <1>2, <1>8, <1>9
<1>11. \A x, y \in Phone : <<x, y>> \notin {<<p, q>>, <<q, p>>} => channel'[x][y] = channel[x][y]
  <2> HIDE DEF answer
  <2> SUFFICES ASSUME NEW x \in Phone, NEW y \in Phone,
                      <<x, y>> # <<q, p>>, <<x, y>> # <<p, q>>
               PROVE  channel'[x][y] = channel[x][y]
    OBVIOUS
  <2>1. channel'[x][y] = f[x][y]
    BY <1>9
  <2>2. f[x][y] = channel[x][y]
    BY <1>8
  <2> QED  BY <2>1, <2>2
<1> HIDE DEF messages
<1> QED  BY <1>1, <1>2, <1>3, <1>9, <1>10, <1>11 DEF rest

LEMMA HandshakeTypes ==
  ASSUME TypeIInv, NEW p \in Phone, NEW q \in Phone, NEW n \in Known, channel[q][p] # <<>>,
         HandleHandshake(p, q, n), UNCHANGED <<radio, photo, refusals>>
  PROVE TypeIInv'
<1> USE DEF TypeIInv
<1>1. UNCHANGED <<scenario, up>> /\ UNCHANGED <<gossiped, cache, streams>>
  BY DEF radio, HandleHandshake
<1>2. RadioOK'
  BY RadioFrame
<1>3. KnowledgeOK'
  <2> DEFINE e == IF q = Owner THEN UpdateDevice(entry[p], n, cache[p]) ELSE entry[p]
  <2>1. e \in Entry(Known, Ages) /\ (e.known \/ e.photo = NoPhoto)
    BY UpdatedEntry, EntryOf
  <2>2. entry' = [entry EXCEPT ![p] = e]
    <3>1. entry = [entry EXCEPT ![p] = entry[p]]
      BY DEF KnowledgeOK
    <3> QED  BY <3>1 DEF HandleHandshake
  <2>3. connected' \in [Phone -> SUBSET Phone] /\ greeted' \in [Phone -> SUBSET Phone]
        /\ gossiped' \in [Phone -> [Phone -> SUBSET Photos]]
    BY <1>1 DEF KnowledgeOK, HandleHandshake
  <2> HIDE DEF e
  <2>4. entry'[p] = e
    BY <2>2 DEF KnowledgeOK
  <2>5. disk' \in [Phone -> [have : BOOLEAN, requested : BOOLEAN]]
    <3>1. Saved(p) \in [have : BOOLEAN, requested : BOOLEAN]
      BY <2>1, <2>4 DEF Saved, Entry
    <3>2. disk' = [disk EXCEPT ![p] = Saved(p)] /\ disk \in [Phone -> [have : BOOLEAN, requested : BOOLEAN]]
      BY DEF HandleHandshake, KnowledgeOK
    <3> QED  BY <3>1, <3>2
  <2> QED  BY <1>1, <2>1, <2>2, <2>3, <2>5, EntryTypes
<1>4. ReceivingOK'
  <2>1. CASE Wanted(p, q, n)
    BY <1>1, <2>1, RequestedGood DEF HandleHandshake
  <2>2. CASE ~Wanted(p, q, n)
    BY <1>1, <2>2, ReceivingFrame DEF HandleHandshake, receiving
  <2> QED  BY <2>1, <2>2
<1>5. SendingOK'
  BY <1>1, SendingFrame
<1>6. ChannelsOK'
  <2>1. /\ Linked(q, p) /\ Linked(p, q)
        /\ channel' \in [Phone -> [Phone -> Seq(Message)]]
        /\ \A x, y \in Phone :
             <<x, y>> \notin {<<p, q>>, <<q, p>>} => channel'[x][y] = channel[x][y]
    BY HandshakeChannels
  <2>2. ASSUME NEW x \in Phone, NEW y \in Phone, channel'[x][y] # <<>> PROVE Linked(x, y)
    <3>1. CASE <<x, y>> \in {<<p, q>>, <<q, p>>}
      <4>1. (x = p /\ y = q) \/ (x = q /\ y = p)
        BY <3>1
      <4> QED  BY <2>1, <4>1
    <3>2. CASE <<x, y>> \notin {<<p, q>>, <<q, p>>}
      <4>1. channel'[x][y] = channel[x][y]
        BY <2>1, <3>2
      <4> QED  BY <2>2, <4>1 DEF ChannelsOK
    <3> QED  BY <3>1, <3>2
  <2>3. \A x, y \in Phone : Linked(x, y) => Linked(x, y)'
    BY <1>1 DEF Linked
  <2> QED  BY <1>1, <2>1, <2>2, <2>3, Fixed DEF ChannelsOK
<1> QED  BY <1>2, <1>3, <1>4, <1>5, <1>6

\* The other messages only take themselves out of their channel.
LEMMA TakenTypes ==
  ASSUME ChannelsOK, NEW p \in Phone, NEW q \in Phone, channel[q][p] # <<>>,
         channel' = [channel EXCEPT ![q][p] = Tail(@)], UNCHANGED <<scenario, up>>
  PROVE ChannelsOK'
<1> DEFINE rest == Tail(channel[q][p])
<1>1. rest \in Seq(Message) /\ Linked(q, p)
  BY Taken
<1>2. channel' = [channel EXCEPT ![q][p] = rest]
  OBVIOUS
<1> HIDE DEF rest
<1> QED  BY <1>1, <1>2, OneChannel

LEMMA SubscribeTypes ==
  ASSUME TypeIInv, NEW p \in Phone, NEW q \in Phone, channel[q][p] # <<>>,
         NEW n \in cache[p] \cup {NoPhoto}, streams' = Started(p, q, n),
         channel' = [channel EXCEPT ![q][p] = Tail(@)],
         UNCHANGED <<knowledge, receiving>>, UNCHANGED <<radio, photo, refusals>>
  PROVE TypeIInv'
<1> USE DEF TypeIInv
<1>1. UNCHANGED <<scenario, up, cache>>
  BY DEF radio, receiving
<1>2. RadioOK' /\ KnowledgeOK' /\ ReceivingOK' /\ ChannelsOK'
  BY <1>1, RadioFrame, KnowledgeFrame, ReceivingFrame, TakenTypes
<1>3. SendingOK'
  <2>1. cache[p] \subseteq Photos
    BY DEF ReceivingOK
  <2> QED  BY <1>1, <2>1, StartedGood
<1> QED  BY <1>2, <1>3

LEMMA ChunkAdded ==
  ASSUME RadioOK, NEW s \in Slot, NEW n \in Photos, NEW i \in Nat, ~IsComplete(WithChunk(s, n, i))
  PROVE WithChunk(s, n, i) \in Slot
<1> DEFINE r == WithChunk(s, n, i)
<1>1. /\ s.photo \in Known /\ s.total \in Nat /\ s.got \in Seq(Nat \X Nat)
  BY DEF Slot
<1>2. n \in Known /\ n \in Nat /\ Chunks[n] \in Nat
  BY Scenario
<1>3. r.photo \in Known /\ r.total \in Nat
  BY <1>1, <1>2 DEF WithChunk
<1>4. r.got \in Seq(Nat \X Nat)
  <2>1. r.got = Append(s.got, <<n, i>>)
    BY DEF WithChunk
  <2>2. <<n, i>> \in Nat \X Nat
    BY <1>2
  <2> QED  BY <1>1, <2>1, <2>2, AppendProperties
<1>5. r = [photo |-> r.photo, total |-> r.total, got |-> r.got]
  BY DEF WithChunk
<1>6. Len(r.got) < r.total
  <2>1. Len(r.got) \in Nat
    BY <1>4
  <2>2. ~(Len(r.got) >= r.total)
    BY DEF IsComplete
  <2> HIDE DEF r
  <2> QED  BY <1>3, <2>1, <2>2
<1> HIDE DEF r
<1>7. r \in [photo : Known, total : Nat, got : Seq(Nat \X Nat)]
  BY <1>3, <1>4, <1>5
<1>8. r \in Slot
  BY <1>6, <1>7 DEF Slot
<1> QED  BY <1>8 DEF r

LEMMA ChunkTypes ==
  ASSUME TypeIInv, NEW p \in Phone, NEW q \in Phone, channel[q][p] # <<>>,
         NEW n \in Photos, NEW i \in Nat,
         HandlePhotoData(p, q, n, i), UNCHANGED <<radio, photo, refusals>>
  PROVE TypeIInv'
<1> USE DEF TypeIInv
<1> DEFINE s == WithChunk(slot[p][q], n, i)
<1>1. /\ UNCHANGED <<scenario, up>> /\ UNCHANGED <<disk, connected, gossiped, greeted, taken, streams>>
      /\ channel' = [channel EXCEPT ![q][p] = Tail(@)]
      /\ slot \in [Phone -> [Phone -> Slot]]
      /\ cache \in [Phone -> SUBSET Photos]
  BY DEF radio, HandlePhotoData, ReceivingOK
<1>2. RadioOK' /\ ChannelsOK'
  BY <1>1, RadioFrame, TakenTypes
<1>3. CASE IsComplete(s)
  <2>1. /\ cache' = [cache EXCEPT ![p] = @ \cup SavedAs(s.got)]
        /\ entry' = [entry EXCEPT ![p] = MarkPhotoReceived(@)]
        /\ slot' = [slot EXCEPT ![p][q] = NoSlot]
    BY <1>3 DEF HandlePhotoData
  <2> HIDE DEF s
  <2>2. cache' \in [Phone -> SUBSET Photos] /\ \A x \in Phone : cache[x] \subseteq cache'[x]
    <3>1. SavedAs(s.got) \subseteq Photos
      BY DEF SavedAs
    <3> QED  BY <1>1, <2>1, <3>1
  <2>3. KnowledgeOK'
    <3>1. MarkPhotoReceived(entry[p]) \in Entry(Known, Ages)
          /\ (MarkPhotoReceived(entry[p]).known \/ MarkPhotoReceived(entry[p]).photo = NoPhoto)
      <4>1. entry[p] \in Entry(Known, Ages) /\ (entry[p].known \/ entry[p].photo = NoPhoto)
        BY EntryOf
      <4> QED  BY <4>1 DEF MarkPhotoReceived, Entry
    <3>2. entry' = [entry EXCEPT ![p] = MarkPhotoReceived(entry[p])]
      BY <2>1
    <3> HIDE DEF MarkPhotoReceived
    <3>3. /\ disk' \in [Phone -> [have : BOOLEAN, requested : BOOLEAN]]
          /\ connected' \in [Phone -> SUBSET Phone] /\ greeted' \in [Phone -> SUBSET Phone]
          /\ gossiped' \in [Phone -> [Phone -> SUBSET Photos]]
      BY <1>1 DEF KnowledgeOK
    <3> QED  BY <1>1, <3>1, <3>2, <3>3, EntryTypes
  <2>4. ReceivingOK'
    <3>1. NoSlot \in Slot
      BY Messages DEF NoSlot, Slot, NoPhoto
    <3>2. slot' \in [Phone -> [Phone -> Slot]]
      BY <1>1, <2>1, <3>1, Replaced
    <3>3. photo \in cache'[Owner]
      BY <2>2, PhotoAssumption DEF ReceivingOK
    <3> QED  BY <1>1, <2>2, <3>2, <3>3, Fixed DEF ReceivingOK
  <2>5. SendingOK'
    BY <1>1, <2>2, SendingFrame
  <2> QED  BY <1>2, <2>3, <2>4, <2>5
<1>4. CASE ~IsComplete(s)
  <2>1. slot' = [slot EXCEPT ![p][q] = s] /\ UNCHANGED <<cache, entry>>
    BY <1>4 DEF HandlePhotoData
  <2>2. s \in Slot
    BY <1>1, <1>4, ChunkAdded
  <2> HIDE DEF s
  <2>3. slot' \in [Phone -> [Phone -> Slot]]
    BY <1>1, <2>1, <2>2, Replaced
  <2>4. ReceivingOK'
    BY <1>1, <2>1, <2>3, Fixed DEF ReceivingOK
  <2>5. KnowledgeOK' /\ SendingOK'
    BY <1>1, <2>1, KnowledgeFrame, SendingFrame DEF knowledge
  <2> QED  BY <1>2, <2>4, <2>5
<1> QED  BY <1>3, <1>4

LEMMA ReceiveTypes ==
  ASSUME TypeIInv, NEW p \in Phone, NEW q \in Phone, Receive(p, q)
  PROVE TypeIInv'
<1> USE DEF TypeIInv
<1> DEFINE m == Head(channel[q][p])
<1>1. channel[q][p] # <<>> /\ m \in Message /\ UNCHANGED <<radio, photo, refusals>>
  BY Taken DEF Receive
<1>2. /\ m.kind \in {"handshake", "request"} => m.photo \in Known
      /\ m.kind = "chunk" => m.photo \in Photos /\ m.index \in Nat
  BY <1>1 DEF Message, Subscribe, Known
<1>3. \/ m.kind = "chunk" /\ HandlePhotoData(p, q, m.photo, m.index)
      \/ Ignore(p, q)
      \/ m.kind = "handshake" /\ HandleHandshake(p, q, m.photo)
      \/ m.kind = "request" /\ HandlePhotoRequest(p, q, m.photo)
      \/ HandleSubscribe(p, q)
  BY DEF Receive
<1> HIDE DEF m
<1>4. CASE m.kind = "chunk" /\ HandlePhotoData(p, q, m.photo, m.index)
  BY <1>1, <1>2, <1>4, ChunkTypes
<1>5. CASE Ignore(p, q)
  <2>1. UNCHANGED <<scenario, up, cache, streams>> /\ channel' = [channel EXCEPT ![q][p] = Tail(@)]
    BY <1>1, <1>5 DEF Ignore, radio, receiving
  <2>2. ChannelsOK' /\ SendingOK'
    BY <1>1, <2>1, TakenTypes, SendingFrame
  <2> QED  BY <1>1, <1>5, <2>1, <2>2, RadioFrame, KnowledgeFrame, ReceivingFrame DEF Ignore
<1>6. CASE m.kind = "handshake" /\ HandleHandshake(p, q, m.photo)
  BY <1>1, <1>2, <1>6, HandshakeTypes
<1>7. CASE m.kind = "request" /\ HandlePhotoRequest(p, q, m.photo)
  <2> DEFINE n == IF m.photo \in cache[p] THEN m.photo ELSE NoPhoto
  <2>1. n \in cache[p] \cup {NoPhoto}
    OBVIOUS
  <2>2. /\ streams' = Started(p, q, n) /\ channel' = [channel EXCEPT ![q][p] = Tail(@)]
        /\ UNCHANGED <<knowledge, receiving>>
    BY <1>7 DEF HandlePhotoRequest
  <2> HIDE DEF n
  <2> QED  BY <1>1, <2>1, <2>2, SubscribeTypes
<1>8. CASE HandleSubscribe(p, q)
  <2>1. OwnPhoto(p) \in cache[p] \cup {NoPhoto}
    BY DEF OwnPhoto, ReceivingOK
  <2> QED  BY <1>1, <1>8, <2>1, SubscribeTypes DEF HandleSubscribe
<1> QED  BY <1>3, <1>4, <1>5, <1>6, <1>7, <1>8

-----------------------------------------------------------------------------
(* Sending *)

\* A stream that goes on, and one that has ended.
LEMMA StreamsLeft ==
  ASSUME NEW S, NEW s \in Seq(S), NEW k \in DOMAIN s
  PROVE /\ RemoveAt(s, k) \in Seq(S)
        /\ \A v \in S : [s EXCEPT ![k] = v] \in Seq(S)
<1>1. Len(s) \in Nat /\ k \in 1 .. Len(s) /\ \A i \in 1 .. Len(s) : s[i] \in S
  OBVIOUS
<1>2. SubSeq(s, 1, k-1) \in Seq(S)
  <2>1. \A i \in 1 .. k-1 : s[i] \in S
    BY <1>1
  <2> QED  BY <1>1, <2>1, SubSeqProperties
<1>3. SubSeq(s, k+1, Len(s)) \in Seq(S)
  <2>1. \A i \in k+1 .. Len(s) : s[i] \in S
    BY <1>1
  <2> QED  BY <1>1, <2>1, SubSeqProperties
<1>4. RemoveAt(s, k) \in Seq(S)
  BY <1>2, <1>3, ConcatProperties DEF RemoveAt
<1> QED  BY <1>4

LEMMA SendChunkTypes ==
  ASSUME TypeIInv, NEW p \in Phone, NEW q \in Phone, NEW refused \in BOOLEAN,
         SendChunk(p, q, refused)
  PROVE TypeIInv'
<1> USE DEF TypeIInv
<1> DEFINE all == [photo : Photos, next : Nat]
           held == streams[p][q]
<1>1. PICK k \in DOMAIN held :
        /\ refused => Linked(p, q) /\ <<p, q>> \in links /\ refusals < scenario.refusals
        /\ refusals' = IF refused THEN refusals + 1 ELSE refusals
        /\ streams' = [streams EXCEPT ![p][q] =
             IF held[k].next = Chunks[held[k].photo] THEN RemoveAt(@, k)
             ELSE [@ EXCEPT ![k].next = held[k].next + 1]]
        /\ channel' = [channel EXCEPT ![p][q] =
             IF refused \/ ~Fits(p, q, held[k].photo, held[k].next) THEN @
             ELSE Sent(p, q, <<Chunk(held[k].photo, held[k].next)>>)]
  BY DEF SendChunk
<1>2. UNCHANGED <<scenario, up, losses, photo, cache>> /\ UNCHANGED knowledge /\ UNCHANGED receiving
  BY DEF SendChunk, radio, receiving
<1> DEFINE s == held[k]
           goesOn == [s EXCEPT !.next = @ + 1]
           left == IF s.next = Chunks[s.photo] THEN RemoveAt(held, k) ELSE [held EXCEPT ![k] = goesOn]
<1>3. /\ streams \in [Phone -> [Phone -> Seq(all)]]
      /\ \A x, y \in Phone : streams[x][y] \in Seq(Stream(cache[x]))
  BY DEF SendingOK
<1>4. s \in Stream(cache[p])
  BY <1>1, <1>3, ElementsOf
<1>5. s.photo \in Photos /\ s.next \in Nat /\ s.next \in 1 .. Chunks[s.photo] /\ Chunks[s.photo] \in Nat
  BY <1>4, Scenario DEF Stream
<1>6. RadioOK'
  <2>1. refusals' \in 0 .. scenario.refusals
    BY <1>1, Scenario DEF RadioOK
  <2> QED  BY <1>2, <2>1, Fixed DEF RadioOK
<1>7. KnowledgeOK' /\ ReceivingOK'
  BY <1>2, KnowledgeFrame, ReceivingFrame
<1>8. SendingOK'
  <2>1. streams' = [streams EXCEPT ![p][q] = left]
    BY <1>1
  <2>2. s.next # Chunks[s.photo] => goesOn \in Stream(cache[p]) /\ goesOn \in all
    <3>1. s \in [photo : Photos, next : Nat] /\ s.photo \in cache[p]
      BY <1>4 DEF Stream
    <3> HIDE DEF s
    <3>2. s.next # Chunks[s.photo] => s.next + 1 \in 1 .. Chunks[s.photo]
      BY <1>5
    <3>3. goesOn.photo = s.photo /\ goesOn.next = s.next + 1 /\ goesOn \in all
      BY <1>5, <3>1
    <3> QED  BY <3>1, <3>2, <3>3 DEF Stream
  <2>3. left \in Seq(Stream(cache[p])) /\ left \in Seq(all)
    <3>1. held \in Seq(Stream(cache[p])) /\ held \in Seq(all)
      BY <1>3
    <3> HIDE DEF held, s, goesOn, all
    <3> QED  BY <1>1, <2>2, <3>1, StreamsLeft
  <2> HIDE DEF left, all
  <2>4. /\ streams' \in [Phone -> [Phone -> Seq(all)]]
        /\ streams'[p][q] = left
        /\ \A x, y \in Phone : <<x, y>> # <<p, q>> => streams'[x][y] = streams[x][y]
    BY <1>3, <2>1, <2>3, Replaced
  <2>5. \A x, y \in Phone : streams'[x][y] \in Seq(Stream(cache[x]))
    BY <1>3, <2>3, <2>4
  <2>6. \A x, y \in Phone : streams'[x][y] \in Seq(Stream(cache[x]))'
    BY <1>2, <2>5, Fixed
  <2> QED  BY <1>2, <2>4, <2>6, Fixed DEF SendingOK, all
<1>9. ChannelsOK'
  <2> DEFINE m == <<Chunk(s.photo, s.next)>>
             c == IF refused \/ ~Fits(p, q, s.photo, s.next) THEN channel[p][q] ELSE Sent(p, q, m)
  <2>1. m \in Seq(Message)
    <3>1. Chunk(s.photo, s.next) \in Message
      BY <1>5, Messages
    <3> QED  BY <3>1
  <2>2. c \in Seq(Message) /\ (c # <<>> => Linked(p, q))
    <3> HIDE DEF m, s
    <3>1. Sent(p, q, m) \in Seq(Message) /\ (Sent(p, q, m) # <<>> => Linked(p, q))
      BY <2>1, SentGood
    <3>2. channel[p][q] \in Seq(Message) /\ (channel[p][q] # <<>> => Linked(p, q))
      BY DEF ChannelsOK
    <3> QED  BY <3>1, <3>2
  <2>3. channel' = [channel EXCEPT ![p][q] = c]
    BY <1>1
  <2> HIDE DEF c
  <2> QED  BY <1>2, <2>2, <2>3, OneChannel
<1> QED  BY <1>6, <1>7, <1>8, <1>9

-----------------------------------------------------------------------------
(* Gossip *)

\* What is said of the owner.
LEMMA WhatIsSaid ==
  ASSUME RadioOK, KnowledgeOK, NEW q \in Phone
  PROVE /\ SaysPhoto(q) \in Known /\ SaysAge(q) \in Ages
        /\ SaysPhoto(q) # NoPhoto => SaysPhoto(q) \in Photos
<1>1. entry[q].photo \in Known /\ entry[q].age \in Ages /\ 0 \in Ages
  BY EntryOf
<1>2. photo \in Known
  BY Scenario DEF KnowledgeOK
<1>3. \A n \in Known : n # NoPhoto => n \in Photos
  BY Scenario DEF Known, Photos, NoPhoto
<1> QED  BY <1>1, <1>2, <1>3 DEF SaysPhoto, SaysAge

LEMMA MergedGood ==
  ASSUME RadioOK, KnowledgeOK, NEW p \in Phone, NEW q \in Phone
  PROVE Merged(p, q) \in Entry(Known, Ages) /\ (Merged(p, q).known \/ Merged(p, q).photo = NoPhoto)
BY WhatIsSaid, MergedEntry, EntryOf DEF Merged

\* What gossip from q does to p: whether a photo is asked for or not, the entry says the same.
LEMMA GossipEntry ==
  ASSUME RadioOK, KnowledgeOK, NEW p \in Phone, NEW q \in Phone, Gossip(q, p)
  PROVE LET e == Merged(p, q) IN
        \E f \in {e, MarkPhotoRequested(e)} :
          /\ entry' = [entry EXCEPT ![p] = f]
          /\ f \in Entry(Known, Ages) /\ f.known = e.known /\ f.photo = e.photo /\ f.age = e.age
          /\ f.known \/ f.photo = NoPhoto
<1> DEFINE e == Merged(p, q)
<1>1. e \in Entry(Known, Ages) /\ (e.known \/ e.photo = NoPhoto)
  BY MergedGood
<1>2. entry' = [entry EXCEPT ![p] = e] \/ entry' = [entry EXCEPT ![p] = MarkPhotoRequested(e)]
  BY DEF Gossip
<1> HIDE DEF e
<1>3. LET f == MarkPhotoRequested(e) IN
      f \in Entry(Known, Ages) /\ f.known = e.known /\ f.photo = e.photo /\ f.age = e.age
  BY <1>1 DEF MarkPhotoRequested, Entry
<1>4. \E f \in {e, MarkPhotoRequested(e)} :
          /\ entry' = [entry EXCEPT ![p] = f]
          /\ f \in Entry(Known, Ages) /\ f.known = e.known /\ f.photo = e.photo /\ f.age = e.age
          /\ f.known \/ f.photo = NoPhoto
  BY <1>1, <1>2, <1>3
<1> QED  BY <1>4 DEF e

\* What gossip does to the channels: a request may follow.
LEMMA GossipChannels ==
  ASSUME TypeIInv, NEW p \in Phone, NEW q \in Phone, Gossip(q, p)
  PROVE \/ UNCHANGED <<slot, taken, channel>>
        \/ \E s \in Phone : LET n == Merged(p, q).photo IN
             /\ RequestAndReceivePhoto(p, s, n)
             /\ channel' = [channel EXCEPT ![p][s] = Sent(p, s, <<RequestFor(p, s, n)>>)]
<1>1. \A n, said : Sources(p, n, said) \subseteq Phone
  BY PhotoAssumption DEF Sources, FindNeighborsWithPhoto, TypeIInv, KnowledgeOK
<1> QED  BY <1>1 DEF Gossip

LEMMA GossipTypes ==
  ASSUME TypeIInv, NEW q \in Phone, NEW p \in Phone, Gossip(q, p)
  PROVE TypeIInv'
<1> USE DEF TypeIInv
<1> DEFINE e == Merged(p, q)
<1>1. UNCHANGED <<radio, photo, connected, greeted, cache, sending>>
      /\ UNCHANGED <<scenario, up, streams, refusals>>
  BY DEF Gossip, radio, sending
<1>2. e \in Entry(Known, Ages)
  BY MergedGood
<1>3. RadioOK' /\ SendingOK'
  BY <1>1, RadioFrame, SendingFrame
<1>4. KnowledgeOK'
  <2>1. disk' \in [Phone -> [have : BOOLEAN, requested : BOOLEAN]]
    <3>1. disk' = [disk EXCEPT ![p] = [have |-> e.have, requested |-> e.requested]]
      BY DEF Gossip
    <3> HIDE DEF e
    <3>2. [have |-> e.have, requested |-> e.requested] \in [have : BOOLEAN, requested : BOOLEAN]
      BY <1>2 DEF Entry
    <3> QED  BY <3>1, <3>2 DEF KnowledgeOK
  <2>2. gossiped' \in [Phone -> [Phone -> SUBSET Photos]]
    <3> DEFINE said == [gossiped[p] EXCEPT ![q] =
                          IF Says(q) /\ SaysPhoto(q) # NoPhoto THEN @ \cup {SaysPhoto(q)} ELSE @]
    <3>1. gossiped' = [gossiped EXCEPT ![p] = said]
      BY DEF Gossip
    <3>2. said \in [Phone -> SUBSET Photos]
      BY WhatIsSaid DEF KnowledgeOK
    <3> HIDE DEF said
    <3> QED  BY <3>1, <3>2 DEF KnowledgeOK
  <2>3. connected' \in [Phone -> SUBSET Phone] /\ greeted' \in [Phone -> SUBSET Phone]
    BY <1>1 DEF KnowledgeOK
  <2>4. PICK f : /\ entry' = [entry EXCEPT ![p] = f]
                 /\ f \in Entry(Known, Ages) /\ (f.known \/ f.photo = NoPhoto)
    BY GossipEntry
  <2> QED  BY <1>1, <2>1, <2>2, <2>3, <2>4, EntryTypes
<1>5. CASE UNCHANGED <<slot, taken, channel>>
  BY <1>1, <1>3, <1>4, <1>5, ReceivingFrame, ChannelsFrame DEF receiving
<1>6. ASSUME NEW s \in Phone, RequestAndReceivePhoto(p, s, e.photo),
             channel' = [channel EXCEPT ![p][s] = Sent(p, s, <<RequestFor(p, s, e.photo)>>)]
      PROVE ReceivingOK' /\ ChannelsOK'
  <2>1. e.photo \in Known
    BY <1>2 DEF Entry
  <2> HIDE DEF e
  <2>2. ReceivingOK'
    BY <1>1, <1>6, <2>1, RequestedGood
  <2>3. RequestFor(p, s, e.photo) \in Message
    BY <2>1, Messages DEF RequestFor
  <2> DEFINE m == <<RequestFor(p, s, e.photo)>>
             c == Sent(p, s, m)
  <2>4. m \in Seq(Message)
    BY <2>3
  <2>5. channel' = [channel EXCEPT ![p][s] = c]
    BY <1>6
  <2> HIDE DEF m
  <2>6. c \in Seq(Message) /\ (c # <<>> => Linked(p, s))
    BY <2>4, SentGood
  <2> HIDE DEF c
  <2> QED  BY <1>1, <2>2, <2>5, <2>6, OneChannel
<1> QED  BY <1>3, <1>4, <1>5, <1>6, GossipChannels

-----------------------------------------------------------------------------
LEMMA NextTypes == TypeIInv /\ [Next]_vars => TypeIInv'
<1> SUFFICES ASSUME TypeIInv, [Next]_vars PROVE TypeIInv'
  OBVIOUS
<1>1. CASE SetProfilePhoto
  BY <1>1, SetProfilePhotoTypes
<1>2. CASE Tick
  BY <1>2, TickTypes
<1>3. ASSUME NEW p \in Phone, Restart(p) PROVE TypeIInv'
  BY <1>3, RestartTypes
<1>4. ASSUME NEW p \in Phone, NEW q \in Phone, Connect(p, q) PROVE TypeIInv'
  BY <1>4, ConnectTypes
<1>5. ASSUME NEW p \in Phone, NEW q \in Phone, Drop(p, q) PROVE TypeIInv'
  BY <1>5, DropTypes
<1>6. ASSUME NEW p \in Phone, NEW q \in Phone, Receive(p, q) PROVE TypeIInv'
  BY <1>6, ReceiveTypes
<1>7. ASSUME NEW p \in Phone, NEW q \in Phone, Gossip(p, q) PROVE TypeIInv'
  BY <1>7, GossipTypes
<1>8. ASSUME NEW p \in Phone, NEW q \in Phone, NEW refused \in BOOLEAN, SendChunk(p, q, refused)
      PROVE TypeIInv'
  BY <1>8, SendChunkTypes
<1>9. CASE UNCHANGED vars
  BY <1>9, RadioFrame, KnowledgeFrame, ReceivingFrame, SendingFrame, ChannelsFrame
  DEF vars, radio, sending, receiving, TypeIInv
<1> QED  BY <1>1, <1>2, <1>3, <1>4, <1>5, <1>6, <1>7, <1>8, <1>9 DEF Next

\* Transfers and gossip stay well formed whatever is lost, repeated or restarted, for any
\* number of phones and photos: a phone sends only chunks of photos that it holds, of
\* numbers that the photo has, and a slot is never left with all its chunks (AddChunk and
\* handlePhotoData of photo_transfer.go).
THEOREM PhotoTypesHold == Spec => []PhotoTypeOK
<1>1. Spec => []TypeIInv
  BY InitTypes, NextTypes, PTL DEF Spec
<1> QED  BY <1>1, TypeIInvTypes, PTL

-----------------------------------------------------------------------------
(* News on a tree *)

\* Every link is between a phone and its parent.
IsTree(parent) ==
  /\ parent \in [Phone -> Phone]
  /\ \A l \in links : \E c \in Phone \ {Owner} : {l[1], l[2]} = {c, parent[c]}

\* The handshakes in s announce photos of n .. m, in order.
Orderly(s, n, m) ==
  /\ n <= m
  /\ \A i \in DOMAIN s : s[i].kind = "handshake" =>
       /\ n <= s[i].photo /\ s[i].photo <= m /\ s[i].photo # NoPhoto
       /\ \A j \in DOMAIN s : i < j /\ s[j].kind = "handshake" => s[i].photo <= s[j].photo

\* What a neighbor of the owner knows is not newer than what is on its way to it.
InOrder(c) == Orderly(channel[Owner][c], entry[c].photo, photo)

\* What c knows is not newer than what q knows, and q's news are not older.
Behind(c, q) ==
  entry[c].known =>
    entry[q].known /\ entry[q].age <= entry[c].age /\ entry[c].photo <= entry[q].photo

NewsOK(parent) ==
  \A c \in Phone \ {Owner} : IF parent[c] = Owner THEN InOrder(c) ELSE Behind(c, parent[c])

TreeIInv == \A parent : IsTree(parent) => NewsOK(parent)

SameNews(p) ==
  entry'[p].known = entry[p].known /\ entry'[p].photo = entry[p].photo /\ entry'[p].age = entry[p].age

\* A step brings news that are younger and not of an older photo.
Newer(p) ==
  /\ entry[p].known => entry'[p].known /\ entry'[p].age <= entry[p].age
  /\ entry[p].photo <= entry'[p].photo

\* The owner's channels stay in order, for phones that learn nothing.
KeepsOrder ==
  \A c \in Phone \ {Owner} :
    InOrder(c) => Orderly(channel'[Owner][c], entry[c].photo, photo')

Onward == \A p \in Phone : entry[p].photo <= entry'[p].photo

\* Of two linked phones one is the other's parent.
LEMMA OneIsParent ==
  ASSUME RadioOK, NEW parent, IsTree(parent), NEW p \in Phone, NEW q \in Phone, Linked(p, q)
  PROVE /\ (p # Owner /\ parent[p] = q) \/ (q # Owner /\ parent[q] = p)
        /\ q = Owner => p # Owner /\ parent[p] = Owner
<1>1. p # q /\ (<<p, q>> \in links \/ <<q, p>> \in links)
  BY Ends
<1>2. PICK c \in Phone \ {Owner} : {p, q} = {c, parent[c]}
  BY <1>1 DEF IsTree
<1> QED  BY <1>1, <1>2

LEMMA PhotosNat ==
  ASSUME TypeIInv
  PROVE /\ photo \in Nat /\ photo # NoPhoto
        /\ \A p \in Phone : entry[p].photo \in Nat /\ entry[p].age \in Nat /\ entry[p].known \in BOOLEAN
        /\ \A p \in Phone : ~entry[p].known => entry[p].photo = 0
        /\ \A p, q \in Phone : channel[p][q] \in Seq(Message)
<1>1. photo \in Nat /\ photo # NoPhoto
  BY Scenario DEF TypeIInv, KnowledgeOK, NoPhoto
<1>2. Known \subseteq Nat
  BY DEF Known
<1>3. ASSUME NEW p \in Phone
      PROVE /\ entry[p].photo \in Nat /\ entry[p].age \in Nat /\ entry[p].known \in BOOLEAN
            /\ ~entry[p].known => entry[p].photo = 0
  BY <1>2, EntryOf DEF TypeIInv, NoPhoto
<1> QED  BY <1>1, <1>3 DEF TypeIInv, ChannelsOK

\* The handshakes of a sequence of messages.
LEMMA HandshakePhotos ==
  ASSUME NEW s \in Seq(Message), NEW i \in DOMAIN s, s[i].kind = "handshake"
  PROVE s[i].photo \in Nat
<1>1. s[i] \in Message
  BY ElementsOf
<1> QED  BY <1>1 DEF Message, Subscribe

LEMMA OrderlyTail ==
  ASSUME NEW s \in Seq(Message), s # <<>>, NEW n, NEW m, Orderly(s, n, m)
  PROVE /\ Orderly(Tail(s), n, m)
        /\ Head(s).kind = "handshake" =>
             /\ n <= Head(s).photo /\ Head(s).photo <= m /\ Head(s).photo # NoPhoto
             /\ Orderly(Tail(s), Head(s).photo, m)
<1>1. /\ Len(s) \in Nat /\ 1 \in DOMAIN s /\ Head(s) = s[1]
      /\ DOMAIN s = 1 .. Len(s)
      /\ DOMAIN Tail(s) = 1 .. Len(s) - 1
      /\ \A i \in DOMAIN Tail(s) : Tail(s)[i] = s[i + 1] /\ i + 1 \in DOMAIN s
  OBVIOUS
<1>2. \A i, j \in DOMAIN Tail(s) : i < j => i + 1 < j + 1
  BY <1>1
<1>3. Orderly(Tail(s), n, m)
  BY <1>1, <1>2 DEF Orderly
<1>4. ASSUME Head(s).kind = "handshake"
      PROVE /\ n <= Head(s).photo /\ Head(s).photo <= m /\ Head(s).photo # NoPhoto
            /\ Orderly(Tail(s), Head(s).photo, m)
  <2>1. /\ n <= s[1].photo /\ s[1].photo <= m /\ s[1].photo # NoPhoto
        /\ \A j \in DOMAIN s : 1 < j /\ s[j].kind = "handshake" => s[1].photo <= s[j].photo
    BY <1>1, <1>4 DEF Orderly
  <2>2. \A i \in DOMAIN Tail(s) : 1 < i + 1
    BY <1>1
  <2>3. Orderly(Tail(s), s[1].photo, m)
    BY <1>1, <1>2, <1>3, <2>1, <2>2 DEF Orderly
  <2> QED  BY <1>1, <2>1, <2>3
<1> QED  BY <1>3, <1>4

\* Messages whose handshakes announce the present photo are added at the end.
LEMMA OrderlyConcat ==
  ASSUME NEW s \in Seq(Message), NEW t \in Seq(Message), NEW n \in Nat, NEW m \in Nat \ {NoPhoto},
         Orderly(s, n, m), \A i \in DOMAIN t : t[i].kind = "handshake" => t[i].photo = m
  PROVE Orderly(s \o t, n, m)
<1> DEFINE u == s \o t
<1>1. /\ Len(s) \in Nat /\ Len(t) \in Nat /\ u \in Seq(Message)
      /\ DOMAIN u = 1 .. Len(s) + Len(t)
      /\ \A i \in DOMAIN u : u[i] = IF i <= Len(s) THEN s[i] ELSE t[i - Len(s)]
  BY ConcatProperties
<1> HIDE DEF u
<1>2. \A i \in DOMAIN u : IF i <= Len(s) THEN i \in DOMAIN s ELSE i - Len(s) \in DOMAIN t
  BY <1>1
<1>3. ASSUME NEW i \in DOMAIN u, u[i].kind = "handshake"
      PROVE n <= u[i].photo /\ u[i].photo <= m /\ u[i].photo # NoPhoto /\ (i > Len(s) => u[i].photo = m)
  <2>1. i \in Nat /\ n <= m
    BY <1>1 DEF Orderly
  <2>2. CASE i <= Len(s)
    BY <1>1, <1>2, <1>3, <2>1, <2>2 DEF Orderly
  <2>3. CASE ~(i <= Len(s))
    <3>1. u[i].photo = m
      BY <1>1, <1>2, <1>3, <2>3
    <3> QED  BY <2>1, <2>3, <3>1
  <2> QED  BY <2>2, <2>3
<1>4. ASSUME NEW i \in DOMAIN u, NEW j \in DOMAIN u, i < j,
             u[i].kind = "handshake", u[j].kind = "handshake"
      PROVE u[i].photo <= u[j].photo
  <2>1. CASE j <= Len(s)
    <3>1. i <= Len(s)
      BY <1>1, <1>4, <2>1
    <3> QED  BY <1>1, <1>2, <1>4, <2>1, <3>1 DEF Orderly
  <2>2. CASE ~(j <= Len(s))
    <3>1. u[j].photo = m
      BY <1>1, <1>3, <1>4, <2>2
    <3> QED  BY <1>3, <1>4, <3>1
  <2> QED  BY <2>1, <2>2
<1>5. n <= m
  BY DEF Orderly
<1>6. Orderly(u, n, m)
  BY <1>3, <1>4, <1>5 DEF Orderly
<1> QED  BY <1>6 DEF u

\* Between two phones of which the second is the owner's child, and so on along the tree.
LEMMA NewsStep ==
  ASSUME TypeIInv, TypeIInv', NEW parent, IsTree(parent), NewsOK(parent), KeepsOrder,
         \A c \in Phone : SameNews(c) \/ Newer(c),
         \A c \in Phone \ {Owner} :
           SameNews(c) \/ IF parent[c] = Owner THEN InOrder(c)' ELSE Behind(c, parent[c])'
  PROVE NewsOK(parent)' /\ Onward
<1>1. \A c \in Phone : /\ entry[c].photo \in Nat /\ entry[c].age \in Nat
                       /\ entry'[c].photo \in Nat /\ entry'[c].age \in Nat
  <2>1. Cardinality(Phone) \in Nat
    BY PhotoAssumption, FS_CardinalityType
  <2>2. Known' \subseteq Nat /\ Ages' \subseteq Nat
    BY <2>1 DEF Known, Ages
  <2>3. entry' \in [Phone -> Entry(Known, Ages)']
    BY DEF TypeIInv, KnowledgeOK
  <2>4. \A c \in Phone : entry'[c].photo \in Known' /\ entry'[c].age \in Ages'
    BY <2>3 DEF Entry
  <2> QED  BY <2>2, <2>4, PhotosNat
<1>2. \A c \in Phone : Newer(c)
  BY <1>1 DEF SameNews, Newer
<1>3. ASSUME NEW c \in Phone \ {Owner}, SameNews(c)
      PROVE IF parent[c] = Owner THEN InOrder(c)' ELSE Behind(c, parent[c])'
  <2>1. CASE parent[c] = Owner
    <3>1. InOrder(c)
      BY <2>1 DEF NewsOK
    <3> QED  BY <1>3, <2>1, <3>1 DEF KeepsOrder, InOrder, SameNews
  <2>2. CASE parent[c] # Owner
    <3> DEFINE q == parent[c]
    <3>1. q \in Phone /\ Behind(c, q)
      BY <2>2 DEF NewsOK, IsTree
    <3> HIDE DEF q
    <3>2. Behind(c, q)'
      BY <1>1, <1>2, <1>3, <3>1 DEF Behind, Newer, SameNews
    <3> QED  BY <2>2, <3>2 DEF q
  <2> QED  BY <2>1, <2>2
<1>4. NewsOK(parent)'
  BY <1>3 DEF NewsOK
<1> QED  BY <1>2, <1>4 DEF Newer, Onward

\* The owner's channels are what they were, or empty.
LEMMA OrderKept ==
  ASSUME TypeIInv, photo' = photo,
         \A c \in Phone : channel'[Owner][c] = channel[Owner][c] \/ channel'[Owner][c] = <<>>
  PROVE KeepsOrder
BY DEF KeepsOrder, InOrder, Orderly

\* A message has left one channel.
LEMMA OrderTaken ==
  ASSUME TypeIInv, photo' = photo, NEW p \in Phone, NEW q \in Phone, channel[q][p] # <<>>,
         channel' = [channel EXCEPT ![q][p] = Tail(@)]
  PROVE KeepsOrder
<1> SUFFICES ASSUME NEW c \in Phone \ {Owner}, InOrder(c)
             PROVE Orderly(channel'[Owner][c], entry[c].photo, photo)
  BY DEF KeepsOrder
<1>1. channel \in [Phone -> [Phone -> Seq(Message)]]
  BY DEF TypeIInv, ChannelsOK
<1>2. CASE <<q, p>> = <<Owner, c>>
  <2>1. channel'[Owner][c] = Tail(channel[Owner][c])
    BY <1>1, <1>2
  <2>2. channel[Owner][c] \in Seq(Message) /\ channel[Owner][c] # <<>>
    BY <1>1, <1>2, PhotoAssumption
  <2> QED  BY <2>1, <2>2, OrderlyTail DEF InOrder
<1>3. CASE <<q, p>> # <<Owner, c>>
  <2>1. channel'[Owner][c] = channel[Owner][c]
    BY <1>1, <1>3, PhotoAssumption
  <2> QED  BY <2>1 DEF InOrder
<1> QED  BY <1>2, <1>3

\* Messages of which the handshakes announce the present photo have been added to one.
LEMMA OrderAdded ==
  ASSUME TypeIInv, photo' = photo, NEW q \in Phone, NEW messages \in Seq(Message),
         channel'[Owner][q] = channel[Owner][q] \o messages,
         \A i \in DOMAIN messages : messages[i].kind = "handshake" => messages[i].photo = photo,
         \A c \in Phone : c # q => channel'[Owner][c] = channel[Owner][c]
  PROVE KeepsOrder
<1> SUFFICES ASSUME NEW c \in Phone \ {Owner}, InOrder(c)
             PROVE Orderly(channel'[Owner][c], entry[c].photo, photo)
  BY DEF KeepsOrder
<1>1. CASE c = q
  <2>1. channel[Owner][c] \in Seq(Message) /\ entry[c].photo \in Nat /\ photo \in Nat \ {NoPhoto}
    BY PhotosNat, PhotoAssumption
  <2> QED  BY <1>1, <2>1, OrderlyConcat DEF InOrder
<1>2. CASE c # q
  BY <1>2 DEF InOrder
<1> QED  BY <1>1, <1>2

\* Nobody learns anything.
LEMMA NothingNew ==
  ASSUME TypeIInv, TypeIInv', NEW parent, IsTree(parent), NewsOK(parent), KeepsOrder,
         \A c \in Phone : SameNews(c)
  PROVE NewsOK(parent)' /\ Onward
BY NewsStep

LEMMA NewPhotoNews ==
  ASSUME TypeIInv, TypeIInv', NEW parent, IsTree(parent), NewsOK(parent), SetProfilePhoto
  PROVE NewsOK(parent)' /\ Onward
<1>1. photo' = photo + 1 /\ UNCHANGED <<channel, entry>>
  BY DEF SetProfilePhoto, knowledge
<1>2. KeepsOrder
  <2> SUFFICES ASSUME NEW c \in Phone \ {Owner}, InOrder(c)
               PROVE Orderly(channel[Owner][c], entry[c].photo, photo + 1)
    BY <1>1 DEF KeepsOrder
  <2>1. channel[Owner][c] \in Seq(Message) /\ photo \in Nat /\ entry[c].photo \in Nat
    BY PhotosNat, PhotoAssumption
  <2>2. \A i \in DOMAIN channel[Owner][c] :
          channel[Owner][c][i].kind = "handshake" => channel[Owner][c][i].photo \in Nat
    BY <2>1, HandshakePhotos
  <2> QED  BY <2>1, <2>2 DEF InOrder, Orderly
<1> QED  BY <1>1, <1>2, NothingNew DEF SameNews

\* Time passes for everybody alike.
LEMMA TickNews ==
  ASSUME TypeIInv, NEW parent, IsTree(parent), NewsOK(parent), Tick
  PROVE NewsOK(parent)' /\ Onward
<1>1. /\ \A p \in Phone :
           entry'[p] = IF entry[p].known THEN [entry[p] EXCEPT !.age = Dense(entry[p].age)] ELSE entry[p]
      /\ photo' = photo /\ channel' = channel
  BY TickEntries DEF TypeIInv, Tick
<1>2. ASSUME NEW p \in Phone
      PROVE /\ entry'[p].known = entry[p].known /\ entry'[p].photo = entry[p].photo
            /\ entry[p].known => entry'[p].age = Dense(entry[p].age)
            /\ entry[p].age \in Nat /\ entry[p].photo \in Nat
  <2>1. entry[p] \in Entry(Known, Ages)
    BY EntryOf DEF TypeIInv
  <2> QED  BY <1>1, <2>1, PhotosNat DEF Entry
<1>3. ASSUME NEW c \in Phone \ {Owner}
      PROVE IF parent[c] = Owner THEN InOrder(c)' ELSE Behind(c, parent[c])'
  <2>1. CASE parent[c] = Owner
    BY <1>1, <1>2, <2>1 DEF NewsOK, InOrder
  <2>2. CASE parent[c] # Owner
    <3> DEFINE q == parent[c]
    <3>1. q \in Phone /\ Behind(c, q)
      BY <2>2 DEF NewsOK, IsTree
    <3> HIDE DEF q
    <3>2. entry[c].known => Dense(entry[q].age) <= Dense(entry[c].age)
      BY <1>2, <3>1, DenseAges DEF TypeIInv, Behind
    <3>3. Behind(c, q)'
      BY <1>2, <3>1, <3>2 DEF Behind
    <3> QED  BY <2>2, <3>3 DEF q
  <2> QED  BY <2>1, <2>2
<1>4. Onward
  BY <1>2 DEF Onward
<1> QED  BY <1>3, <1>4 DEF NewsOK

LEMMA ConnectNews ==
  ASSUME TypeIInv, TypeIInv', NEW parent, IsTree(parent), NewsOK(parent),
         NEW c \in Phone, NEW p \in Phone, Connect(c, p)
  PROVE NewsOK(parent)' /\ Onward
<1>1. photo' = photo /\ entry' = entry
  BY DEF Connect
<1>2. channel \in [Phone -> [Phone -> Seq(Message)]]
  BY DEF TypeIInv, ChannelsOK
<1>3. CASE c = Owner
  <2> DEFINE s == <<Subscribe, Handshake(photo)>>
  <2>1. channel' = [channel EXCEPT ![c][p] = s]
    BY <1>3 DEF Connect, OwnPhoto
  <2> HIDE DEF s
  <2>2. channel'[Owner][p] = s /\ \A x \in Phone : x # p => channel'[Owner][x] = channel[Owner][x]
    BY <1>2, <1>3, <2>1
  <2>3. ASSUME NEW x \in Phone \ {Owner}, InOrder(x)
        PROVE Orderly(channel'[Owner][x], entry[x].photo, photo)
    <3>1. CASE x = p
      <4>1. entry[x].photo <= photo /\ photo # NoPhoto /\ photo \in Nat
        BY <2>3, PhotosNat DEF InOrder, Orderly
      <4>2. DOMAIN s = 1 .. 2 /\ s[1].kind # "handshake" /\ s[2].photo = photo
        BY DEF s, Subscribe, Handshake
      <4> QED  BY <2>2, <3>1, <4>1, <4>2 DEF Orderly
    <3>2. CASE x # p
      BY <2>2, <2>3, <3>2 DEF InOrder
    <3> QED  BY <3>1, <3>2
  <2>4. KeepsOrder
    BY <1>1, <2>3 DEF KeepsOrder
  <2> QED  BY <1>1, <2>4, NothingNew DEF SameNews
<1>4. CASE c # Owner
  <2>1. \A x \in Phone : channel'[Owner][x] = channel[Owner][x]
    BY <1>2, <1>4, PhotoAssumption DEF Connect
  <2> QED  BY <1>1, <2>1, OrderKept, NothingNew DEF SameNews
<1> QED  BY <1>3, <1>4

\* The loss of a link empties its channels, and a restart loses no news.
LEMMA LossNews ==
  ASSUME TypeIInv, TypeIInv', NEW parent, IsTree(parent), NewsOK(parent),
         (\E c, p \in Phone : Drop(c, p)) \/ (\E p \in Phone : Restart(p))
  PROVE NewsOK(parent)' /\ Onward
<1>1. photo' = photo
  BY DEF Drop, Restart
<1>2. PICK lost : Disconnect(lost)
  BY DEF Drop, Restart
<1>3. \A c \in Phone : channel'[Owner][c] = channel[Owner][c] \/ channel'[Owner][c] = <<>>
  BY <1>2, PhotoAssumption DEF Disconnect
<1>4. ASSUME NEW x \in Phone PROVE SameNews(x)
  <2>1. entry[x] \in Entry(Known, Ages)
    BY EntryOf DEF TypeIInv
  <2>2. \/ entry'[x] = entry[x] \/ entry'[x] = MarkDeviceDisconnected(entry[x])
        \/ entry'[x] = [entry[x] EXCEPT !.have = disk[x].have, !.requested = disk[x].requested]
    BY DEF Drop, Restart, AfterDisconnect
  <2> QED  BY <2>1, <2>2 DEF MarkDeviceDisconnected, SameNews, Entry
<1> QED  BY <1>1, <1>3, <1>4, OrderKept, NothingNew

\* A handshake of the owner is not older than what its neighbor and those behind it know,
\* and the handshakes after it are not older either.
LEMMA HandshakeNews ==
  ASSUME TypeIInv, TypeIInv', NEW parent, IsTree(parent), NewsOK(parent),
         NEW p \in Phone, NEW q \in Phone, channel[q][p] # <<>>, NEW n \in Known,
         Head(channel[q][p]).kind = "handshake", Head(channel[q][p]).photo = n,
         HandleHandshake(p, q, n), photo' = photo
  PROVE NewsOK(parent)' /\ Onward
<1>1. Linked(q, p) /\ Linked(p, q) /\ p # q /\ RadioOK /\ KnowledgeOK
  BY HandshakeChannels DEF TypeIInv
<1>2. CASE q # Owner
  <2>1. \A x \in Phone : SameNews(x)
    BY <1>2 DEF HandleHandshake, SameNews
  <2>2. CASE p = Owner
    <3>1. PICK messages \in Seq(Message) :
            /\ channel'[p][q] = channel[p][q] \o messages
            /\ \A i \in DOMAIN messages :
                 messages[i].kind = "handshake" => messages[i].photo = OwnPhoto(p)
      BY HandshakeChannels
    <3>2. \A c \in Phone : c # q => channel'[p][c] = channel[p][c]
      BY <1>1, HandshakeChannels
    <3>3. KeepsOrder
      BY <2>2, <3>1, <3>2, OrderAdded DEF OwnPhoto
    <3> QED  BY <2>1, <3>3, NothingNew
  <2>3. CASE p # Owner
    <3>1. \A c \in Phone : channel'[Owner][c] = channel[Owner][c]
      BY <1>2, <2>3, PhotoAssumption, HandshakeChannels
    <3> QED  BY <2>1, <3>1, OrderKept, NothingNew
  <2> QED  BY <2>2, <2>3
<1>3. CASE q = Owner
  <2> DEFINE e == UpdateDevice(entry[p], n, cache[p])
             s == channel[Owner][p]
  <2>1. p # Owner /\ parent[p] = Owner
    BY <1>1, <1>3, OneIsParent
  <2>2. entry' = [entry EXCEPT ![p] = e]
    BY <1>3 DEF HandleHandshake
  <2>3. e.known /\ e.age = 0 /\ e.photo = IF n = NoPhoto THEN entry[p].photo ELSE n
    BY <1>1, UpdatedEntry
  <2> HIDE DEF e
  <2>4. entry'[p] = e /\ \A x \in Phone : x # p => entry'[x] = entry[x]
    BY <1>1, <2>2 DEF KnowledgeOK
  <2>5. s \in Seq(Message) /\ s # <<>> /\ Orderly(s, entry[p].photo, photo)
    BY <1>3, <2>1, PhotosNat DEF NewsOK, InOrder
  <2>6. /\ entry[p].photo <= n /\ n # NoPhoto
        /\ Orderly(Tail(s), n, photo)
    BY <1>3, <2>5, OrderlyTail
  <2>7. channel'[Owner][p] = Tail(s) /\ \A x \in Phone : x # p => channel'[Owner][x] = channel[Owner][x]
    BY <1>1, <1>3, HandshakeChannels
  <2>8. KeepsOrder
    <3>1. Orderly(Tail(s), entry[p].photo, photo)
      BY <2>5, OrderlyTail
    <3> QED  BY <2>7, <3>1 DEF KeepsOrder, InOrder
  <2>9. InOrder(p)'
    BY <2>3, <2>4, <2>6, <2>7 DEF InOrder
  <2>10. Newer(p)
    BY <2>3, <2>4, <2>6, PhotosNat DEF Newer
  <2>11. \A x \in Phone : x # p => SameNews(x)
    BY <2>4 DEF SameNews
  <2> QED  BY <2>1, <2>8, <2>9, <2>10, <2>11, NewsStep
<1> QED  BY <1>2, <1>3

LEMMA ReceiveNews ==
  ASSUME TypeIInv, TypeIInv', NEW parent, IsTree(parent), NewsOK(parent),
         NEW p \in Phone, NEW q \in Phone, Receive(p, q)
  PROVE NewsOK(parent)' /\ Onward
<1> DEFINE m == Head(channel[q][p])
<1>1. channel[q][p] # <<>> /\ m \in Message /\ photo' = photo
  BY Taken DEF Receive, TypeIInv
<1>2. CASE m.kind = "handshake" /\ HandleHandshake(p, q, m.photo)
  <2>1. m.photo \in Known
    BY <1>1, <1>2 DEF Message, Subscribe, Known
  <2> QED  BY <1>1, <1>2, <2>1, HandshakeNews
<1>3. CASE ~(m.kind = "handshake" /\ HandleHandshake(p, q, m.photo))
  <2>1. \/ HandlePhotoData(p, q, m.photo, m.index) \/ Ignore(p, q)
        \/ HandlePhotoRequest(p, q, m.photo) \/ HandleSubscribe(p, q)
    BY <1>3 DEF Receive
  <2> HIDE DEF m
  <2>2. channel' = [channel EXCEPT ![q][p] = Tail(@)]
    BY <2>1 DEF HandlePhotoData, Ignore, HandlePhotoRequest, HandleSubscribe
  <2>3. entry' = entry \/ entry' = [entry EXCEPT ![p] = MarkPhotoReceived(entry[p])]
    BY <2>1 DEF HandlePhotoData, Ignore, HandlePhotoRequest, HandleSubscribe, knowledge
  <2>4. ASSUME NEW x \in Phone PROVE SameNews(x)
    <3>1. entry[x] \in Entry(Known, Ages) /\ entry \in [Phone -> Entry(Known, Ages)]
      BY EntryOf DEF TypeIInv, KnowledgeOK
    <3>2. entry'[x] = entry[x] \/ entry'[x] = MarkPhotoReceived(entry[x])
      BY <2>3, <3>1
    <3> QED  BY <3>1, <3>2 DEF MarkPhotoReceived, SameNews, Entry
  <2> QED  BY <1>1, <2>2, <2>4, OrderTaken, NothingNew
<1> QED  BY <1>2, <1>3

LEMMA SendChunkNews ==
  ASSUME TypeIInv, TypeIInv', NEW parent, IsTree(parent), NewsOK(parent),
         NEW p \in Phone, NEW q \in Phone, NEW refused \in BOOLEAN, SendChunk(p, q, refused)
  PROVE NewsOK(parent)' /\ Onward
<1>1. photo' = photo /\ entry' = entry /\ RadioOK /\ KnowledgeOK /\ SendingOK
  BY DEF SendChunk, knowledge, TypeIInv
<1>2. PICK k \in DOMAIN streams[p][q] :
        channel' = [channel EXCEPT ![p][q] =
            IF refused \/ ~Fits(p, q, streams[p][q][k].photo, streams[p][q][k].next) THEN @
            ELSE Sent(p, q, <<Chunk(streams[p][q][k].photo, streams[p][q][k].next)>>)]
  BY DEF SendChunk
<1> DEFINE s == streams[p][q][k]
           m == <<Chunk(s.photo, s.next)>>
<1>3. /\ m \in Seq(Message)
      /\ \A i \in DOMAIN m : m[i].kind # "handshake"
  <2>1. s \in Stream(cache[p])
    BY <1>1, ElementsOf DEF SendingOK
  <2>2. Chunk(s.photo, s.next) \in Message
    BY <1>1, <2>1, Messages DEF Stream
  <2>3. Chunk(s.photo, s.next).kind # "handshake"
    BY DEF Chunk
  <2> HIDE DEF s
  <2> QED  BY <2>2, <2>3
<1>4. channel \in [Phone -> [Phone -> Seq(Message)]]
  BY DEF TypeIInv, ChannelsOK
<1>5. channel' = channel \/ channel' = [channel EXCEPT ![p][q] = channel[p][q] \o m]
  <2>1. channel = [channel EXCEPT ![p][q] = channel[p][q]]
    BY <1>4
  <2> HIDE DEF m
  <2>2. Sent(p, q, m) \in {channel[p][q], channel[p][q] \o m}
    BY DEF Sent
  <2>3. \/ channel' = [channel EXCEPT ![p][q] = channel[p][q]]
        \/ channel' = [channel EXCEPT ![p][q] = Sent(p, q, m)]
    BY <1>2 DEF m
  <2> QED  BY <2>1, <2>2, <2>3
<1> HIDE DEF m
<1>6. KeepsOrder
  <2>1. CASE channel' = [channel EXCEPT ![p][q] = channel[p][q] \o m] /\ p = Owner
    <3>1. /\ channel'[Owner][q] = channel[Owner][q] \o m
          /\ \A c \in Phone : c # q => channel'[Owner][c] = channel[Owner][c]
      BY <1>4, <2>1
    <3> QED  BY <1>1, <1>3, <3>1, OrderAdded
  <2>2. CASE ~(channel' = [channel EXCEPT ![p][q] = channel[p][q] \o m] /\ p = Owner)
    <3>1. \A c \in Phone : channel'[Owner][c] = channel[Owner][c]
      BY <1>4, <1>5, <2>2, PhotoAssumption
    <3> QED  BY <1>1, <3>1, OrderKept
  <2> QED  BY <2>1, <2>2
<1> QED  BY <1>1, <1>6, NothingNew DEF SameNews

\* Gossip of a parent brings what the parent knows, if it is younger; that of a child
\* brings nothing, since what a child knows is not younger.
LEMMA GossipNews ==
  ASSUME TypeIInv, TypeIInv', NEW parent, IsTree(parent), NewsOK(parent),
         NEW p \in Phone, NEW q \in Phone, Gossip(q, p)
  PROVE NewsOK(parent)' /\ Onward
<1>1. /\ RadioOK /\ KnowledgeOK /\ photo' = photo
      /\ Linked(p, q) /\ p # Owner /\ channel[p][q] = <<>> /\ channel[q][p] = <<>>
  BY DEF TypeIInv, Gossip
<1>2. /\ entry[p].photo \in Nat /\ entry[p].age \in Nat /\ entry[p].known \in BOOLEAN
      /\ ~entry[p].known => entry[p].photo = 0
      /\ entry[q].photo \in Nat /\ entry[q].age \in Nat /\ photo \in Nat
  BY PhotosNat
<1>3. \A c \in Phone : channel'[Owner][c] = channel[Owner][c]
  <2>1. channel \in [Phone -> [Phone -> Seq(Message)]]
    BY DEF TypeIInv, ChannelsOK
  <2>2. CASE UNCHANGED channel
    BY <2>2
  <2>3. ASSUME NEW s \in Phone, NEW c, channel' = [channel EXCEPT ![p][s] = c]
        PROVE \A x \in Phone : channel'[Owner][x] = channel[Owner][x]
    BY <1>1, <2>1, <2>3, PhotoAssumption
  <2> QED  BY <2>2, <2>3, GossipChannels
<1>4. KeepsOrder
  BY <1>1, <1>3, OrderKept
<1> DEFINE e == Merged(p, q)
<1>5. PICK f : /\ entry' = [entry EXCEPT ![p] = f]
               /\ f.known = e.known /\ f.photo = e.photo /\ f.age = e.age
  BY <1>1, GossipEntry
<1>6. IF Says(q)
      THEN e.known /\ IF entry[p].known /\ SaysAge(q) >= entry[p].age
                      THEN e.photo = entry[p].photo /\ e.age = entry[p].age
                      ELSE e.photo = SaysPhoto(q) /\ e.age = SaysAge(q)
      ELSE e = entry[p]
  BY <1>1, WhatIsSaid, MergedEntry DEF Merged
<1> HIDE DEF e
<1>7. entry'[p] = f /\ \A x \in Phone : x # p => entry'[x] = entry[x]
  BY <1>1, <1>5 DEF KnowledgeOK
<1>8. \A x \in Phone : x # p => SameNews(x)
  BY <1>7 DEF SameNews
<1>9. CASE q = Owner
  <2>1. parent[p] = Owner
    BY <1>1, <1>9, OneIsParent
  <2>2. Says(q) /\ SaysPhoto(q) = photo /\ SaysAge(q) = 0
    BY <1>9 DEF Says, SaysPhoto, SaysAge
  <2>3. entry[p].photo <= photo
    BY <1>1, <2>1 DEF NewsOK, InOrder, Orderly
  <2>4. Newer(p) /\ entry'[p].photo <= photo
    BY <1>2, <1>5, <1>6, <1>7, <2>2, <2>3 DEF Newer
  <2>5. InOrder(p)'
    BY <1>1, <1>3, <1>9, <2>4 DEF InOrder, Orderly
  <2> QED  BY <1>4, <1>8, <2>1, <2>4, <2>5, NewsStep
<1>10. CASE q # Owner /\ parent[p] = q
  <2>1. Behind(p, q)
    BY <1>1, <1>10 DEF NewsOK
  <2>2. SaysPhoto(q) = entry[q].photo /\ SaysAge(q) = entry[q].age /\ (Says(q) <=> entry[q].known)
    BY <1>10 DEF Says, SaysPhoto, SaysAge
  <2>3. p # q
    BY <1>1, Ends
  <2>4. Newer(p) /\ Behind(p, q)'
    BY <1>2, <1>5, <1>6, <1>7, <2>1, <2>2, <2>3 DEF Newer, Behind
  <2> QED  BY <1>4, <1>8, <1>10, <2>4, NewsStep
<1>11. CASE q # Owner /\ parent[p] # q
  <2>1. parent[q] = p
    BY <1>1, <1>11, OneIsParent
  <2>2. Behind(q, p)
    BY <1>1, <1>11, <2>1 DEF NewsOK
  <2>3. SaysPhoto(q) = entry[q].photo /\ SaysAge(q) = entry[q].age /\ (Says(q) <=> entry[q].known)
    BY <1>11 DEF Says, SaysPhoto, SaysAge
  <2>4. SameNews(p)
    BY <1>2, <1>5, <1>6, <1>7, <2>2, <2>3 DEF Behind, SameNews
  <2> QED  BY <1>4, <1>8, <2>4, NothingNew
<1> QED  BY <1>9, <1>10, <1>11

LEMMA InitNews ==
  ASSUME Init, NEW parent, IsTree(parent)
  PROVE NewsOK(parent)
<1>1. \A c \in Phone : ~entry[c].known /\ entry[c].photo = 0 /\ channel[Owner][c] = <<>>
  BY PhotoAssumption DEF Init, Unknown, ByPeer, NoPhoto
<1> QED  BY <1>1 DEF Init, NewsOK, InOrder, Orderly, Behind

LEMMA NextNews ==
  ASSUME TypeIInv, NEW parent, IsTree(parent), NewsOK(parent), [Next]_vars
  PROVE NewsOK(parent)' /\ Onward
<1>1. TypeIInv'
  BY NextTypes
<1>2. CASE SetProfilePhoto
  BY <1>1, <1>2, NewPhotoNews
<1>3. CASE Tick
  BY <1>3, TickNews
<1>4. ASSUME NEW p \in Phone, NEW q \in Phone, Connect(p, q) PROVE NewsOK(parent)' /\ Onward
  BY <1>1, <1>4, ConnectNews
<1>5. CASE (\E c, p \in Phone : Drop(c, p)) \/ (\E p \in Phone : Restart(p))
  BY <1>1, <1>5, LossNews
<1>6. ASSUME NEW p \in Phone, NEW q \in Phone, Receive(p, q) PROVE NewsOK(parent)' /\ Onward
  BY <1>1, <1>6, ReceiveNews
<1>7. ASSUME NEW p \in Phone, NEW q \in Phone, Gossip(p, q) PROVE NewsOK(parent)' /\ Onward
  BY <1>1, <1>7, GossipNews
<1>8. ASSUME NEW p \in Phone, NEW q \in Phone, NEW refused \in BOOLEAN, SendChunk(p, q, refused)
      PROVE NewsOK(parent)' /\ Onward
  BY <1>1, <1>8, SendChunkNews
<1>9. CASE UNCHANGED vars
  <2>1. UNCHANGED <<photo, entry, channel>>
    BY <1>9 DEF vars, knowledge
  <2> QED  BY <1>1, <2>1, OrderKept, NothingNew DEF SameNews
<1> QED  BY <1>2, <1>3, <1>4, <1>5, <1>6, <1>7, <1>8, <1>9 DEF Next

LEMMA NextTree == TypeIInv /\ TreeIInv /\ [Next]_vars => TreeIInv'
<1> SUFFICES ASSUME TypeIInv, TreeIInv, [Next]_vars, NEW parent, IsTree(parent)'
             PROVE NewsOK(parent)'
  BY DEF TreeIInv
<1>1. links' = links
  <2>1. SetProfilePhoto \/ Tick \/ UNCHANGED vars => UNCHANGED scenario
    BY DEF SetProfilePhoto, Tick, vars, radio
  <2>2. \A p, q \in Phone : Restart(p) \/ Connect(p, q) \/ Drop(p, q) => UNCHANGED scenario
    BY DEF Restart, Connect, Drop
  <2>3. \A p, q \in Phone : Receive(p, q) \/ Gossip(p, q) => UNCHANGED scenario
    BY DEF Receive, Gossip, radio
  <2>4. \A p, q \in Phone, refused \in BOOLEAN : SendChunk(p, q, refused) => UNCHANGED scenario
    BY DEF SendChunk, radio
  <2>5. UNCHANGED scenario
    BY <2>1, <2>2, <2>3, <2>4 DEF Next
  <2> QED  BY <2>5, Fixed
<1>2. IsTree(parent)
  BY <1>1 DEF IsTree
<1> QED  BY <1>2, NextNews DEF TreeIInv

\* On any tree of links, with any number of phones, photos, losses and restarts: nobody
\* goes back to a photo of before.  UpdateDevice and MergeGossip of mesh_view.go compare
\* nothing but ages; that what arrives younger is of no older photo follows from the
\* order of the messages and from the way that news can take.
THEOREM NewsNeverGoBack == Spec => NeverBack
<1>1. TypeIInv /\ TreeIInv /\ [Next]_vars =>
        [OnTree => \A p \in Phone : entry[p].photo <= entry'[p].photo]_entry
  <2> SUFFICES ASSUME TypeIInv, TreeIInv, [Next]_vars, OnTree
               PROVE \A p \in Phone : entry[p].photo <= entry'[p].photo
    OBVIOUS
  <2>1. PICK parent : IsTree(parent)
    BY DEF OnTree, IsTree
  <2>2. Onward
    BY <2>1, NextNews DEF TreeIInv
  <2> QED  BY <2>2 DEF Onward
<1>2. Init => TreeIInv
  BY InitNews DEF TreeIInv
<1> QED  BY <1>1, <1>2, InitTypes, NextTypes, NextTree, PTL DEF Spec, NeverBack

=============================================================================
