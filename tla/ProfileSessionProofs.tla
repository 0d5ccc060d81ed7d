------------------------ MODULE ProfileSessionProofs ------------------------
(***************************************************************************)
(* Types and versions of ProfileSession, for any number of edits and lost  *)
(* connections.  Everything rests on what is under way: a message that is  *)
(* on the wire, or a send that has begun, is never ahead of its sender.    *)
(***************************************************************************)
EXTENDS ProfileSession, SequenceTheorems, TLAPS

MessageType ==
       [kind : {"handshake"}, first : NamesEver, version : Versions]
  \cup [kind : {"gossip"}, first : NamesEver, version : Versions, newer : BOOLEAN]
  \cup [kind : {"request"}, version : Versions]
  \cup [kind : {"profile"}, first : {NoName} \cup NamesEver, last : BOOLEAN, version : Versions]

\* What phone p can have sent.
Honest(p, m) ==
  /\ m.kind # "request" => m.version <= profile[p].version
  /\ m.kind = "profile" => m.first <= m.version + 1

MessageOf(p) == {m \in MessageType : Honest(p, m)}

ChannelsHonest == channel \in [Phone -> Seq(MessageType)] /\ \A p \in Phone : channel[p] \in Seq(MessageOf(Peer(p)))

ProfilesHonest == \A p \in Phone : profile[p].content.first <= profile[p].version + 1

SendsHonest ==
  \A p \in Phone : \A s \in sends[p] :
    /\ s.version <= profile[p].version
    /\ s.content.first <= profile[p].version + 1
    /\ s.version # NoSend => s.content.first <= s.version + 1

IInv == SessionTypeOK /\ VersionsNotAhead /\ ChannelsHonest /\ ProfilesHonest /\ SendsHonest

USE DEF NoName, DeviceID, Unseen, DefaultName, NoSend

-----------------------------------------------------------------------------
\* The receiver takes for a gossip or profile message only what was sent as one, and
\* for a handshake only handshakes and requests.
LEMMA RouteSound ==
  ASSUME NEW m \in MessageType
  PROVE  /\ Route(m) = "gossip" => m.kind = "gossip"
         /\ Route(m) = "handshake" => m.kind \in {"handshake", "request"}
         /\ Route(m) = "profile" => m.kind = "profile"
<1>1. CASE m.kind = "handshake"
  <2>1. <<1, "bytes">> \in Fields(m) /\ <<3, "varint">> \in Fields(m) /\ <<3, "message">> \notin Fields(m)
    BY <1>1 DEF Fields, If
  <2> QED BY <2>1, <1>1 DEF Route, LooksLikeGossip, LooksLikeHandshake
<1>2. CASE m.kind = "gossip"
  <2>1. <<3, "message">> \in Fields(m)
    BY <1>2 DEF Fields, If
  <2> QED BY <2>1, <1>2 DEF Route, LooksLikeGossip
<1>3. CASE m.kind = "request"
  <2>1. /\ <<1, "bytes">> \in Fields(m) /\ <<2, "bytes">> \in Fields(m)
        /\ <<15, "varint">> \notin Fields(m) /\ <<3, "message">> \notin Fields(m)
        /\ <<3, "bytes">> \notin Fields(m)
    BY <1>3 DEF Fields, If
  <2> QED BY <2>1, <1>3 DEF Route, LooksLikeGossip, LooksLikeRequest
<1>4. CASE m.kind = "profile"
  <2>1. <<3, "varint">> \notin Fields(m) /\ <<3, "message">> \notin Fields(m)
    BY <1>4 DEF Fields, If
  <2> QED BY <2>1, <1>4 DEF Route, LooksLikeGossip, LooksLikeHandshake
<1> QED BY <1>1, <1>2, <1>3, <1>4 DEF MessageType

\* What more a phone can have sent never takes from what it has sent.
LEMMA SeqOfMore ==
  ASSUME NEW S, NEW T, S \subseteq T, NEW s \in Seq(S)
  PROVE  s \in Seq(T)
OBVIOUS

LEMMA PeerIsOther ==
  ASSUME NEW p \in Phone
  PROVE  Peer(p) \in Phone /\ Peer(Peer(p)) = p /\ Peer(p) # p
BY SessionAssumption DEF Phone, Peer

\* The messages a phone makes of its own profile are its own to send.
LEMMA OwnMessages ==
  ASSUME NEW p \in Phone, SessionTypeOK, ProfilesHonest
  PROVE  /\ OwnHandshake(p) \in MessageOf(p)
         /\ \A newer \in BOOLEAN : Gossip(FirstName(p), profile[p].version, newer) \in MessageOf(p)
         /\ OwnProfile(p) \in Seq(MessageOf(p))
         /\ \A v \in Versions : RequestOf(p, v) \in Seq(MessageOf(p))
<1>1. /\ profile[p].content \in Content
      /\ profile[p].version \in Versions
      /\ profile[p].content.first <= profile[p].version + 1
  BY DEF SessionTypeOK, ProfilesHonest
<1>2. FirstName(p) \in NamesEver
  BY <1>1, SessionAssumption DEF FirstName, Content, NamesEver
<1>3. OwnHandshake(p) \in MessageOf(p)
  BY <1>1, <1>2, SessionAssumption DEF OwnHandshake, Handshake, MessageOf, MessageType, Honest, Versions
<1>4. \A newer \in BOOLEAN : Gossip(FirstName(p), profile[p].version, newer) \in MessageOf(p)
  BY <1>1, <1>2, SessionAssumption DEF Gossip, MessageOf, MessageType, Honest, Versions
<1>5. ProfileOf(profile[p].content, profile[p].version) \in MessageOf(p)
  BY <1>1, SessionAssumption DEF ProfileOf, Profile, MessageOf, MessageType, Honest, Versions, Content, NamesEver
<1>6. OwnProfile(p) \in Seq(MessageOf(p))
  BY <1>5 DEF OwnProfile
<1>7. \A v \in Versions : Request(v) \in MessageOf(p)
  BY SessionAssumption DEF Request, MessageOf, MessageType, Honest, Versions
<1>8. \A v \in Versions : RequestOf(p, v) \in Seq(MessageOf(p))
  BY <1>7 DEF RequestOf
<1> QED BY <1>3, <1>4, <1>6, <1>8

\* Whoever writes its own messages leaves the channels honest.
LEMMA WriteHonest ==
  ASSUME NEW p \in Phone, ChannelsHonest, UNCHANGED profile,
         NEW messages \in Seq(MessageOf(p)), Write(p, messages)
  PROVE  ChannelsHonest'
<1>1. Peer(p) \in Phone /\ Peer(Peer(p)) = p
  BY PeerIsOther
<1>2. Written(p, messages) \in Seq(MessageOf(p))
  BY <1>1 DEF Written, ChannelsHonest
<1>3. Written(p, messages) \in Seq(MessageType)
  BY <1>2, SeqOfMore DEF MessageOf
<1>4. \A q \in Phone : MessageOf(Peer(q))' = MessageOf(Peer(q))
  BY DEF MessageOf, Honest, Peer
<1>5. channel' = [channel EXCEPT ![Peer(p)] = Written(p, messages)]
  BY DEF Write
<1> QED BY <1>1, <1>2, <1>3, <1>4, <1>5 DEF ChannelsHonest

LEMMA ReplyHonest ==
  ASSUME NEW p \in Phone, ChannelsHonest, UNCHANGED profile, channel[p] # <<>>,
         NEW messages \in Seq(MessageOf(p)), Reply(p, Tail(channel[p]), messages)
  PROVE  ChannelsHonest'
<1>1. Peer(p) \in Phone /\ Peer(Peer(p)) = p /\ Peer(p) # p
  BY PeerIsOther
<1>2. Written(p, messages) \in Seq(MessageOf(p))
  BY <1>1 DEF Written, ChannelsHonest
<1>3. Written(p, messages) \in Seq(MessageType)
  BY <1>2, SeqOfMore DEF MessageOf
<1>4. \A q \in Phone : MessageOf(Peer(q))' = MessageOf(Peer(q))
  BY DEF MessageOf, Honest, Peer
<1>5. Tail(channel[p]) \in Seq(MessageOf(Peer(p))) /\ Tail(channel[p]) \in Seq(MessageType)
  BY DEF ChannelsHonest
<1>6. channel' = [channel EXCEPT ![p] = Tail(channel[p]), ![Peer(p)] = Written(p, messages)]
  BY DEF Reply
<1> QED BY <1>1, <1>2, <1>3, <1>4, <1>5, <1>6 DEF ChannelsHonest

-----------------------------------------------------------------------------
LEMMA InitInv == Init => IInv
<1> SUFFICES ASSUME Init PROVE IInv
  OBVIOUS
<1>1. SessionTypeOK
  <2>1. 0 \in Versions /\ 0 \in 0 .. MaxDrops /\ 0 \in Names /\ Unseen \in Names /\ NoName \in Names
    BY SessionAssumption DEF Versions, Names
  <2>2. Unedited \in Content
    BY DEF Unedited, Content
  <2> QED BY <2>1, <2>2 DEF Init, SessionTypeOK
<1>2. VersionsNotAhead
  BY PeerIsOther DEF Init, VersionsNotAhead
<1>3. ChannelsHonest
  BY DEF Init, ChannelsHonest
<1>4. ProfilesHonest
  BY DEF Init, ProfilesHonest, Unedited
<1>5. SendsHonest
  BY DEF Init, SendsHonest
<1> QED BY <1>1, <1>2, <1>3, <1>4, <1>5 DEF IInv

\* A message that arrives and is handled: only what the phone believes of its peer,
\* and the channels, change.
LEMMA ReceiveInv ==
  ASSUME NEW p \in Phone, IInv, Receive(p)
  PROVE  IInv'
<1> DEFINE m == Head(channel[p])
           rest == Tail(channel[p])
           q == Peer(p)
<1> USE SessionAssumption
<1>0. SessionTypeOK /\ VersionsNotAhead /\ ChannelsHonest /\ ProfilesHonest /\ SendsHonest
  BY DEF IInv
<1>1. channel[p] # <<>> /\ UNCHANGED connection
  BY DEF Receive
<1>2. m \in MessageType /\ Honest(q, m)
  <2>1. channel[p] \in Seq(MessageOf(q)) /\ channel[p] # <<>>
    BY <1>0, <1>1 DEF ChannelsHonest
  <2>2. m \in MessageOf(q)
    BY <2>1
  <2> QED BY <2>2 DEF MessageOf
<1>3. p \in Phone /\ q \in Phone /\ profile[q].version \in Versions
  BY <1>0, PeerIsOther DEF SessionTypeOK
<1>4. /\ <<>> \in Seq(MessageOf(p)) /\ OwnProfile(p) \in Seq(MessageOf(p))
      /\ OwnHandshake(p) \in MessageOf(p)
      /\ \A v \in Versions : RequestOf(p, v) \in Seq(MessageOf(p))
  BY <1>0, OwnMessages
<1> DEFINE
  Learns(first, version) ==
    /\ first \in Names /\ version \in Versions
    /\ version <= profile[q].version
  Answers(messages) == messages \in Seq(MessageOf(p)) /\ Reply(p, rest, messages)
\* Handlers that touch neither the profile, nor the sends, and the beliefs honestly.
<1>5. ASSUME UNCHANGED <<profile, sends>>,
             NEW messages, Answers(messages),
             view' = view \/ \E first, version : Learns(first, version) /\ Enter(p, first, version),
             \/ cached' = cached
             \/ \E first, version : /\ Learns(first, version) /\ first <= version + 1
                                    /\ cached' = [cached EXCEPT ![p] = [first |-> first, version |-> version]],
             shown' = shown \/ \E first \in Names : shown' = [shown EXCEPT ![p] = first],
             greeted' = greeted \/ greeted' = [greeted EXCEPT ![p] = TRUE],
             marked' = marked \/ marked' = [marked EXCEPT ![p] = TRUE]
      PROVE  IInv'
  <2>1. ChannelsHonest'
    BY <1>0, <1>1, <1>5, ReplyHonest
  <2>2. view' \in [Phone -> [first : Names, version : Versions]]
    <3>1. CASE view' = view
      BY <1>0, <3>1 DEF SessionTypeOK
    <3>2. ASSUME NEW first, NEW version, Learns(first, version), Enter(p, first, version)
          PROVE  view' \in [Phone -> [first : Names, version : Versions]]
      <4>1. [first |-> first, version |-> version] \in [first : Names, version : Versions]
        BY <3>2
      <4> QED BY <1>0, <3>2, <4>1 DEF SessionTypeOK, Enter
    <3> QED BY <1>5, <3>1, <3>2
  <2>3. cached' \in [Phone -> [first : Names, version : Versions]]
    <3>1. CASE cached' = cached
      BY <1>0, <3>1 DEF SessionTypeOK
    <3>2. ASSUME NEW first, NEW version, Learns(first, version),
                 cached' = [cached EXCEPT ![p] = [first |-> first, version |-> version]]
          PROVE  cached' \in [Phone -> [first : Names, version : Versions]]
      <4>1. [first |-> first, version |-> version] \in [first : Names, version : Versions]
        BY <3>2
      <4> QED BY <1>0, <3>2, <4>1 DEF SessionTypeOK
    <3> QED BY <1>5, <3>1, <3>2
  <2>4. SessionTypeOK'
    <3>1. shown' \in [Phone -> Names]
      BY <1>0, <1>5 DEF SessionTypeOK
    <3>2. greeted' \in [Phone -> BOOLEAN] /\ marked' \in [Phone -> BOOLEAN]
      BY <1>0, <1>5 DEF SessionTypeOK
    <3>3. UNCHANGED <<android, link, drops, subscribed, profile, sends>>
      BY <1>1, <1>5 DEF connection
    <3> QED BY <1>0, <2>2, <2>3, <3>1, <3>2, <3>3 DEF SessionTypeOK
  <2>5. VersionsNotAhead'
    <3>1. \A r \in Phone : view'[r].version <= profile[Peer(r)].version
      <4>1. CASE view' = view
        BY <1>0, <4>1 DEF VersionsNotAhead
      <4>2. ASSUME NEW first, NEW version, Learns(first, version), Enter(p, first, version)
            PROVE  \A r \in Phone : view'[r].version <= profile[Peer(r)].version
        BY <1>0, <4>2 DEF SessionTypeOK, VersionsNotAhead, Enter
      <4> QED BY <1>5, <4>1, <4>2
    <3>2. \A r \in Phone : /\ cached'[r].version <= profile[Peer(r)].version
                           /\ cached'[r].first <= cached'[r].version + 1
      <4>1. CASE cached' = cached
        BY <1>0, <4>1 DEF VersionsNotAhead
      <4>2. ASSUME NEW first, NEW version, Learns(first, version), first <= version + 1,
                   cached' = [cached EXCEPT ![p] = [first |-> first, version |-> version]]
            PROVE  \A r \in Phone : /\ cached'[r].version <= profile[Peer(r)].version
                                    /\ cached'[r].first <= cached'[r].version + 1
        <5> SUFFICES ASSUME NEW r \in Phone
                     PROVE  /\ cached'[r].version <= profile[Peer(r)].version
                            /\ cached'[r].first <= cached'[r].version + 1
          OBVIOUS
        <5>1. CASE r = p
          <6>1. cached'[p] = [first |-> first, version |-> version]
            BY <1>0, <4>2 DEF SessionTypeOK
          <6> QED BY <4>2, <5>1, <6>1
        <5>2. CASE r # p
          <6>1. cached'[r] = cached[r]
            BY <1>0, <4>2, <5>2 DEF SessionTypeOK
          <6> QED BY <1>0, <6>1 DEF VersionsNotAhead
        <5> QED BY <5>1, <5>2
      <4> QED BY <1>5, <4>1, <4>2
    <3> QED BY <1>5, <3>1, <3>2 DEF VersionsNotAhead, Peer
  <2> QED BY <1>0, <1>5, <2>1, <2>4, <2>5 DEF IInv, ProfilesHonest, SendsHonest
<1> DEFINE as == IF p = Central /\ ~subscribed THEN "unknown" ELSE Route(m)
<1>6. CASE as = "gossip" /\ HandleGossip(p, m, rest)
  <2>1. m.kind = "gossip"
    BY <1>2, <1>6, RouteSound
  <2>2. Learns(m.first, m.version)
    BY <1>2, <2>1 DEF MessageType, Honest, Names
  <2> DEFINE entry == IF m.newer \/ view[p].first = Unseen
                      THEN [first |-> m.first, version |-> m.version] ELSE view[p]
             messages == IF entry.version > cached[p].version /\ marked[p]
                         THEN RequestOf(p, 0) ELSE <<>>
  <2>3. /\ view' = [view EXCEPT ![p] = entry]
        /\ Reply(p, rest, messages)
        /\ UNCHANGED <<profile, greeted, marked, cached, shown, sends>>
    BY <1>6 DEF HandleGossip
  <2>4. view' = view \/ Enter(p, m.first, m.version)
    BY <1>0, <2>3 DEF SessionTypeOK, Enter
  <2>5. 0 \in Versions
    BY DEF Versions
  <2>6. Answers(messages)
    BY <1>4, <2>3, <2>5
  <2> QED BY <1>5, <2>2, <2>3, <2>4, <2>6
<1>7. ASSUME NEW h, h = ReadAsHandshake(m), as = "handshake", HandleHandshake(p, h, rest)
      PROVE  IInv'
  <2>1. m.kind \in {"handshake", "request"}
    BY <1>2, <1>7, RouteSound
  <2>2. Learns(h.first, h.version)
    BY <1>2, <1>3, <1>7, <2>1 DEF MessageType, Honest, Names, ReadAsHandshake, Versions
  <2> DEFINE messages == GreetBack(p) \o (IF h.version > cached[p].version
                                          THEN RequestOf(p, h.version) ELSE <<>>)
  <2>3. Answers(messages)
    <3>1. GreetBack(p) \in Seq(MessageOf(p))
      BY <1>4 DEF GreetBack
    <3>2. RequestOf(p, h.version) \in Seq(MessageOf(p))
      BY <1>4, <2>2
    <3> QED BY <1>4, <1>7, <3>1, <3>2 DEF HandleHandshake
  <2> QED BY <1>5, <1>7, <2>2, <2>3 DEF HandleHandshake
<1>8. CASE as = "profile" /\ HandleProfile(p, m, rest)
  <2>1. m.kind = "profile"
    BY <1>2, <1>8, RouteSound
  <2>2. Learns(m.first, m.version) /\ m.first <= m.version + 1
    BY <1>2, <2>1 DEF MessageType, Honest, Names
  <2> QED BY <1>4, <1>5, <1>8, <2>2 DEF HandleProfile
<1>9. ASSUME Reply(p, rest, <<>>) \/ Reply(p, rest, OwnProfile(p)), UNCHANGED <<profile, beliefs, sends>>
      PROVE  IInv'
  BY <1>4, <1>5, <1>9 DEF beliefs
<1>10. \/ as = "gossip" /\ HandleGossip(p, m, rest)
       \/ /\ as = "handshake"
          /\ \/ HandleHandshake(p, ReadAsHandshake(m), rest)
             \/ HandleHandshakeAndroid(p, ReadAsHandshake(m), rest)
       \/ as = "profile" /\ HandleProfile(p, m, rest)
       \/ HandleRequest(p, rest)
       \/ Ignore(p, rest)
  BY DEF Receive
<1> QED BY <1>6, <1>7, <1>8, <1>9, <1>10 DEF HandleHandshakeAndroid, HandleRequest, Ignore

\* The invariant is inductive.
LEMMA NextInv == IInv /\ [Next]_vars => IInv'
<1> SUFFICES ASSUME IInv, [Next]_vars PROVE IInv'
  OBVIOUS
<1> USE SessionAssumption
<1>0. SessionTypeOK /\ VersionsNotAhead /\ ChannelsHonest /\ ProfilesHonest /\ SendsHonest
  BY DEF IInv
<1>1. CASE Connect
  <2>1. SessionTypeOK'
    BY <1>0, <1>1 DEF Connect, SessionTypeOK, beliefs
  <2>2. ChannelsHonest'
    BY <1>0, <1>1 DEF Connect, ChannelsHonest, MessageOf, Honest
  <2> QED BY <1>0, <1>1, <2>1, <2>2 DEF IInv, Connect, VersionsNotAhead, ProfilesHonest, SendsHonest, beliefs
<1>2. CASE Greet
  <2>1. SessionTypeOK'
    BY <1>0, <1>2 DEF Greet, SessionTypeOK, beliefs
  <2>2. ChannelsHonest'
    <3>1. Central \in Phone /\ Peer(Central) = Peripheral /\ Peer(Peripheral) = Central /\ Central # Peripheral
      BY DEF Phone, Peer
    <3>2. OwnHandshake(Central) \in MessageOf(Central) /\ OwnHandshake(Central) \in MessageType
      BY <1>0, <3>1, OwnMessages DEF MessageOf
    <3>3. \A q \in Phone : MessageOf(Peer(q))' = MessageOf(Peer(q))
      BY <1>2 DEF Greet, MessageOf, Honest, Peer
    <3>4. /\ Append(channel[Peripheral], OwnHandshake(Central)) \in Seq(MessageOf(Central))
          /\ Append(channel[Peripheral], OwnHandshake(Central)) \in Seq(MessageType)
      <4>1. /\ channel[Peripheral] \in Seq(MessageOf(Central))
            /\ channel[Peripheral] \in Seq(MessageType)
        BY <1>0, <3>1 DEF ChannelsHonest, Phone
      <4> QED BY <4>1, <3>2
    <3>5. channel' = [channel EXCEPT ![Peripheral] = Append(channel[Peripheral], OwnHandshake(Central))]
      BY <1>2 DEF Greet
    <3> QED BY <1>0, <3>1, <3>3, <3>4, <3>5 DEF ChannelsHonest
  <2> QED BY <1>0, <1>2, <2>1, <2>2 DEF IInv, Greet, VersionsNotAhead, ProfilesHonest, SendsHonest, beliefs
<1>3. CASE Drop
  <2>1. SessionTypeOK'
    BY <1>0, <1>3 DEF Drop, SessionTypeOK, Forget
  <2>2. ChannelsHonest'
    BY <1>3 DEF Drop, ChannelsHonest
  <2> QED BY <1>0, <1>3, <2>1, <2>2 DEF IInv, Drop, VersionsNotAhead, ProfilesHonest, SendsHonest
<1>4. ASSUME NEW p \in Phone, Update(p) PROVE IInv'
  <2>1. PICK c \in Edits(p) \ {profile[p].content} :
          /\ profile' = [profile EXCEPT ![p] = [content |-> c, version |-> @.version + 1]]
          /\ sends' = IF link = "down" THEN sends
                      ELSE [sends EXCEPT ![p] = @ \cup {[content |-> c, version |-> NoSend]}]
    BY <1>4 DEF Update
  <2>2. /\ profile[p].content \in Content /\ profile[p].version \in Versions
        /\ profile[p].version < MaxEdits
        /\ profile[p].content.first <= profile[p].version + 1
    BY <1>0, <1>4 DEF Update, SessionTypeOK, ProfilesHonest
  <2>3. c \in Content /\ c.first <= profile[p].version + 2
    <3>1. \/ c = [profile[p].content EXCEPT !.first = profile[p].version + 2]
          \/ c = [profile[p].content EXCEPT !.last = TRUE]
      BY <2>1 DEF Edits
    <3>2. \/ c = [first |-> profile[p].version + 2, last |-> profile[p].content.last]
          \/ c = [first |-> profile[p].content.first, last |-> TRUE]
      BY <2>2, <3>1 DEF Content
    <3>3. profile[p].version + 2 \in NamesEver
      BY <2>2 DEF NamesEver, Versions
    <3>4. CASE c = [first |-> profile[p].version + 2, last |-> profile[p].content.last]
      <4>1. profile[p].content.last \in BOOLEAN
        BY <2>2 DEF Content
      <4>2. c \in Content /\ c.first = profile[p].version + 2
        BY <3>3, <3>4, <4>1 DEF Content
      <4> QED BY <2>2, <4>2 DEF Versions
    <3>5. CASE c = [first |-> profile[p].content.first, last |-> TRUE]
      <4>1. profile[p].content.first \in {NoName} \cup NamesEver
        BY <2>2 DEF Content
      <4>2. c \in Content /\ c.first = profile[p].content.first
        BY <3>5, <4>1 DEF Content
      <4> QED BY <2>2, <4>1, <4>2 DEF Versions, NamesEver
    <3> QED BY <3>2, <3>4, <3>5
  <2>4. profile[p].version + 1 \in Versions /\ 0 \in Versions
    BY <2>2 DEF Versions
  <2>5. \A q \in Phone : /\ profile[q].version \in Int /\ profile'[q].version \in Int
                         /\ profile[q].version <= profile'[q].version
    BY <1>0, <2>1, <2>2 DEF SessionTypeOK, Versions
  <2>6. profile' \in [Phone -> [content : Content, version : Versions]]
    BY <1>0, <2>1, <2>3, <2>4 DEF SessionTypeOK
  <2>7. \A q \in Phone : sends'[q] \subseteq [content : Content, version : Versions]
    BY <1>0, <2>1, <2>3, <2>4 DEF SessionTypeOK
  <2>8. SessionTypeOK'
    BY <1>0, <1>4, <2>6, <2>7 DEF SessionTypeOK, Update, connection, beliefs
  <2>9. VersionsNotAhead'
    <3>1. \A q \in Phone : Peer(q) \in Phone
      BY PeerIsOther
    <3>2. \A q \in Phone : cached[q].version \in Int /\ view[q].version \in Int
      BY <1>0 DEF SessionTypeOK, Versions
    <3> QED BY <1>0, <1>4, <2>5, <3>1, <3>2 DEF VersionsNotAhead, Update, connection, beliefs, Peer
  <2>10. ChannelsHonest'
    <3>1. \A q \in Phone : MessageOf(q) \subseteq MessageOf(q)'
      <4> SUFFICES ASSUME NEW q \in Phone, NEW m \in MessageOf(q) PROVE m \in MessageOf(q)'
        OBVIOUS
      <4>1. m.kind # "request" => m.version \in Int
        BY DEF MessageOf, MessageType, Versions
      <4> QED BY <2>5, <4>1 DEF MessageOf, Honest
    <3>2. \A q \in Phone : Peer(q) \in Phone /\ Peer(q)' = Peer(q)
      BY PeerIsOther DEF Peer
    <3>3. \A q \in Phone : channel[q] \in Seq(MessageOf(Peer(q))')
      BY <1>0, <3>1, <3>2, SeqOfMore DEF ChannelsHonest
    <3> QED BY <1>0, <1>4, <3>3 DEF ChannelsHonest, Update, connection
  <2>11. ProfilesHonest'
    BY <1>0, <2>1, <2>2, <2>3, <2>6 DEF ProfilesHonest, SessionTypeOK, Content, NamesEver, Versions
  <2>12. SendsHonest'
    <3> SUFFICES ASSUME NEW q \in Phone, NEW s \in sends'[q]
                 PROVE  /\ s.version <= profile'[q].version
                        /\ s.content.first <= profile'[q].version + 1
                        /\ s.version # NoSend => s.content.first <= s.version + 1
      BY DEF SendsHonest
    <3>1. CASE s \in sends[q]
      <4>1. s.version \in Int /\ s.content.first \in Int
        BY <1>0, <3>1 DEF SessionTypeOK, Versions, Content, NamesEver
      <4> QED BY <1>0, <2>5, <3>1, <4>1 DEF SendsHonest
    <3>2. CASE s \notin sends[q]
      <4>1. q = p /\ s = [content |-> c, version |-> NoSend]
        BY <1>0, <2>1, <3>2 DEF SessionTypeOK
      <4>2. profile'[p].version = profile[p].version + 1
        BY <1>0, <2>1 DEF SessionTypeOK
      <4> QED BY <2>2, <2>3, <4>1, <4>2 DEF Versions, Content, NamesEver
    <3> QED BY <3>1, <3>2
  <2> QED BY <2>8, <2>9, <2>10, <2>11, <2>12 DEF IInv
<1>5. ASSUME NEW p \in Phone, ReadVersion(p) PROVE IInv'
  <2>1. PICK s \in sends[p] :
          sends' = [sends EXCEPT ![p] = (@ \ {s}) \cup {[s EXCEPT !.version = profile[p].version]}]
    BY <1>5 DEF ReadVersion
  <2>2. UNCHANGED <<connection, channel, profile, beliefs>>
    BY <1>5 DEF ReadVersion
  <2>3. /\ s \in [content : Content, version : Versions]
        /\ s.content.first <= profile[p].version + 1
        /\ profile[p].version \in Versions
    BY <1>0 DEF SendsHonest, SessionTypeOK
  <2>4. [s EXCEPT !.version = profile[p].version] = [content |-> s.content, version |-> profile[p].version]
    BY <2>3
  <2>5. \A q \in Phone : sends'[q] \subseteq sends[q] \cup
          (IF q = p THEN {[content |-> s.content, version |-> profile[p].version]} ELSE {})
    BY <1>0, <2>1, <2>4 DEF SessionTypeOK
  <2>6. \A q \in Phone : sends'[q] \subseteq [content : Content, version : Versions]
    BY <1>0, <2>3, <2>5 DEF SessionTypeOK
  <2>7. SessionTypeOK'
    BY <1>0, <2>2, <2>6 DEF SessionTypeOK, connection, beliefs
  <2>8. SendsHonest'
    BY <1>0, <2>2, <2>3, <2>5 DEF SendsHonest, Versions
  <2>9. ChannelsHonest'
    BY <1>0, <2>2 DEF ChannelsHonest, MessageOf, Honest
  <2> QED BY <1>0, <2>2, <2>7, <2>8, <2>9 DEF IInv, VersionsNotAhead, ProfilesHonest, beliefs
<1>6. ASSUME NEW p \in Phone, SendUpdate(p) PROVE IInv'
  <2>1. PICK s \in sends[p] :
          /\ s.version # NoSend
          /\ sends' = [sends EXCEPT ![p] = @ \ {s}]
          /\ Write(p, <<ProfileOf(s.content, s.version)>>)
    BY <1>6 DEF SendUpdate
  <2>2. UNCHANGED <<connection, profile, beliefs>>
    BY <1>6 DEF SendUpdate
  <2>3. \A q \in Phone : sends'[q] \subseteq sends[q]
    BY <1>0, <2>1
  <2>4. SessionTypeOK'
    <3>1. \A q \in Phone : sends'[q] \subseteq [content : Content, version : Versions]
      BY <1>0, <2>3 DEF SessionTypeOK
    <3> QED BY <1>0, <2>2, <3>1 DEF SessionTypeOK, connection, beliefs
  <2>5. SendsHonest'
    BY <1>0, <2>2, <2>3 DEF SendsHonest
  <2>6. ChannelsHonest'
    <3>1. s \in [content : Content, version : Versions]
      BY <1>0 DEF SessionTypeOK
    <3>2. ProfileOf(s.content, s.version) \in MessageOf(p)
      BY <1>0, <2>1, <3>1 DEF SendsHonest, ProfileOf, Profile, MessageOf, MessageType, Honest, Content
    <3>3. <<ProfileOf(s.content, s.version)>> \in Seq(MessageOf(p))
      BY <3>2
    <3> QED BY <1>0, <2>1, <2>2, <3>3, WriteHonest
  <2> QED BY <1>0, <2>2, <2>4, <2>5, <2>6 DEF IInv, VersionsNotAhead, ProfilesHonest, beliefs
<1>7. ASSUME NEW p \in Phone, NEW newer \in BOOLEAN, SendGossip(p, newer) PROVE IInv'
  <2>1. UNCHANGED <<connection, profile, beliefs, sends>>
    BY <1>7 DEF SendGossip
  <2>2. <<Gossip(FirstName(p), profile[p].version, newer)>> \in Seq(MessageOf(p))
    BY <1>0, OwnMessages
  <2>3. ChannelsHonest'
    BY <1>0, <1>7, <2>1, <2>2, WriteHonest DEF SendGossip
  <2>4. SessionTypeOK'
    BY <1>0, <2>1 DEF SessionTypeOK, connection, beliefs
  <2> QED BY <1>0, <2>1, <2>3, <2>4 DEF IInv, VersionsNotAhead, ProfilesHonest, SendsHonest, beliefs
<1>8. ASSUME NEW p \in Phone, Receive(p) PROVE IInv'
  BY <1>8, <1>0, ReceiveInv
<1>9. CASE UNCHANGED vars
  <2>1. SessionTypeOK'
    BY <1>0, <1>9 DEF SessionTypeOK, vars, connection, beliefs
  <2>2. ChannelsHonest'
    BY <1>0, <1>9 DEF ChannelsHonest, MessageOf, Honest, vars
  <2> QED BY <1>0, <1>9, <2>1, <2>2
        DEF IInv, VersionsNotAhead, ProfilesHonest, SendsHonest, vars, connection, beliefs
<1> QED
  BY <1>1, <1>2, <1>3, <1>4, <1>5, <1>6, <1>7, <1>8, <1>9 DEF Next, PhoneStep

-----------------------------------------------------------------------------
LEMMA Invariance == Spec => []IInv
BY InitInv, NextInv, PTL DEF Spec

\* Every phone's profile, view, cache and sends stay of their types.
THEOREM SessionTypeCorrect == Spec => []SessionTypeOK
<1>1. IInv => SessionTypeOK
  BY DEF IInv
<1> QED BY <1>1, Invariance, PTL

\* However updates are torn, requests misread and connections lost, no phone files a
\* profile under a version that is ahead of its owner's, nor new contents under an old one.
THEOREM NothingAhead == Spec => []VersionsNotAhead
<1>1. IInv => VersionsNotAhead
  BY DEF IInv
<1> QED BY <1>1, Invariance, PTL

\* UpdateLocalProfile's versions bound all that a phone believes of its peer.
THEOREM SessionHolds == Spec => []SessionInv
BY SessionTypeCorrect, NothingAhead, PTL DEF SessionInv
=============================================================================
