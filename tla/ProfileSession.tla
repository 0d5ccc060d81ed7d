--------------------------- MODULE ProfileSession ---------------------------
(***************************************************************************)
(* Two phones that stay paired over several connections: handshakes,       *)
(* profile updates, profile requests and gossip about each other (iphone/  *)
(* and android/ handshake.go, profile.go, profile_update.go, gossip.go,    *)
(* and what they use of phone/mesh_view.go).  The central is an iPhone,    *)
(* the peripheral an iPhone or an Android.  Neither has a photo, both have *)
(* discovered each other, and the messages fit the MTU.                    *)
(*                                                                         *)
(* Time: a gossip message is accepted if it was made in a later second     *)
(* than the receiver's entry, so "newer" is chosen when it is made.  Every *)
(* five seconds, it finds the way to the receiver free of messages.        *)
(***************************************************************************)
EXTENDS ProtocolMessages, Sequences

CONSTANTS
  Central, Peripheral,
  Editor,      \* the phones whose users edit their profiles
  MaxEdits,    \* bound: edits of each
  MaxDrops     \* bound: connections lost

Phone == {Central, Peripheral}

ASSUME SessionAssumption ==
  /\ Central # Peripheral
  /\ Editor \subseteq Phone
  /\ MaxEdits \in Nat
  /\ MaxDrops \in Nat

VARIABLES
  android,    \* whether the peripheral is an Android: never changes
  link,       \* "down", "linked", or "ready" once the central has discovered services
  drops,      \* connections lost so far
  subscribed, \* the central's CBPeripheral delivers notifications
  channel,    \* messages under way to each phone
  profile,    \* ip.profile with ip.profileVersion
  greeted,    \* ip.handshaked has the peer
  marked,     \* meshView.connectedDevices has the peer
  view,       \* meshView.devices' entry of the peer
  cached,     \* the peer's profile in the DeviceCacheManager
  shown,      \* ip.discovered's name of the peer
  sends       \* goroutines in sendProfileUpdate: their profile, and the version once read

connection == <<android, link, drops, subscribed>>
beliefs    == <<greeted, marked, view, cached, shown>>
vars       == <<connection, channel, profile, beliefs, sends>>

Peer(p) == IF p = Central THEN Peripheral ELSE Central

Unseen      == -2
DefaultName == 1
NoSend      == 0
NamesEver   == 1 .. MaxEdits + 1
Names       == {Unseen, DeviceID, NoName} \cup NamesEver
Versions    == 0 .. MaxEdits

Content  == [first : {NoName} \cup NamesEver, last : BOOLEAN]
Unedited == [first |-> NoName, last |-> FALSE]

SessionTypeOK ==
  /\ android \in BOOLEAN
  /\ link \in {"down", "linked", "ready"}
  /\ drops \in 0 .. MaxDrops
  /\ subscribed \in BOOLEAN
  /\ profile \in [Phone -> [content : Content, version : Versions]]
  /\ greeted \in [Phone -> BOOLEAN]
  /\ marked \in [Phone -> BOOLEAN]
  /\ view \in [Phone -> [first : Names, version : Versions]]
  /\ cached \in [Phone -> [first : Names, version : Versions]]
  /\ shown \in [Phone -> Names]
  /\ \A p \in Phone : sends[p] \subseteq [content : Content, version : Versions]

Init ==
  /\ android \in BOOLEAN
  /\ link = "down"
  /\ drops = 0
  /\ subscribed = FALSE
  /\ channel = [p \in Phone |-> <<>>]
  /\ profile = [p \in Phone |-> [content |-> Unedited, version |-> 0]]
  /\ greeted = [p \in Phone |-> FALSE]
  /\ marked = [p \in Phone |-> FALSE]
  /\ view = [p \in Phone |-> [first |-> Unseen, version |-> 0]]
  /\ cached = [p \in Phone |-> [first |-> NoName, version |-> 0]]
  /\ shown = [p \in Phone |-> Unseen]
  /\ sends = [p \in Phone |-> {}]

-----------------------------------------------------------------------------
\* ip.firstName, which the default platform name fills until it is edited.
FirstName(p) ==
  IF profile[p].content.first = NoName THEN DefaultName ELSE profile[p].content.first

\* A central needs the handles it discovers anew on every connection; a peripheral
\* notifies with its own.
CanWrite(p) == IF p = Central THEN link = "ready" ELSE link # "down"

\* p writes messages to its peer, or fails to and logs it.
Written(p, messages) == IF CanWrite(p) THEN channel[Peer(p)] \o messages ELSE channel[Peer(p)]

Write(p, messages) == channel' = [channel EXCEPT ![Peer(p)] = Written(p, messages)]

OwnHandshake(p) == Handshake(FirstName(p), profile[p].version)

ProfileOf(content, version) == Profile(content.first, content.last, version)

\* sendProfileMessage, only with a last name.
OwnProfile(p) ==
  IF profile[p].content.last THEN <<ProfileOf(profile[p].content, profile[p].version)>> ELSE <<>>

-----------------------------------------------------------------------------
\* attemptReconnect, which sleeps for two seconds first: by then both have noticed
\* the end of the connection before.
Connect ==
  /\ link = "down"
  /\ link' = "linked"
  /\ UNCHANGED <<android, drops, subscribed, channel, profile, beliefs, sends>>

\* DidDiscoverServices: subscribe, then send the handshake.
Greet ==
  /\ link = "linked"
  /\ link' = "ready"
  /\ subscribed' = TRUE
  /\ channel' = [channel EXCEPT ![Peripheral] = Append(@, OwnHandshake(Central))]
  /\ UNCHANGED <<android, drops, profile, beliefs, sends>>

\* DidDisconnectPeripheral.  An Android that is the peripheral is told nothing.
Forgetful == IF android THEN {Central} ELSE Phone

\* Faulty: only the central is ever told.
ForgetOnlyCentral(f) == [p \in Phone |-> f[p] /\ p # Central]

Forget(f) == [p \in Phone |-> f[p] /\ p \notin Forgetful]

Drop ==
  /\ link # "down"
  /\ drops < MaxDrops
  /\ drops' = drops + 1
  /\ link' = "down"
  /\ channel' = [p \in Phone |-> <<>>]
  /\ greeted' = Forget(greeted)
  /\ marked' = Forget(marked)
  /\ UNCHANGED <<android, subscribed, profile, view, cached, shown, sends>>

-----------------------------------------------------------------------------
Edits(p) ==
  LET c == profile[p].content IN
  {[c EXCEPT !.first = profile[p].version + 2], [c EXCEPT !.last = TRUE]}

\* Faulty: the profile is broadcast with the version before the edit.
UpdateBroadcastsFirst(p) ==
  /\ p \in Editor
  /\ profile[p].version < MaxEdits
  /\ \E c \in Edits(p) \ {profile[p].content} :
       /\ profile' = [profile EXCEPT ![p] = [content |-> c, version |-> @.version + 1]]
       /\ sends' = IF link = "down" THEN sends
                   ELSE [sends EXCEPT ![p] = @ \cup {[content |-> c, version |-> profile[p].version]}]
  /\ UNCHANGED <<connection, channel, beliefs>>

\* UpdateLocalProfile: one edit that changes something, and broadcastProfileUpdate's
\* goroutine for the peer, if it is connected.
Update(p) ==
  /\ p \in Editor
  /\ profile[p].version < MaxEdits
  /\ \E c \in Edits(p) \ {profile[p].content} :
       /\ profile' = [profile EXCEPT ![p] = [content |-> c, version |-> @.version + 1]]
       /\ sends' = IF link = "down" THEN sends
                   ELSE [sends EXCEPT ![p] = @ \cup {[content |-> c, version |-> NoSend]}]
  /\ UNCHANGED <<connection, channel, beliefs>>

\* sendProfileUpdate reads the version, which may be a later one than the profile's ...
ReadVersion(p) ==
  /\ \E s \in sends[p] :
       /\ s.version = NoSend
       /\ sends' = [sends EXCEPT ![p] = (@ \ {s}) \cup {[s EXCEPT !.version = profile[p].version]}]
  /\ UNCHANGED <<connection, channel, profile, beliefs>>

\* ... and writes the message.
SendUpdate(p) ==
  /\ \E s \in sends[p] :
       /\ s.version # NoSend
       /\ sends' = [sends EXCEPT ![p] = @ \ {s}]
       /\ Write(p, <<ProfileOf(s.content, s.version)>>)
  /\ UNCHANGED <<connection, profile, beliefs>>

\* sendGossipToConnected.
SendGossip(p, newer) ==
  /\ CanWrite(p)
  /\ \A q \in Phone : channel[q] = <<>>
  /\ Write(p, <<Gossip(FirstName(p), profile[p].version, newer)>>)
  /\ UNCHANGED <<connection, profile, beliefs, sends>>

-----------------------------------------------------------------------------
\* requestProfileUpdate and sendProfileRequest: a peripheral cannot write.
RequestOf(p, expected) == IF p = Central THEN <<Request(expected)>> ELSE <<>>

\* What a handler changes: the peer's entry, and what it writes back.
Enter(p, first, version) ==
  view' = [view EXCEPT ![p] = [first |-> first, version |-> version]]

Reply(p, rest, messages) ==
  channel' = [channel EXCEPT ![p] = rest, ![Peer(p)] = Written(p, messages)]

\* The peer is greeted back once per connection.
GreetBack(p) == IF greeted[p] THEN <<>> ELSE <<OwnHandshake(p)>> \o OwnProfile(p)

\* handleHandshakeProto.
HandleHandshake(p, m, rest) ==
  /\ Enter(p, m.first, m.version)
  /\ marked' = [marked EXCEPT ![p] = TRUE]
  /\ greeted' = [greeted EXCEPT ![p] = TRUE]
  /\ shown' = [shown EXCEPT ![p] = m.first]
  /\ Reply(p, rest, GreetBack(p) \o (IF m.version > cached[p].version
                                    THEN RequestOf(p, m.version) ELSE <<>>))
  /\ UNCHANGED <<profile, cached, sends>>

\* Android's handleHandshake first looks whether the peer is greeted already.
HandleHandshakeAndroid(p, m, rest) ==
  IF greeted[p]
  THEN Reply(p, rest, <<>>) /\ UNCHANGED <<profile, beliefs, sends>>
  ELSE HandleHandshake(p, m, rest)

\* MergeGossip, then GetDevicesWithOutdatedProfiles: the peer is asked if a handshake
\* has marked it as connected.
HandleGossip(p, m, rest) ==
  LET entry == IF m.newer \/ view[p].first = Unseen
               THEN [first |-> m.first, version |-> m.version] ELSE view[p] IN
  /\ view' = [view EXCEPT ![p] = entry]
  /\ Reply(p, rest, IF entry.version > cached[p].version /\ marked[p]
                    THEN RequestOf(p, 0) ELSE <<>>)
  /\ UNCHANGED <<profile, greeted, marked, cached, shown, sends>>

\* handleProfileMessage.
HandleProfile(p, m, rest) ==
  /\ cached' = [cached EXCEPT ![p] = [first |-> m.first, version |-> m.version]]
  /\ Enter(p, m.first, m.version)
  /\ shown' = [shown EXCEPT ![p] = m.first]
  /\ Reply(p, rest, <<>>)
  /\ UNCHANGED <<profile, greeted, marked, sends>>

\* handleProfileRequest, of the peer for this phone's profile.
HandleRequest(p, rest) ==
  /\ Reply(p, rest, OwnProfile(p))
  /\ UNCHANGED <<profile, beliefs, sends>>

\* handlePhotoRequest finds no photo; notifications before the subscription and
\* what looks like nothing are dropped.
Ignore(p, rest) == Reply(p, rest, <<>>) /\ UNCHANGED <<profile, beliefs, sends>>

Receive(p) ==
  /\ channel[p] # <<>>
  /\ LET m == Head(channel[p])
         rest == Tail(channel[p])
         as == IF p = Central /\ ~subscribed THEN "unknown" ELSE Route(m)
     IN \/ as = "gossip" /\ HandleGossip(p, m, rest)
        \/ /\ as = "handshake"
           /\ IF p = Peripheral /\ android
              THEN HandleHandshakeAndroid(p, ReadAsHandshake(m), rest)
              ELSE HandleHandshake(p, ReadAsHandshake(m), rest)
        \/ as = "profile" /\ HandleProfile(p, m, rest)
        \/ as = "request" /\ HandleRequest(p, rest)
        \/ as \in {"photo request", "unknown"} /\ Ignore(p, rest)
  /\ UNCHANGED connection

-----------------------------------------------------------------------------
PhoneStep(p) == ReadVersion(p) \/ SendUpdate(p)

Next ==
  \/ Connect \/ Greet \/ Drop
  \/ \E p \in Phone :
       Update(p) \/ PhoneStep(p) \/ Receive(p) \/ \E newer \in BOOLEAN : SendGossip(p, newer)

Spec == Init /\ [][Next]_vars

\* Reconnects succeed (CentralManager), goroutines and read loops run, gossip timers
\* fire, and some gossip is made in a later second than the last entry.
Fairness ==
  /\ WF_vars(Connect) /\ WF_vars(Greet)
  /\ \A p \in Phone : WF_vars(PhoneStep(p)) /\ WF_vars(Receive(p)) /\ SF_vars(SendGossip(p, TRUE))

FairSpec == Spec /\ Fairness

-----------------------------------------------------------------------------
\* iphone/handshake.go:220 and android/handshake.go:246 "This ensures bidirectional
\* handshake completion": on the last connection, the central learns who the
\* peripheral is from its handshake.  An Android only answers the first one.
HandshakesComplete ==
  <>[](/\ link = "ready"
       /\ ~(android /\ drops > 0) => greeted[Central] /\ marked[Central])

\* Whatever torn updates, late gossip and misread messages say in between, gossip
\* settles what the two believe of each other: name and version.
ViewsSettle ==
  \A p \in Phone :
    <>[](view[p] = [first |-> FirstName(Peer(p)), version |-> profile[Peer(p)].version])

\* A cached profile is never newer than the version it is filed under, and that
\* version never ahead of its owner: else a later edit would be taken for known.
VersionsNotAhead ==
  \A p \in Phone :
    /\ cached[p].first <= cached[p].version + 1
    /\ cached[p].version <= profile[Peer(p)].version
    /\ view[p].version <= profile[Peer(p)].version

\* Profiles, views and caches are of their types and never ahead of the profiles that
\* UpdateLocalProfile made.
SessionInv == SessionTypeOK /\ VersionsNotAhead

\* iphone/handshake.go:205 "Update discovered device with DeviceID, name, and photo
\* hash": a name that the user is shown was the peer's name.
NamesAreNames == \A p \in Phone : shown[p] # DeviceID
=============================================================================
