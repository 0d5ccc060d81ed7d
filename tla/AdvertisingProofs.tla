--------------------------- MODULE AdvertisingProofs ---------------------------
(***************************************************************************)
(* For any number of phones, crashes, shutdowns and lost connections: the  *)
(* role policy keeps two phones from dialing each other.                   *)
(***************************************************************************)
EXTENDS Advertising, TLAPS

Sets == [Phone -> SUBSET Phone]

Functions ==
  /\ listed \in Sets /\ reported \in Sets /\ discovered \in Sets /\ decided \in Sets
  /\ dialing \in Sets /\ tried \in Sets /\ misread \in Sets
  /\ found \in Sets /\ accepted \in Sets /\ served \in Sets

\* The IDs let p dial q, or something that p took for q's ID did.
MayDial(p, q) == deviceID[p] > deviceID[q] \/ q \in misread[p]

\* Whom a phone is going to dial, dials or has dialed, it may dial.
Judged ==
  /\ \A p \in Phone : \A q \in Initiates(p) : MayDial(p, q)
  /\ \A l \in link : MayDial(l[1], l[2])

IInv == AdvertisingTypeOK /\ Functions /\ Judged

LEMMA InitIInv == Init => IInv
BY AdvertisingAssumption
   DEF Init, IInv, AdvertisingTypeOK, Functions, Sets, Judged, Initiates, Nobody, Listening

-----------------------------------------------------------------------------
(* A phone comes up *)

LEMMA UpKeeps ==
  ASSUME IInv, NEW p \in Phone, Start(p) \/ Up(p)
  PROVE  IInv'
<1> USE DEF Up
<1>1. UNCHANGED <<fixed, memory, link, stops, losses>>
  BY DEF Start, SetConnectCallback, StartAdvertising, WriteAdvertisingData
<1>2. Functions' /\ Judged'
  BY <1>1 DEF fixed, memory, scan, roles, server, IInv, Functions, Judged, Initiates, MayDial
<1>3. AdvertisingTypeOK'
  BY <1>1 DEF Start, SetConnectCallback, StartAdvertising, WriteAdvertisingData, Listening, fixed,
       memory, scan, roles, server, IInv, AdvertisingTypeOK, Initiates
<1> QED  BY <1>2, <1>3 DEF IInv

-----------------------------------------------------------------------------
(* The scan loop *)

LEMMA TickKeeps ==
  ASSUME IInv, NEW p \in Phone, Tick(p)
  PROVE  IInv'
<1>1. ListAvailableDevices(p) \subseteq Phone \ {p}
  BY DEF ListAvailableDevices, IInv, AdvertisingTypeOK
<1>2. Functions' /\ Judged'
  BY <1>1 DEF Tick, fixed, files, roles, server, IInv, Functions, Sets, Judged, Initiates, MayDial
<1>3. AdvertisingTypeOK'
  BY <1>1 DEF Tick, Listening, fixed, files, roles, server, IInv, Functions, Sets,
       AdvertisingTypeOK, Initiates
<1> QED  BY <1>2, <1>3 DEF IInv

\* What p learns of q when it discovers it.
Learns(p, q) ==
  /\ discovered' = [discovered EXCEPT ![p] = @ \cup {q}]
  /\ decided' \in {decided, [decided EXCEPT ![p] = @ \cup {q}]}
  /\ found' \in {found, [found EXCEPT ![p] = @ \cup {q}]}
  /\ misread' \in {misread, [misread EXCEPT ![p] = @ \cup {q}]}
  /\ decided' = decided \/ deviceID[p] > deviceID[q] \/ q \in misread'[p]
  /\ UNCHANGED dialing

\* A name that is the device ID decides by it.
LEMMA ReadsTheID ==
  ASSUME IInv, NEW p \in Phone, NEW q \in Phone,
         Discover(p, q, Advertisement(q).name), Misread(p, q), q \notin discovered[p]
  PROVE  Learns(p, q)
BY DEF Discover, Misread, ShouldInitiateConnection, Learns, IInv, Functions, Sets

\* Discovering keeps the invariant, and so does reading without discovering.
LEMMA LearnsKeeps ==
  ASSUME IInv, NEW p \in Phone, NEW q \in Phone \ {p},
         UNCHANGED <<fixed, files, server, tried, link, stops, losses>>,
         listed' = [listed EXCEPT ![p] = @ \ {q}],
         reported' \in {reported, [reported EXCEPT ![p] = @ \cup {q}]},
         \/ UNCHANGED <<misread, roles>>
         \/ /\ q \in reported'[p] /\ UNCHANGED roles
            /\ misread' \in {misread, [misread EXCEPT ![p] = @ \cup {q}]}
         \/ Learns(p, q)
  PROVE  IInv'
<1>1. /\ discovered' \in {discovered, [discovered EXCEPT ![p] = @ \cup {q}]}
      /\ decided' \in {decided, [decided EXCEPT ![p] = @ \cup {q}]}
      /\ found' \in {found, [found EXCEPT ![p] = @ \cup {q}]}
      /\ misread' \in {misread, [misread EXCEPT ![p] = @ \cup {q}]}
      /\ decided' = decided \/ deviceID[p] > deviceID[q] \/ q \in misread'[p]
      /\ decided' # decided \/ found' # found => discovered' = [discovered EXCEPT ![p] = @ \cup {q}]
      /\ misread' # misread => q \in discovered'[p] \cup reported'[p]
      /\ UNCHANGED <<dialing, tried, accepted, served>>
  BY DEF Learns, roles, server, IInv, Functions, Sets
<1>2. Functions'
  BY <1>1 DEF IInv, Functions, Sets
<1>3. Judged'
  <2>1. \A x \in Phone : misread[x] \subseteq misread'[x]
    BY <1>1 DEF IInv, Functions, Sets
  <2>2. ASSUME NEW x \in Phone, NEW y \in Initiates(x)' PROVE MayDial(x, y)'
    <3>1. y \in Initiates(x) \/ (x = p /\ y = q /\ decided' # decided)
      BY <1>1 DEF Initiates, IInv, Functions, Sets
    <3> QED  BY <1>1, <2>1, <3>1 DEF IInv, Judged, MayDial, fixed
  <2>3. link \subseteq Phone \X Phone
    BY DEF IInv, AdvertisingTypeOK
  <2> QED  BY <2>1, <2>2, <2>3 DEF IInv, Judged, MayDial, fixed
<1>4. AdvertisingTypeOK'
  <2>1. ASSUME NEW x \in Phone
        PROVE  /\ (listed[x] \cup discovered[x] \cup reported[x] \subseteq Phone \ {x})'
               /\ (Initiates(x) \cup found[x] \subseteq discovered[x])'
               /\ (misread[x] \subseteq discovered[x] \cup reported[x])'
    BY <1>1 DEF IInv, Functions, Sets, AdvertisingTypeOK, Initiates
  <2> QED  BY <1>1, <2>1 DEF fixed, files, Listening, IInv, AdvertisingTypeOK
<1> QED  BY <1>2, <1>3, <1>4 DEF IInv

LEMMA ScanForPeripheralsKeeps ==
  ASSUME IInv, NEW p \in Phone, NEW q \in Phone, ScanForPeripherals(p, q)
  PROVE  IInv'
<1>1. /\ UNCHANGED <<fixed, files, server, tried, link, stops, losses>>
      /\ q \in listed[p] /\ listed' = [listed EXCEPT ![p] = @ \ {q}] /\ q # p
      /\ reported' \in {reported, [reported EXCEPT ![p] = @ \cup {q}]}
  BY DEF ScanForPeripherals, Handle, IInv, AdvertisingTypeOK
<1>2. CASE q \in reported[p]
  BY <1>1, <1>2, LearnsKeeps DEF ScanForPeripherals
<1>3. CASE q \notin reported[p]
  <2>1. /\ reported' = [reported EXCEPT ![p] = @ \cup {q}]
        /\ Misread(p, q)
        /\ Discover(p, q, Advertisement(q).name) \/ UNCHANGED roles
    BY <1>3 DEF ScanForPeripherals
  <2>2. q \in reported'[p] /\ misread' \in {misread, [misread EXCEPT ![p] = @ \cup {q}]}
    BY <2>1 DEF Misread, IInv, Functions, Sets
  <2>3. q \in discovered[p] => UNCHANGED roles
    BY <2>1 DEF Discover
  <2> QED  BY <1>1, <2>1, <2>2, <2>3, ReadsTheID, LearnsKeeps
<1> QED  BY <1>2, <1>3

LEMMA StartScanKeeps ==
  ASSUME IInv, NEW p \in Phone, NEW q \in Phone, StartScan(p, q)
  PROVE  IInv'
<1>1. /\ UNCHANGED <<fixed, files, reported, server, tried, link, stops, losses>>
      /\ q \in listed[p] /\ listed' = [listed EXCEPT ![p] = @ \ {q}] /\ q # p
  BY DEF StartScan, Handle, IInv, AdvertisingTypeOK
<1>2. CASE q \in discovered[p]
  BY <1>1, <1>2, LearnsKeeps DEF StartScan, Discover
<1>3. CASE q \notin discovered[p]
  BY <1>1, <1>3, ReadsTheID, LearnsKeeps DEF StartScan
<1> QED  BY <1>2, <1>3

-----------------------------------------------------------------------------
(* Connections *)

LEMMA ConnectKeeps ==
  ASSUME IInv, NEW p \in Phone, NEW q \in Phone, Connect(p, q)
  PROVE  IInv'
<1>1. /\ UNCHANGED <<fixed, files, scan, discovered, server, tried, link, stops, losses>>
      /\ q \in decided[p] /\ q \in discovered[p]
      /\ decided' = [decided EXCEPT ![p] = @ \ {q}]
      /\ found' \in {found, [found EXCEPT ![p] = @ \cup {q}]}
      /\ dialing' \in {dialing, [dialing EXCEPT ![p] = @ \cup {q}]}
  BY DEF Connect, IInv, AdvertisingTypeOK, Initiates
<1>2. Functions'
  BY <1>1 DEF scan, server, IInv, Functions, Sets
<1>3. \A x \in Phone : Initiates(x)' \subseteq Initiates(x)
  BY <1>1 DEF Initiates, IInv, Functions, Sets
<1>4. Judged'
  BY <1>1, <1>3 DEF fixed, scan, IInv, Judged, MayDial
<1>5. AdvertisingTypeOK'
  <2>1. \A x \in Phone : found'[x] \subseteq discovered'[x]
    BY <1>1 DEF IInv, Functions, Sets, AdvertisingTypeOK
  <2> QED  BY <1>1, <1>3, <2>1 DEF fixed, files, scan, server, Listening, IInv, AdvertisingTypeOK
<1> QED  BY <1>2, <1>4, <1>5 DEF IInv

LEMMA DialKeeps ==
  ASSUME IInv, NEW p \in Phone, NEW q \in Phone, Dial(p, q) \/ DialRefused(p, q)
  PROVE  IInv'
<1>1. /\ UNCHANGED <<fixed, files, scan, discovered, decided, found, served, stops, losses>>
      /\ q \in dialing[p] /\ q \in discovered[p] /\ q # p
      /\ link' \in {link, link \cup {<<p, q>>}}
      /\ accepted' \in {accepted, [accepted EXCEPT ![q] = @ \cup {p}]}
  BY DEF Dial, DialRefused, server, IInv, AdvertisingTypeOK, Initiates
<1>2. /\ dialing' \in {dialing, [dialing EXCEPT ![p] = @ \ {q}]}
      /\ tried' \in {tried, [tried EXCEPT ![p] = @ \cup {q}]}
  BY DEF Dial, DialRefused, Dialed
<1>3. Functions'
  BY <1>1, <1>2 DEF scan, IInv, Functions, Sets
<1>4. \A x \in Phone : Initiates(x)' \subseteq Initiates(x)
  BY <1>1, <1>2 DEF Initiates, IInv, Functions, Sets
<1>5. Judged'
  <2>1. MayDial(p, q)
    BY <1>1 DEF IInv, Judged, Initiates
  <2> QED  BY <1>1, <1>4, <2>1 DEF fixed, scan, IInv, Judged, MayDial
<1>6. AdvertisingTypeOK'
  <2>1. \A x \in Phone : accepted'[x] \subseteq Phone \ {x}
    BY <1>1 DEF IInv, Functions, Sets, AdvertisingTypeOK
  <2>2. link' \subseteq Phone \X Phone
    BY <1>1 DEF IInv, AdvertisingTypeOK
  <2> QED  BY <1>1, <1>4, <2>1, <2>2 DEF fixed, files, scan, Listening, IInv, AdvertisingTypeOK
<1> QED  BY <1>3, <1>5, <1>6 DEF IInv

LEMMA IncomingKeeps ==
  ASSUME IInv, NEW p \in Phone, NEW q \in Phone, Incoming(p, q)
  PROVE  IInv'
<1>1. /\ UNCHANGED <<fixed, files, listed, reported, decided, dialing, found, served, tried, link,
                     stops, losses>>
      /\ q \in accepted[p] /\ q # p
      /\ accepted' = [accepted EXCEPT ![p] = @ \ {q}]
      /\ \/ UNCHANGED <<discovered, misread>>
         \/ /\ discovered' = [discovered EXCEPT ![p] = @ \cup {q}]
            /\ misread' = [misread EXCEPT ![p] = @ \cup {q}]
  BY DEF Incoming, IInv, AdvertisingTypeOK
<1>2. Functions'
  BY <1>1 DEF IInv, Functions, Sets
<1>3. \A x \in Phone : misread[x] \subseteq misread'[x] /\ Initiates(x)' = Initiates(x)
  BY <1>1 DEF Initiates, IInv, Functions, Sets
<1>4. Judged'
  <2>1. link \subseteq Phone \X Phone
    BY DEF IInv, AdvertisingTypeOK
  <2> QED  BY <1>1, <1>3, <2>1 DEF fixed, IInv, Judged, MayDial
<1>5. AdvertisingTypeOK'
  <2>1. ASSUME NEW x \in Phone
        PROVE  /\ (listed[x] \cup discovered[x] \cup reported[x] \subseteq Phone \ {x})'
               /\ (accepted[x] \cup served[x] \subseteq Phone \ {x})'
               /\ (Initiates(x) \cup found[x] \subseteq discovered[x])'
               /\ (misread[x] \subseteq discovered[x] \cup reported[x])'
    BY <1>1, <1>3 DEF IInv, Functions, Sets, AdvertisingTypeOK
  <2> QED  BY <1>1, <2>1 DEF fixed, files, Listening, IInv, AdvertisingTypeOK
<1> QED  BY <1>2, <1>4, <1>5 DEF IInv

LEMMA FirstMessageKeeps ==
  ASSUME IInv, NEW p \in Phone, NEW q \in Phone, FirstMessage(p, q)
  PROVE  IInv'
<1>1. /\ UNCHANGED <<fixed, files, scan, roles, accepted, tried, link, stops, losses>>
      /\ served' = [served EXCEPT ![p] = @ \cup {q}]
      /\ Initiates(p)' = Initiates(p)
  BY DEF FirstMessage, Initiates, roles
<1>2. q # p
  <2>1. <<p, p>> \notin link
    BY AdvertisingAssumption DEF IInv, AdvertisingTypeOK
  <2> QED  BY <2>1 DEF FirstMessage, Linked
<1>3. Functions' /\ Judged'
  BY <1>1 DEF fixed, scan, roles, IInv, Functions, Sets, Judged, Initiates, MayDial
<1>4. AdvertisingTypeOK'
  <2>1. \A x \in Phone : served'[x] \subseteq Phone \ {x}
    BY <1>1, <1>2 DEF IInv, Functions, Sets, AdvertisingTypeOK
  <2> QED  BY <1>1, <2>1 DEF fixed, files, scan, roles, Listening, IInv, AdvertisingTypeOK, Initiates
<1> QED  BY <1>3, <1>4 DEF IInv

LEMMA LoseKeeps ==
  ASSUME IInv, NEW p \in Phone, NEW q \in Phone, Lose(p, q)
  PROVE  IInv'
<1>1. Functions' /\ Judged'
  BY DEF Lose, fixed, memory, scan, roles, server, IInv, Functions, Judged, Initiates, MayDial
<1>2. AdvertisingTypeOK'
  BY AdvertisingAssumption
     DEF Lose, fixed, files, memory, scan, roles, server, Listening, IInv, AdvertisingTypeOK, Initiates
<1> QED  BY <1>1, <1>2 DEF IInv

-----------------------------------------------------------------------------
(* A phone goes down *)

LEMMA DownKeeps ==
  ASSUME IInv, NEW p \in Phone, Crash(p) \/ StopWire(p)
  PROVE  IInv'
<1>1. /\ End(p) /\ UNCHANGED <<fixed, file, losses>>
      /\ socket' \in {socket, socket \ {p}}
      /\ stops' \in 0 .. MaxStops
  BY AdvertisingAssumption DEF Crash, StopWire, IInv, AdvertisingTypeOK
<1>2. Functions'
  BY <1>1 DEF End, IInv, Functions, Sets
<1>3. Judged'
  <2>1. \A x \in Phone : Initiates(x)' \subseteq Initiates(x) /\ (x = p => Initiates(x)' = {})
    BY <1>1 DEF End, Initiates, IInv, Functions, Sets
  <2>2. \A x \in Phone \ {p} : misread'[x] = misread[x]
    BY <1>1 DEF End, IInv, Functions, Sets
  <2>3. link' \subseteq link /\ link \subseteq Phone \X Phone /\ \A l \in link' : l[1] # p
    BY <1>1 DEF End, IInv, AdvertisingTypeOK
  <2> QED  BY <1>1, <2>1, <2>2, <2>3 DEF fixed, IInv, Judged, MayDial
<1>4. AdvertisingTypeOK'
  BY <1>1 DEF End, fixed, Listening, IInv, Functions, Sets, AdvertisingTypeOK, Initiates
<1> QED  BY <1>2, <1>3, <1>4 DEF IInv

LEMMA StopAdvertisingKeeps ==
  ASSUME IInv, NEW p \in Phone, StopAdvertising(p)
  PROVE  IInv'
<1>1. Functions' /\ Judged'
  BY DEF StopAdvertising, fixed, memory, scan, roles, server, IInv, Functions, Judged, Initiates, MayDial
<1>2. AdvertisingTypeOK'
  BY AdvertisingAssumption
     DEF StopAdvertising, fixed, memory, scan, roles, server, Listening, IInv, AdvertisingTypeOK, Initiates
<1> QED  BY <1>1, <1>2 DEF IInv

-----------------------------------------------------------------------------
LEMMA NextIInv == IInv /\ [Next]_vars => IInv'
<1> SUFFICES ASSUME IInv, [Next]_vars PROVE IInv'
  OBVIOUS
<1>1. CASE Next
  BY <1>1, UpKeeps, TickKeeps, ScanForPeripheralsKeeps, StartScanKeeps, ConnectKeeps, DialKeeps,
     IncomingKeeps, FirstMessageKeeps, LoseKeeps, DownKeeps, StopAdvertisingKeeps DEF Next, Scan
<1>2. CASE UNCHANGED vars
  BY <1>2 DEF vars, fixed, files, memory, scan, roles, server, Listening, IInv, AdvertisingTypeOK,
       Functions, Judged, Initiates, MayDial
<1> QED  BY <1>1, <1>2

LEMMA Inductive == Spec => []IInv
BY InitIInv, NextIInv, PTL DEF Spec

\* What the scan loops and the callbacks leave in discovered, reported and the set of
\* peers to dial fits together, and no phone finds or dials itself.
THEOREM AdvertisingTypeCorrect == Spec => []AdvertisingTypeOK
<1>1. IInv => AdvertisingTypeOK
  BY DEF IInv
<1> QED  BY <1>1, Inductive, PTL

\* shouldInitiateConnection on both sides lets one side dial, whatever crashed, was
\* stopped or left its files, as long as both judged each other by their device IDs.
THEOREM RolesHold == Spec => []OneSideDials
<1>1. IInv => OneSideDials
  <2> SUFFICES ASSUME IInv PROVE OneSideDials
    OBVIOUS
  <2>1. ASSUME NEW p \in Phone, NEW q \in Phone, q \in Initiates(p), p \in Initiates(q)
        PROVE  q \in misread[p] \/ p \in misread[q]
    <3>1. deviceID[p] \in Nat /\ deviceID[q] \in Nat
      BY AdvertisingAssumption DEF IInv, AdvertisingTypeOK
    <3>2. MayDial(p, q) /\ MayDial(q, p)
      BY <2>1 DEF IInv, Judged
    <3> QED  BY <3>1, <3>2 DEF MayDial
  <2> QED  BY <2>1 DEF IInv, Judged, MayDial, OneSideDials
<1> QED  BY <1>1, Inductive, PTL

=============================================================================
