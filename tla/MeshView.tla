------------------------------ MODULE MeshView ------------------------------
(***************************************************************************)
(* What a phone knows of another phone's photo: one entry of               *)
(* MeshView.devices (phone/mesh_view.go), and the methods that change or   *)
(* read it.  Photos are numbers, 0 is none; they stand for their hashes.   *)
(* A timestamp is an age: the smaller, the newer, and 0 is this second.    *)
(***************************************************************************)
EXTENDS Naturals

NoPhoto == 0

Unknown == [known |-> FALSE, photo |-> NoPhoto, age |-> 0, have |-> FALSE, requested |-> FALSE]

NewEntry(photo, age, cache) ==
  [known |-> TRUE, photo |-> photo, age |-> age, have |-> photo \in cache, requested |-> FALSE]

Entry(Photos, Ages) ==
  [known : BOOLEAN, photo : Photos, age : Ages, have : BOOLEAN, requested : BOOLEAN]

\* UpdateDevice, when a handshake says what the photo is.
UpdateDevice(e, photo, cache) ==
  IF ~e.known THEN NewEntry(photo, 0, cache)
  ELSE IF photo = NoPhoto THEN [e EXCEPT !.age = 0]
  ELSE [e EXCEPT !.photo = photo, !.age = 0, !.have = photo \in cache,
                 !.requested = @ /\ photo = e.photo]

\* Faulty: a timestamp is not compared.
MergeGossipAlways(e, photo, age, cache) ==
  IF ~e.known THEN NewEntry(photo, age, cache)
  ELSE [e EXCEPT !.photo = photo, !.age = age, !.have = photo \in cache]

\* Faulty: HavePhoto is kept.
MergeGossipKeepsHave(e, photo, age, cache) ==
  IF ~e.known THEN NewEntry(photo, age, cache)
  ELSE IF age >= e.age THEN e
  ELSE [e EXCEPT !.photo = photo, !.age = age]

\* MergeGossip: only strictly newer news replace the entry; PhotoRequestSent stays.
MergeGossip(e, photo, age, cache) ==
  IF ~e.known THEN NewEntry(photo, age, cache)
  ELSE IF age >= e.age THEN e
  ELSE [e EXCEPT !.photo = photo, !.age = age, !.have = photo \in cache]

\* MarkPhotoRequested, MarkPhotoReceived, MarkDeviceDisconnected: of known devices.
MarkPhotoRequested(e) == IF e.known THEN [e EXCEPT !.requested = TRUE] ELSE e

MarkPhotoReceived(e) == IF e.known THEN [e EXCEPT !.have = TRUE, !.requested = FALSE] ELSE e

\* Faulty: the request flag is kept.
MarkDeviceDisconnectedKeepsFlag(e) == e

MarkDeviceDisconnected(e) == [e EXCEPT !.requested = FALSE]

\* GetMissingPhotos.
PhotoIsMissing(e) == e.photo # NoPhoto /\ ~e.have /\ ~e.requested

\* FindNeighborsWithPhoto: connected neighbors who gossiped about the photo, which does
\* not mean that they have it.
FindNeighborsWithPhoto(photo, connected, gossiped) == {n \in connected : photo \in gossiped[n]}
=============================================================================
