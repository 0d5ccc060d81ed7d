-------------------------- MODULE IdentityManager --------------------------
(***************************************************************************)
(* phone/identity_manager.go: the one place that maps peripheral UUIDs to  *)
(* device IDs and back, its connected set and its state file, driven by    *)
(* the handlers that use it (handleHandshakeProto and Stop of both         *)
(* phones).  Every peer link has a read goroutine of its own, so a peer's  *)
(* UUID also names the goroutine that handles its handshakes; OurHardware  *)
(* names the goroutine that runs Stop().                                   *)
(*                                                                         *)
(* SaveToDisk holds the manager's lock for reading only: several saves may *)
(* overlap, on one temporary path.  The file system is modelled by what a  *)
(* descriptor of that path still names after the renames of the others.    *)
(***************************************************************************)
CONSTANTS Hardware,       \* peripheral UUIDs, OurHardware among them
          Device,         \* device IDs, OurDevice among them
          OurHardware,
          OurDevice,
          NoHardware,     \* "key absent", and the empty string
          NoDevice

ASSUME IdentityAssumption ==
  /\ OurHardware \in Hardware
  /\ OurDevice \in Device
  /\ NoHardware \notin Hardware
  /\ NoDevice \notin Device

VARIABLES
  hardwareToDevice,   \* im.hardwareToDevice, NoDevice where there is no key
  deviceToHardware,   \* im.deviceToHardware
  connectedDevices,   \* im.connectedDevices
  pc,                 \* where each goroutine is in "register, then save"
  fd,                 \* what the file a saving goroutine opened is by now
  temp,               \* the file at statePath + ".tmp"
  file                \* the file at statePath

maps == <<hardwareToDevice, deviceToHardware, connectedDevices>>
disk == <<temp, file>>
vars == <<maps, pc, fd, disk>>

PeerHardware == Hardware \ {OurHardware}
PeerDevice   == Device \ {OurDevice}

Mappings == [Hardware -> Device \cup {NoDevice}]

NoMappings == [h \in Hardware |-> NoDevice]

\* The contents of a file: none, truncated and not yet written, or a snapshot.
Absent       == [kind |-> "absent", mappings |-> NoMappings]
Torn         == [kind |-> "torn",   mappings |-> NoMappings]
Whole(m)     == [kind |-> "whole",  mappings |-> m]
FileContents == [kind : {"absent", "torn", "whole"}, mappings : Mappings]

\* Faulty: a save that merges into the old file instead of replacing it.
SnapshotMerged ==
  [h \in Hardware |-> IF h = OurHardware THEN NoDevice
                      ELSE IF hardwareToDevice[h] = NoDevice THEN file.mappings[h]
                      ELSE hardwareToDevice[h]]

\* SaveToDisk writes every mapping but our own.
Snapshot == [hardwareToDevice EXCEPT ![OurHardware] = NoDevice]

\* NewIdentityManager followed by LoadFromDisk: our own pair, and the pairs of
\* the state file if there is one that parses.
LoadedHardwareToDevice(f) == [f.mappings EXCEPT ![OurHardware] = OurDevice]

LoadedDeviceToHardware(f) ==
  [d \in Device |->
     IF d = OurDevice THEN OurHardware
     ELSE IF \E h \in PeerHardware : f.mappings[h] = d
          THEN CHOOSE h \in PeerHardware : f.mappings[h] = d
          ELSE NoHardware]

TypeOK ==
  /\ hardwareToDevice \in Mappings
  /\ deviceToHardware \in [Device -> Hardware \cup {NoHardware}]
  /\ connectedDevices \subseteq Hardware
  /\ pc \in [Hardware -> {"idle", "save", "write", "rename"}]
  /\ fd \in [Hardware -> {"none", "temp", "file", "unlinked"}]
  /\ temp \in FileContents
  /\ file \in FileContents

Init ==
  /\ hardwareToDevice = LoadedHardwareToDevice(Absent)
  /\ deviceToHardware = LoadedDeviceToHardware(Absent)
  /\ connectedDevices = {}
  /\ pc = [h \in Hardware |-> "idle"]
  /\ fd = [h \in Hardware |-> "none"]
  /\ temp = Absent
  /\ file = Absent

-----------------------------------------------------------------------------
\* im.mu: SaveToDisk is the only reader that takes several steps.
ReadLocked == \E h \in Hardware : pc[h] \in {"write", "rename"}

CanWriteLock == ~ReadLocked

\* Faulty: the old UUID keeps its mapping after a rotation.
RegisterKeepsOldHardware(h, d) == [hardwareToDevice EXCEPT ![h] = d]

RegisterHardwareToDevice(h, d) ==
  [x \in Hardware |-> IF x = h THEN d
                      ELSE IF x = deviceToHardware[d] THEN NoDevice
                      ELSE hardwareToDevice[x]]

RegisterDeviceToHardware(h, d) ==
  [x \in Device |-> IF x = d THEN h
                    ELSE IF x = hardwareToDevice[h] THEN NoHardware
                    ELSE deviceToHardware[x]]

\* Faulty: the connection state of the old UUID is not cleaned up.
RegisterKeepsConnected(h, d) == connectedDevices

\* A rotated device takes its old address's connection mark with it.
RegisterConnected(h, d) == connectedDevices \ ({deviceToHardware[d]} \ {h})

\* Faulty: a handshake that is registered and never saved.
RegisterDeviceUnsaved(h, d) ==
  /\ pc[h] = "idle"
  /\ CanWriteLock
  /\ hardwareToDevice' = RegisterHardwareToDevice(h, d)
  /\ deviceToHardware' = RegisterDeviceToHardware(h, d)
  /\ connectedDevices' = RegisterConnected(h, d)
  /\ UNCHANGED <<pc, fd, disk>>

\* A handshake from h announces d: the read goroutine of h registers the pair
\* and goes on to save.
RegisterDevice(h, d) ==
  /\ pc[h] = "idle"
  /\ CanWriteLock
  /\ hardwareToDevice' = RegisterHardwareToDevice(h, d)
  /\ deviceToHardware' = RegisterDeviceToHardware(h, d)
  /\ connectedDevices' = RegisterConnected(h, d)
  /\ pc' = [pc EXCEPT ![h] = "save"]
  /\ UNCHANGED <<fd, disk>>

\* A handshake without a device ID registers nothing and is saved all the same;
\* so is the state when the phone stops.
SaveOnly(h) ==
  /\ pc[h] = "idle"
  /\ pc' = [pc EXCEPT ![h] = "save"]
  /\ UNCHANGED <<maps, fd, disk>>

MarkConnected(h) ==
  /\ CanWriteLock
  /\ connectedDevices' = connectedDevices \cup {h}
  /\ UNCHANGED <<hardwareToDevice, deviceToHardware, pc, fd, disk>>

MarkDisconnected(h) ==
  /\ CanWriteLock
  /\ connectedDevices' = connectedDevices \ {h}
  /\ UNCHANGED <<hardwareToDevice, deviceToHardware, pc, fd, disk>>

-----------------------------------------------------------------------------
\* SaveToDisk, os.WriteFile's open: creates the temporary file or truncates the
\* one another save is using.
SaveOpen(h) ==
  /\ pc[h] = "save"
  /\ pc' = [pc EXCEPT ![h] = "write"]
  /\ fd' = [fd EXCEPT ![h] = "temp"]
  /\ temp' = Torn
  /\ UNCHANGED <<maps, file>>

\* os.WriteFile's write, to whatever the opened file is called by now.
SaveWrite(h) ==
  /\ pc[h] = "write"
  /\ temp' = IF fd[h] = "temp" THEN Whole(Snapshot) ELSE temp
  /\ file' = IF fd[h] = "file" THEN Whole(Snapshot) ELSE file
  /\ pc' = [pc EXCEPT ![h] = "rename"]
  /\ UNCHANGED <<maps, fd>>

\* After a rename the descriptors of the temporary file name the state file, and
\* those of the old state file name nothing.
AfterRename(h, x) ==
  IF x = h THEN "none"
  ELSE IF fd[x] = "temp" THEN "file"
  ELSE IF fd[x] = "file" THEN "unlinked"
  ELSE fd[x]

SaveRename(h) ==
  /\ pc[h] = "rename"
  /\ temp # Absent
  /\ file' = temp
  /\ temp' = Absent
  /\ fd' = [x \in Hardware |-> AfterRename(h, x)]
  /\ pc' = [pc EXCEPT ![h] = "idle"]
  /\ UNCHANGED maps

\* Another save renamed the temporary file first: SaveToDisk returns the error,
\* which the handlers only log.
SaveRenameFails(h) ==
  /\ pc[h] = "rename"
  /\ temp = Absent
  /\ fd' = [fd EXCEPT ![h] = "none"]
  /\ pc' = [pc EXCEPT ![h] = "idle"]
  /\ UNCHANGED <<maps, disk>>

\* The process dies at any point and a new one is built from the state file.
Restart ==
  /\ hardwareToDevice' = LoadedHardwareToDevice(file)
  /\ deviceToHardware' = LoadedDeviceToHardware(file)
  /\ connectedDevices' = {}
  /\ pc' = [h \in Hardware |-> "idle"]
  /\ fd' = [h \in Hardware |-> "none"]
  /\ UNCHANGED disk

Save(h) == SaveOpen(h) \/ SaveWrite(h) \/ SaveRename(h) \/ SaveRenameFails(h)

Next ==
  \/ \E h \in PeerHardware, d \in PeerDevice : RegisterDevice(h, d)
  \/ \E h \in PeerHardware : MarkConnected(h) \/ MarkDisconnected(h)
  \/ \E h \in Hardware : SaveOnly(h) \/ Save(h)
  \/ Restart

Spec == Init /\ [][Next]_vars

-----------------------------------------------------------------------------
\* The two maps are inverse to each other: no UUID routes to a device whose
\* messages would be attributed to another, whatever mixture of UUID rotations,
\* device reuses and restarts the handshakes went through.
MapsInverse ==
  \A h \in Hardware, d \in Device :
    hardwareToDevice[h] = d <=> deviceToHardware[d] = h

\* No handshake takes our own identity away (RegisterDevice cleans up both maps).
OwnIdentityKept ==
  /\ hardwareToDevice[OurHardware] = OurDevice
  /\ deviceToHardware[OurDevice] = OurHardware

\* The maps and files are of their types, the maps inverse to each other, and our own
\* identity in its place: what handleHandshakeProto relies on when it routes a message.
IdentityInv == TypeOK /\ MapsInverse /\ OwnIdentityKept

Quiescent == \A h \in Hardware : pc[h] = "idle"

\* Once every goroutine is past its save, a crash forgets no pair and brings no
\* stale pair back, although the saves overlapped on one temporary file and some
\* of them returned an error.
QuiescentDurable ==
  Quiescent => /\ LoadedHardwareToDevice(file) = hardwareToDevice
               /\ LoadedDeviceToHardware(file) = deviceToHardware

\* A device that moves to another UUID leaves no trace at the old one: neither a
\* route to it nor a mark that the old UUID is reachable, by which the scanner
\* would skip whoever answers there next.
RotationDropsOldAddress ==
  [][\A d \in PeerDevice :
       LET old == deviceToHardware[d] IN
       /\ old # NoHardware
       /\ deviceToHardware'[d] \notin {old, NoHardware}
       => /\ hardwareToDevice'[old] # d
          /\ old \notin connectedDevices']_vars

\* The two maps and the state file implement a matching that survives restarts.
PairsOf(m) == {<<h, m[h]>> : h \in {x \in Hardware : m[x] # NoDevice}}

Matching == INSTANCE IdentityMatching
              WITH matching  <- PairsOf(hardwareToDevice),
                   persisted <- PairsOf(file.mappings)

ImplementsMatching == Matching!Spec
=============================================================================
