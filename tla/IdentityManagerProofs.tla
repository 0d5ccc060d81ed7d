----------------------- MODULE IdentityManagerProofs -----------------------
(***************************************************************************)
(* What TLAPS proves of IdentityManager, for any sets of peripheral UUIDs  *)
(* and device IDs.  The inductive invariant has two halves: the maps are   *)
(* inverse and every snapshot on disk could be loaded into such maps; and  *)
(* the saves in flight leave the state file current when the last of them  *)
(* returns.                                                                *)
(***************************************************************************)
EXTENDS IdentityManager, TLAPS

\* A snapshot is a partial injection from peers' UUIDs to peers' device IDs.
Loadable(m) ==
  /\ m[OurHardware] = NoDevice
  /\ \A h \in Hardware : m[h] # OurDevice
  /\ \A h, g \in Hardware : m[h] = m[g] /\ m[h] # NoDevice => h = g

FilesLoadable == Loadable(temp.mappings) /\ Loadable(file.mappings)

MapsInv == TypeOK /\ MapsInverse /\ OwnIdentityKept /\ FilesLoadable

\* The temporary file of a running save is current, or being written.
DescriptorsInv ==
  /\ \A h \in Hardware : fd[h] # "none" <=> pc[h] \in {"write", "rename"}
  /\ \A h \in Hardware : fd[h] = "temp" => temp.kind # "absent"
  /\ \A h \in Hardware : fd[h] = "temp" /\ temp.kind = "whole"
                           => temp.mappings = Snapshot
  /\ (\E h \in Hardware : fd[h] = "temp") /\ temp.kind = "torn"
       => \E h \in Hardware : fd[h] = "temp" /\ pc[h] = "write"
  /\ temp.kind # "absent" /\ ReadLocked => \E h \in Hardware : fd[h] = "temp"
  /\ temp.kind # "whole" => temp.mappings = NoMappings

\* A restart would bring back what the manager knows.
Synced ==
  /\ LoadedHardwareToDevice(file) = hardwareToDevice
  /\ LoadedDeviceToHardware(file) = deviceToHardware

\* Some goroutine will still make the state file current.
Pending ==
  \E h \in Hardware :
    \/ pc[h] = "save"
    \/ pc[h] = "write" /\ fd[h] \in {"temp", "file"}
    \/ pc[h] = "rename" /\ fd[h] = "temp"

IInv == MapsInv /\ DescriptorsInv /\ (Synced \/ Pending)

-----------------------------------------------------------------------------
\* Loading a snapshot yields inverse maps that keep our own pair.
LEMMA LoadInverse ==
  ASSUME NEW f \in FileContents, Loadable(f.mappings)
  PROVE  /\ LoadedHardwareToDevice(f) \in Mappings
         /\ LoadedDeviceToHardware(f) \in [Device -> Hardware \cup {NoHardware}]
         /\ LoadedHardwareToDevice(f)[OurHardware] = OurDevice
         /\ LoadedDeviceToHardware(f)[OurDevice] = OurHardware
         /\ \A h \in Hardware, d \in Device :
              LoadedHardwareToDevice(f)[h] = d <=> LoadedDeviceToHardware(f)[d] = h
<1> DEFINE m == f.mappings
           back(d) == CHOOSE h \in PeerHardware : m[h] = d
<1>1. m \in Mappings
  BY DEF FileContents
<1>2. ASSUME NEW d \in Device, NEW h \in PeerHardware, m[h] = d
      PROVE  back(d) = h
  BY <1>1, <1>2, IdentityAssumption DEF Loadable, PeerHardware
<1>3. LoadedHardwareToDevice(f) \in Mappings
  BY <1>1, IdentityAssumption DEF LoadedHardwareToDevice, Mappings
<1>4. LoadedDeviceToHardware(f) \in [Device -> Hardware \cup {NoHardware}]
  BY <1>2, IdentityAssumption DEF LoadedDeviceToHardware, PeerHardware
<1>5. ASSUME NEW h \in Hardware, NEW d \in Device
      PROVE  LoadedHardwareToDevice(f)[h] = d <=> LoadedDeviceToHardware(f)[d] = h
  <2>1. CASE h = OurHardware
    BY <1>1, <1>2, <2>1, IdentityAssumption
       DEF LoadedHardwareToDevice, LoadedDeviceToHardware, PeerHardware, Mappings
  <2>2. CASE h # OurHardware
    BY <1>1, <1>2, <2>2, IdentityAssumption
       DEF LoadedHardwareToDevice, LoadedDeviceToHardware, PeerHardware, Mappings,
           Loadable
  <2>3. QED BY <2>1, <2>2
<1>6. /\ LoadedHardwareToDevice(f)[OurHardware] = OurDevice
      /\ LoadedDeviceToHardware(f)[OurDevice] = OurHardware
  BY <1>1, IdentityAssumption
     DEF LoadedHardwareToDevice, LoadedDeviceToHardware, Mappings
<1>7. QED BY <1>3, <1>4, <1>5, <1>6

\* Loading the current snapshot restores the current maps.
LEMMA LoadSnapshot ==
  ASSUME MapsInv, NEW f, f.mappings = Snapshot
  PROVE  /\ LoadedHardwareToDevice(f) = hardwareToDevice
         /\ LoadedDeviceToHardware(f) = deviceToHardware
<1>1. LoadedHardwareToDevice(f) = hardwareToDevice
  BY IdentityAssumption
     DEF MapsInv, TypeOK, OwnIdentityKept, LoadedHardwareToDevice, Snapshot, Mappings
<1>2. ASSUME NEW d \in Device, d # OurDevice
      PROVE  LoadedDeviceToHardware(f)[d] = deviceToHardware[d]
  <2>1. \A h \in PeerHardware : f.mappings[h] = d <=> deviceToHardware[d] = h
    <3>1. \A h \in PeerHardware : f.mappings[h] = hardwareToDevice[h]
      BY DEF MapsInv, TypeOK, Snapshot, Mappings, PeerHardware
    <3>2. QED BY <3>1 DEF MapsInv, MapsInverse, PeerHardware
  <2>2. deviceToHardware[d] # OurHardware
    BY <1>2, IdentityAssumption DEF MapsInv, MapsInverse, OwnIdentityKept
  <2>3. CASE \E h \in PeerHardware : f.mappings[h] = d
    <3>1. (CHOOSE h \in PeerHardware : f.mappings[h] = d) = deviceToHardware[d]
      BY <2>1, <2>3
    <3>2. QED BY <1>2, <2>3, <3>1 DEF LoadedDeviceToHardware
  <2>4. CASE ~\E h \in PeerHardware : f.mappings[h] = d
    <3>1. deviceToHardware[d] = NoHardware
      BY <2>1, <2>2, <2>4 DEF MapsInv, TypeOK, PeerHardware
    <3>2. QED BY <1>2, <2>4, <3>1 DEF LoadedDeviceToHardware
  <2>5. QED BY <2>3, <2>4
<1>3. LoadedDeviceToHardware(f)[OurDevice] = deviceToHardware[OurDevice]
  BY IdentityAssumption DEF LoadedDeviceToHardware, MapsInv, OwnIdentityKept
<1>4. LoadedDeviceToHardware(f) = deviceToHardware
  BY <1>2, <1>3, IdentityAssumption DEF LoadedDeviceToHardware, MapsInv, TypeOK
<1>5. QED BY <1>1, <1>4

\* What SaveToDisk writes can be loaded, and so can an empty file.
LEMMA SnapshotLoadable ==
  ASSUME MapsInv
  PROVE  Snapshot \in Mappings /\ Loadable(Snapshot)
<1>1. Snapshot \in Mappings
  BY IdentityAssumption DEF MapsInv, TypeOK, Snapshot, Mappings
<1>2. Loadable(Snapshot)
  BY IdentityAssumption
     DEF MapsInv, TypeOK, MapsInverse, OwnIdentityKept, Snapshot, Mappings, Loadable
<1>3. QED BY <1>1, <1>2

LEMMA NoMappingsLoadable == NoMappings \in Mappings /\ Loadable(NoMappings)
BY IdentityAssumption DEF NoMappings, Mappings, Loadable

-----------------------------------------------------------------------------
LEMMA InitIInv == Init => IInv
<1> SUFFICES ASSUME Init PROVE IInv
  OBVIOUS
<1>1. Absent \in FileContents /\ Loadable(Absent.mappings)
  BY NoMappingsLoadable DEF Absent, FileContents
<1>2. MapsInv
  BY <1>1, LoadInverse, IdentityAssumption
     DEF Init, MapsInv, TypeOK, MapsInverse, OwnIdentityKept, FilesLoadable
<1>3. DescriptorsInv
  BY DEF Init, DescriptorsInv, Absent, ReadLocked
<1>4. Synced
  BY DEF Init, Synced
<1>5. QED BY <1>2, <1>3, <1>4 DEF IInv

\* A handshake keeps the maps inverse: the rotation and reuse clean-ups of
\* RegisterDevice remove exactly the pairs the new one conflicts with.
LEMMA RegisterMaps ==
  ASSUME MapsInv, NEW h \in PeerHardware, NEW d \in PeerDevice, RegisterDevice(h, d)
  PROVE  MapsInv'
<1> USE IdentityAssumption DEF MapsInv, PeerHardware, PeerDevice
<1>1. /\ hardwareToDevice' = RegisterHardwareToDevice(h, d)
      /\ deviceToHardware' = RegisterDeviceToHardware(h, d)
      /\ connectedDevices' = RegisterConnected(h, d)
      /\ pc' = [pc EXCEPT ![h] = "save"]
      /\ UNCHANGED <<fd, temp, file>>
  BY DEF RegisterDevice, disk
<1>2. TypeOK'
  <2>1. hardwareToDevice' \in Mappings
    BY <1>1 DEF TypeOK, Mappings, RegisterHardwareToDevice
  <2>2. deviceToHardware' \in [Device -> Hardware \cup {NoHardware}]
    BY <1>1 DEF TypeOK, Mappings, RegisterDeviceToHardware
  <2>3. connectedDevices' \subseteq Hardware
    BY <1>1 DEF TypeOK, RegisterConnected
  <2>4. QED BY <1>1, <2>1, <2>2, <2>3 DEF TypeOK
<1>3. MapsInverse'
  <2> SUFFICES ASSUME NEW x \in Hardware, NEW y \in Device
               PROVE  hardwareToDevice'[x] = y <=> deviceToHardware'[y] = x
    BY DEF MapsInverse
  <2>1. hardwareToDevice'[x] = IF x = h THEN d
                               ELSE IF x = deviceToHardware[d] THEN NoDevice
                               ELSE hardwareToDevice[x]
    BY <1>1 DEF RegisterHardwareToDevice
  <2>2. deviceToHardware'[y] = IF y = d THEN h
                               ELSE IF y = hardwareToDevice[h] THEN NoHardware
                               ELSE deviceToHardware[y]
    BY <1>1 DEF RegisterDeviceToHardware
  <2>3. /\ hardwareToDevice[x] = y <=> deviceToHardware[y] = x
        /\ hardwareToDevice[h] = y <=> deviceToHardware[y] = h
        /\ hardwareToDevice[x] = d <=> deviceToHardware[d] = x
    BY DEF MapsInverse
  <2>4. QED BY <2>1, <2>2, <2>3
<1>4. OwnIdentityKept'
  <2>1. deviceToHardware[d] # OurHardware /\ hardwareToDevice[h] # OurDevice
    BY DEF MapsInverse, OwnIdentityKept
  <2>2. QED
    BY <1>1, <2>1
       DEF OwnIdentityKept, RegisterHardwareToDevice, RegisterDeviceToHardware
<1>5. FilesLoadable'
  BY <1>1 DEF FilesLoadable
<1>6. QED BY <1>2, <1>3, <1>4, <1>5

LEMMA StepMaps == MapsInv /\ DescriptorsInv /\ [Next]_vars => MapsInv'
<1> SUFFICES ASSUME MapsInv, DescriptorsInv, [Next]_vars PROVE MapsInv'
  OBVIOUS
<1> USE IdentityAssumption
<1>1. ASSUME NEW h \in PeerHardware, NEW d \in PeerDevice, RegisterDevice(h, d)
      PROVE  MapsInv'
  BY <1>1, RegisterMaps
<1>2. ASSUME NEW h \in PeerHardware, MarkConnected(h) \/ MarkDisconnected(h)
      PROVE  MapsInv'
  BY <1>2 DEF MarkConnected, MarkDisconnected, MapsInv, TypeOK, MapsInverse,
              OwnIdentityKept, FilesLoadable, disk, PeerHardware
<1>3. ASSUME NEW h \in Hardware, SaveOnly(h) \/ SaveRenameFails(h)
      PROVE  MapsInv'
  BY <1>3 DEF SaveOnly, SaveRenameFails, MapsInv, TypeOK, MapsInverse,
              OwnIdentityKept, FilesLoadable, disk, maps
<1>4. ASSUME NEW h \in Hardware, SaveOpen(h)
      PROVE  MapsInv'
  <2>1. Torn \in FileContents /\ Loadable(Torn.mappings)
    BY NoMappingsLoadable DEF Torn, FileContents
  <2>2. QED
    BY <1>4, <2>1 DEF SaveOpen, MapsInv, TypeOK, MapsInverse, OwnIdentityKept,
                      FilesLoadable, maps
<1>5. ASSUME NEW h \in Hardware, SaveWrite(h)
      PROVE  MapsInv'
  <2>1. Whole(Snapshot) \in FileContents /\ Loadable(Whole(Snapshot).mappings)
    BY SnapshotLoadable DEF Whole, FileContents
  <2>2. QED
    BY <1>5, <2>1 DEF SaveWrite, MapsInv, TypeOK, MapsInverse, OwnIdentityKept,
                      FilesLoadable, maps
<1>6. ASSUME NEW h \in Hardware, SaveRename(h)
      PROVE  MapsInv'
  <2>1. Absent \in FileContents /\ Loadable(Absent.mappings)
    BY NoMappingsLoadable DEF Absent, FileContents
  <2>2. fd' \in [Hardware -> {"none", "temp", "file", "unlinked"}]
    BY <1>6 DEF SaveRename, AfterRename, MapsInv, TypeOK
  <2>3. QED
    BY <1>6, <2>1, <2>2 DEF SaveRename, MapsInv, TypeOK, MapsInverse,
                            OwnIdentityKept, FilesLoadable, maps
<1>7. CASE Restart
  <2>1. file \in FileContents /\ Loadable(file.mappings)
    BY DEF MapsInv, TypeOK, FilesLoadable
  <2>2. QED
    BY <1>7, <2>1, LoadInverse
       DEF Restart, MapsInv, TypeOK, MapsInverse, OwnIdentityKept, FilesLoadable, disk
<1>8. CASE UNCHANGED vars
  BY <1>8 DEF vars, maps, disk, MapsInv, TypeOK, MapsInverse, OwnIdentityKept,
              FilesLoadable
<1>9. QED
  BY <1>1, <1>2, <1>3, <1>4, <1>5, <1>6, <1>7, <1>8 DEF Next, Save

-----------------------------------------------------------------------------
\* The overlapping saves keep the descriptors consistent with the temporary file.
LEMMA StepDescriptors ==
  MapsInv /\ DescriptorsInv /\ [Next]_vars => DescriptorsInv'
<1> SUFFICES ASSUME MapsInv, DescriptorsInv, [Next]_vars PROVE DescriptorsInv'
  OBVIOUS
<1> USE DEF MapsInv, TypeOK
<1>1. ASSUME NEW h \in PeerHardware, NEW d \in PeerDevice, RegisterDevice(h, d)
      PROVE  DescriptorsInv'
  BY <1>1 DEF RegisterDevice, DescriptorsInv, disk, CanWriteLock, ReadLocked,
              PeerHardware
<1>2. ASSUME NEW h \in PeerHardware, MarkConnected(h) \/ MarkDisconnected(h)
      PROVE  DescriptorsInv'
  BY <1>2 DEF MarkConnected, MarkDisconnected, DescriptorsInv, disk, ReadLocked,
              Snapshot
<1>3. ASSUME NEW h \in Hardware, SaveOnly(h)
      PROVE  DescriptorsInv'
  BY <1>3 DEF SaveOnly, DescriptorsInv, disk, maps, ReadLocked, Snapshot
<1>4. ASSUME NEW h \in Hardware, SaveOpen(h)
      PROVE  DescriptorsInv'
  BY <1>4 DEF SaveOpen, DescriptorsInv, maps, ReadLocked, Snapshot, Torn
<1>5. ASSUME NEW h \in Hardware, SaveWrite(h)
      PROVE  DescriptorsInv'
  BY <1>5 DEF SaveWrite, DescriptorsInv, maps, ReadLocked, Snapshot, Whole
<1>6. ASSUME NEW h \in Hardware, SaveRename(h)
      PROVE  DescriptorsInv'
  <2>1. \A x \in Hardware : fd'[x] = IF x = h THEN "none"
                                     ELSE IF fd[x] = "temp" THEN "file"
                                     ELSE IF fd[x] = "file" THEN "unlinked"
                                     ELSE fd[x]
    BY <1>6 DEF SaveRename, AfterRename
  <2>2. /\ \A x \in Hardware : pc'[x] = IF x = h THEN "idle" ELSE pc[x]
        /\ temp' = Absent
    BY <1>6 DEF SaveRename
  <2>3. \A x \in Hardware : fd'[x] # "none" <=> pc'[x] \in {"write", "rename"}
    BY <2>1, <2>2 DEF DescriptorsInv
  <2>4. \A x \in Hardware : fd'[x] # "temp"
    BY <2>1
  <2>5. QED BY <2>2, <2>3, <2>4 DEF DescriptorsInv, Absent
<1>7. ASSUME NEW h \in Hardware, SaveRenameFails(h)
      PROVE  DescriptorsInv'
  BY <1>7 DEF SaveRenameFails, DescriptorsInv, maps, disk, ReadLocked, Snapshot, Absent
<1>8. CASE Restart
  BY <1>8 DEF Restart, DescriptorsInv, disk, ReadLocked
<1>9. CASE UNCHANGED vars
  BY <1>9 DEF vars, maps, disk, DescriptorsInv, ReadLocked, Snapshot
<1>10. QED
  BY <1>1, <1>2, <1>3, <1>4, <1>5, <1>6, <1>7, <1>8, <1>9 DEF Next, Save

\* The state file is current, or a goroutine that will make it so remains: the
\* rename of one save may publish the half-written file of another, whose write
\* then completes it in place.
LEMMA StepSynced == IInv /\ [Next]_vars => (Synced \/ Pending)'
<1> SUFFICES ASSUME IInv, [Next]_vars PROVE Synced' \/ Pending'
  OBVIOUS
<1>0. MapsInv /\ DescriptorsInv /\ (Synced \/ Pending) /\ TypeOK
  BY DEF IInv, MapsInv
<1>1. ASSUME NEW h \in PeerHardware, NEW d \in PeerDevice, RegisterDevice(h, d)
      PROVE  Pending'
  BY <1>0, <1>1 DEF RegisterDevice, Pending, TypeOK, PeerHardware
<1>2. ASSUME NEW h \in PeerHardware, MarkConnected(h) \/ MarkDisconnected(h)
      PROVE  Synced' \/ Pending'
  BY <1>0, <1>2 DEF MarkConnected, MarkDisconnected, disk, Synced, Pending
<1>3. ASSUME NEW h \in Hardware, SaveOnly(h) \/ SaveOpen(h)
      PROVE  Pending'
  BY <1>0, <1>3 DEF SaveOnly, SaveOpen, Pending, TypeOK
<1>4. ASSUME NEW h \in Hardware, SaveWrite(h)
      PROVE  Synced' \/ Pending'
  <2>1. CASE fd[h] = "temp"
    BY <1>0, <1>4, <2>1 DEF SaveWrite, Pending, TypeOK
  <2>2. CASE fd[h] = "file"
    <3>1. file'.mappings = Snapshot /\ UNCHANGED maps
      BY <1>4, <2>2 DEF SaveWrite, Whole
    <3>2. QED BY <1>0, <3>1, LoadSnapshot DEF Synced, maps
  <2>3. CASE fd[h] \notin {"temp", "file"}
    <3>1. UNCHANGED <<maps, disk>> /\ pc' = [pc EXCEPT ![h] = "rename"] /\ fd' = fd
      BY <1>4, <2>3 DEF SaveWrite, disk
    <3>2. pc[h] = "write"
      BY <1>4 DEF SaveWrite
    <3>3. CASE Synced
      BY <3>1, <3>3 DEF Synced, maps, disk
    <3>4. CASE Pending
      BY <1>0, <2>3, <3>1, <3>2, <3>4 DEF Pending, TypeOK
    <3>5. QED BY <1>0, <3>3, <3>4
  <2>4. QED BY <2>1, <2>2, <2>3
<1>5. ASSUME NEW h \in Hardware, SaveRename(h)
      PROVE  Synced' \/ Pending'
  <2>1. temp.kind # "absent" /\ ReadLocked
    <3>1. temp.kind = "absent" => temp = Absent
      BY <1>0 DEF DescriptorsInv, Absent, TypeOK, FileContents
    <3>2. QED BY <1>5, <3>1 DEF SaveRename, ReadLocked
  <2>2. PICK x \in Hardware : fd[x] = "temp"
    BY <1>0, <2>1 DEF DescriptorsInv
  <2>3. CASE temp.kind = "whole"
    <3>1. file'.mappings = Snapshot /\ UNCHANGED maps
      BY <1>0, <1>5, <2>2, <2>3 DEF SaveRename, DescriptorsInv
    <3>2. QED BY <1>0, <3>1, LoadSnapshot DEF Synced, maps
  <2>4. CASE temp.kind = "torn"
    <3>1. PICK y \in Hardware : fd[y] = "temp" /\ pc[y] = "write"
      BY <1>0, <2>2, <2>4 DEF DescriptorsInv
    <3>2. y # h
      BY <1>5, <3>1 DEF SaveRename
    <3>3. fd'[y] = "file" /\ pc'[y] = "write"
      BY <1>0, <1>5, <3>1, <3>2 DEF SaveRename, AfterRename, TypeOK
    <3>4. QED BY <3>3 DEF Pending
  <2>5. QED BY <1>0, <2>1, <2>3, <2>4 DEF TypeOK, FileContents
<1>6. ASSUME NEW h \in Hardware, SaveRenameFails(h)
      PROVE  Synced' \/ Pending'
  <2>1. fd[h] # "temp" /\ pc[h] = "rename"
    BY <1>0, <1>6 DEF SaveRenameFails, DescriptorsInv, Absent
  <2>2. QED
    BY <1>0, <1>6, <2>1 DEF SaveRenameFails, maps, disk, Synced, Pending, TypeOK
<1>7. CASE Restart
  BY <1>7 DEF Restart, Synced, disk
<1>8. CASE UNCHANGED vars
  BY <1>0, <1>8 DEF vars, maps, disk, Synced, Pending
<1>9. QED
  BY <1>1, <1>2, <1>3, <1>4, <1>5, <1>6, <1>7, <1>8 DEF Next, Save

LEMMA Inductive == Spec => []IInv
<1>1. Init => IInv
  BY InitIInv
<1>2. IInv /\ [Next]_vars => IInv'
  BY StepMaps, StepDescriptors, StepSynced DEF IInv
<1>3. QED BY <1>1, <1>2, PTL DEF Spec

-----------------------------------------------------------------------------
\* RegisterDevice removes the route to the address a device left and its mark; a
\* restart marks nothing connected.
LEMMA StepRotation ==
  ASSUME IInv, [Next]_vars, NEW d \in PeerDevice,
         deviceToHardware[d] # NoHardware,
         deviceToHardware'[d] \notin {deviceToHardware[d], NoHardware}
  PROVE  /\ hardwareToDevice'[deviceToHardware[d]] # d
         /\ deviceToHardware[d] \notin connectedDevices'
<1> USE IdentityAssumption DEF IInv, MapsInv, TypeOK, PeerHardware, PeerDevice
<1>1. ASSUME NEW h \in PeerHardware, NEW e \in PeerDevice, RegisterDevice(h, e)
      PROVE  e = d /\ connectedDevices' = RegisterConnected(h, e)
             /\ deviceToHardware'[d] = h
  BY <1>1 DEF RegisterDevice, RegisterDeviceToHardware
<1>2. ASSUME Restart
      PROVE  deviceToHardware[d] \notin connectedDevices'
  BY <1>2 DEF Restart
<1>3. ASSUME NEW h \in PeerHardware, NEW e \in PeerDevice, RegisterDevice(h, e)
      PROVE  deviceToHardware[d] \notin connectedDevices'
  BY <1>1, <1>3 DEF RegisterConnected
<1>4. ~UNCHANGED deviceToHardware
  OBVIOUS
<1>5. deviceToHardware[d] \notin connectedDevices'
  BY <1>2, <1>3, <1>4
     DEF Next, Save, SaveOnly, SaveOpen, SaveWrite, SaveRename, SaveRenameFails,
         MarkConnected, MarkDisconnected, maps, vars
<1>6. MapsInverse' /\ deviceToHardware[d] \in Hardware
  BY StepMaps
<1>7. QED BY <1>5, <1>6 DEF MapsInverse

-----------------------------------------------------------------------------
\* The state of the identity manager is always well typed.
THEOREM TypeCorrect == Spec => []TypeOK
<1>1. IInv => TypeOK
  BY DEF IInv, MapsInv
<1>2. QED BY <1>1, Inductive, PTL

\* hardwareToDevice and deviceToHardware are inverse to each other in every state
\* of RegisterDevice, LoadFromDisk and restarts in any order.
THEOREM MapsStayInverse == Spec => []MapsInverse
<1>1. IInv => MapsInverse
  BY DEF IInv, MapsInv
<1>2. QED BY <1>1, Inductive, PTL

\* The pair NewIdentityManager registers for ourselves is never taken away.
THEOREM OwnIdentityStays == Spec => []OwnIdentityKept
<1>1. IInv => OwnIdentityKept
  BY DEF IInv, MapsInv
<1>2. QED BY <1>1, Inductive, PTL

\* All that handleHandshakeProto relies on when it routes by the two maps.
THEOREM IdentityHolds == Spec => []IdentityInv
<1>1. IInv => IdentityInv
  BY DEF IInv, MapsInv, IdentityInv
<1>2. QED BY <1>1, Inductive, PTL

\* When no save is in flight the state file holds what the manager knows, although
\* saves overlap on one temporary path and some of them fail.
THEOREM DurableAtRest == Spec => []QuiescentDurable
<1>1. IInv => QuiescentDurable
  BY DEF IInv, QuiescentDurable, Quiescent, Synced, Pending
<1>2. QED BY <1>1, Inductive, PTL

\* A device seen at a new address is neither routed to nor marked reachable at the
\* old one.
THEOREM RotationIsClean == Spec => RotationDropsOldAddress
<1>1. IInv /\ [Next]_vars
      => [\A d \in PeerDevice :
            LET old == deviceToHardware[d] IN
            /\ old # NoHardware
            /\ deviceToHardware'[d] \notin {old, NoHardware}
            => /\ hardwareToDevice'[old] # d
               /\ old \notin connectedDevices']_vars
  BY StepRotation
<1>2. QED BY <1>1, Inductive, PTL DEF Spec, RotationDropsOldAddress

-----------------------------------------------------------------------------
\* The pairs of a map that holds one new mapping and none that conflicts with it.
LEMMA PairsLearned ==
  ASSUME MapsInv, NEW h \in PeerHardware, NEW d \in PeerDevice
  PROVE  PairsOf(RegisterHardwareToDevice(h, d))
           = {p \in PairsOf(hardwareToDevice) : p[1] # h /\ p[2] # d} \cup {<<h, d>>}
<1> USE IdentityAssumption DEF MapsInv, TypeOK, PeerHardware, PeerDevice
<1> DEFINE m == RegisterHardwareToDevice(h, d)
<1>1. ASSUME NEW x \in Hardware
      PROVE  m[x] = IF x = h THEN d
                    ELSE IF hardwareToDevice[x] = d THEN NoDevice
                    ELSE hardwareToDevice[x]
  <2>1. x = deviceToHardware[d] <=> hardwareToDevice[x] = d
    BY DEF MapsInverse
  <2>2. QED BY <2>1 DEF RegisterHardwareToDevice
<1>2. QED BY <1>1 DEF PairsOf

\* Saving is persisting: what a save writes is the matching less our own pair.
LEMMA PairsSaved ==
  ASSUME MapsInv
  PROVE  PairsOf(Snapshot) = PairsOf(hardwareToDevice) \ Matching!Self
BY IdentityAssumption
   DEF MapsInv, TypeOK, Mappings, OwnIdentityKept, PairsOf, Snapshot, Matching!Self

\* Loading adds our own pair to those of the file.
LEMMA PairsLoaded ==
  ASSUME NEW f \in FileContents, Loadable(f.mappings)
  PROVE  PairsOf(LoadedHardwareToDevice(f)) = Matching!Self \cup PairsOf(f.mappings)
<1>1. f.mappings \in Mappings
  BY DEF FileContents
<1>2. QED
  BY <1>1, IdentityAssumption
     DEF Loadable, Mappings, PairsOf, LoadedHardwareToDevice, Matching!Self

\* Every rename publishes the current snapshot or a file about to be completed.
LEMMA RenamedFile ==
  ASSUME MapsInv, DescriptorsInv, NEW h \in Hardware, SaveRename(h)
  PROVE  temp.mappings = Snapshot \/ temp.mappings = NoMappings
<1>1. temp.kind = "absent" => temp = Absent
  BY DEF DescriptorsInv, Absent, MapsInv, TypeOK, FileContents
<1>2. temp.kind # "absent" /\ ReadLocked
  BY <1>1 DEF SaveRename, ReadLocked
<1>3. QED
  BY <1>2 DEF DescriptorsInv, MapsInv, TypeOK, FileContents

LEMMA NoPairs == PairsOf(NoMappings) = {}
BY DEF PairsOf, NoMappings

LEMMA StepMatching ==
  MapsInv /\ DescriptorsInv /\ [Next]_vars => [Matching!Next]_(Matching!vars)
<1> SUFFICES ASSUME MapsInv, DescriptorsInv, [Next]_vars
             PROVE  [Matching!Next]_(Matching!vars)
  OBVIOUS
<1> DEFINE pairs == PairsOf(hardwareToDevice)
           saved == PairsOf(file.mappings)
<1>1. ASSUME NEW h \in PeerHardware, NEW d \in PeerDevice, RegisterDevice(h, d)
      PROVE  Matching!Next
  <2>1. hardwareToDevice' = RegisterHardwareToDevice(h, d) /\ file' = file
    BY <1>1 DEF RegisterDevice, disk
  <2>2. Matching!Learn(h, d)
    BY <2>1, PairsLearned DEF Matching!Learn
  <2>3. <<h, d>> \in Matching!Pairs /\ <<h, d>>[1] = h /\ <<h, d>>[2] = d
    BY DEF Matching!Pairs, PeerHardware, PeerDevice
  <2>4. QED BY <2>2, <2>3 DEF Matching!Next
<1>2. ASSUME NEW h \in Hardware, SaveWrite(h)
      PROVE  [Matching!Next]_(Matching!vars)
  <2>1. CASE fd[h] = "file"
    <3>1. hardwareToDevice' = hardwareToDevice /\ file'.mappings = Snapshot
      BY <1>2, <2>1 DEF SaveWrite, Whole, maps
    <3>2. Matching!Persist
      BY <3>1, PairsSaved DEF Matching!Persist
    <3>3. QED BY <3>2 DEF Matching!Next
  <2>2. CASE fd[h] # "file"
    BY <1>2, <2>2 DEF SaveWrite, maps, Matching!vars
  <2>3. QED BY <2>1, <2>2
<1>3. ASSUME NEW h \in Hardware, SaveRename(h)
      PROVE  Matching!Next
  <2>1. hardwareToDevice' = hardwareToDevice /\ file' = temp
    BY <1>3 DEF SaveRename, maps
  <2>2. CASE temp.mappings = Snapshot
    BY <2>1, <2>2, PairsSaved DEF Matching!Persist, Matching!Next
  <2>3. CASE temp.mappings = NoMappings
    BY <2>1, <2>3, NoPairs DEF Matching!Tear, Matching!Next
  <2>4. QED BY <1>3, <2>2, <2>3, RenamedFile
<1>4. CASE Restart
  <2>1. file' = file /\ hardwareToDevice' = LoadedHardwareToDevice(file)
    BY <1>4 DEF Restart, disk
  <2>2. file \in FileContents /\ Loadable(file.mappings)
    BY DEF MapsInv, TypeOK, FilesLoadable
  <2>3. Matching!Restart
    BY <2>1, <2>2, PairsLoaded DEF Matching!Restart
  <2>4. QED BY <2>3 DEF Matching!Next
<1>5. ASSUME NEW h \in Hardware,
             \/ MarkConnected(h) \/ MarkDisconnected(h) \/ SaveOnly(h)
             \/ SaveOpen(h) \/ SaveRenameFails(h)
      PROVE  UNCHANGED Matching!vars
  BY <1>5 DEF MarkConnected, MarkDisconnected, SaveOnly, SaveOpen, SaveRenameFails,
              maps, disk, Matching!vars
<1>6. CASE UNCHANGED vars
  BY <1>6 DEF vars, maps, disk, Matching!vars
<1>7. QED
  BY <1>1, <1>2, <1>3, <1>4, <1>5, <1>6 DEF Next, Save, PeerHardware

\* The two hash maps and the state file implement the matching: every operation is
\* one of learning a pair, persisting, tearing the file, restarting, or invisible.
THEOREM Implements == Spec => ImplementsMatching
<1>1. Init => Matching!Init
  <2> SUFFICES ASSUME Init PROVE Matching!Init
    OBVIOUS
  <2>1. Absent \in FileContents /\ Loadable(Absent.mappings)
        /\ Absent.mappings = NoMappings
    BY NoMappingsLoadable DEF Absent, FileContents
  <2>2. QED
    BY <2>1, PairsLoaded, NoPairs DEF Init, Matching!Init
<1>2. IInv /\ [Next]_vars => [Matching!Next]_(Matching!vars)
  BY StepMatching DEF IInv
<1>3. QED
  BY <1>1, <1>2, Inductive, PTL DEF Spec, ImplementsMatching, Matching!Spec
=============================================================================
