---------------------------- MODULE AttributeTable ----------------------------
(* The attribute table of a GATT server and what a client makes of it:       *)
(* building the table from the services, the three discovery searches, the   *)
(* client's cache, and the translations between handles and UUIDs            *)
(* (wire/gatt/handles.go, service_builder.go, discovery.go, wire_utils.go).  *)
(* A table is the sequence of its attributes; the handle is the position.  A *)
(* service is [uuid, primary, characteristics], a characteristic             *)
(* [uuid, notify]; UUIDs are model values, and the byte layout of responses  *)
(* is left out.                                                              *)
EXTENDS Naturals, Sequences, SequencesExt

CONSTANTS UUID, NoUUID

\* The end of the range a client asks about, 0xFFFF.
LastHandle == 65535

ServiceTypes == {"primary", "secondary"}
AttributeTypes == ServiceTypes \cup {"declaration", "cccd"}

ASSUME TableAssumption == NoUUID \notin UUID /\ UUID \cap AttributeTypes = {}

\* AddAttribute: the next handle is one past the last.
AddAttribute(table, type, value) == Append(table, [type |-> type, value |-> value])

Configuration == [type |-> "cccd", value |-> NoUUID]

\* What the platforms' buildAttributeDatabase passes with a characteristic: a
\* notifiable one has a configuration descriptor.
Descriptors(char) == IF char.notify THEN <<Configuration>> ELSE <<>>

\* Faulty: the descriptor precedes the value, as though handles were counted from it.
BuildCharacteristicDescriptorFirst(table, char) ==
    LET declared == AddAttribute(table, "declaration",
                                 [uuid |-> char.uuid, notify |-> char.notify,
                                  handle |-> Len(table) + 2])
        own == IF char.notify THEN <<Configuration>> ELSE <<>>
    IN AddAttribute(declared \o own, char.uuid, NoUUID) \o Descriptors(char)

\* buildCharacteristic: declaration, value, a configuration descriptor of its own,
\* and the descriptors passed, so that a notifiable characteristic has two.
BuildCharacteristic(table, char) ==
    LET declared == AddAttribute(table, "declaration",
                                 [uuid |-> char.uuid, notify |-> char.notify,
                                  handle |-> Len(table) + 2])
        own == IF char.notify THEN <<Configuration>> ELSE <<>>
    IN AddAttribute(declared, char.uuid, NoUUID) \o own \o Descriptors(char)

\* The loop over the characteristics of a service: the table after each of them.
ServiceStages(table, service) ==
    LET built[k \in 0..Len(service.characteristics)] ==
            IF k = 0
            THEN AddAttribute(table, IF service.primary THEN "primary" ELSE "secondary", service.uuid)
            ELSE BuildCharacteristic(built[k - 1], service.characteristics[k])
    IN built

BuildService(table, service) == ServiceStages(table, service)[Len(service.characteristics)]

\* buildAttributeDatabase: the table after each number of services.
BuildAttributeDatabase(services) ==
    LET built[n \in 0..Len(services)] ==
            IF n = 0 THEN <<>> ELSE BuildService(built[n - 1], services[n])
    IN built

------------------------------------------------------------------------------
(* What the server finds for a client *)

FindAttributesByType(table, first, last, type) ==
    LET found[h \in 0..Len(table)] ==
            IF h = 0 THEN <<>>
            ELSE IF first <= h /\ h <= last /\ table[h].type = type THEN Append(found[h - 1], h)
            ELSE found[h - 1]
    IN found[Len(table)]

\* A service ends before the next primary service; the last one ends where the range does.
DiscoverServices(table, first, last) ==
    LET starts == FindAttributesByType(table, first, last, "primary")
    IN [i \in DOMAIN starts |->
           [uuid |-> table[starts[i]].value,
            start |-> starts[i],
            end |-> IF i < Len(starts) THEN starts[i + 1] - 1 ELSE last]]

DiscoverCharacteristics(table, first, last) ==
    LET declarations == FindAttributesByType(table, first, last, "declaration")
    IN [i \in DOMAIN declarations |->
           [uuid |-> table[declarations[i]].value.uuid,
            notify |-> table[declarations[i]].value.notify,
            handle |-> table[declarations[i]].value.handle,
            declaration |-> declarations[i]]]

\* handleToUUIDs: the attribute's type, and the nearest service at or before it.
HandleToUUIDs(table, handle) ==
    LET services == {h \in DOMAIN table : h <= handle /\ table[h].type \in ServiceTypes}
    IN IF handle \in DOMAIN table /\ services # {}
       THEN [char |-> table[handle].type,
             service |-> table[CHOOSE h \in services : \A g \in services : g <= h].value]
       ELSE [char |-> NoUUID, service |-> NoUUID]

\* localUUIDToHandle: the first attribute of that type.  Without one the loop of the
\* code never ends, which no caller reaches.
LocalUUIDToHandle(table, uuid) ==
    CHOOSE h \in DOMAIN table : /\ table[h].type = uuid
                                /\ \A g \in DOMAIN table : table[g].type = uuid => h <= g

------------------------------------------------------------------------------
(* The client's cache of one connection *)

EmptyCache == [services |-> <<>>, chars |-> {}, handles |-> [u \in {} |-> 0]]

AddServices(cache, found) == [cache EXCEPT !.services = @ \o found]

\* AddCharacteristic: CharHandleMap is keyed by the UUID alone.
AddCharacteristic(cache, start, char) ==
    [cache EXCEPT
        !.chars = @ \cup {[service |-> start, uuid |-> char.uuid, notify |-> char.notify]},
        !.handles = [u \in DOMAIN @ \cup {char.uuid} |->
                        IF u = char.uuid THEN char.handle ELSE @[u]]]

\* A response goes to the first service that holds its first declaration.
AddCharacteristics(cache, found) ==
    LET holders == {i \in DOMAIN cache.services :
                       /\ found # <<>>
                       /\ cache.services[i].start <= found[1].declaration
                       /\ found[1].declaration <= cache.services[i].end}
    IN IF holders = {} THEN cache
       ELSE LET first == CHOOSE i \in holders : \A j \in holders : i <= j
                start == cache.services[first].start
                added[k \in 0..Len(found)] ==
                    IF k = 0 THEN cache ELSE AddCharacteristic(added[k - 1], start, found[k])
            IN added[Len(found)]
=============================================================================
