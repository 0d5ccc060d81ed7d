--------------------------- MODULE GattLinkProofs ---------------------------
(***************************************************************************)
(* The attribute table of any list of services, and the link for any       *)
(* number of centrals, layouts and losses: what discovery caches, what the *)
(* manager lists and what a notification is delivered as.                  *)
(***************************************************************************)
EXTENDS GattLink, FiniteSetTheorems, SequenceTheorems, WellFoundedInduction, TLAPS

\* The order of the naturals, as a set of pairs.
Below == {ss \in Nat \X Nat : ss[1] < ss[2]}

\* A set of naturals has a least element.
LEMMA LeastOf == ASSUME NEW T, T \subseteq Nat, T # {}
  PROVE \E x \in T : \A y \in T : x <= y
<1>1. IsWellFoundedOn(Below, Nat)
  BY NatLessThanWellFounded DEF OpToRel, Below
<1>2. \E x \in T : \A y \in T : ~(<<y, x>> \in Below)
  BY <1>1, WFMin
<1>3. \A x, y \in T : ~(<<y, x>> \in Below) => x <= y
  BY DEF Below
<1> QED  BY <1>2, <1>3

\* What holds at 0 and passes from each number to the next holds up to N.
LEMMA UpTo == ASSUME NEW N \in Nat, NEW T, 0 \in T, \A n \in 0..N : n \in T /\ n < N => n + 1 \in T
  PROVE 0..N \subseteq T
<1> SUFFICES ASSUME (0..N) \ T # {} PROVE FALSE
  OBVIOUS
<1>1. PICK x \in (0..N) \ T : \A y \in (0..N) \ T : x <= y
  <2>1. (0..N) \ T \subseteq Nat
    OBVIOUS
  <2> QED  BY <2>1, LeastOf
<1>2. x # 0 /\ x - 1 \in 0..N /\ x - 1 < N /\ x - 1 + 1 = x
  OBVIOUS
<1>3. x - 1 \in T
  BY <1>1, <1>2
<1> QED  BY <1>2, <1>3

\* N steps, each of which leads from one set of a family to the next.
Leads(N, V, S, base, step) ==
  /\ N \in Nat /\ \A n \in 0..N : S[n] \subseteq V
  /\ base \in S[0]
  /\ \A n \in 1..N : \A x \in S[n - 1] : step[n][x] \in S[n]

\* What they make of the base, one after another.
Chained(f, N, V, S, base, step) ==
  /\ f \in [0..N -> V] /\ f[0] = base
  /\ \A n \in 1..N : f[n] = step[n][f[n - 1]]
  /\ \A n \in 0..N : f[n] \in S[n]

LEMMA Chain ==
  \A N, V, S, base, step : Leads(N, V, S, base, step) => \E f : Chained(f, N, V, S, base, step)
<1> SUFFICES ASSUME NEW N, NEW V, NEW S, NEW base, NEW step, Leads(N, V, S, base, step)
    PROVE \E f : Chained(f, N, V, S, base, step)
  OBVIOUS
<1> USE DEF Leads
<1> DEFINE Is(f, m) == /\ f \in [0..m -> V]
                       /\ f[0] = base
                       /\ \A n \in 1..m : f[n] = step[n][f[n - 1]]
                       /\ \A n \in 0..m : f[n] \in S[n]
           T == {m \in 0..N : \E f : Is(f, m)}
<1>1. 0 \in T
  <2> DEFINE f == [k \in 0..0 |-> base]
  <2>1. \A k \in 0..0 : k = 0
    OBVIOUS
  <2>2. Is(f, 0)
    BY <2>1
  <2>3. \E h : Is(h, 0)
    <3> HIDE DEF Is, f
    <3> QED  BY <2>2
  <2> HIDE DEF Is
  <2> QED  BY <2>3
<1>2. ASSUME NEW n \in 0..N, n \in T, n < N PROVE n + 1 \in T
  <2>1. PICK f : Is(f, n)
    BY <1>2
  <2> DEFINE g == [k \in 0..(n + 1) |-> IF k \in 0..n THEN f[k] ELSE step[n + 1][f[n]]]
  <2>2. \A k \in 0..n : g[k] = f[k]
    BY <1>2
  <2>3. g[n + 1] = step[n + 1][f[n]]
    BY <1>2
  <2>4. n + 1 \in 1..N /\ (n + 1) - 1 = n /\ n \in 0..n /\ 0 \in 0..n
    BY <1>2
  <2>5. \A k \in 0..n : f[k] \in S[k]
    BY <2>1
  <2>6. step[n + 1][f[n]] \in S[n + 1]
    BY <2>4, <2>5
  <2>7. \A k \in 0..(n + 1) : g[k] \in S[k]
    <3> HIDE DEF g
    <3> QED  BY <2>2, <2>3, <2>5, <2>6
  <2>8. \A k \in 0..(n + 1) : g[k] \in V
    <3> HIDE DEF g
    <3> QED  BY <1>2, <2>7
  <2>9. g \in [0..(n + 1) -> V]
    BY <2>8
  <2>10. g[0] = base
    <3> HIDE DEF g
    <3> QED  BY <2>1, <2>2, <2>4
  <2>11. \A k \in 1..(n + 1) : g[k] = step[k][g[k - 1]]
    <3> HIDE DEF g
    <3> TAKE k \in 1..(n + 1)
    <3>1. CASE k \in 1..n
      <4>1. k \in 0..n /\ k - 1 \in 0..n
        BY <3>1
      <4>2. f[k] = step[k][f[k - 1]]
        BY <2>1, <3>1
      <4> QED  BY <2>2, <4>1, <4>2
    <3>2. CASE k = n + 1
      BY <2>2, <2>3, <2>4, <3>2
    <3> QED  BY <3>1, <3>2, <1>2
  <2>12. Is(g, n + 1)
    <3> HIDE DEF g
    <3> QED  BY <2>7, <2>9, <2>10, <2>11
  <2>13. \E h : Is(h, n + 1)
    <3> HIDE DEF Is, g
    <3> QED  BY <2>12
  <2>14. n + 1 \in 0..N
    BY <1>2
  <2> HIDE DEF Is
  <2> QED  BY <2>13, <2>14
<1>3. N \in T
  <2> HIDE DEF T
  <2>1. 0..N \subseteq T
    BY <1>1, <1>2, UpTo
  <2> QED  BY <2>1
<1> QED  BY <1>3 DEF Chained

-----------------------------------------------------------------------------
(* The table *)

Characteristic == [uuid : UUID, notify : BOOLEAN]
ServiceRecord == [uuid : UUID, primary : BOOLEAN, characteristics : Seq(Characteristic)]

Attribute ==
  [type : ServiceTypes, value : UUID]
    \cup [type : {"declaration"}, value : [uuid : UUID, notify : BOOLEAN, handle : Nat]]
    \cup [type : UUID \cup {"cccd"}, value : {NoUUID}]

Extends(t, t0) == Len(t0) <= Len(t) /\ \A h \in 1..Len(t0) : t[h] = t0[h]

\* Attribute s is the header of the service that h belongs to.
Heads(t, s, h) ==
  /\ h \in DOMAIN t /\ s \in 1..h
  /\ t[s].type \in ServiceTypes
  /\ \A g \in (s + 1)..h : t[g].type \notin ServiceTypes

\* The declaration at h is of a characteristic of the service, whose value follows.
DeclarationFits(t, service, h) ==
  /\ t[h].value.uuid \in UUIDsOf(<<service>>)
  /\ t[h].value.handle = h + 1 /\ h + 1 \in DOMAIN t
  /\ t[h + 1].type = t[h].value.uuid

\* The table t0 with the header of a service and its first k characteristics.
ServiceStage(t0, service, k) ==
  {t \in Seq(Attribute) :
     /\ Extends(t, t0) /\ Len(t0) < Len(t)
     /\ t[Len(t0) + 1].type \in ServiceTypes /\ t[Len(t0) + 1].value = service.uuid
     /\ \A h \in (Len(t0) + 2)..Len(t) :
           /\ t[h].type \notin ServiceTypes
           /\ t[h].type = "declaration" => DeclarationFits(t, service, h)
     /\ \A j \in 1..k : \E h \in DOMAIN t : t[h].type = service.characteristics[j].uuid}

\* What a table of the first n services of a layout looks like.
GoodTable(services, n) ==
  {t \in Seq(Attribute) :
     /\ Len(t) > 0 => t[1].type \in ServiceTypes
     /\ \A h \in DOMAIN t : t[h].type = "declaration" =>
           \E i \in 1..n : /\ DeclarationFits(t, services[i], h)
                           /\ \E s \in DOMAIN t : Heads(t, s, h + 1) /\ t[s].value = services[i].uuid
     /\ \A i \in 1..n : \A u \in UUIDsOf(<<services[i]>>) : \E h \in DOMAIN t : t[h].type = u}

\* The UUIDs of a service are those of its characteristics.
LEMMA UUIDsOfOne ==
  \A service : UUIDsOf(<<service>>) = {x.uuid : x \in Range(service.characteristics)}
<1> TAKE service
<1>1. CharsOf(<<service>>) = UNION {Range(service.characteristics)}
  <2>1. {Range(<<service>>[i].characteristics) : i \in DOMAIN <<service>>}
          = {Range(service.characteristics)}
    OBVIOUS
  <2> QED  BY <2>1 DEF CharsOf
<1> QED  BY <1>1 DEF UUIDsOf

LEMMA UUIDsOfService ==
  ASSUME NEW service \in ServiceRecord
  PROVE /\ UUIDsOf(<<service>>) \subseteq UUID
        /\ \A j \in 1..Len(service.characteristics) :
              service.characteristics[j].uuid \in UUIDsOf(<<service>>)
        /\ \A u \in UUIDsOf(<<service>>) : \E j \in 1..Len(service.characteristics) :
              service.characteristics[j].uuid = u
<1>1. service.characteristics \in Seq(Characteristic)
  BY DEF ServiceRecord
<1>2. Range(service.characteristics)
        = {service.characteristics[j] : j \in 1..Len(service.characteristics)}
  BY <1>1 DEF Range
<1>3. \A j \in 1..Len(service.characteristics) : service.characteristics[j].uuid \in UUID
  <2>1. \A j \in 1..Len(service.characteristics) : service.characteristics[j] \in Characteristic
    BY <1>1, ElementOfSeq
  <2> QED  BY <2>1 DEF Characteristic
<1>4. UUIDsOf(<<service>>) = {service.characteristics[j].uuid : j \in 1..Len(service.characteristics)}
  <2>1. UUIDsOf(<<service>>) = {x.uuid : x \in Range(service.characteristics)}
    BY UUIDsOfOne
  <2> HIDE DEF Range
  <2> QED  BY <2>1, <1>2
<1>5. UUIDsOf(<<service>>) \subseteq UUID
  BY <1>3, <1>4
<1>6. \A j \in 1..Len(service.characteristics) :
         service.characteristics[j].uuid \in UUIDsOf(<<service>>)
  BY <1>4
<1>7. \A u \in UUIDsOf(<<service>>) : \E j \in 1..Len(service.characteristics) :
         service.characteristics[j].uuid = u
  BY <1>4
<1> QED  BY <1>5, <1>6, <1>7

\* The elements of two sequences joined.
LEMMA Joined ==
  ASSUME NEW S, NEW s \in Seq(S), NEW t \in Seq(S)
  PROVE /\ s \o t \in Seq(S) /\ Len(s \o t) = Len(s) + Len(t)
        /\ \A h \in 1..Len(s) : (s \o t)[h] = s[h]
        /\ \A h \in (Len(s) + 1)..(Len(s) + Len(t)) : (s \o t)[h] = t[h - Len(s)]
BY ConcatProperties

\* buildCharacteristic appends the declaration, the value and descriptors.
LEMMA CharacteristicAppended ==
  ASSUME NEW t \in Seq(Attribute), NEW char \in Characteristic,
         NEW r, r = BuildCharacteristic(t, char)
  PROVE /\ r \in Seq(Attribute) /\ Len(t) + 2 <= Len(r)
        /\ \A h \in 1..Len(t) : r[h] = t[h]
        /\ r[Len(t) + 1].type = "declaration"
        /\ r[Len(t) + 1].value.uuid = char.uuid /\ r[Len(t) + 1].value.handle = Len(t) + 2
        /\ r[Len(t) + 2].type = char.uuid
        /\ \A h \in (Len(t) + 3)..Len(r) : r[h].type = "cccd"
<1> DEFINE dec == [uuid |-> char.uuid, notify |-> char.notify, handle |-> Len(t) + 2]
           a == [type |-> "declaration", value |-> dec]
           b == [type |-> char.uuid, value |-> NoUUID]
           d == IF char.notify THEN <<Configuration>> ELSE <<>>
           t2 == Append(Append(t, a), b)
<1>1. r = t2 \o d \o d
  BY DEF BuildCharacteristic, AddAttribute, Descriptors
<1>2. a \in Attribute /\ b \in Attribute /\ Configuration \in Attribute
  BY DEF Attribute, Characteristic, Configuration
<1>3. a.type = "declaration" /\ a.value.uuid = char.uuid /\ a.value.handle = Len(t) + 2
      /\ b.type = char.uuid /\ Configuration.type = "cccd"
  BY DEF Configuration
<1> HIDE DEF a, b
<1>4. /\ t2 \in Seq(Attribute) /\ Len(t2) = Len(t) + 2
      /\ \A h \in 1..Len(t) : t2[h] = t[h]
      /\ t2[Len(t) + 1] = a /\ t2[Len(t) + 2] = b
  BY <1>2
<1>5. d \in Seq(Attribute) /\ \A k \in 1..Len(d) : d[k].type = "cccd"
  BY <1>2, <1>3
<1> HIDE DEF t2, d
<1>6. /\ t2 \o d \in Seq(Attribute) /\ Len(t2 \o d) = Len(t2) + Len(d)
      /\ \A h \in 1..Len(t2) : (t2 \o d)[h] = t2[h]
      /\ \A h \in (Len(t2) + 1)..(Len(t2) + Len(d)) : (t2 \o d)[h] = d[h - Len(t2)]
  BY <1>4, <1>5, Joined
<1> DEFINE t3 == t2 \o d
<1>7. \A h \in (Len(t2) + 1)..Len(t3) : t3[h].type = "cccd"
  <2> TAKE h \in (Len(t2) + 1)..Len(t3)
  <2>1. h - Len(t2) \in 1..Len(d)
    BY <1>4, <1>5, <1>6
  <2> QED  BY <1>5, <1>6, <2>1
<1> HIDE DEF t3
<1>8. /\ t3 \o d \in Seq(Attribute) /\ Len(t3 \o d) = Len(t3) + Len(d)
      /\ \A h \in 1..Len(t3) : (t3 \o d)[h] = t3[h]
      /\ \A h \in (Len(t3) + 1)..(Len(t3) + Len(d)) : (t3 \o d)[h] = d[h - Len(t3)]
  <2>1. t3 \in Seq(Attribute)
    BY <1>6 DEF t3
  <2> QED  BY <2>1, <1>5, Joined
<1>9. r = t3 \o d
  BY <1>1 DEF t3
<1>10. Len(t3) = Len(t) + 2 + Len(d) /\ Len(d) \in Nat /\ Len(r) = Len(t3) + Len(d)
  BY <1>4, <1>5, <1>6, <1>8, <1>9 DEF t3
<1>11. \A h \in 1..(Len(t) + 2) : r[h] = t2[h]
  BY <1>4, <1>6, <1>8, <1>9, <1>10 DEF t3
<1>12. \A h \in (Len(t) + 3)..Len(r) : r[h].type = "cccd"
  <2> TAKE h \in (Len(t) + 3)..Len(r)
  <2>1. CASE h <= Len(t3)
    BY <2>1, <1>4, <1>7, <1>8, <1>9, <1>10
  <2>2. CASE h > Len(t3)
    <3>1. h - Len(t3) \in 1..Len(d)
      BY <2>2, <1>10
    <3> QED  BY <2>2, <3>1, <1>5, <1>8, <1>9, <1>10
  <2> QED  BY <2>1, <2>2, <1>10
<1>13. Len(t) \in Nat /\ Len(t) + 1 \in 1..(Len(t) + 2) /\ Len(t) + 2 \in 1..(Len(t) + 2)
       /\ \A h \in 1..Len(t) : h \in 1..(Len(t) + 2)
  OBVIOUS
<1>14. /\ \A h \in 1..Len(t) : r[h] = t[h]
       /\ r[Len(t) + 1] = a /\ r[Len(t) + 2] = b
  BY <1>4, <1>11, <1>13
<1>15. r \in Seq(Attribute) /\ Len(t) + 2 <= Len(r)
  BY <1>8, <1>9, <1>10, <1>13
<1> QED  BY <1>3, <1>12, <1>14, <1>15

\* The header of a service starts its part of the table.
LEMMA HeaderAdded ==
  ASSUME NEW service \in ServiceRecord, NEW t0 \in Seq(Attribute)
  PROVE AddAttribute(t0, IF service.primary THEN "primary" ELSE "secondary", service.uuid)
          \in ServiceStage(t0, service, 0)
<1> DEFINE type == IF service.primary THEN "primary" ELSE "secondary"
           a == [type |-> type, value |-> service.uuid]
           t == Append(t0, a)
<1>1. a \in Attribute /\ a.type \in ServiceTypes /\ a.value = service.uuid
  BY DEF Attribute, ServiceRecord, ServiceTypes
<1> HIDE DEF a
<1>2. /\ t \in Seq(Attribute) /\ Len(t) = Len(t0) + 1 /\ Len(t0) \in Nat
      /\ \A h \in 1..Len(t0) : t[h] = t0[h]
      /\ t[Len(t0) + 1] = a
  BY <1>1
<1> HIDE DEF t
<1>3. t \in ServiceStage(t0, service, 0)
  BY <1>1, <1>2 DEF ServiceStage, Extends
<1> QED  BY <1>3 DEF AddAttribute, t, a

\* Each characteristic of the service goes on with it.
LEMMA CharacteristicStage ==
  ASSUME NEW service \in ServiceRecord, NEW t0 \in Seq(Attribute),
         NEW k \in 1..Len(service.characteristics), NEW t \in ServiceStage(t0, service, k - 1)
  PROVE BuildCharacteristic(t, service.characteristics[k]) \in ServiceStage(t0, service, k)
<1> DEFINE char == service.characteristics[k]
           r == BuildCharacteristic(t, char)
<1>1. char \in Characteristic /\ char.uuid \in UUIDsOf(<<service>>) /\ char.uuid \in UUID
  <2>1. service.characteristics \in Seq(Characteristic)
    BY DEF ServiceRecord
  <2> QED  BY <2>1, ElementOfSeq, UUIDsOfService
<1>2. t \in Seq(Attribute) /\ Len(t) \in Nat /\ Len(t0) \in Nat
  BY DEF ServiceStage
<1> HIDE DEF char, r
<1>3. /\ r \in Seq(Attribute) /\ Len(t) + 2 <= Len(r)
      /\ \A h \in 1..Len(t) : r[h] = t[h]
      /\ r[Len(t) + 1].type = "declaration"
      /\ r[Len(t) + 1].value.uuid = char.uuid /\ r[Len(t) + 1].value.handle = Len(t) + 2
      /\ r[Len(t) + 2].type = char.uuid
      /\ \A h \in (Len(t) + 3)..Len(r) : r[h].type = "cccd"
  BY <1>1, <1>2, CharacteristicAppended DEF r
<1>4. Len(r) \in Nat /\ DOMAIN r = 1..Len(r) /\ DOMAIN t = 1..Len(t)
  BY <1>2, <1>3
<1>5. /\ Extends(t, t0) /\ Len(t0) < Len(t)
      /\ t[Len(t0) + 1].type \in ServiceTypes /\ t[Len(t0) + 1].value = service.uuid
  BY DEF ServiceStage
<1>6. Extends(r, t0) /\ Len(t0) < Len(r)
  BY <1>2, <1>3, <1>4, <1>5 DEF Extends
<1>7. r[Len(t0) + 1].type \in ServiceTypes /\ r[Len(t0) + 1].value = service.uuid
  <2>1. Len(t0) + 1 \in 1..Len(t)
    BY <1>2, <1>5
  <2> QED  BY <1>3, <1>5, <2>1
<1>8. ASSUME NEW h \in (Len(t0) + 2)..Len(r)
      PROVE /\ r[h].type \notin ServiceTypes
            /\ r[h].type = "declaration" => DeclarationFits(r, service, h)
  <2>1. CASE h <= Len(t)
    <3>1. h \in (Len(t0) + 2)..Len(t) /\ h \in 1..Len(t) /\ r[h] = t[h]
      BY <2>1, <1>2, <1>3
    <3>2. /\ t[h].type \notin ServiceTypes
          /\ t[h].type = "declaration" => DeclarationFits(t, service, h)
      BY <3>1 DEF ServiceStage
    <3>3. ASSUME DeclarationFits(t, service, h) PROVE DeclarationFits(r, service, h)
      <4>1. h + 1 \in 1..Len(t) /\ h + 1 \in 1..Len(r)
        BY <3>3, <1>2, <1>3, <1>4 DEF DeclarationFits
      <4> QED  BY <3>1, <3>3, <4>1, <1>3, <1>4 DEF DeclarationFits
    <3> QED  BY <3>1, <3>2, <3>3
  <2>2. CASE h = Len(t) + 1
    <3>1. h + 1 = Len(t) + 2 /\ h + 1 \in 1..Len(r)
      BY <2>2, <1>2, <1>3, <1>4
    <3> QED  BY <2>2, <3>1, <1>1, <1>3, <1>4 DEF DeclarationFits, ServiceTypes
  <2>3. CASE h = Len(t) + 2
    <3>1. char.uuid \notin AttributeTypes
      BY <1>1, TableAssumption
    <3> QED  BY <2>3, <3>1, <1>3 DEF AttributeTypes
  <2>4. CASE h \in (Len(t) + 3)..Len(r)
    BY <2>4, <1>3 DEF ServiceTypes
  <2> QED  BY <2>1, <2>2, <2>3, <2>4, <1>2, <1>4
<1>9. ASSUME NEW j \in 1..k
      PROVE \E h \in DOMAIN r : r[h].type = service.characteristics[j].uuid
  <2>1. CASE j = k
    BY <2>1, <1>2, <1>3, <1>4 DEF char
  <2>2. CASE j # k
    <3>1. j \in 1..(k - 1)
      BY <2>2
    <3>2. PICK h \in DOMAIN t : t[h].type = service.characteristics[j].uuid
      BY <3>1 DEF ServiceStage
    <3>3. h \in 1..Len(t) /\ h \in 1..Len(r)
      BY <1>2, <1>3, <1>4
    <3> QED  BY <3>2, <3>3, <1>3, <1>4
  <2> QED  BY <2>1, <2>2
<1>10. r \in ServiceStage(t0, service, k)
  BY <1>3, <1>6, <1>7, <1>8, <1>9 DEF ServiceStage
<1> QED  BY <1>10 DEF r, char

\* What the loop over the characteristics of a service has built after each of them.
LEMMA ServiceStagesAre ==
  ASSUME NEW service \in ServiceRecord, NEW t0 \in Seq(Attribute)
  PROVE \A k \in 0..Len(service.characteristics) :
           ServiceStages(t0, service)[k] \in ServiceStage(t0, service, k)
<1> DEFINE N == Len(service.characteristics)
           base == AddAttribute(t0, IF service.primary THEN "primary" ELSE "secondary", service.uuid)
           S == [k \in 0..N |-> ServiceStage(t0, service, k)]
           step == [k \in 1..N |-> [t \in Seq(Attribute) |->
                                      BuildCharacteristic(t, service.characteristics[k])]]
           g == ServiceStages(t0, service)
           Value(f, k) == IF k = 0 THEN base
                          ELSE BuildCharacteristic(f[k - 1], service.characteristics[k])
<1>1. N \in Nat
  BY DEF ServiceRecord
<1>2. \A k \in 0..N : S[k] = ServiceStage(t0, service, k) /\ S[k] \subseteq Seq(Attribute)
  BY DEF ServiceStage
<1>3. base \in S[0]
  BY <1>1, <1>2, HeaderAdded
<1>4. \A k \in 1..N : \A t \in S[k - 1] : BuildCharacteristic(t, service.characteristics[k]) \in S[k]
  <2> TAKE k \in 1..N
  <2> TAKE t \in S[k - 1]
  <2>1. k - 1 \in 0..N /\ k \in 0..N
    BY <1>1
  <2>2. t \in ServiceStage(t0, service, k - 1)
    BY <2>1, <1>2
  <2> QED  BY <2>1, <2>2, <1>2, CharacteristicStage
<1>5. \A k \in 1..N : \A t \in S[k - 1] :
         step[k][t] = BuildCharacteristic(t, service.characteristics[k])
  <2> TAKE k \in 1..N
  <2> TAKE t \in S[k - 1]
  <2>1. k - 1 \in 0..N
    BY <1>1
  <2>2. t \in Seq(Attribute)
    BY <2>1, <1>2
  <2> QED  BY <2>2
<1> HIDE DEF N, S, base, step
<1>6. PICK f : Chained(f, N, Seq(Attribute), S, base, step)
  <2>1. \A k \in 1..N : \A t \in S[k - 1] : step[k][t] \in S[k]
    BY <1>4, <1>5
  <2>2. \A k \in 0..N : S[k] \subseteq Seq(Attribute)
    BY <1>2
  <2>3. Leads(N, Seq(Attribute), S, base, step)
    BY <1>1, <1>3, <2>1, <2>2 DEF Leads
  <2> QED  BY <2>3, Chain
<1>7. f = [k \in 0..N |-> Value(f, k)]
  <2>1. ASSUME NEW k \in 0..N, k # 0
        PROVE f[k] = BuildCharacteristic(f[k - 1], service.characteristics[k])
    <3>1. k \in 1..N /\ k - 1 \in 0..N
      BY <2>1, <1>1
    <3> QED  BY <3>1, <1>5, <1>6 DEF Chained
  <2>2. \A k \in 0..N : f[k] = Value(f, k)
    BY <2>1, <1>6 DEF Chained
  <2>3. f \in [0..N -> Seq(Attribute)]
    BY <1>6 DEF Chained
  <2> HIDE DEF Value
  <2> QED  BY <2>2, <2>3
<1>8. g = CHOOSE h : h = [k \in 0..N |-> Value(h, k)]
  BY DEF ServiceStages, N, base
<1>9. g = [k \in 0..N |-> Value(g, k)]
  <2> HIDE DEF g, Value
  <2> QED  BY <1>7, <1>8
<1>10. \A k \in 0..N : g[k] = Value(g, k)
  <2> HIDE DEF g, Value
  <2> QED  BY <1>9
<1> HIDE DEF g
<1> DEFINE T == {k \in 0..N : g[k] \in S[k]}
<1>11. 0 \in T
  BY <1>1, <1>3, <1>10
<1>12. \A k \in 0..N : k \in T /\ k < N => k + 1 \in T
  <2> SUFFICES ASSUME NEW k \in T, k < N PROVE k + 1 \in T
    OBVIOUS
  <2>1. k + 1 \in 1..N /\ k + 1 \in 0..N /\ (k + 1) - 1 = k /\ k + 1 # 0
    BY <1>1
  <2>2. g[k + 1] = BuildCharacteristic(g[k], service.characteristics[k + 1])
    BY <2>1, <1>10
  <2> QED  BY <2>1, <2>2, <1>4
<1>13. 0..N \subseteq T
  <2> HIDE DEF T
  <2> QED  BY <1>1, <1>11, <1>12, UpTo
<1> QED  BY <1>2, <1>13 DEF N, g

LEMMA ServiceBuilt ==
  ASSUME NEW service \in ServiceRecord, NEW t0 \in Seq(Attribute)
  PROVE BuildService(t0, service) \in ServiceStage(t0, service, Len(service.characteristics))
<1>1. Len(service.characteristics) \in 0..Len(service.characteristics)
  BY DEF ServiceRecord
<1> QED  BY <1>1, ServiceStagesAre DEF BuildService

\* A longer table agrees about the attributes of the shorter one.
LEMMA ExtendsKeeps ==
  ASSUME NEW t \in Seq(Attribute), NEW r \in Seq(Attribute), Extends(r, t)
  PROVE /\ \A h \in DOMAIN t : h \in DOMAIN r /\ r[h] = t[h]
        /\ \A s, h : Heads(t, s, h) => Heads(r, s, h) /\ r[s] = t[s]
        /\ \A service : \A h \in DOMAIN t : DeclarationFits(t, service, h) => DeclarationFits(r, service, h)
<1>1. DOMAIN t = 1..Len(t) /\ DOMAIN r = 1..Len(r) /\ Len(t) \in Nat /\ Len(r) \in Nat
  OBVIOUS
<1>2. \A h \in DOMAIN t : h \in DOMAIN r /\ r[h] = t[h]
  BY <1>1 DEF Extends
<1>3. ASSUME NEW s, NEW h, Heads(t, s, h) PROVE Heads(r, s, h) /\ r[s] = t[s]
  <2>1. h \in DOMAIN t /\ s \in 1..h /\ \A g \in (s + 1)..h : t[g].type \notin ServiceTypes
    BY <1>3 DEF Heads
  <2>2. s \in DOMAIN t /\ \A g \in (s + 1)..h : g \in DOMAIN t
    BY <1>1, <2>1
  <2> QED  BY <1>2, <1>3, <2>1, <2>2 DEF Heads
<1>4. ASSUME NEW service, NEW h \in DOMAIN t, DeclarationFits(t, service, h)
      PROVE DeclarationFits(r, service, h)
  BY <1>2, <1>4 DEF DeclarationFits
<1> QED  BY <1>2, <1>3, <1>4

\* A service added to a good table makes a good table.
LEMMA ServiceGood ==
  ASSUME NEW services \in Seq(ServiceRecord), NEW n \in 1..Len(services),
         NEW t0 \in GoodTable(services, n - 1)
  PROVE /\ BuildService(t0, services[n]) \in GoodTable(services, n)
        /\ Extends(BuildService(t0, services[n]), t0)
<1> DEFINE service == services[n]
           r == BuildService(t0, service)
<1>1. service \in ServiceRecord /\ t0 \in Seq(Attribute)
  BY ElementOfSeq DEF GoodTable
<1>2. r \in ServiceStage(t0, service, Len(service.characteristics))
  BY <1>1, ServiceBuilt
<1> HIDE DEF service, r
<1>3. r \in Seq(Attribute) /\ Extends(r, t0) /\ Len(t0) < Len(r)
  BY <1>2 DEF ServiceStage
<1>4. /\ DOMAIN t0 = 1..Len(t0) /\ DOMAIN r = 1..Len(r) /\ Len(t0) \in Nat /\ Len(r) \in Nat
      /\ \A h \in DOMAIN t0 : h \in DOMAIN r /\ r[h] = t0[h]
  BY <1>1, <1>3, ExtendsKeeps
<1>5. r[Len(t0) + 1].type \in ServiceTypes /\ r[Len(t0) + 1].value = service.uuid
  BY <1>2 DEF ServiceStage
<1>6. \A h \in (Len(t0) + 2)..Len(r) :
         /\ r[h].type \notin ServiceTypes
         /\ r[h].type = "declaration" => DeclarationFits(r, service, h)
  BY <1>2 DEF ServiceStage
<1>7. r[1].type \in ServiceTypes
  <2>1. CASE Len(t0) = 0
    BY <2>1, <1>5
  <2>2. CASE Len(t0) > 0
    <3>1. t0[1].type \in ServiceTypes /\ 1 \in DOMAIN t0
      BY <2>2, <1>4 DEF GoodTable
    <3> QED  BY <3>1, <1>4
  <2> QED  BY <2>1, <2>2, <1>4
<1>8. ASSUME NEW h \in DOMAIN r, r[h].type = "declaration"
      PROVE \E i \in 1..n : /\ DeclarationFits(r, services[i], h)
                            /\ \E s \in DOMAIN r : Heads(r, s, h + 1) /\ r[s].value = services[i].uuid
  <2>1. CASE h \in DOMAIN t0
    <3>1. t0[h].type = "declaration"
      BY <2>1, <1>4, <1>8
    <3>2. PICK i \in 1..(n - 1) :
             /\ DeclarationFits(t0, services[i], h)
             /\ \E s \in DOMAIN t0 : Heads(t0, s, h + 1) /\ t0[s].value = services[i].uuid
      BY <2>1, <3>1 DEF GoodTable
    <3>3. PICK s \in DOMAIN t0 : Heads(t0, s, h + 1) /\ t0[s].value = services[i].uuid
      BY <3>2
    <3>4. i \in 1..n
      OBVIOUS
    <3>5. Heads(r, s, h + 1) /\ r[s] = t0[s] /\ s \in DOMAIN r
      BY <3>3, <1>1, <1>3, <1>4, ExtendsKeeps
    <3>6. DeclarationFits(r, services[i], h)
      BY <2>1, <3>2, <1>1, <1>3, ExtendsKeeps
    <3> QED  BY <3>3, <3>4, <3>5, <3>6
  <2>2. CASE h \notin DOMAIN t0
    <3>1. h # Len(t0) + 1
      BY <1>5, <1>8 DEF ServiceTypes
    <3>2. h \in (Len(t0) + 2)..Len(r)
      BY <2>2, <3>1, <1>4
    <3>3. DeclarationFits(r, service, h)
      BY <3>2, <1>6, <1>8
    <3>4. h + 1 \in 1..Len(r) /\ h + 1 \in DOMAIN r
      BY <3>3, <1>4 DEF DeclarationFits
    <3>5. \A g \in (Len(t0) + 2)..(h + 1) : r[g].type \notin ServiceTypes
      BY <3>4, <1>4, <1>6
    <3>6. Len(t0) + 1 \in DOMAIN r /\ Len(t0) + 1 \in 1..(h + 1) /\ (Len(t0) + 1) + 1 = Len(t0) + 2
      BY <3>2, <1>3, <1>4
    <3>7. Heads(r, Len(t0) + 1, h + 1)
      BY <3>4, <3>5, <3>6, <1>5 DEF Heads
    <3>8. n \in 1..n
      OBVIOUS
    <3> QED  BY <3>3, <3>6, <3>7, <3>8, <1>5 DEF service
  <2> QED  BY <2>1, <2>2
<1>9. ASSUME NEW i \in 1..n, NEW u \in UUIDsOf(<<services[i]>>)
      PROVE \E h \in DOMAIN r : r[h].type = u
  <2>1. CASE i = n
    <3>1. PICK j \in 1..Len(service.characteristics) : service.characteristics[j].uuid = u
      BY <2>1, <1>1, UUIDsOfService DEF service
    <3> QED  BY <3>1, <1>2 DEF ServiceStage
  <2>2. CASE i # n
    <3>1. i \in 1..(n - 1)
      BY <2>2
    <3>2. PICK h \in DOMAIN t0 : t0[h].type = u
      BY <3>1 DEF GoodTable
    <3> QED  BY <3>2, <1>4
  <2> QED  BY <2>1, <2>2
<1>10. r \in GoodTable(services, n)
  BY <1>3, <1>7, <1>8, <1>9 DEF GoodTable
<1> QED  BY <1>3, <1>10 DEF r, service

\* What buildAttributeDatabase has built after each service.
LEMMA DatabaseStages ==
  ASSUME NEW services \in Seq(ServiceRecord)
  PROVE \A n \in 0..Len(services) :
           /\ BuildAttributeDatabase(services)[n] \in GoodTable(services, n)
           /\ n > 0 => BuildAttributeDatabase(services)[n]
                         = BuildService(BuildAttributeDatabase(services)[n - 1], services[n])
<1> DEFINE N == Len(services)
           S == [n \in 0..N |-> GoodTable(services, n)]
           step == [n \in 1..N |-> [t \in Seq(Attribute) |-> BuildService(t, services[n])]]
           g == BuildAttributeDatabase(services)
           Value(f, n) == IF n = 0 THEN <<>> ELSE BuildService(f[n - 1], services[n])
<1>1. N \in Nat
  OBVIOUS
<1>2. \A n \in 0..N : S[n] = GoodTable(services, n) /\ S[n] \subseteq Seq(Attribute)
  BY DEF GoodTable
<1>3. <<>> \in S[0]
  <2>1. <<>> \in GoodTable(services, 0)
    BY DEF GoodTable
  <2> QED  BY <2>1, <1>1, <1>2
<1>4. \A n \in 1..N : \A t \in S[n - 1] : BuildService(t, services[n]) \in S[n]
  <2> TAKE n \in 1..N
  <2> TAKE t \in S[n - 1]
  <2>1. n - 1 \in 0..N /\ n \in 0..N
    BY <1>1
  <2>2. t \in GoodTable(services, n - 1)
    BY <2>1, <1>2
  <2> QED  BY <2>1, <2>2, <1>2, ServiceGood
<1>5. \A n \in 1..N : \A t \in S[n - 1] : step[n][t] = BuildService(t, services[n])
  <2> TAKE n \in 1..N
  <2> TAKE t \in S[n - 1]
  <2>1. n - 1 \in 0..N
    BY <1>1
  <2>2. t \in Seq(Attribute)
    BY <2>1, <1>2
  <2> QED  BY <2>2
<1> HIDE DEF N, S, step
<1>6. PICK f : Chained(f, N, Seq(Attribute), S, <<>>, step)
  <2>1. \A n \in 1..N : \A t \in S[n - 1] : step[n][t] \in S[n]
    BY <1>4, <1>5
  <2>2. \A n \in 0..N : S[n] \subseteq Seq(Attribute)
    BY <1>2
  <2>3. Leads(N, Seq(Attribute), S, <<>>, step)
    BY <1>1, <1>3, <2>1, <2>2 DEF Leads
  <2> QED  BY <2>3, Chain
<1>7. f = [n \in 0..N |-> Value(f, n)]
  <2>1. ASSUME NEW n \in 0..N, n # 0 PROVE f[n] = BuildService(f[n - 1], services[n])
    <3>1. n \in 1..N /\ n - 1 \in 0..N
      BY <2>1, <1>1
    <3> QED  BY <3>1, <1>5, <1>6 DEF Chained
  <2>2. \A n \in 0..N : f[n] = Value(f, n)
    BY <2>1, <1>6 DEF Chained
  <2>3. f \in [0..N -> Seq(Attribute)]
    BY <1>6 DEF Chained
  <2> HIDE DEF Value
  <2> QED  BY <2>2, <2>3
<1>8. g = CHOOSE h : h = [n \in 0..N |-> Value(h, n)]
  BY DEF BuildAttributeDatabase, N
<1>9. g = [n \in 0..N |-> Value(g, n)]
  <2> HIDE DEF g, Value
  <2> QED  BY <1>7, <1>8
<1>10. \A n \in 0..N : g[n] = Value(g, n)
  <2> HIDE DEF g, Value
  <2> QED  BY <1>9
<1> HIDE DEF g
<1> DEFINE T == {n \in 0..N : g[n] \in S[n]}
<1>11. 0 \in T
  BY <1>1, <1>3, <1>10
<1>12. \A n \in 0..N : n \in T /\ n < N => n + 1 \in T
  <2> SUFFICES ASSUME NEW n \in T, n < N PROVE n + 1 \in T
    OBVIOUS
  <2>1. n + 1 \in 1..N /\ n + 1 \in 0..N /\ (n + 1) - 1 = n /\ n + 1 # 0
    BY <1>1
  <2>2. g[n + 1] = BuildService(g[n], services[n + 1])
    BY <2>1, <1>10
  <2> QED  BY <2>1, <2>2, <1>4
<1>13. 0..N \subseteq T
  <2> HIDE DEF T
  <2> QED  BY <1>1, <1>11, <1>12, UpTo
<1>14. \A n \in 0..N : n > 0 => g[n] = BuildService(g[n - 1], services[n])
  BY <1>10
<1> QED  BY <1>2, <1>13, <1>14 DEF N, g

-----------------------------------------------------------------------------
(* Names, searches and the cache *)

ServiceEntry == [uuid : UUID, start : Nat, end : Nat]
FoundCharacteristic == [uuid : UUID, notify : BOOLEAN, handle : Nat, declaration : Nat]

\* Handle h of the table of the first n services is the value of the characteristic u.
Exact(services, n, h, u) ==
  /\ h \in DOMAIN Tables[services][n]
  /\ \E i \in 1..n :
        /\ u \in UUIDsOf(<<services[i]>>)
        /\ HandleToUUIDs(Tables[services][n], h) = [char |-> u, service |-> services[i].uuid]

\* A discovery cache that holds nothing but what a table of n services says.
GoodCache(services, n) ==
  {k \in [services : Seq(ServiceEntry),
          chars : SUBSET [service : Nat, uuid : UUIDsOf(services), notify : BOOLEAN],
          handles : UNION {[U -> Nat] : U \in SUBSET UUID}] :
     \A u \in DOMAIN k.handles : Exact(services, n, k.handles[u], u)}

LEMMA LayoutsAre ==
  ASSUME NEW services \in Layouts
  PROVE services \in Seq(ServiceRecord)
BY GattLinkAssumption DEF ServiceRecord, Characteristic

\* The UUIDs of a list of services are those of its members.
LEMMA UUIDsOfMany ==
  ASSUME NEW services \in Seq(ServiceRecord)
  PROVE /\ \A i \in 1..Len(services) : UUIDsOf(<<services[i]>>) \subseteq UUIDsOf(services)
        /\ \A u \in UUIDsOf(services) : \E i \in 1..Len(services) : u \in UUIDsOf(<<services[i]>>)
        /\ UUIDsOf(services) \subseteq UUID
<1>1. DOMAIN services = 1..Len(services)
  OBVIOUS
<1>2. \A i \in 1..Len(services) : UUIDsOf(<<services[i]>>) = {x.uuid : x \in Range(services[i].characteristics)}
  BY UUIDsOfOne
<1>3. \A i \in 1..Len(services) : UUIDsOf(<<services[i]>>) \subseteq UUIDsOf(services)
  BY <1>1, <1>2 DEF UUIDsOf, CharsOf
<1>4. ASSUME NEW u \in UUIDsOf(services)
      PROVE \E i \in 1..Len(services) : u \in UUIDsOf(<<services[i]>>)
  <2>1. PICK x \in CharsOf(services) : u = x.uuid
    BY DEF UUIDsOf
  <2>2. PICK i \in 1..Len(services) : x \in Range(services[i].characteristics)
    BY <1>1 DEF CharsOf
  <2> QED  BY <2>1, <2>2, <1>2
<1>5. \A i \in 1..Len(services) : UUIDsOf(<<services[i]>>) \subseteq UUID
  BY ElementOfSeq, UUIDsOfService
<1> QED  BY <1>3, <1>4, <1>5

LEMMA TableGood ==
  ASSUME NEW services \in Layouts, NEW n \in 0..Len(services)
  PROVE /\ Tables[services][n] \in GoodTable(services, n)
        /\ Tables[services][n] \in Seq(Attribute)
        /\ n > 0 => Tables[services][n] = BuildService(Tables[services][n - 1], services[n])
<1>1. \A k \in 0..Len(services) : Tables[services][k] = BuildAttributeDatabase(services)[k]
  BY DEF Tables
<1>2. n > 0 => n - 1 \in 0..Len(services)
  BY LayoutsAre
<1>3. GoodTable(services, n) \subseteq Seq(Attribute)
  BY DEF GoodTable
<1> QED  BY <1>1, <1>2, <1>3, LayoutsAre, DatabaseStages

LEMMA ExtendsTransitive ==
  ASSUME NEW t \in Seq(Attribute), NEW r \in Seq(Attribute), NEW q \in Seq(Attribute),
         Extends(r, t), Extends(q, r)
  PROVE Extends(q, t)
<1>1. Len(t) \in Nat /\ Len(r) \in Nat /\ Len(q) \in Nat
  OBVIOUS
<1>2. Len(t) <= Len(r) /\ Len(r) <= Len(q)
  BY DEF Extends
<1>3. \A h \in 1..Len(t) : h \in 1..Len(r)
  BY <1>1, <1>2
<1>4. \A h \in 1..Len(t) : q[h] = t[h]
  BY <1>3 DEF Extends
<1> QED  BY <1>1, <1>2, <1>4 DEF Extends

\* The table only ever grows at its end.
LEMMA TableGrows ==
  ASSUME NEW services \in Layouts, NEW m \in 0..Len(services)
  PROVE \A n \in m..Len(services) : Extends(Tables[services][n], Tables[services][m])
<1> DEFINE N == Len(services)
           T == {k \in 0..N : k >= m => Extends(Tables[services][k], Tables[services][m])}
<1>1. N \in Nat /\ services \in Seq(ServiceRecord)
  BY LayoutsAre
<1>2. ASSUME NEW k \in 0..N, k < N PROVE Extends(Tables[services][k + 1], Tables[services][k])
  <2>1. k + 1 \in 1..N /\ (k + 1) - 1 = k /\ k + 1 > 0 /\ k + 1 \in 0..N
    BY <1>2, <1>1
  <2>2. Tables[services][k] \in GoodTable(services, k)
    BY TableGood
  <2>3. Tables[services][k + 1] = BuildService(Tables[services][k], services[k + 1])
    BY <2>1, TableGood
  <2> QED  BY <2>1, <2>2, <2>3, <1>1, ServiceGood
<1>3. \A k \in 0..N : Tables[services][k] \in Seq(Attribute)
  BY TableGood
<1>4. ASSUME NEW k \in 0..N, k \in T, k < N PROVE k + 1 \in T
  <2>1. k + 1 \in 0..N
    BY <1>4, <1>1
  <2>2. CASE k + 1 < m
    BY <2>1, <2>2
  <2>3. CASE k + 1 = m
    <3>1. Extends(Tables[services][m], Tables[services][m])
      BY <1>3 DEF Extends
    <3> QED  BY <2>1, <2>3, <3>1
  <2>4. CASE k >= m
    <3>1. Extends(Tables[services][k], Tables[services][m]) /\ Extends(Tables[services][k + 1], Tables[services][k])
      BY <2>4, <1>2, <1>4
    <3>2. /\ Tables[services][k] \in Seq(Attribute) /\ Tables[services][m] \in Seq(Attribute)
          /\ Tables[services][k + 1] \in Seq(Attribute)
      BY <1>3, <2>1
    <3>3. Extends(Tables[services][k + 1], Tables[services][m])
      BY <3>1, <3>2, ExtendsTransitive
    <3> QED  BY <2>1, <3>3
  <2> QED  BY <2>2, <2>3, <2>4, <1>1
<1>5. 0 \in T
  <2>1. Extends(Tables[services][m], Tables[services][m])
    BY <1>3 DEF Extends
  <2>2. 0 \in 0..N /\ (0 >= m => m = 0)
    BY <1>1
  <2> QED  BY <2>1, <2>2
<1>6. 0..N \subseteq T
  <2> HIDE DEF T, N
  <2> QED  BY <1>1, <1>4, <1>5, UpTo
<1>7. m..N \subseteq 0..N
  BY <1>1
<1> QED  BY <1>6, <1>7

\* handleToUUIDs finds the header of the attribute's service.
LEMMA HeadNames ==
  ASSUME NEW t \in Seq(Attribute), NEW s, NEW h, Heads(t, s, h)
  PROVE HandleToUUIDs(t, h) = [char |-> t[h].type, service |-> t[s].value]
<1> DEFINE S == {g \in DOMAIN t : g <= h /\ t[g].type \in ServiceTypes}
<1>1. DOMAIN t = 1..Len(t) /\ Len(t) \in Nat
  OBVIOUS
<1>2. /\ h \in DOMAIN t /\ s \in 1..h /\ t[s].type \in ServiceTypes
      /\ \A g \in (s + 1)..h : t[g].type \notin ServiceTypes
  BY DEF Heads
<1>3. s \in S /\ \A g \in S : g <= s
  BY <1>1, <1>2
<1>4. \A g \in S : g \in Nat /\ (s <= g => g = s)
  BY <1>1, <1>2, <1>3
<1>5. (CHOOSE g \in S : \A k \in S : k <= g) = s
  BY <1>3, <1>4
<1> QED  BY <1>2, <1>3, <1>5 DEF HandleToUUIDs

\* A longer table gives an attribute the same names.
LEMMA SameNames ==
  ASSUME NEW t \in Seq(Attribute), NEW r \in Seq(Attribute), Extends(r, t), NEW h \in DOMAIN t
  PROVE HandleToUUIDs(r, h) = HandleToUUIDs(t, h)
<1>1. DOMAIN t = 1..Len(t) /\ DOMAIN r = 1..Len(r) /\ Len(t) \in Nat /\ Len(r) \in Nat
  OBVIOUS
<1>2. \A g \in DOMAIN t : g \in DOMAIN r /\ r[g] = t[g]
  BY ExtendsKeeps
<1>3. \A g \in DOMAIN r : g <= h => g \in DOMAIN t
  BY <1>1
<1>4. {g \in DOMAIN r : g <= h /\ r[g].type \in ServiceTypes}
        = {g \in DOMAIN t : g <= h /\ t[g].type \in ServiceTypes}
  BY <1>2, <1>3
<1>5. \A g \in {k \in DOMAIN t : k <= h /\ t[k].type \in ServiceTypes} : r[g] = t[g]
  BY <1>2
<1> DEFINE S == {g \in DOMAIN t : g <= h /\ t[g].type \in ServiceTypes}
           last == CHOOSE g \in S : \A k \in S : k <= g
<1>6. ASSUME S # {} PROVE r[last].value = t[last].value
  <2>1. S \subseteq 1..h /\ h \in Nat
    BY <1>1
  <2>2. \E g \in S : \A k \in S : k <= g
    <3> DEFINE D == {h - g : g \in S}
    <3>1. D \subseteq Nat /\ D # {}
      BY <1>6, <2>1
    <3>2. PICK d \in D : \A e \in D : d <= e
      <4> HIDE DEF D
      <4> QED  BY <3>1, LeastOf
    <3>3. PICK g \in S : d = h - g
      BY <3>2
    <3>4. \A k \in S : h - g <= h - k
      BY <3>2, <3>3
    <3>5. \A k \in S : k <= g
      BY <3>3, <3>4, <2>1
    <3> QED  BY <3>5
  <2>3. last \in S
    BY <2>2
  <2> QED  BY <2>3, <1>5
<1> QED  BY <1>2, <1>4, <1>6 DEF HandleToUUIDs

LEMMA ExactGrows ==
  ASSUME NEW services \in Layouts, NEW m \in 0..Len(services), NEW n \in m..Len(services),
         NEW h, NEW u, Exact(services, m, h, u)
  PROVE Exact(services, n, h, u)
<1>1. n \in 0..Len(services) /\ 1..m \subseteq 1..n
  OBVIOUS
<1>2. /\ Tables[services][m] \in Seq(Attribute) /\ Tables[services][n] \in Seq(Attribute)
      /\ Extends(Tables[services][n], Tables[services][m])
  BY <1>1, TableGood, TableGrows
<1>3. h \in DOMAIN Tables[services][m]
  BY DEF Exact
<1>4. h \in DOMAIN Tables[services][n]
  BY <1>2, <1>3, ExtendsKeeps
<1>5. HandleToUUIDs(Tables[services][n], h) = HandleToUUIDs(Tables[services][m], h)
  BY <1>2, <1>3, SameNames
<1> QED  BY <1>1, <1>4, <1>5 DEF Exact

\* What a declaration says of its value is so.
LEMMA DeclarationExact ==
  ASSUME NEW services \in Layouts, NEW n \in 0..Len(services),
         NEW h \in DOMAIN Tables[services][n], Tables[services][n][h].type = "declaration"
  PROVE LET d == Tables[services][n][h].value
        IN d \in [uuid : UUID, notify : BOOLEAN, handle : Nat] /\ Exact(services, n, d.handle, d.uuid)
<1> DEFINE t == Tables[services][n]
           d == t[h].value
<1>1. t \in GoodTable(services, n) /\ t \in Seq(Attribute)
  BY TableGood
<1> HIDE DEF t
<1>2. h \in DOMAIN t /\ t[h].type = "declaration"
  BY DEF t
<1>3. PICK i \in 1..n : /\ DeclarationFits(t, services[i], h)
                        /\ \E s \in DOMAIN t : Heads(t, s, h + 1) /\ t[s].value = services[i].uuid
  BY <1>1, <1>2 DEF GoodTable
<1>4. PICK s \in DOMAIN t : Heads(t, s, h + 1) /\ t[s].value = services[i].uuid
  BY <1>3
<1>5. /\ d.uuid \in UUIDsOf(<<services[i]>>) /\ d.handle = h + 1 /\ h + 1 \in DOMAIN t
      /\ t[h + 1].type = d.uuid
  BY <1>3 DEF DeclarationFits
<1>6. HandleToUUIDs(t, h + 1) = [char |-> d.uuid, service |-> services[i].uuid]
  BY <1>1, <1>4, <1>5, HeadNames
<1>7. Exact(services, n, d.handle, d.uuid)
  BY <1>5, <1>6 DEF Exact, t
<1>8. t[h] \in Attribute
  BY <1>1, <1>2, ElementOfSeq
<1>9. "declaration" \notin UUID /\ "declaration" \notin ServiceTypes
  BY TableAssumption DEF ServiceTypes, AttributeTypes
<1>10. d \in [uuid : UUID, notify : BOOLEAN, handle : Nat]
  BY <1>2, <1>8, <1>9 DEF Attribute
<1> QED  BY <1>7, <1>10 DEF t

\* FindAttributesByType returns handles of the range and of the type.
LEMMA AttributesFound ==
  ASSUME NEW t \in Seq(Attribute), NEW first, NEW last, NEW type
  PROVE FindAttributesByType(t, first, last, type) \in Seq({h \in DOMAIN t : t[h].type = type})
<1> DEFINE N == Len(t)
           V == Seq({h \in DOMAIN t : t[h].type = type})
           Match(h) == first <= h /\ h <= last /\ t[h].type = type
           S == [h \in 0..N |-> V]
           step == [h \in 1..N |-> [q \in V |-> IF Match(h) THEN Append(q, h) ELSE q]]
           Value(f, h) == IF h = 0 THEN <<>>
                          ELSE IF Match(h) THEN Append(f[h - 1], h) ELSE f[h - 1]
           g == CHOOSE f : f = [h \in 0..N |-> Value(f, h)]
<1>1. N \in Nat /\ DOMAIN t = 1..N
  OBVIOUS
<1>2. ASSUME NEW h \in 1..N, NEW q \in V PROVE (IF Match(h) THEN Append(q, h) ELSE q) \in V
  <2> HIDE DEF N
  <2>1. CASE Match(h)
    <3>1. h \in {k \in DOMAIN t : t[k].type = type}
      BY <1>1, <2>1
    <3> HIDE DEF Match
    <3> QED  BY <2>1, <3>1
  <2> HIDE DEF Match
  <2> QED  BY <2>1
<1>3. \A h \in 0..N : S[h] = V
  OBVIOUS
<1>4. \A h \in 1..N : \A q \in V : step[h][q] = IF Match(h) THEN Append(q, h) ELSE q
  <2> HIDE DEF Match, N, V
  <2> QED  OBVIOUS
<1>5. <<>> \in V
  OBVIOUS
<1> HIDE DEF N, V, Match, S, step
<1>6. PICK f : Chained(f, N, V, S, <<>>, step)
  <2>1. \A h \in 1..N : h - 1 \in 0..N /\ h \in 0..N
    BY <1>1
  <2>2. \A h \in 1..N : \A q \in S[h - 1] : step[h][q] \in S[h]
    BY <2>1, <1>2, <1>3, <1>4
  <2>3. 0 \in 0..N
    BY <1>1
  <2>4. Leads(N, V, S, <<>>, step)
    BY <1>1, <1>3, <1>5, <2>2, <2>3 DEF Leads
  <2> QED  BY <2>4, Chain
<1>7. f = [h \in 0..N |-> Value(f, h)]
  <2>1. f \in [0..N -> V]
    BY <1>6 DEF Chained
  <2>2. ASSUME NEW h \in 0..N, h # 0 PROVE f[h] = Value(f, h)
    <3>1. h \in 1..N /\ h - 1 \in 0..N
      BY <2>2, <1>1
    <3>2. f[h - 1] \in V
      BY <2>1, <3>1
    <3>3. f[h] = step[h][f[h - 1]]
      BY <1>6, <3>1 DEF Chained
    <3> QED  BY <2>2, <3>1, <3>2, <3>3, <1>4
  <2>3. \A h \in 0..N : f[h] = Value(f, h)
    BY <2>2, <1>6 DEF Chained
  <2> HIDE DEF Value
  <2> QED  BY <2>1, <2>3
<1>8. g = [h \in 0..N |-> Value(g, h)]
  <2>1. \E k : k = [h \in 0..N |-> Value(k, h)]
    BY <1>7
  <2> HIDE DEF Value
  <2> QED  BY <2>1
<1>9. \A h \in 0..N : g[h] = Value(g, h)
  <2> HIDE DEF g, Value
  <2> QED  BY <1>8
<1> DEFINE T == {h \in 0..N : g[h] \in V}
<1>10. 0 \in T
  <2> HIDE DEF g
  <2> QED  BY <1>1, <1>5, <1>9
<1>11. \A h \in 0..N : h \in T /\ h < N => h + 1 \in T
  <2> HIDE DEF g
  <2> SUFFICES ASSUME NEW h \in T, h < N PROVE h + 1 \in T
    OBVIOUS
  <2>1. h + 1 \in 1..N /\ h + 1 \in 0..N /\ (h + 1) - 1 = h /\ h + 1 # 0
    BY <1>1
  <2>2. g[h + 1] = IF Match(h + 1) THEN Append(g[h], h + 1) ELSE g[h]
    BY <2>1, <1>9
  <2> QED  BY <2>1, <2>2, <1>2
<1>12. N \in T
  <2>1. 0..N \subseteq T
    <3> HIDE DEF T
    <3> QED  BY <1>1, <1>10, <1>11, UpTo
  <2> QED  BY <1>1, <2>1
<1>13. g[N] \in V
  BY <1>12
<1>14. FindAttributesByType(t, first, last, type) = g[N]
  BY DEF FindAttributesByType, N, Match
<1> QED  BY <1>13, <1>14 DEF V

\* Both searches return sequences of what the table holds.
LEMMA ServicesFound ==
  ASSUME NEW t \in Seq(Attribute), NEW first \in Nat, NEW last \in Nat
  PROVE DiscoverServices(t, first, last) \in Seq(ServiceEntry)
<1> DEFINE starts == FindAttributesByType(t, first, last, "primary")
           S == {h \in DOMAIN t : t[h].type = "primary"}
<1>1. starts \in Seq(S)
  BY AttributesFound
<1>2. S \subseteq Nat \ {0}
  OBVIOUS
<1>3. \A h \in S : t[h].value \in UUID
  <2> TAKE h \in S
  <2>1. t[h] \in Attribute /\ t[h].type = "primary"
    BY ElementOfSeq
  <2>2. "primary" \notin UUID
    BY TableAssumption DEF AttributeTypes, ServiceTypes
  <2> QED  BY <2>1, <2>2 DEF Attribute
<1> HIDE DEF starts, S
<1> DEFINE Entry(i) == [uuid |-> t[starts[i]].value, start |-> starts[i],
                        end |-> IF i < Len(starts) THEN starts[i + 1] - 1 ELSE last]
<1>4. Len(starts) \in Nat /\ DOMAIN starts = 1..Len(starts)
  BY <1>1
<1>5. \A i \in 1..Len(starts) : starts[i] \in S
  BY <1>1, ElementOfSeq
<1>6. ASSUME NEW i \in 1..Len(starts) PROVE Entry(i) \in ServiceEntry
  <2>1. i < Len(starts) => starts[i + 1] \in S
    BY <1>4, <1>5
  <2>2. \A h \in S : h - 1 \in Nat
    <3>1. \A h \in Nat \ {0} : h - 1 \in Nat
      OBVIOUS
    <3> QED  BY <3>1, <1>2
  <2>3. i < Len(starts) => starts[i + 1] - 1 \in Nat
    BY <2>1, <2>2
  <2> QED  BY <1>2, <1>3, <1>5, <2>3 DEF ServiceEntry
<1>7. DiscoverServices(t, first, last) = [i \in 1..Len(starts) |-> Entry(i)]
  BY <1>4 DEF DiscoverServices, starts
<1> HIDE DEF Entry
<1>8. [i \in 1..Len(starts) |-> Entry(i)] \in [1..Len(starts) -> ServiceEntry]
  BY <1>6
<1> QED  BY <1>4, <1>7, <1>8

LEMMA CharacteristicsFound ==
  ASSUME NEW services \in Layouts, NEW n \in 0..Len(services), NEW first, NEW last
  PROVE LET found == DiscoverCharacteristics(Tables[services][n], first, last)
        IN /\ found \in Seq(FoundCharacteristic)
           /\ \A i \in DOMAIN found : Exact(services, n, found[i].handle, found[i].uuid)
<1> DEFINE t == Tables[services][n]
           declarations == FindAttributesByType(t, first, last, "declaration")
           S == {h \in DOMAIN t : t[h].type = "declaration"}
           Entry(i) == [uuid |-> t[declarations[i]].value.uuid,
                        notify |-> t[declarations[i]].value.notify,
                        handle |-> t[declarations[i]].value.handle,
                        declaration |-> declarations[i]]
<1>1. t \in Seq(Attribute)
  BY TableGood
<1>2. declarations \in Seq(S)
  BY <1>1, AttributesFound
<1>3. \A h \in S : /\ h \in Nat /\ t[h].value \in [uuid : UUID, notify : BOOLEAN, handle : Nat]
                   /\ Exact(services, n, t[h].value.handle, t[h].value.uuid)
  BY <1>1, DeclarationExact
<1> HIDE DEF t, S
<1>4. DiscoverCharacteristics(t, first, last) = [i \in DOMAIN declarations |-> Entry(i)]
  BY DEF DiscoverCharacteristics
<1> HIDE DEF declarations
<1>5. Len(declarations) \in Nat /\ DOMAIN declarations = 1..Len(declarations)
  BY <1>2
<1>6. \A i \in 1..Len(declarations) : declarations[i] \in S
  BY <1>2, ElementOfSeq
<1>7. ASSUME NEW i \in 1..Len(declarations)
      PROVE /\ Entry(i) \in FoundCharacteristic
            /\ Exact(services, n, Entry(i).handle, Entry(i).uuid)
  BY <1>3, <1>6 DEF FoundCharacteristic
<1> DEFINE found == [i \in 1..Len(declarations) |-> Entry(i)]
<1>8. \A i \in 1..Len(declarations) : found[i] = Entry(i)
  OBVIOUS
<1>9. found \in [1..Len(declarations) -> FoundCharacteristic]
  <2> HIDE DEF Entry
  <2> QED  BY <1>7
<1>10. \A i \in DOMAIN found : Exact(services, n, found[i].handle, found[i].uuid)
  <2> HIDE DEF Entry
  <2> QED  BY <1>7, <1>8
<1>11. DiscoverCharacteristics(t, first, last) = found
  <2> HIDE DEF Entry
  <2> QED  BY <1>4, <1>5
<1> HIDE DEF found
<1>12. found \in Seq(FoundCharacteristic)
  BY <1>5, <1>9
<1> QED  BY <1>10, <1>11, <1>12 DEF t

\* Good parts make a good cache.
LEMMA CacheOf ==
  ASSUME NEW services, NEW n, NEW s \in Seq(ServiceEntry),
         NEW c \in SUBSET [service : Nat, uuid : UUIDsOf(services), notify : BOOLEAN],
         NEW h \in UNION {[U -> Nat] : U \in SUBSET UUID},
         \A u \in DOMAIN h : Exact(services, n, h[u], u)
  PROVE [services |-> s, chars |-> c, handles |-> h] \in GoodCache(services, n)
<1> DEFINE k == [services |-> s, chars |-> c, handles |-> h]
<1>1. k \in [services : Seq(ServiceEntry),
             chars : SUBSET [service : Nat, uuid : UUIDsOf(services), notify : BOOLEAN],
             handles : UNION {[U -> Nat] : U \in SUBSET UUID}]
  OBVIOUS
<1>2. k.handles = h
  OBVIOUS
<1> HIDE DEF k
<1>3. \A u \in DOMAIN k.handles : Exact(services, n, k.handles[u], u)
  BY <1>2
<1>4. k \in GoodCache(services, n)
  BY <1>1, <1>3 DEF GoodCache
<1> QED  BY <1>4 DEF k

LEMMA EmptyCacheGood == \A services, n : EmptyCache \in GoodCache(services, n)
<1> TAKE services, n
<1> DEFINE none == [u \in {} |-> 0]
<1>1. none \in [{} -> Nat] /\ DOMAIN none = {} /\ {} \in SUBSET UUID
  OBVIOUS
<1>2. EmptyCache = [services |-> <<>>, chars |-> {}, handles |-> none]
  BY DEF EmptyCache
<1> HIDE DEF none
<1>3. none \in UNION {[U -> Nat] : U \in SUBSET UUID}
  BY <1>1
<1>4. <<>> \in Seq(ServiceEntry)
      /\ {} \in SUBSET [service : Nat, uuid : UUIDsOf(services), notify : BOOLEAN]
  OBVIOUS
<1>5. \A u \in DOMAIN none : Exact(services, n, none[u], u)
  BY <1>1
<1> QED  BY <1>2, <1>3, <1>4, <1>5, CacheOf

\* The fields of a cache.
LEMMA CacheFields ==
  ASSUME NEW services, NEW n, NEW k \in GoodCache(services, n)
  PROVE /\ k = [services |-> k.services, chars |-> k.chars, handles |-> k.handles]
        /\ k.services \in Seq(ServiceEntry)
        /\ k.chars \in SUBSET [service : Nat, uuid : UUIDsOf(services), notify : BOOLEAN]
        /\ k.handles \in UNION {[U -> Nat] : U \in SUBSET UUID}
        /\ \A u \in DOMAIN k.handles : Exact(services, n, k.handles[u], u)
BY DEF GoodCache

LEMMA CacheGrows ==
  ASSUME NEW services \in Layouts, NEW m \in 0..Len(services), NEW n \in m..Len(services)
  PROVE GoodCache(services, m) \subseteq GoodCache(services, n)
BY ExactGrows DEF GoodCache

LEMMA ServicesAdded ==
  ASSUME NEW services, NEW n, NEW k \in GoodCache(services, n), NEW found \in Seq(ServiceEntry)
  PROVE AddServices(k, found) \in GoodCache(services, n)
<1>1. k.services \o found \in Seq(ServiceEntry)
  BY Joined DEF GoodCache
<1> QED  BY <1>1 DEF AddServices, GoodCache

\* Clearing the services, as DiscoverServices does, leaves a good cache.
LEMMA ServicesCleared ==
  ASSUME NEW services, NEW n, NEW k \in GoodCache(services, n)
  PROVE [k EXCEPT !.services = <<>>] \in GoodCache(services, n)
<1>1. [k EXCEPT !.services = <<>>] = [services |-> <<>>, chars |-> k.chars, handles |-> k.handles]
  BY CacheFields
<1>2. <<>> \in Seq(ServiceEntry)
  OBVIOUS
<1>3. k.chars \in SUBSET [service : Nat, uuid : UUIDsOf(services), notify : BOOLEAN]
  BY CacheFields
<1>4. k.handles \in UNION {[U -> Nat] : U \in SUBSET UUID}
  BY CacheFields
<1>5. \A u \in DOMAIN k.handles : Exact(services, n, k.handles[u], u)
  BY CacheFields
<1>6. [services |-> <<>>, chars |-> k.chars, handles |-> k.handles] \in GoodCache(services, n)
  BY <1>2, <1>3, <1>4, <1>5, CacheOf
<1> QED  BY <1>1, <1>6

LEMMA CharacteristicAdded ==
  ASSUME NEW services \in Layouts, NEW n \in 0..Len(services), NEW k \in GoodCache(services, n),
         NEW start \in Nat, NEW char \in FoundCharacteristic,
         Exact(services, n, char.handle, char.uuid)
  PROVE AddCharacteristic(k, start, char) \in GoodCache(services, n)
<1> DEFINE r == AddCharacteristic(k, start, char)
           entry == [service |-> start, uuid |-> char.uuid, notify |-> char.notify]
           handles == [u \in DOMAIN k.handles \cup {char.uuid} |->
                         IF u = char.uuid THEN char.handle ELSE k.handles[u]]
<1>1. char.uuid \in UUID /\ char.notify \in BOOLEAN /\ char.handle \in Nat
  BY DEF FoundCharacteristic
<1>2. char.uuid \in UUIDsOf(services)
  <2>1. PICK i \in 1..n : char.uuid \in UUIDsOf(<<services[i]>>)
    BY DEF Exact
  <2>2. services \in Seq(ServiceRecord) /\ i \in 1..Len(services)
    BY LayoutsAre
  <2> QED  BY <2>1, <2>2, UUIDsOfMany
<1>3. k.chars \cup {entry} \in SUBSET [service : Nat, uuid : UUIDsOf(services), notify : BOOLEAN]
  BY <1>1, <1>2 DEF GoodCache
<1>4. PICK U \in SUBSET UUID : k.handles \in [U -> Nat]
  BY DEF GoodCache
<1>5. handles \in [U \cup {char.uuid} -> Nat]
  BY <1>1, <1>4
<1>6. handles \in UNION {[W -> Nat] : W \in SUBSET UUID}
  <2>1. U \cup {char.uuid} \in SUBSET UUID
    BY <1>1, <1>4
  <2> HIDE DEF handles
  <2> QED  BY <1>5, <2>1
<1>7. \A u \in DOMAIN handles : Exact(services, n, handles[u], u)
  BY DEF GoodCache
<1>8. r = [services |-> k.services, chars |-> k.chars \cup {entry}, handles |-> handles]
  <2>1. k = [services |-> k.services, chars |-> k.chars, handles |-> k.handles]
    BY CacheFields
  <2>2. ASSUME NEW a, NEW b, NEW d
        PROVE AddCharacteristic([services |-> a, chars |-> b, handles |-> d], start, char)
                = [services |-> a, chars |-> b \cup {entry},
                   handles |-> [u \in DOMAIN d \cup {char.uuid} |->
                                  IF u = char.uuid THEN char.handle ELSE d[u]]]
    <3> DEFINE q == [services |-> a, chars |-> b, handles |-> d]
               new == [u \in DOMAIN d \cup {char.uuid} |->
                         IF u = char.uuid THEN char.handle ELSE d[u]]
    <3>1. q.chars = b /\ q.handles = d /\ q.services = a
      OBVIOUS
    <3>2. new = [u \in DOMAIN q.handles \cup {char.uuid} |->
                   IF u = char.uuid THEN char.handle ELSE q.handles[u]]
      BY <3>1
    <3>3. AddCharacteristic(q, start, char)
            = [q EXCEPT !.chars = q.chars \cup {entry}, !.handles = new]
      <4> HIDE DEF q, new, r, handles
      <4> QED  BY <3>2 DEF AddCharacteristic
    <3>4. [q EXCEPT !.chars = q.chars \cup {entry}, !.handles = new]
            = [services |-> a, chars |-> b \cup {entry}, handles |-> new]
      <4>1. ASSUME NEW x, NEW y
            PROVE [q EXCEPT !.chars = x, !.handles = y] = [services |-> a, chars |-> x, handles |-> y]
        <5>1. q \in [services : {a}, chars : {b}, handles : {d}]
          OBVIOUS
        <5> HIDE DEF q
        <5>2. [q EXCEPT !.chars = x, !.handles = y] \in [services : {a}, chars : {x}, handles : {y}]
          BY <5>1
        <5>3. \A m \in [services : {a}, chars : {x}, handles : {y}] :
                 m = [services |-> a, chars |-> x, handles |-> y]
          OBVIOUS
        <5> QED  BY <5>2, <5>3
      <4> QED  BY <3>1, <4>1
    <3> QED  BY <3>3, <3>4
  <2> QED  BY <2>1, <2>2
<1> HIDE DEF r, entry, handles
<1>9. k.services \in Seq(ServiceEntry)
  BY DEF GoodCache
<1>10. r \in GoodCache(services, n)
  BY <1>3, <1>6, <1>7, <1>8, <1>9, CacheOf
<1> QED  BY <1>10 DEF r

\* A response whose handles are exact leaves the cache exact.
LEMMA CharacteristicsAdded ==
  ASSUME NEW services \in Layouts, NEW n \in 0..Len(services), NEW k \in GoodCache(services, n),
         NEW found \in Seq(FoundCharacteristic),
         \A i \in DOMAIN found : Exact(services, n, found[i].handle, found[i].uuid)
  PROVE AddCharacteristics(k, found) \in GoodCache(services, n)
<1> DEFINE holders == {i \in DOMAIN k.services :
                          /\ found # <<>>
                          /\ k.services[i].start <= found[1].declaration
                          /\ found[1].declaration <= k.services[i].end}
           least == CHOOSE i \in holders : \A j \in holders : i <= j
           start == k.services[least].start
           N == Len(found)
           V == GoodCache(services, n)
           S == [h \in 0..N |-> V]
           step == [h \in 1..N |-> [q \in V |-> AddCharacteristic(q, start, found[h])]]
           Value(f, h) == IF h = 0 THEN k ELSE AddCharacteristic(f[h - 1], start, found[h])
           g == CHOOSE f : f = [h \in 0..N |-> Value(f, h)]
<1>1. SUFFICES ASSUME holders # {} PROVE g[N] \in V
  BY DEF AddCharacteristics
<1>2. start \in Nat
  <2>1. k.services \in Seq(ServiceEntry)
    BY DEF GoodCache
  <2>2. holders \subseteq DOMAIN k.services /\ DOMAIN k.services \subseteq Nat
    BY <2>1
  <2> HIDE DEF holders
  <2>3. \E i \in holders : \A j \in holders : i <= j
    BY <1>1, <2>2, LeastOf
  <2>4. least \in DOMAIN k.services
    BY <2>2, <2>3
  <2>5. k.services[least] \in ServiceEntry
    BY <2>1, <2>4, ElementOfSeq
  <2> QED  BY <2>5 DEF ServiceEntry
<1> HIDE DEF start
<1>3. N \in Nat /\ DOMAIN found = 1..N
  OBVIOUS
<1>4. ASSUME NEW h \in 1..N, NEW q \in V PROVE AddCharacteristic(q, start, found[h]) \in V
  <2>1. found[h] \in FoundCharacteristic /\ Exact(services, n, found[h].handle, found[h].uuid)
    BY <1>3, ElementOfSeq
  <2> QED  BY <2>1, <1>2, CharacteristicAdded
<1>5. \A h \in 0..N : S[h] = V
  OBVIOUS
<1>6. \A h \in 1..N : \A q \in V : step[h][q] = AddCharacteristic(q, start, found[h])
  <2> HIDE DEF N, V
  <2> QED  OBVIOUS
<1>7. k \in V
  OBVIOUS
<1> HIDE DEF N, V, S, step
<1>8. PICK f : Chained(f, N, V, S, k, step)
  <2>1. \A h \in 1..N : h - 1 \in 0..N /\ h \in 0..N
    BY <1>3
  <2>2. \A h \in 1..N : \A q \in S[h - 1] : step[h][q] \in S[h]
    <3> TAKE h \in 1..N
    <3>1. S[h - 1] = V /\ S[h] = V
      BY <2>1, <1>5
    <3>2. \A q \in V : step[h][q] \in V
      BY <1>4, <1>6
    <3> QED  BY <3>1, <3>2
  <2>3. 0 \in 0..N
    BY <1>3
  <2>4. Leads(N, V, S, k, step)
    BY <1>3, <1>5, <1>7, <2>2, <2>3 DEF Leads
  <2> QED  BY <2>4, Chain
<1>9. f = [h \in 0..N |-> Value(f, h)]
  <2>1. f \in [0..N -> V]
    BY <1>8 DEF Chained
  <2>2. ASSUME NEW h \in 0..N, h # 0 PROVE f[h] = Value(f, h)
    <3>1. h \in 1..N /\ h - 1 \in 0..N
      BY <2>2, <1>3
    <3>2. f[h - 1] \in V
      BY <2>1, <3>1
    <3>3. f[h] = step[h][f[h - 1]]
      BY <1>8, <3>1 DEF Chained
    <3> QED  BY <2>2, <3>1, <3>2, <3>3, <1>6
  <2>3. \A h \in 0..N : f[h] = Value(f, h)
    BY <2>2, <1>8 DEF Chained
  <2> HIDE DEF Value
  <2> QED  BY <2>1, <2>3
<1>10. g = [h \in 0..N |-> Value(g, h)]
  <2>1. \E q : q = [h \in 0..N |-> Value(q, h)]
    BY <1>9
  <2> HIDE DEF Value
  <2> QED  BY <2>1
<1>11. \A h \in 0..N : g[h] = Value(g, h)
  <2> HIDE DEF g, Value
  <2> QED  BY <1>10
<1> HIDE DEF g
<1> DEFINE T == {h \in 0..N : g[h] \in V}
<1>12. 0 \in T
  BY <1>3, <1>7, <1>11
<1>13. \A h \in 0..N : h \in T /\ h < N => h + 1 \in T
  <2> SUFFICES ASSUME NEW h \in T, h < N PROVE h + 1 \in T
    OBVIOUS
  <2>1. h + 1 \in 1..N /\ h + 1 \in 0..N /\ (h + 1) - 1 = h /\ h + 1 # 0
    BY <1>3
  <2>2. g[h + 1] = AddCharacteristic(g[h], start, found[h + 1])
    BY <2>1, <1>11
  <2> QED  BY <2>1, <2>2, <1>4
<1>14. 0..N \subseteq T
  <2> HIDE DEF T
  <2> QED  BY <1>3, <1>12, <1>13, UpTo
<1> QED  BY <1>3, <1>14

\* localUUIDToHandle finds a registered characteristic, and the central's own table
\* names what it finds the same.
LEMMA HandleFound ==
  ASSUME NEW services \in Layouts, NEW n \in 0..Len(services), NEW i \in 1..n,
         NEW u \in UUIDsOf(<<services[i]>>)
  PROVE LET h == LocalUUIDToHandle(Tables[services][n], u)
        IN h \in DOMAIN Tables[services][n] /\ Tables[services][n][h].type = u
<1> DEFINE t == Tables[services][n]
           S == {h \in DOMAIN t : t[h].type = u}
<1>1. S # {} /\ S \subseteq Nat
  <2>1. t \in GoodTable(services, n) /\ t \in Seq(Attribute)
    BY TableGood
  <2>2. \E h \in DOMAIN t : t[h].type = u
    BY <2>1 DEF GoodTable
  <2>3. DOMAIN t \subseteq Nat
    BY <2>1
  <2> QED  BY <2>2, <2>3
<1>2. \E h \in S : \A g \in S : h <= g
  <2> HIDE DEF S
  <2> QED  BY <1>1, LeastOf
<1>3. \E h \in DOMAIN t : t[h].type = u /\ \A g \in DOMAIN t : t[g].type = u => h <= g
  BY <1>2
<1> HIDE DEF t
<1>4. LET h == LocalUUIDToHandle(t, u) IN h \in DOMAIN t /\ t[h].type = u
  BY <1>3 DEF LocalUUIDToHandle
<1> QED  BY <1>4 DEF t

LEMMA OwnName ==
  ASSUME NEW services \in Layouts, NEW h \in DOMAIN Tables[services][Len(services)]
  PROVE HandleToUUIDs(Tables[services][Len(services)], h).char
          = Tables[services][Len(services)][h].type
<1> DEFINE t == Tables[services][Len(services)]
<1>1. Len(services) \in 0..Len(services)
  BY LayoutsAre
<1>2. t \in GoodTable(services, Len(services)) /\ t \in Seq(Attribute)
  BY <1>1, TableGood
<1>3. h \in 1..Len(t) /\ 1 \in DOMAIN t /\ t[1].type \in ServiceTypes
  BY <1>2 DEF GoodTable
<1> HIDE DEF t
<1>4. {g \in DOMAIN t : g <= h /\ t[g].type \in ServiceTypes} # {}
  BY <1>3
<1> QED  BY <1>4 DEF HandleToUUIDs, t

-----------------------------------------------------------------------------
(* The link *)

Packet == [op : {"services", "characteristics"}, first : Nat, last : Nat]
            \cup [op : {"write"}, handle : Nat]
Answer == [op : {"error", "written"}]
            \cup [op : {"services"}, data : Seq(ServiceEntry)]
            \cup [op : {"characteristics"}, data : Seq(FoundCharacteristic)]
            \cup [op : {"notify"}, handle : Nat, sent : UUID]
TaskRecord == [id : Nat, at : Nat, op : {"services", "characteristics"},
               stage : {"lookup", "delay", "waiting", "stray", "collect", "convert", "legacy",
                        "subscribe"},
               left : Seq(ServiceEntry) \cup Seq(UUID), found : Seq(ServiceEntry),
               range : Nat \X Nat]

\* What a central that has asked for A may have under way to a server of n services: a
\* write goes to the attribute after the value of what this central asked for.
RequestsOf(c, A, services, n) ==
  {p \in Packet : p.op = "write" =>
     \E u \in UUID : \E h \in DOMAIN Tables[services][n] :
        <<c, u>> \in A /\ p.handle = h + 1 /\ Exact(services, n, h, u)}

\* What may come back: handles that are exact, and notifications whose handle is of the
\* type they were sent for in the whole table, which the central's application shares.
AnswersOf(services, n) ==
  {p \in Answer :
     /\ p.op = "characteristics" =>
           \A i \in DOMAIN p.data : Exact(services, n, p.data[i].handle, p.data[i].uuid)
     /\ p.op = "notify" => /\ p.handle \in DOMAIN Tables[services][Len(services)]
                           /\ Tables[services][Len(services)][p.handle].type = p.sent}

\* A goroutine goes through services until it subscribes, and then through what is wanted.
GoodTasks(m) ==
  {t \in TaskRecord : /\ t.at <= m /\ t.id \in 1..m
                      /\ IF t.stage = "subscribe" THEN t.left \in Seq(Range(Wanted)) /\ t.left # <<>>
                         ELSE t.left \in Seq(ServiceEntry)}

IsRegistered(services, n, name) ==
  \E i \in 1..n : name.service = services[i].uuid /\ name.char \in UUIDsOf(<<services[i]>>)

ServerOK ==
  /\ layout \in Layouts /\ phase \in {"down", "starting", "ready"}
  /\ added \in 0..Len(layout) /\ published \in 0..Len(layout)
  /\ phase = "ready" => added = Len(layout)

\* A central connects again only after a loss.
CountsOK ==
  /\ conn \in [Central -> Nat] /\ made \in [Central -> Nat] /\ failures \in 0..MaxFailures
  /\ \A c \in Central : /\ conn[c] = 0 \/ conn[c] = made[c]
                        /\ made[c] <= failures + (IF conn[c] = 0 THEN 0 ELSE 1)

QueuesOK ==
  /\ toServer \in [Central -> Seq(Packet)] /\ toCentral \in [Central -> Seq(Answer)]
  /\ \A c \in Central : /\ toServer[c] \in Seq(RequestsOf(c, asked, layout, added))
                        /\ toCentral[c] \in Seq(AnswersOf(layout, added))
                        /\ conn[c] = 0 => toServer[c] = <<>> /\ toCentral[c] = <<>>

CachesOK ==
  /\ cache \in [Central -> GoodCache(layout, added)]
  /\ \A c \in Central : conn[c] = 0 => cache[c] = EmptyCache

TasksOK ==
  /\ tasks \in [Central -> SUBSET TaskRecord]
  /\ \A c \in Central : tasks[c] \subseteq GoodTasks(made[c])

MarksOK ==
  /\ tracker \in [Central -> {"none"} \cup Ops]
  /\ known \in [Central -> SUBSET UUIDsOf(layout)]
  /\ notifying \in [Central -> SUBSET Wants]

\* What is handed to the manager and what it lists was asked for, and names a
\* characteristic that is registered.
ManagerOK ==
  /\ asked \subseteq Central \X Wants
  /\ subscribers \subseteq asked
  /\ \A s \in subscribers : \E i \in 1..added : s[2] \in UUIDsOf(<<layout[i]>>)
  /\ \A d \in delivering : /\ d.central \in Central /\ d.at \in 1..made[d.central]
                           /\ IsRegistered(layout, added, d.name)
                           /\ <<d.central, d.name.char>> \in asked

EnabledOK ==
  /\ cccd \in [Central -> SUBSET Nat]
  /\ \A c \in Central : cccd[c] \subseteq DOMAIN Table
  /\ EnabledIsSubscribed

LinkIInv ==
  /\ ServerOK /\ CountsOK /\ QueuesOK /\ CachesOK /\ TasksOK /\ MarksOK /\ ManagerOK
  /\ EnabledOK /\ HeardAsSent

-----------------------------------------------------------------------------
\* The inductive invariant implies what the run checks.
LEMMA LinkIInvType == LinkIInv => LinkTypeOK
<1> SUFFICES ASSUME LinkIInv PROVE LinkTypeOK
  OBVIOUS
<1> USE DEF LinkIInv
<1>1. layout \in Layouts /\ layout \in Seq(ServiceRecord) /\ added \in 0..Len(layout)
  BY LayoutsAre DEF ServerOK
<1>2. subscribers \subseteq Central \X UUIDsOf(layout) /\ asked \subseteq Central \X Wants
  BY DEF ManagerOK, Wants
<1>3. \A d \in delivering : d.central \in Central /\ d.at \in 1..made[d.central]
  BY DEF ManagerOK
<1>4. ASSUME NEW c \in Central
      PROVE /\ made[c] \in 0..(MaxFailures + 1) /\ conn[c] \in {0, made[c]}
            /\ conn[c] = 0 => toServer[c] = <<>> /\ toCentral[c] = <<>> /\ cache[c] = EmptyCache
  <2>1. MaxFailures \in Nat /\ made[c] \in Nat /\ failures \in 0..MaxFailures
    BY GattLinkAssumption DEF CountsOK
  <2>2. made[c] <= failures + 1
    BY <2>1 DEF CountsOK
  <2> QED  BY <2>1, <2>2 DEF CountsOK, QueuesOK, CachesOK
<1>5. ASSUME NEW c \in Central PROVE cccd[c] \subseteq Handles
  <2>1. Len(layout) \in Nat
    BY <1>1
  <2>2. Len(layout) \in added..Len(layout) /\ Len(layout) \in 0..Len(layout)
    BY <1>1, <2>1
  <2>3. Table \in Seq(Attribute) /\ OwnTable \in Seq(Attribute) /\ Extends(OwnTable, Table)
    BY <1>1, <2>2, TableGood, TableGrows DEF Table, OwnTable
  <2>4. DOMAIN Table \subseteq 1..Len(OwnTable)
    BY <2>3 DEF Extends
  <2> QED  BY <2>4 DEF EnabledOK, Handles
<1>6. \A c \in Central : /\ tracker[c] \in {"none"} \cup Ops
                         /\ known[c] \subseteq UUIDsOf(layout)
                         /\ notifying[c] \subseteq known[c] \cup Wants
  BY DEF MarksOK
<1>7. \A c \in Central : \A t \in tasks[c] : t.at <= made[c] /\ t.id \in 1..made[c]
  BY DEF TasksOK, GoodTasks
<1>8. /\ phase \in {"down", "starting", "ready"} /\ published \in 0..Len(layout)
      /\ phase = "ready" => added = Len(layout)
  BY DEF ServerOK
<1> QED  BY <1>1, <1>2, <1>3, <1>4, <1>5, <1>6, <1>7, <1>8 DEF LinkTypeOK

LEMMA LinkIInvExact == LinkIInv => CacheIsExact /\ SubscriberAsked
<1> SUFFICES ASSUME LinkIInv PROVE CacheIsExact /\ SubscriberAsked
  OBVIOUS
<1>1. layout \in Seq(ServiceRecord) /\ added \in 0..Len(layout)
  BY LayoutsAre DEF LinkIInv, ServerOK
<1>2. 1..added \subseteq DOMAIN layout
  BY <1>1
<1>3. \A c \in Central : \A u \in DOMAIN cache[c].handles : Exact(layout, added, cache[c].handles[u], u)
  BY CacheFields DEF LinkIInv, CachesOK
<1>4. CacheIsExact
  BY <1>2, <1>3 DEF CacheIsExact, Exact, Table
<1> QED  BY <1>4 DEF LinkIInv, ManagerOK, SubscriberAsked

LEMMA InitLink == Init => LinkIInv
<1> SUFFICES ASSUME Init PROVE LinkIInv
  OBVIOUS
<1> USE DEF Init
<1>1. ServerOK
  BY LayoutsAre DEF ServerOK
<1>2. CountsOK
  <2>1. MaxFailures \in Nat
    BY GattLinkAssumption
  <2> QED  BY <2>1 DEF CountsOK
<1>3. QueuesOK
  BY DEF QueuesOK
<1>4. CachesOK
  BY EmptyCacheGood DEF CachesOK
<1>5. TasksOK
  BY DEF TasksOK
<1>6. MarksOK
  BY DEF MarksOK
<1>7. ManagerOK
  BY DEF ManagerOK
<1>8. EnabledOK
  BY DEF EnabledOK, EnabledIsSubscribed
<1>9. HeardAsSent
  BY DEF HeardAsSent
<1> QED  BY <1>1, <1>2, <1>3, <1>4, <1>5, <1>6, <1>7, <1>8, <1>9 DEF LinkIInv

\* Each part is about a few of the variables.
LEMMA ServerFrame == ServerOK /\ UNCHANGED <<layout, phase, added, published>> => ServerOK'
BY DEF ServerOK

LEMMA CountsFrame == CountsOK /\ UNCHANGED <<conn, made, failures>> => CountsOK'
BY DEF CountsOK

LEMMA QueuesFrame ==
  QueuesOK /\ UNCHANGED <<toServer, toCentral, asked, layout, added, conn>> => QueuesOK'
BY DEF QueuesOK

LEMMA CachesFrame == CachesOK /\ UNCHANGED <<cache, layout, added, conn>> => CachesOK'
BY DEF CachesOK

LEMMA TasksFrame == TasksOK /\ UNCHANGED <<tasks, made>> => TasksOK'
BY DEF TasksOK

LEMMA MarksFrame == MarksOK /\ UNCHANGED <<tracker, known, notifying, layout>> => MarksOK'
BY DEF MarksOK, Wants

LEMMA ManagerFrame ==
  ManagerOK /\ UNCHANGED <<asked, subscribers, delivering, layout, added, made>> => ManagerOK'
BY DEF ManagerOK, Wants

LEMMA EnabledFrame ==
  EnabledOK /\ UNCHANGED <<cccd, subscribers, delivering, layout, added>> => EnabledOK'
BY DEF EnabledOK, EnabledIsSubscribed, Table

LEMMA HeardFrame == HeardAsSent /\ UNCHANGED heard => HeardAsSent'
BY DEF HeardAsSent

-----------------------------------------------------------------------------
(* The goroutine of a discovery *)

\* A change to a goroutine that keeps what it goes through keeps the tasks good.
LEMMA TaskBecomes ==
  ASSUME TasksOK, NEW c \in Central, NEW t \in tasks[c], NEW new,
         new \in GoodTasks(made[c]), Become(c, t, new), made' = made
  PROVE TasksOK'
<1>1. new \in TaskRecord
  BY DEF GoodTasks
<1>2. tasks' \in [Central -> SUBSET TaskRecord]
  BY <1>1 DEF Become, TasksOK
<1>3. \A d \in Central : tasks'[d] \subseteq GoodTasks(made[d])
  BY DEF Become, TasksOK
<1> QED  BY <1>2, <1>3 DEF TasksOK

\* The fields of a goroutine.
LEMMA TaskFields ==
  ASSUME TasksOK, NEW c \in Central, NEW t \in tasks[c]
  PROVE t \in TaskRecord /\ t \in GoodTasks(made[c])
BY DEF TasksOK

LEMMA FailedGood ==
  ASSUME NEW m \in Nat, NEW t \in GoodTasks(m), t.stage # "subscribe"
  PROVE Failed(t) \in GoodTasks(m) /\ Answered(t) \in GoodTasks(m)
<1>1. t \in TaskRecord /\ t.left \in Seq(ServiceEntry) /\ t.at <= m /\ t.id \in 1..m
  BY DEF GoodTasks
<1>2. ASSUME NEW stage \in {"legacy", "collect"} PROVE [t EXCEPT !.stage = stage] \in GoodTasks(m)
  <2>1. [t EXCEPT !.stage = stage] \in TaskRecord
    BY <1>1 DEF TaskRecord
  <2>2. LET r == [t EXCEPT !.stage = stage]
        IN r.stage = stage /\ r.left = t.left /\ r.at = t.at /\ r.id = t.id
    BY <1>1 DEF TaskRecord
  <2> QED  BY <1>1, <2>1, <2>2 DEF GoodTasks
<1>3. NextService(t) \in GoodTasks(m)
  <2>1. CASE Len(t.left) > 1
    <3> DEFINE rest == Tail(t.left)
               r == [t EXCEPT !.op = "characteristics", !.stage = "lookup", !.left = rest]
    <3>1. rest \in Seq(ServiceEntry)
      BY <1>1, <2>1
    <3> HIDE DEF rest
    <3>2. r \in TaskRecord
      BY <1>1, <3>1 DEF TaskRecord
    <3>3. r.stage = "lookup" /\ r.left = rest /\ r.at = t.at /\ r.id = t.id
      BY <1>1 DEF TaskRecord
    <3>4. NextService(t) = r
      BY <2>1 DEF NextService, rest
    <3> HIDE DEF r
    <3> QED  BY <1>1, <3>1, <3>2, <3>3, <3>4 DEF GoodTasks
  <2>2. CASE ~(Len(t.left) > 1)
    <3> DEFINE none == <<>>
               r == [t EXCEPT !.stage = "convert", !.left = none]
    <3>4. none \in Seq(ServiceEntry)
      OBVIOUS
    <3>3. NextService(t) = r
      BY <2>2 DEF NextService
    <3> HIDE DEF none
    <3>1. r \in TaskRecord
      BY <1>1, <3>4 DEF TaskRecord
    <3>2. r.stage = "convert" /\ r.left = none /\ r.at = t.at /\ r.id = t.id
      BY <1>1 DEF TaskRecord
    <3> HIDE DEF r
    <3> QED  BY <1>1, <3>1, <3>2, <3>3, <3>4 DEF GoodTasks
  <2> QED  BY <2>1, <2>2
<1> QED  BY <1>2, <1>3 DEF Failed, Answered

LEMMA LookupStep ==
  ASSUME LinkIInv, NEW c \in Central, Lookup(c)
  PROVE LinkIInv'
<1> USE DEF LinkIInv
<1>1. PICK t \in tasks[c] :
         /\ t.stage = "lookup"
         /\ LET services == {i \in DOMAIN cache[c].services :
                                t.op = "characteristics" /\ cache[c].services[i].uuid = t.left[1].uuid}
                s == cache[c].services[CHOOSE i \in services : \A j \in services : i <= j]
            IN IF conn[c] = 0 \/ (t.op = "characteristics" /\ services = {})
               THEN Become(c, t, Failed(t))
               ELSE Become(c, t, [t EXCEPT !.at = conn[c], !.stage = "delay",
                                           !.range = IF t.op = "services" THEN <<1, LastHandle>>
                                                     ELSE <<s.start, s.end>>])
  BY DEF Lookup
<1>2. UNCHANGED <<server, conn, made, toServer, toCentral, cccd, cache, tracker, known,
                  notifying, asked, heard, bounds>>
  BY DEF Lookup
<1>3. t \in TaskRecord /\ t \in GoodTasks(made[c]) /\ t.left \in Seq(ServiceEntry)
      /\ t.at <= made[c] /\ t.id \in 1..made[c]
  BY <1>1, TaskFields DEF GoodTasks
<1>4. made[c] \in Nat /\ conn[c] \in Nat /\ conn[c] <= made[c]
  BY DEF CountsOK
<1>5. TasksOK'
  <2> DEFINE services == {i \in DOMAIN cache[c].services :
                             t.op = "characteristics" /\ cache[c].services[i].uuid = t.left[1].uuid}
             s == cache[c].services[CHOOSE i \in services : \A j \in services : i <= j]
             range == IF t.op = "services" THEN <<1, LastHandle>> ELSE <<s.start, s.end>>
             r == [t EXCEPT !.at = conn[c], !.stage = "delay", !.range = range]
  <2>1. CASE conn[c] = 0 \/ (t.op = "characteristics" /\ services = {})
    <3>1. Become(c, t, Failed(t))
      BY <1>1, <2>1
    <3>2. Failed(t) \in GoodTasks(made[c])
      BY <1>1, <1>3, <1>4, FailedGood
    <3> QED  BY <1>2, <3>1, <3>2, TaskBecomes
  <2>2. CASE ~(conn[c] = 0 \/ (t.op = "characteristics" /\ services = {}))
    <3>1. Become(c, t, r)
      BY <1>1, <2>2
    <3>2. range \in Nat \X Nat
      <4>1. CASE t.op = "services"
        BY <4>1 DEF LastHandle
      <4>2. CASE t.op # "services"
        <5>1. t.op = "characteristics"
          BY <1>3, <4>2 DEF TaskRecord
        <5>2. cache[c].services \in Seq(ServiceEntry)
          BY CacheFields DEF CachesOK
        <5>3. services # {} /\ services \subseteq DOMAIN cache[c].services /\ services \subseteq Nat
          BY <2>2, <5>1, <5>2
        <5> HIDE DEF services
        <5>4. \E i \in services : \A j \in services : i <= j
          BY <5>3, LeastOf
        <5>5. (CHOOSE i \in services : \A j \in services : i <= j) \in DOMAIN cache[c].services
          BY <5>3, <5>4
        <5>6. s \in ServiceEntry
          BY <5>2, <5>5, ElementOfSeq
        <5> QED  BY <4>2, <5>6 DEF ServiceEntry
      <4> QED  BY <4>1, <4>2
    <3> HIDE DEF range
    <3>3. r \in TaskRecord
      BY <1>3, <1>4, <3>2 DEF TaskRecord
    <3>4. r.stage = "delay" /\ r.left = t.left /\ r.at = conn[c] /\ r.id = t.id
      BY <1>3 DEF TaskRecord
    <3> HIDE DEF r
    <3>5. r \in GoodTasks(made[c])
      BY <1>3, <1>4, <3>3, <3>4 DEF GoodTasks
    <3> QED  BY <1>2, <3>1, <3>5, TaskBecomes
  <2> QED  BY <2>1, <2>2
<1>6. UNCHANGED <<layout, phase, added, published, subscribers, delivering, conn, made, toServer,
                  toCentral, cccd, cache, tracker, known, notifying, asked, heard, failures>>
  BY <1>2 DEF server, bounds
<1> QED  BY <1>5, <1>6, ServerFrame, CountsFrame, QueuesFrame, CachesFrame, MarksFrame,
            ManagerFrame, EnabledFrame, HeardFrame

\* A request to the present connection is of the type the server reads.
LEMMA SendRequestStep ==
  ASSUME LinkIInv, NEW c \in Central, SendRequest(c)
  PROVE LinkIInv'
<1> USE DEF LinkIInv
<1> DEFINE Mine(t) == t.at = conn[c]
           Cleared(t) == IF Mine(t) /\ t.op = "services" THEN [cache[c] EXCEPT !.services = <<>>]
                         ELSE cache[c]
           Accepted(t) == conn[c] # 0 /\ tracker[c] \in IF Mine(t) THEN {"none"} ELSE {"none", t.op}
           Sent(t) == [t EXCEPT !.stage = IF Mine(t) THEN "waiting" ELSE "stray"]
<1>1. PICK t \in tasks[c] :
         /\ t.stage = "delay"
         /\ cache' = [cache EXCEPT ![c] = Cleared(t)]
         /\ IF Accepted(t)
            THEN /\ tracker' = [tracker EXCEPT ![c] = t.op]
                 /\ toServer' = [toServer EXCEPT ![c] = Append(@, Request(t))]
                 /\ Become(c, t, Sent(t))
            ELSE /\ Become(c, t, Failed(t))
                 /\ UNCHANGED <<tracker, toServer>>
  BY DEF SendRequest
<1>2. UNCHANGED <<layout, phase, added, published, subscribers, delivering, conn, made,
                  toCentral, cccd, known, notifying, asked, heard, failures>>
  BY DEF SendRequest, server, bounds
<1>3. t \in TaskRecord /\ t \in GoodTasks(made[c]) /\ t.left \in Seq(ServiceEntry)
      /\ t.at <= made[c] /\ t.id \in 1..made[c]
  BY <1>1, TaskFields DEF GoodTasks
<1>4. made[c] \in Nat
  BY DEF CountsOK
<1>5. TasksOK'
  <2>1. CASE Accepted(t)
    <3> DEFINE stage == IF Mine(t) THEN "waiting" ELSE "stray"
    <3>1. stage \in {"waiting", "stray"}
      OBVIOUS
    <3> HIDE DEF stage
    <3> DEFINE r == [t EXCEPT !.stage = stage]
    <3>2. r \in TaskRecord
      BY <1>3, <3>1 DEF TaskRecord
    <3>3. r.stage = stage /\ r.left = t.left /\ r.at = t.at /\ r.id = t.id
      BY <1>3 DEF TaskRecord
    <3>4. Become(c, t, r)
      BY <1>1, <2>1 DEF stage
    <3> HIDE DEF r
    <3>5. r \in GoodTasks(made[c])
      BY <1>3, <3>1, <3>2, <3>3 DEF GoodTasks
    <3> QED  BY <1>2, <3>4, <3>5, TaskBecomes
  <2>2. CASE ~Accepted(t)
    <3>1. Become(c, t, Failed(t))
      BY <1>1, <2>2
    <3>2. Failed(t) \in GoodTasks(made[c])
      BY <1>1, <1>3, <1>4, FailedGood
    <3> QED  BY <1>2, <3>1, <3>2, TaskBecomes
  <2> QED  BY <2>1, <2>2
<1>6. CachesOK'
  <2>1. cache[c] \in GoodCache(layout, added)
    BY DEF CachesOK
  <2>2. Cleared(t) \in GoodCache(layout, added)
    BY <2>1, ServicesCleared
  <2>3. conn[c] = 0 => Cleared(t) = EmptyCache
    <3> SUFFICES ASSUME conn[c] = 0 PROVE [cache[c] EXCEPT !.services = <<>>] = EmptyCache
      BY DEF CachesOK
    <3>1. cache[c] = EmptyCache
      BY DEF CachesOK
    <3>2. cache[c].services = <<>>
      BY <3>1 DEF EmptyCache
    <3>3. cache[c] = [services |-> cache[c].services, chars |-> cache[c].chars, handles |-> cache[c].handles]
      BY <2>1, CacheFields
    <3> QED  BY <3>1, <3>2, <3>3
  <2> HIDE DEF Cleared
  <2> QED  BY <1>1, <1>2, <2>2, <2>3 DEF CachesOK
<1>7. QueuesOK'
  <2>1. CASE Accepted(t)
    <3>1. toServer' = [toServer EXCEPT ![c] = Append(@, Request(t))] /\ conn[c] # 0
      BY <1>1, <2>1
    <3>2. Request(t) \in Packet /\ Request(t).op # "write"
      BY <1>3 DEF Request, Packet, TaskRecord
    <3>3. Request(t) \in RequestsOf(c, asked, layout, added)
      BY <3>2 DEF RequestsOf
    <3>4. toServer[c] \in Seq(RequestsOf(c, asked, layout, added)) /\ toServer[c] \in Seq(Packet)
      BY DEF QueuesOK
    <3>5. /\ Append(toServer[c], Request(t)) \in Seq(RequestsOf(c, asked, layout, added))
          /\ Append(toServer[c], Request(t)) \in Seq(Packet)
      BY <3>2, <3>3, <3>4
    <3> QED  BY <1>2, <3>1, <3>5 DEF QueuesOK
  <2>2. CASE ~Accepted(t)
    BY <1>1, <1>2, <2>2, QueuesFrame
  <2> QED  BY <2>1, <2>2
<1>8. MarksOK'
  <2>1. t.op \in Ops
    BY <1>3 DEF TaskRecord, Ops
  <2>2. tracker' \in [Central -> {"none"} \cup Ops]
    BY <1>1, <2>1 DEF MarksOK
  <2> QED  BY <1>2, <2>2 DEF MarksOK, Wants
<1> QED  BY <1>2, <1>5, <1>6, <1>7, <1>8, ServerFrame, CountsFrame, ManagerFrame, EnabledFrame,
            HeardFrame

LEMMA TimeoutStep ==
  ASSUME LinkIInv, NEW c \in Central, Timeout(c)
  PROVE LinkIInv'
<1> USE DEF LinkIInv
<1>1. PICK t \in tasks[c] : t.stage = "stray" /\ Become(c, t, Failed(t))
  BY DEF Timeout
<1>2. UNCHANGED <<layout, phase, added, published, subscribers, delivering, conn, made, toServer,
                  toCentral, cccd, cache, tracker, known, notifying, asked, heard, failures>>
  BY DEF Timeout, server, bounds
<1>3. made[c] \in Nat
  BY DEF CountsOK
<1>4. Failed(t) \in GoodTasks(made[c])
  BY <1>1, <1>3, TaskFields, FailedGood
<1>5. TasksOK'
  BY <1>1, <1>2, <1>4, TaskBecomes
<1> QED  BY <1>2, <1>5, ServerFrame, CountsFrame, QueuesFrame, CachesFrame, MarksFrame,
            ManagerFrame, EnabledFrame, HeardFrame

LEMMA CollectStep ==
  ASSUME LinkIInv, NEW c \in Central, Collect(c)
  PROVE LinkIInv'
<1> USE DEF LinkIInv
<1> DEFINE services == cache[c].services
           Back(t) == [t EXCEPT !.stage = "convert"]
           On(t) == [t EXCEPT !.op = "characteristics", !.stage = "lookup", !.left = services,
                              !.found = services]
<1>1. PICK t \in tasks[c] :
         /\ t.stage = "collect"
         /\ IF conn[c] = 0 THEN tasks' = [tasks EXCEPT ![c] = @ \ {t}]
            ELSE Become(c, t, IF services = <<>> THEN Back(t) ELSE On(t))
  BY DEF Collect
<1>2. UNCHANGED <<layout, phase, added, published, subscribers, delivering, conn, made, toServer,
                  toCentral, cccd, cache, tracker, known, notifying, asked, heard, failures>>
  BY DEF Collect, server, bounds
<1>3. t \in TaskRecord /\ t.left \in Seq(ServiceEntry) /\ t.at <= made[c] /\ t.id \in 1..made[c]
  BY <1>1, TaskFields DEF GoodTasks
<1>4. services \in Seq(ServiceEntry)
  BY CacheFields DEF CachesOK
<1> HIDE DEF services
<1>5. Back(t) \in GoodTasks(made[c])
  <2>1. Back(t) \in TaskRecord
    BY <1>3 DEF TaskRecord
  <2>2. Back(t).stage = "convert" /\ Back(t).left = t.left /\ Back(t).at = t.at /\ Back(t).id = t.id
    BY <1>3 DEF TaskRecord
  <2> HIDE DEF Back
  <2> QED  BY <1>3, <2>1, <2>2 DEF GoodTasks
<1>6. On(t) \in GoodTasks(made[c])
  <2>1. On(t) \in TaskRecord
    BY <1>3, <1>4 DEF TaskRecord
  <2>2. On(t).stage = "lookup" /\ On(t).left = services /\ On(t).at = t.at /\ On(t).id = t.id
    BY <1>3 DEF TaskRecord
  <2> HIDE DEF On
  <2> QED  BY <1>3, <1>4, <2>1, <2>2 DEF GoodTasks
<1>7. TasksOK'
  <2> HIDE DEF Back, On
  <2>1. CASE conn[c] = 0
    BY <1>1, <1>2, <2>1 DEF TasksOK
  <2>2. CASE conn[c] # 0
    <3>1. (IF services = <<>> THEN Back(t) ELSE On(t)) \in GoodTasks(made[c])
      BY <1>5, <1>6
    <3> QED  BY <1>1, <1>2, <2>2, <3>1, TaskBecomes
  <2> QED  BY <2>1, <2>2
<1> QED  BY <1>2, <1>7, ServerFrame, CountsFrame, QueuesFrame, CachesFrame, MarksFrame,
            ManagerFrame, EnabledFrame, HeardFrame

\* From the conversion, or the published file, a goroutine goes on to subscribe.
LEMMA SubscribingGood ==
  ASSUME TasksOK, NEW c \in Central, NEW t \in tasks[c]
  PROVE Subscribing(t) \in GoodTasks(made[c])
<1>1. t \in TaskRecord /\ t.at <= made[c] /\ t.id \in 1..made[c]
  BY TaskFields DEF GoodTasks
<1>2. Wanted \in Seq(UUID) /\ Wanted \in Seq(Range(Wanted)) /\ Wanted # <<>>
  <2>1. Wanted \in Seq(UUID) /\ Photo \in Range(Wanted)
    BY GattLinkAssumption
  <2>2. Range(Wanted) = {Wanted[i] : i \in 1..Len(Wanted)}
    BY <2>1 DEF Range
  <2>3. Wanted \in [1..Len(Wanted) -> Range(Wanted)] /\ Len(Wanted) \in Nat
    BY <2>1, <2>2
  <2>4. Wanted \in Seq(Range(Wanted))
    BY <2>3
  <2>5. Wanted # <<>>
    BY <2>1, <2>2
  <2> QED  BY <2>1, <2>4, <2>5
<1>3. Subscribing(t) \in TaskRecord
  BY <1>1, <1>2 DEF Subscribing, TaskRecord
<1>4. Subscribing(t).stage = "subscribe" /\ Subscribing(t).left = Wanted
      /\ Subscribing(t).at = t.at /\ Subscribing(t).id = t.id
  BY <1>1 DEF Subscribing, TaskRecord
<1> QED  BY <1>1, <1>2, <1>3, <1>4 DEF GoodTasks

LEMMA ConvertStep ==
  ASSUME LinkIInv, NEW c \in Central, Convert(c)
  PROVE LinkIInv'
<1> USE DEF LinkIInv
<1>1. PICK t \in tasks[c] : known' = [known EXCEPT ![c] = Discovered(c, t.found)]
                            /\ Become(c, t, Subscribing(t))
  BY DEF Convert
<1>2. UNCHANGED <<layout, phase, added, published, subscribers, delivering, conn, made, toServer,
                  toCentral, cccd, cache, tracker, notifying, asked, heard, failures>>
  BY DEF Convert, server, bounds
<1>3. TasksOK'
  BY <1>1, <1>2, SubscribingGood, TaskBecomes
<1>4. Discovered(c, t.found) \subseteq UUIDsOf(layout)
  <2>1. cache[c].chars \subseteq [service : Nat, uuid : UUIDsOf(layout), notify : BOOLEAN]
    BY CacheFields DEF CachesOK
  <2> QED  BY <2>1 DEF Discovered
<1>5. MarksOK'
  BY <1>1, <1>2, <1>4 DEF MarksOK, Wants
<1> QED  BY <1>2, <1>3, <1>5, ServerFrame, CountsFrame, QueuesFrame, CachesFrame,
            ManagerFrame, EnabledFrame, HeardFrame

LEMMA LegacyStep ==
  ASSUME LinkIInv, NEW c \in Central, DiscoverServicesLegacy(c)
  PROVE LinkIInv'
<1> USE DEF LinkIInv
<1>1. PICK t \in tasks[c] : known' = [known EXCEPT ![c] = Published] /\ Become(c, t, Subscribing(t))
  BY DEF DiscoverServicesLegacy
<1>2. UNCHANGED <<layout, phase, added, published, subscribers, delivering, conn, made, toServer,
                  toCentral, cccd, cache, tracker, notifying, asked, heard, failures>>
  BY DEF DiscoverServicesLegacy, server, bounds
<1>3. TasksOK'
  BY <1>1, <1>2, SubscribingGood, TaskBecomes
<1>4. Published \subseteq UUIDsOf(layout)
  <2>1. layout \in Seq(ServiceRecord) /\ published \in 0..Len(layout)
    BY LayoutsAre DEF ServerOK
  <2> DEFINE s == SubSeq(layout, 1, published)
  <2>2. DOMAIN s \subseteq DOMAIN layout /\ \A i \in DOMAIN s : s[i] = layout[i]
    BY <2>1
  <2> HIDE DEF s
  <2>3. CharsOf(s) \subseteq CharsOf(layout)
    BY <2>2 DEF CharsOf
  <2> QED  BY <2>3 DEF Published, Notifiable, UUIDsOf, s
<1>5. MarksOK'
  BY <1>1, <1>2, <1>4 DEF MarksOK, Wants
<1> QED  BY <1>2, <1>3, <1>5, ServerFrame, CountsFrame, QueuesFrame, CachesFrame,
            ManagerFrame, EnabledFrame, HeardFrame

-----------------------------------------------------------------------------
(* The application of a central *)

\* A central that asks for more may have under way what it had.
LEMMA RequestsGrow ==
  ASSUME NEW c, NEW A, NEW B, A \subseteq B, NEW services \in Layouts,
         NEW m \in 0..Len(services), NEW n \in m..Len(services)
  PROVE /\ RequestsOf(c, A, services, m) \subseteq RequestsOf(c, B, services, n)
        /\ AnswersOf(services, m) \subseteq AnswersOf(services, n)
<1>1. n \in 0..Len(services)
  OBVIOUS
<1>2. /\ Tables[services][m] \in Seq(Attribute) /\ Tables[services][n] \in Seq(Attribute)
      /\ Extends(Tables[services][n], Tables[services][m])
  BY <1>1, TableGood, TableGrows
<1>3. DOMAIN Tables[services][m] \subseteq DOMAIN Tables[services][n]
  BY <1>2, ExtendsKeeps
<1>4. \A h, u : Exact(services, m, h, u) => Exact(services, n, h, u)
  BY ExactGrows
<1>5. RequestsOf(c, A, services, m) \subseteq RequestsOf(c, B, services, n)
  BY <1>3, <1>4 DEF RequestsOf
<1>6. AnswersOf(services, m) \subseteq AnswersOf(services, n)
  BY <1>4 DEF AnswersOf
<1> QED  BY <1>5, <1>6

\* A subscription is recorded in the history, and its write goes to the right attribute.
LEMMA NotifyValueSet ==
  ASSUME LinkIInv, NEW c \in Central, NEW u \in known[c] \cap Range(Wanted), SetNotifyValue(c, u),
         UNCHANGED <<server, conn, made, toCentral, cccd, cache, known>>
  PROVE QueuesOK' /\ MarksOK' /\ ManagerOK'
<1> USE DEF LinkIInv
<1>1. UNCHANGED <<layout, added, phase, published, subscribers, delivering, conn, made, toCentral,
                  cache, known>>
  BY DEF server
<1>2. u \in Wants /\ u \in UUID
  <2>1. u \in UUIDsOf(layout)
    BY DEF MarksOK
  <2>2. layout \in Seq(ServiceRecord)
    BY LayoutsAre DEF ServerOK
  <2> QED  BY <2>1, <2>2, UUIDsOfMany DEF Wants
<1>3. notifying' = [notifying EXCEPT ![c] = @ \cup {u}]
  BY DEF SetNotifyValue
<1>4. notifying' \in [Central -> SUBSET Wants]
  BY <1>2, <1>3 DEF MarksOK
<1>5. CASE MayWrite(c, u)
  <2> DEFINE p == WriteConfiguration(c, u)
  <2>1. /\ tracker' = [tracker EXCEPT ![c] = "write"]
        /\ toServer' = [toServer EXCEPT ![c] = Append(@, p)]
        /\ asked' = asked \cup {<<c, u>>}
    BY <1>5 DEF SetNotifyValue
  <2>2. conn[c] # 0 /\ u \in DOMAIN cache[c].handles
    BY <1>5 DEF MayWrite
  <2>3. Exact(layout, added, cache[c].handles[u], u)
    BY <2>2, CacheFields DEF CachesOK
  <2>4. cache[c].handles[u] \in DOMAIN Tables[layout][added] /\ cache[c].handles[u] \in Nat
    <3>1. Tables[layout][added] \in Seq(Attribute)
      BY TableGood DEF ServerOK
    <3>2. DOMAIN Tables[layout][added] \subseteq Nat
      BY <3>1
    <3> QED  BY <2>3, <3>2 DEF Exact
  <2>5. p \in Packet /\ p.op = "write" /\ p.handle = cache[c].handles[u] + 1
    BY <2>4 DEF WriteConfiguration, Packet
  <2>6. p \in RequestsOf(c, asked', layout, added)
    BY <1>2, <2>1, <2>3, <2>4, <2>5 DEF RequestsOf
  <2> HIDE DEF p
  <2>7. ASSUME NEW d \in Central PROVE toServer[d] \in Seq(RequestsOf(d, asked', layout, added))
    <3>1. RequestsOf(d, asked, layout, added) \subseteq RequestsOf(d, asked', layout, added)
      <4>1. added \in 0..Len(layout) /\ added \in added..Len(layout) /\ asked \subseteq asked'
        BY <2>1 DEF ServerOK
      <4> QED  BY <4>1, RequestsGrow DEF ServerOK
    <3>2. toServer[d] \in Seq(RequestsOf(d, asked, layout, added))
      BY DEF QueuesOK
    <3> QED  BY <3>1, <3>2
  <2>8. /\ Append(toServer[c], p) \in Seq(RequestsOf(c, asked', layout, added))
        /\ Append(toServer[c], p) \in Seq(Packet)
    <3>1. toServer[c] \in Seq(RequestsOf(c, asked', layout, added)) /\ toServer[c] \in Seq(Packet)
      BY <2>7 DEF QueuesOK
    <3> QED  BY <2>5, <2>6, <3>1
  <2>9. QueuesOK'
    BY <1>1, <2>1, <2>2, <2>7, <2>8 DEF QueuesOK
  <2>10. MarksOK'
    BY <1>1, <1>4, <2>1 DEF MarksOK, Wants, Ops
  <2>11. ManagerOK'
    <3>1. asked' \subseteq Central \X Wants
      BY <1>2, <2>1 DEF ManagerOK
    <3> QED  BY <1>1, <2>1, <3>1 DEF ManagerOK, Wants
  <2> QED  BY <2>9, <2>10, <2>11
<1>6. CASE ~MayWrite(c, u)
  <2>1. UNCHANGED <<tracker, toServer, asked>>
    BY <1>6 DEF SetNotifyValue
  <2> QED  BY <1>1, <1>4, <2>1, QueuesFrame, ManagerFrame DEF MarksOK, Wants
<1> QED  BY <1>5, <1>6

LEMMA SubscribeStep ==
  ASSUME LinkIInv, NEW c \in Central, Subscribe(c)
  PROVE LinkIInv'
<1> USE DEF LinkIInv
<1>1. PICK t \in tasks[c] :
         /\ t.stage = "subscribe"
         /\ tasks' = [tasks EXCEPT ![c] = (@ \ {t}) \cup NextWanted(t)]
         /\ IF t.left[1] \in known[c] THEN SetNotifyValue(c, t.left[1])
            ELSE UNCHANGED <<notifying, tracker, toServer, asked>>
  BY DEF Subscribe
<1>2. UNCHANGED <<server, conn, made, toCentral, cccd, cache, known, heard, bounds>>
  BY DEF Subscribe
<1>3. UNCHANGED <<layout, phase, added, published, subscribers, delivering, conn, made,
                  toCentral, cccd, cache, known, heard, failures>>
  BY <1>2 DEF server, bounds
<1>4. /\ t \in TaskRecord /\ t.at <= made[c] /\ t.id \in 1..made[c]
      /\ t.left \in Seq(Range(Wanted)) /\ t.left # <<>>
  BY <1>1, TaskFields DEF GoodTasks
<1>5. TasksOK'
  <2>1. NextWanted(t) \subseteq GoodTasks(made[c])
    <3>1. CASE Len(t.left) = 1
      BY <3>1 DEF NextWanted
    <3>2. CASE Len(t.left) # 1
      <4> DEFINE rest == Tail(t.left)
                 r == [t EXCEPT !.left = rest]
      <4>1. rest \in Seq(Range(Wanted)) /\ rest # <<>>
        <5>1. Len(t.left) \in Nat /\ Len(t.left) > 1
          <6>1. \A q \in Seq(Range(Wanted)) : Len(q) \in Nat /\ (Len(q) = 0 => q = <<>>)
            OBVIOUS
          <6>2. Len(t.left) \in Nat /\ Len(t.left) # 0
            BY <1>4, <6>1
          <6>3. \A n \in Nat : n # 0 /\ n # 1 => n > 1
            OBVIOUS
          <6> QED  BY <3>2, <6>2, <6>3
        <5>2. rest \in Seq(Range(Wanted)) /\ Len(rest) = Len(t.left) - 1
          BY <1>4, <5>1
        <5> HIDE DEF rest
        <5> QED  BY <5>1, <5>2
      <4>2. rest \in Seq(UUID)
        <5>1. Wanted \in Seq(UUID)
          BY GattLinkAssumption
        <5>2. Range(Wanted) \subseteq UUID
          BY <5>1, ElementOfSeq DEF Range
        <5> QED  BY <4>1, <5>2
      <4>3. NextWanted(t) = {r}
        BY <3>2 DEF NextWanted
      <4> HIDE DEF rest
      <4>4. r \in TaskRecord
        BY <1>4, <4>2 DEF TaskRecord
      <4>5. r.stage = "subscribe" /\ r.left = rest /\ r.at = t.at /\ r.id = t.id
        BY <1>1, <1>4 DEF TaskRecord
      <4> HIDE DEF r
      <4>6. r \in GoodTasks(made[c])
        BY <1>4, <4>1, <4>4, <4>5 DEF GoodTasks
      <4> QED  BY <4>3, <4>6
    <3> QED  BY <3>1, <3>2
  <2>2. NextWanted(t) \subseteq TaskRecord
    BY <2>1 DEF GoodTasks
  <2>3. tasks' \in [Central -> SUBSET TaskRecord]
    BY <1>1, <2>2 DEF TasksOK
  <2> QED  BY <1>1, <1>3, <2>1, <2>3 DEF TasksOK
<1>6. QueuesOK' /\ MarksOK' /\ ManagerOK'
  <2>1. CASE t.left[1] \in known[c]
    <3>1. t.left[1] \in Range(Wanted)
      <4>1. 1 \in 1..Len(t.left)
        BY <1>4
      <4> QED  BY <1>4, <4>1, ElementOfSeq
    <3>2. SetNotifyValue(c, t.left[1])
      BY <1>1, <2>1
    <3> QED  BY <1>2, <2>1, <3>1, <3>2, NotifyValueSet
  <2>2. CASE t.left[1] \notin known[c]
    <3>1. UNCHANGED <<notifying, tracker, toServer, asked>>
      BY <1>1, <2>2
    <3> QED  BY <1>3, <3>1, QueuesFrame, MarksFrame, ManagerFrame
  <2> QED  BY <2>1, <2>2
<1> QED  BY <1>3, <1>5, <1>6, ServerFrame, CountsFrame, CachesFrame, EnabledFrame, HeardFrame

LEMMA RequestPhotoStep ==
  ASSUME LinkIInv, NEW c \in Central, RequestPhoto(c)
  PROVE LinkIInv'
<1> USE DEF LinkIInv
<1>1. Photo \in known[c] /\ Photo \in Range(Wanted) /\ SetNotifyValue(c, Photo)
  BY GattLinkAssumption DEF RequestPhoto
<1>2. UNCHANGED <<server, conn, made, toCentral, cccd, cache, tasks, known, heard, failures>>
  BY DEF RequestPhoto
<1>3. QueuesOK' /\ MarksOK' /\ ManagerOK'
  BY <1>1, <1>2, NotifyValueSet
<1>4. UNCHANGED <<layout, phase, added, published, subscribers, delivering>>
  BY <1>2 DEF server
<1> QED  BY <1>2, <1>3, <1>4, ServerFrame, CountsFrame, CachesFrame, TasksFrame, EnabledFrame,
            HeardFrame

LEMMA NewTaskGood == ASSUME NEW n \in Nat \ {0} PROVE NewTask(n) \in GoodTasks(n)
<1> DEFINE none == <<>>
           range == <<1, LastHandle>>
           t == [id |-> n, at |-> 0, op |-> "services", stage |-> "lookup",
                 left |-> none, found |-> none, range |-> range]
<1>1. none \in Seq(ServiceEntry) /\ range \in Nat \X Nat
  BY DEF LastHandle
<1>2. NewTask(n) = t
  BY DEF NewTask
<1> HIDE DEF none, range
<1>3. t \in TaskRecord
  BY <1>1 DEF TaskRecord
<1>4. t.at = 0 /\ t.id = n /\ t.stage = "lookup" /\ t.left = none
  OBVIOUS
<1> HIDE DEF t
<1>5. t \in GoodTasks(n)
  BY <1>1, <1>3, <1>4 DEF GoodTasks
<1> QED  BY <1>2, <1>5

\* A goroutine stays good when its central makes further connections.
LEMMA TasksGrow ==
  ASSUME NEW m \in Nat, NEW n \in Nat, m <= n PROVE GoodTasks(m) \subseteq GoodTasks(n)
BY DEF GoodTasks, TaskRecord

LEMMA ConnectStep ==
  ASSUME LinkIInv, NEW c \in Central, Connect(c)
  PROVE LinkIInv'
<1> USE DEF LinkIInv
<1>1. /\ conn[c] = 0
      /\ made' = [made EXCEPT ![c] = @ + 1]
      /\ conn' = [conn EXCEPT ![c] = made'[c]]
      /\ cccd' = [cccd EXCEPT ![c] = {}]
      /\ cache' = [cache EXCEPT ![c] = EmptyCache]
      /\ tracker' = [tracker EXCEPT ![c] = "none"]
      /\ tasks' = [tasks EXCEPT ![c] = @ \cup {NewTask(made'[c])}]
  BY DEF Connect
<1>2. UNCHANGED <<layout, phase, added, published, subscribers, delivering, toServer, toCentral,
                  known, notifying, asked, heard, failures>>
  BY DEF Connect, server, bounds
<1>3. /\ conn \in [Central -> Nat] /\ made \in [Central -> Nat] /\ failures \in 0..MaxFailures
      /\ MaxFailures \in Nat
  BY GattLinkAssumption DEF CountsOK
<1>4. made'[c] = made[c] + 1 /\ made'[c] \in Nat \ {0} /\ conn'[c] = made'[c]
  BY <1>1, <1>3
<1>5. CountsOK'
  <2>1. conn' \in [Central -> Nat] /\ made' \in [Central -> Nat]
    BY <1>1, <1>3, <1>4
  <2>2. ASSUME NEW d \in Central
        PROVE /\ conn'[d] = 0 \/ conn'[d] = made'[d]
              /\ made'[d] <= failures + (IF conn'[d] = 0 THEN 0 ELSE 1)
    <3>1. CASE d = c
      <4>1. made[c] <= failures
        BY <1>1 DEF CountsOK
      <4> QED  BY <1>3, <1>4, <3>1, <4>1
    <3>2. CASE d # c
      <4>1. conn'[d] = conn[d] /\ made'[d] = made[d]
        BY <1>1, <1>3, <3>2
      <4> QED  BY <4>1 DEF CountsOK
    <3> QED  BY <3>1, <3>2
  <2> QED  BY <1>2, <1>3, <2>1, <2>2 DEF CountsOK
<1>6. QueuesOK'
  <2>1. \A d \in Central : conn'[d] = 0 => conn[d] = 0
    BY <1>1, <1>3, <1>4
  <2> QED  BY <1>2, <2>1 DEF QueuesOK
<1>7. CachesOK'
  <2>1. EmptyCache \in GoodCache(layout, added)
    BY EmptyCacheGood
  <2>2. \A d \in Central : conn'[d] = 0 => conn[d] = 0
    BY <1>1, <1>3, <1>4
  <2> QED  BY <1>1, <1>2, <2>1, <2>2 DEF CachesOK
<1>8. TasksOK'
  <2>1. NewTask(made'[c]) \in GoodTasks(made'[c])
    BY <1>4, NewTaskGood
  <2>2. NewTask(made'[c]) \in TaskRecord
    BY <2>1 DEF GoodTasks
  <2>3. tasks' \in [Central -> SUBSET TaskRecord]
    BY <1>1, <2>2 DEF TasksOK
  <2>4. ASSUME NEW d \in Central PROVE tasks'[d] \subseteq GoodTasks(made'[d])
    <3>1. CASE d = c
      <4>1. GoodTasks(made[c]) \subseteq GoodTasks(made'[c])
        BY <1>3, <1>4, TasksGrow
      <4> QED  BY <1>1, <2>1, <3>1, <4>1 DEF TasksOK
    <3>2. CASE d # c
      BY <1>1, <1>3, <3>2 DEF TasksOK
    <3> QED  BY <3>1, <3>2
  <2> QED  BY <2>3, <2>4 DEF TasksOK
<1>9. MarksOK'
  BY <1>1, <1>2 DEF MarksOK, Wants
<1>10. ManagerOK'
  <2>1. \A d \in Central : made[d] <= made'[d] /\ made[d] \in Nat /\ made'[d] \in Nat
    BY <1>1, <1>3
  <2>2. ASSUME NEW d \in delivering PROVE d.central \in Central /\ d.at \in 1..made'[d.central]
    <3>1. d.central \in Central /\ d.at \in 1..made[d.central]
      BY DEF ManagerOK
    <3> QED  BY <2>1, <3>1
  <2> QED  BY <1>2, <2>2 DEF ManagerOK, Wants
<1>11. EnabledOK'
  BY <1>1, <1>2 DEF EnabledOK, EnabledIsSubscribed, Table
<1> QED  BY <1>2, <1>5, <1>6, <1>7, <1>8, <1>9, <1>10, <1>11, ServerFrame, HeardFrame

\* The connections of C end; the server may have cleared its records before.
LEMMA AllLost ==
  ASSUME LinkIInv, NEW C \in SUBSET Central, LoseAll(C), failures < MaxFailures,
         failures' = failures + 1, layout' = layout, UNCHANGED <<made, known, notifying>>,
         \/ UNCHANGED <<added, asked>>
         \/ C = Central /\ added' = 0
  PROVE CountsOK' /\ QueuesOK' /\ CachesOK' /\ TasksOK' /\ MarksOK'
<1> USE DEF LinkIInv
<1>1. /\ conn' = [c \in Central |-> IF c \in C THEN 0 ELSE conn[c]]
      /\ toServer' = [c \in Central |-> IF c \in C THEN <<>> ELSE toServer[c]]
      /\ toCentral' = [c \in Central |-> IF c \in C THEN <<>> ELSE toCentral[c]]
      /\ cache' = [c \in Central |-> IF c \in C THEN EmptyCache ELSE cache[c]]
      /\ tracker' = [c \in Central |-> IF c \in C THEN "none" ELSE tracker[c]]
      /\ tasks' = [c \in Central |->
                     IF c \notin C THEN tasks[c]
                     ELSE {IF t.stage = "waiting" /\ t.at = conn[c] THEN Failed(t) ELSE t :
                             t \in tasks[c]}]
  BY DEF LoseAll
<1>2. CountsOK'
  <2>1. /\ conn \in [Central -> Nat] /\ made \in [Central -> Nat] /\ failures \in 0..MaxFailures
        /\ MaxFailures \in Nat
    BY GattLinkAssumption DEF CountsOK
  <2>2. conn' \in [Central -> Nat] /\ failures' \in 0..MaxFailures
    BY <1>1, <2>1
  <2>3. ASSUME NEW c \in Central
        PROVE /\ conn'[c] = 0 \/ conn'[c] = made[c]
              /\ made[c] <= failures' + (IF conn'[c] = 0 THEN 0 ELSE 1)
    <3>1. made[c] \in Nat /\ made[c] <= failures + 1 /\ (conn[c] = 0 => made[c] <= failures)
      BY <2>1 DEF CountsOK
    <3>2. conn[c] = 0 \/ conn[c] = made[c]
      BY DEF CountsOK
    <3> QED  BY <1>1, <2>1, <3>1, <3>2
  <2> QED  BY <2>1, <2>2, <2>3 DEF CountsOK
<1>3. QueuesOK'
  <2>1. toServer' \in [Central -> Seq(Packet)] /\ toCentral' \in [Central -> Seq(Answer)]
    BY <1>1 DEF QueuesOK
  <2>2. ASSUME NEW c \in Central
        PROVE /\ toServer'[c] \in Seq(RequestsOf(c, asked', layout, added'))
              /\ toCentral'[c] \in Seq(AnswersOf(layout, added'))
              /\ conn'[c] = 0 => toServer'[c] = <<>> /\ toCentral'[c] = <<>>
    <3>1. CASE c \in C
      BY <1>1, <3>1
    <3>2. CASE c \notin C
      BY <1>1, <3>2 DEF QueuesOK
    <3> QED  BY <3>1, <3>2
  <2> QED  BY <2>1, <2>2 DEF QueuesOK
<1>4. CachesOK'
  <2>1. ASSUME NEW c \in Central
        PROVE cache'[c] \in GoodCache(layout, added') /\ (conn'[c] = 0 => cache'[c] = EmptyCache)
    <3>1. CASE c \in C
      BY <1>1, <3>1, EmptyCacheGood
    <3>2. CASE c \notin C
      BY <1>1, <3>2 DEF CachesOK
    <3> QED  BY <3>1, <3>2
  <2>2. cache' \in [Central -> GoodCache(layout, added')]
    BY <1>1, <2>1
  <2> QED  BY <2>1, <2>2 DEF CachesOK
<1>5. TasksOK'
  <2>1. ASSUME NEW c \in Central PROVE tasks'[c] \subseteq GoodTasks(made[c])
    <3>1. CASE c \in C
      <4>1. \A t \in tasks[c] : t.stage = "waiting" => Failed(t) \in GoodTasks(made[c])
        BY TaskFields, FailedGood DEF CountsOK
      <4> QED  BY <1>1, <3>1, <4>1 DEF TasksOK
    <3>2. CASE c \notin C
      BY <1>1, <3>2 DEF TasksOK
    <3> QED  BY <3>1, <3>2
  <2>2. \A c \in Central : GoodTasks(made[c]) \subseteq TaskRecord
    BY DEF GoodTasks
  <2>3. tasks' \in [Central -> SUBSET TaskRecord]
    <3>1. \A c \in Central : tasks'[c] \in SUBSET TaskRecord
      BY <2>1, <2>2
    <3> QED  BY <1>1, <3>1
  <2> QED  BY <2>1, <2>3 DEF TasksOK
<1>6. MarksOK'
  BY <1>1 DEF MarksOK, Wants
<1> QED  BY <1>2, <1>3, <1>4, <1>5, <1>6

LEMMA LoseStep ==
  ASSUME LinkIInv, NEW c \in Central, Lose(c)
  PROVE LinkIInv'
<1> USE DEF LinkIInv
<1>1. LoseAll({c}) /\ failures < MaxFailures /\ failures' = failures + 1 /\ {c} \in SUBSET Central
  BY DEF Lose
<1>2. UNCHANGED <<layout, phase, added, published, subscribers, delivering, made, known, notifying,
                  asked, heard>>
  BY DEF Lose, server
<1>3. CountsOK' /\ QueuesOK' /\ CachesOK' /\ TasksOK' /\ MarksOK'
  BY <1>1, <1>2, AllLost
<1>4. EnabledOK'
  <2>1. cccd' = [d \in Central |-> IF d \in {c} THEN {} ELSE cccd[d]]
    BY <1>1 DEF LoseAll
  <2> QED  BY <1>2, <2>1 DEF EnabledOK, EnabledIsSubscribed, Table
<1> QED  BY <1>2, <1>3, <1>4, ServerFrame, ManagerFrame, HeardFrame

LEMMA CrashStep ==
  ASSUME LinkIInv, Crash
  PROVE LinkIInv'
<1> USE DEF LinkIInv
<1>1. /\ failures < MaxFailures /\ failures' = failures + 1
      /\ phase' = "down" /\ added' = 0 /\ subscribers' = {} /\ delivering' = {} /\ asked' = {}
      /\ LoseAll(Central)
      /\ UNCHANGED <<layout, published, made, known, notifying, heard>>
  BY DEF Crash
<1>2. CountsOK' /\ QueuesOK' /\ CachesOK' /\ TasksOK' /\ MarksOK'
  BY <1>1, AllLost
<1>3. ServerOK'
  BY <1>1, LayoutsAre DEF ServerOK
<1>4. ManagerOK'
  BY <1>1 DEF ManagerOK
<1>5. EnabledOK'
  <2>1. cccd' = [d \in Central |-> {}]
    BY <1>1 DEF LoseAll
  <2> QED  BY <2>1 DEF EnabledOK, EnabledIsSubscribed
<1> QED  BY <1>1, <1>2, <1>3, <1>4, <1>5, HeardFrame

-----------------------------------------------------------------------------
(* The server *)

LEMMA StartStep ==
  ASSUME LinkIInv, Start \/ StartAdvertising
  PROVE LinkIInv'
<1> USE DEF LinkIInv
<1>1. UNCHANGED <<layout, added, published, subscribers, delivering, conn, made, toServer,
                  toCentral, cccd, cache, tracker, tasks, known, notifying, asked, heard, failures>>
  BY DEF Start, StartAdvertising, central, bounds
<1>2. ServerOK'
  BY <1>1 DEF ServerOK, Start, StartAdvertising
<1> QED  BY <1>1, <1>2, CountsFrame, QueuesFrame, CachesFrame, TasksFrame, MarksFrame,
            ManagerFrame, EnabledFrame, HeardFrame

\* A service added leaves every handle that is about, and every name, as it was.
LEMMA AddServiceStep ==
  ASSUME LinkIInv, AddService
  PROVE LinkIInv'
<1> USE DEF LinkIInv
<1>1. /\ phase = "starting" /\ added < Len(layout) /\ added' = added + 1 /\ published' = added'
      /\ UNCHANGED <<layout, phase, subscribers, delivering, conn, made, toServer, toCentral, cccd,
                     cache, tracker, tasks, known, notifying, asked, heard, failures>>
  BY DEF AddService, central, bounds
<1>2. /\ layout \in Layouts /\ Len(layout) \in Nat /\ added \in 0..Len(layout)
      /\ added' \in added..Len(layout) /\ added' \in 0..Len(layout)
  BY <1>1, LayoutsAre DEF ServerOK
<1>3. ServerOK'
  BY <1>1, <1>2 DEF ServerOK
<1>4. QueuesOK'
  <2>1. \A c \in Central : RequestsOf(c, asked, layout, added) \subseteq RequestsOf(c, asked, layout, added')
    BY <1>2, RequestsGrow
  <2>2. AnswersOf(layout, added) \subseteq AnswersOf(layout, added')
    BY <1>2, RequestsGrow
  <2>3. \A c \in Central : /\ toServer[c] \in Seq(RequestsOf(c, asked, layout, added'))
                           /\ toCentral[c] \in Seq(AnswersOf(layout, added'))
    BY <2>1, <2>2 DEF QueuesOK
  <2> QED  BY <1>1, <2>3 DEF QueuesOK
<1>5. CachesOK'
  <2>1. GoodCache(layout, added) \subseteq GoodCache(layout, added')
    BY <1>2, CacheGrows
  <2> QED  BY <1>1, <2>1 DEF CachesOK
<1>6. ManagerOK'
  <2>1. 1..added \subseteq 1..added'
    BY <1>2
  <2> QED  BY <1>1, <2>1 DEF ManagerOK, Wants, IsRegistered
<1>7. EnabledOK'
  <2>1. /\ Table \in Seq(Attribute) /\ Table' \in Seq(Attribute) /\ Extends(Table', Table)
    BY <1>1, <1>2, TableGood, TableGrows DEF Table
  <2>2. DOMAIN Table \subseteq DOMAIN Table'
    BY <2>1, ExtendsKeeps
  <2>3. \A h \in DOMAIN Table : HandleToUUIDs(Table', h) = HandleToUUIDs(Table, h)
    BY <2>1, SameNames
  <2>4. \A c \in Central : cccd[c] \subseteq DOMAIN Table
    BY DEF EnabledOK
  <2>5. EnabledIsSubscribed'
    BY <1>1, <2>3, <2>4 DEF EnabledOK, EnabledIsSubscribed
  <2> QED  BY <1>1, <2>2, <2>4, <2>5 DEF EnabledOK
<1> QED  BY <1>1, <1>3, <1>4, <1>5, <1>6, <1>7, CountsFrame, TasksFrame, MarksFrame, HeardFrame

\* A request taken from a queue, and a response put into the other one.
LEMMA ResponseQueued ==
  ASSUME LinkIInv, NEW c \in Central, NEW op, Read(c, op),
         NEW r \in AnswersOf(layout, added), Respond(c, r),
         UNCHANGED <<layout, added, asked, conn>>
  PROVE QueuesOK'
<1> USE DEF LinkIInv
<1>1. /\ toServer[c] # <<>> /\ toServer' = [toServer EXCEPT ![c] = Tail(@)]
      /\ toCentral' = [toCentral EXCEPT ![c] = Append(@, r)]
  BY DEF Read, Respond
<1>2. conn[c] # 0
  BY <1>1 DEF QueuesOK
<1>3. /\ Tail(toServer[c]) \in Seq(Packet)
      /\ Tail(toServer[c]) \in Seq(RequestsOf(c, asked, layout, added))
  <2>1. toServer[c] \in Seq(Packet) /\ toServer[c] \in Seq(RequestsOf(c, asked, layout, added))
    BY DEF QueuesOK
  <2> QED  BY <1>1, <2>1
<1>4. /\ Append(toCentral[c], r) \in Seq(Answer)
      /\ Append(toCentral[c], r) \in Seq(AnswersOf(layout, added))
  <2>1. toCentral[c] \in Seq(Answer) /\ toCentral[c] \in Seq(AnswersOf(layout, added))
    BY DEF QueuesOK
  <2>2. r \in Answer
    BY DEF AnswersOf
  <2> QED  BY <2>1, <2>2
<1> QED  BY <1>1, <1>2, <1>3, <1>4 DEF QueuesOK

\* The request that the server reads.
LEMMA HeadRequest ==
  ASSUME LinkIInv, NEW c \in Central, NEW op, Read(c, op)
  PROVE /\ Head(toServer[c]) \in Packet /\ Head(toServer[c]).op = op
        /\ Head(toServer[c]) \in RequestsOf(c, asked, layout, added) /\ conn[c] # 0
<1>1. toServer[c] # <<>> /\ Head(toServer[c]).op = op
  BY DEF Read
<1>2. toServer[c] \in Seq(Packet) /\ toServer[c] \in Seq(RequestsOf(c, asked, layout, added))
  BY DEF LinkIInv, QueuesOK
<1> QED  BY <1>1, <1>2 DEF LinkIInv, QueuesOK

LEMMA ServeServicesStep ==
  ASSUME LinkIInv, NEW c \in Central, ServeServices(c)
  PROVE LinkIInv'
<1> USE DEF LinkIInv
<1> DEFINE p == Head(toServer[c])
           data == DiscoverServices(Table, p.first, p.last)
           r == Response(data, p.op)
<1>1. /\ Read(c, "services") /\ Respond(c, r)
      /\ UNCHANGED <<layout, phase, added, published, subscribers, delivering, conn, made, cccd,
                     cache, tracker, tasks, known, notifying, asked, heard, failures>>
  BY DEF ServeServices, server, central, bounds
<1>2. p.first \in Nat /\ p.last \in Nat /\ p.op = "services"
  BY <1>1, HeadRequest DEF Packet
<1> HIDE DEF p
<1>3. Table \in Seq(Attribute)
  BY TableGood DEF ServerOK, Table
<1>4. data \in Seq(ServiceEntry)
  BY <1>2, <1>3, ServicesFound
<1> HIDE DEF data
<1>5. r \in AnswersOf(layout, added)
  BY <1>2, <1>4 DEF Response, AnswersOf, Answer
<1> HIDE DEF r
<1>6. QueuesOK'
  BY <1>1, <1>5, ResponseQueued
<1> QED  BY <1>1, <1>6, ServerFrame, CountsFrame, CachesFrame, TasksFrame, MarksFrame,
            ManagerFrame, EnabledFrame, HeardFrame

LEMMA ServeCharacteristicsStep ==
  ASSUME LinkIInv, NEW c \in Central, ServeCharacteristics(c)
  PROVE LinkIInv'
<1> USE DEF LinkIInv
<1> DEFINE p == Head(toServer[c])
           data == DiscoverCharacteristics(Table, p.first, p.last)
           r == Response(data, p.op)
<1>1. /\ Read(c, "characteristics") /\ Respond(c, r)
      /\ UNCHANGED <<layout, phase, added, published, subscribers, delivering, conn, made, cccd,
                     cache, tracker, tasks, known, notifying, asked, heard, failures>>
  BY DEF ServeCharacteristics, server, central, bounds
<1>2. p.op = "characteristics"
  BY <1>1, HeadRequest
<1> HIDE DEF p
<1>3. /\ data \in Seq(FoundCharacteristic)
      /\ \A i \in DOMAIN data : Exact(layout, added, data[i].handle, data[i].uuid)
  BY CharacteristicsFound DEF ServerOK, Table
<1> HIDE DEF data
<1>4. r \in AnswersOf(layout, added)
  BY <1>2, <1>3 DEF Response, AnswersOf, Answer
<1> HIDE DEF r
<1>5. QueuesOK'
  BY <1>1, <1>4, ResponseQueued
<1> QED  BY <1>1, <1>5, ServerFrame, CountsFrame, CachesFrame, TasksFrame, MarksFrame,
            ManagerFrame, EnabledFrame, HeardFrame

\* The subscription that goes on to the manager names what its central asked for.
LEMMA ServeWriteStep ==
  ASSUME LinkIInv, NEW c \in Central, ServeWrite(c)
  PROVE LinkIInv'
<1> USE DEF LinkIInv
<1> DEFINE h == Head(toServer[c]).handle
           Configures == h \in DOMAIN Table /\ Table[h].type = "cccd"
           d == [central |-> c, at |-> conn[c], name |-> HandleToUUIDs(Table, h - 1)]
<1>1. /\ Read(c, "write")
      /\ IF Configures
         THEN /\ SetSubscription(c, h - 1)
              /\ Respond(c, [op |-> "written"])
              /\ delivering' = delivering \cup {d}
         ELSE UNCHANGED <<cccd, toCentral, delivering>>
      /\ UNCHANGED <<layout, phase, added, published, subscribers, conn, made, cache, tracker,
                     tasks, known, notifying, asked, heard, failures>>
  BY DEF ServeWrite, central, bounds
<1>2. Head(toServer[c]) \in RequestsOf(c, asked, layout, added) /\ Head(toServer[c]).op = "write"
      /\ conn[c] # 0
  BY <1>1, HeadRequest
<1>3. PICK u \in UUID : \E x \in DOMAIN Tables[layout][added] :
         <<c, u>> \in asked /\ h = x + 1 /\ Exact(layout, added, x, u)
  BY <1>2 DEF RequestsOf
<1>4. PICK x \in DOMAIN Table : <<c, u>> \in asked /\ h = x + 1 /\ Exact(layout, added, x, u)
  BY <1>3 DEF Table
<1>5. x \in Nat /\ h - 1 = x
  <2>1. Table \in Seq(Attribute)
    BY TableGood DEF ServerOK, Table
  <2> QED  BY <1>4, <2>1
<1>6. CASE Configures
  <2> HIDE DEF h
  <2>1. /\ cccd' = [cccd EXCEPT ![c] = @ \cup {x}]
        /\ Respond(c, [op |-> "written"])
        /\ delivering' = delivering \cup {d}
    BY <1>1, <1>5, <1>6 DEF SetSubscription
  <2>2. PICK i \in 1..added : u \in UUIDsOf(<<layout[i]>>)
                              /\ HandleToUUIDs(Table, x) = [char |-> u, service |-> layout[i].uuid]
    BY <1>4 DEF Exact, Table
  <2>3. d.name = [char |-> u, service |-> layout[i].uuid] /\ d.central = c /\ d.at = conn[c]
        /\ d.name = HandleToUUIDs(Table, x)
    BY <1>5, <2>2
  <2> HIDE DEF d
  <2>4. [op |-> "written"] \in AnswersOf(layout, added)
    BY DEF AnswersOf, Answer
  <2>5. QueuesOK'
    BY <1>1, <2>1, <2>4, ResponseQueued
  <2>6. ManagerOK'
    <3>1. IsRegistered(layout, added, d.name) /\ <<d.central, d.name.char>> \in asked
      BY <1>4, <2>2, <2>3 DEF IsRegistered
    <3>2. d.central \in Central /\ d.at \in 1..made[d.central]
      BY <1>2, <2>3 DEF CountsOK
    <3> QED  BY <1>1, <2>1, <3>1, <3>2 DEF ManagerOK, Wants
  <2>7. EnabledOK'
    <3>1. cccd' \in [Central -> SUBSET Nat]
      BY <1>5, <2>1 DEF EnabledOK
    <3>2. \A e \in Central : cccd'[e] \subseteq DOMAIN Table
      BY <1>4, <2>1 DEF EnabledOK
    <3>3. EnabledIsSubscribed'
      <4>1. ASSUME NEW e \in Central, NEW g \in cccd'[e]
            PROVE \/ <<e, HandleToUUIDs(Table, g).char>> \in subscribers
                  \/ \E f \in delivering' : f.central = e /\ f.name = HandleToUUIDs(Table, g)
        <5>1. CASE g \in cccd[e]
          BY <2>1, <5>1 DEF EnabledOK, EnabledIsSubscribed
        <5>2. CASE g \notin cccd[e]
          <6>1. e = c /\ g = x
            BY <2>1, <4>1, <5>2 DEF EnabledOK
          <6> QED  BY <2>1, <2>3, <6>1
        <5> QED  BY <5>1, <5>2
      <4>2. Table' = Table /\ subscribers' = subscribers
        BY <1>1 DEF Table
      <4> QED  BY <4>1, <4>2 DEF EnabledIsSubscribed
    <3>4. Table' = Table
      BY <1>1 DEF Table
    <3> QED  BY <3>1, <3>2, <3>3, <3>4 DEF EnabledOK
  <2> QED  BY <1>1, <2>5, <2>6, <2>7, ServerFrame, CountsFrame, CachesFrame, TasksFrame,
              MarksFrame, HeardFrame
<1>7. CASE ~Configures
  <2>1. UNCHANGED <<cccd, toCentral, delivering>>
    BY <1>1, <1>7
  <2>2. QueuesOK'
    <3>1. toServer' = [toServer EXCEPT ![c] = Tail(@)] /\ toServer[c] # <<>>
      BY <1>1 DEF Read
    <3>2. /\ Tail(toServer[c]) \in Seq(Packet)
          /\ Tail(toServer[c]) \in Seq(RequestsOf(c, asked, layout, added))
      <4>1. toServer[c] \in Seq(Packet) /\ toServer[c] \in Seq(RequestsOf(c, asked, layout, added))
        BY DEF QueuesOK
      <4> QED  BY <3>1, <4>1
    <3> QED  BY <1>1, <1>2, <2>1, <3>1, <3>2 DEF QueuesOK
  <2> QED  BY <1>1, <2>1, <2>2, ServerFrame, CountsFrame, CachesFrame, TasksFrame, MarksFrame,
              ManagerFrame, EnabledFrame, HeardFrame
<1> QED  BY <1>6, <1>7

\* The manager finds the characteristic that is handed to it, and lists the central.
LEMMA DeliverStep ==
  ASSUME LinkIInv, NEW d \in delivering, Deliver(d)
  PROVE LinkIInv'
<1> USE DEF LinkIInv
<1>1. UNCHANGED <<layout, phase, added, published, conn, made, toServer, toCentral, cccd, cache,
                  tracker, tasks, known, notifying, asked, heard, failures>>
  BY DEF Deliver, central, bounds
<1>2. /\ IsRegistered(layout, added, d.name) /\ <<d.central, d.name.char>> \in asked
  BY DEF ManagerOK
<1>3. PICK i \in 1..added : d.name.service = layout[i].uuid /\ d.name.char \in UUIDsOf(<<layout[i]>>)
  BY <1>2 DEF IsRegistered
<1>4. Named(d.name)
  <2>1. layout \in Seq(ServiceRecord) /\ added \in 0..Len(layout)
    BY LayoutsAre DEF ServerOK
  <2>2. i \in DOMAIN Registered /\ Registered[i] = layout[i]
    BY <2>1 DEF Registered
  <2> QED  BY <1>3, <2>2 DEF Named
<1>5. /\ delivering' = delivering \ {d}
      /\ subscribers' = subscribers \cup {<<d.central, d.name.char>>}
  BY <1>4 DEF Deliver, AddSubscriber
<1>6. ManagerOK'
  <2>1. subscribers' \subseteq asked
    BY <1>2, <1>5 DEF ManagerOK
  <2>2. \A s \in subscribers' : \E j \in 1..added : s[2] \in UUIDsOf(<<layout[j]>>)
    BY <1>3, <1>5 DEF ManagerOK
  <2> QED  BY <1>1, <1>5, <2>1, <2>2 DEF ManagerOK, Wants
<1>7. EnabledOK'
  <2>1. Table' = Table
    BY <1>1 DEF Table
  <2>2. EnabledIsSubscribed'
    <3>1. ASSUME NEW c \in Central, NEW h \in cccd[c]
          PROVE \/ <<c, HandleToUUIDs(Table, h).char>> \in subscribers'
                \/ \E e \in delivering' : e.central = c /\ e.name = HandleToUUIDs(Table, h)
      <4>1. CASE <<c, HandleToUUIDs(Table, h).char>> \in subscribers
        BY <1>5, <4>1
      <4>2. CASE <<c, HandleToUUIDs(Table, h).char>> \notin subscribers
        <5>1. PICK e \in delivering : e.central = c /\ e.name = HandleToUUIDs(Table, h)
          BY <4>2 DEF EnabledOK, EnabledIsSubscribed
        <5>2. CASE e = d
          BY <1>5, <5>1, <5>2
        <5>3. CASE e # d
          BY <1>5, <5>1, <5>3
        <5> QED  BY <5>2, <5>3
      <4> QED  BY <4>1, <4>2
    <3> QED  BY <1>1, <2>1, <3>1 DEF EnabledIsSubscribed
  <2> QED  BY <1>1, <2>1, <2>2 DEF EnabledOK
<1> QED  BY <1>1, <1>6, <1>7, ServerFrame, CountsFrame, QueuesFrame, CachesFrame, TasksFrame,
            MarksFrame, HeardFrame

\* A notification carries the handle of a registered characteristic.
LEMMA NotifyStep ==
  ASSUME LinkIInv, NEW c \in Central, NEW u, Notify(c, u)
  PROVE LinkIInv'
<1> USE DEF LinkIInv
<1> DEFINE r == Notification(u)
<1>1. /\ <<c, u>> \in subscribers /\ conn[c] # 0 /\ Respond(c, r)
      /\ UNCHANGED <<layout, phase, added, published, subscribers, delivering, conn, made, toServer,
                     cccd, cache, tracker, tasks, known, notifying, asked, heard, failures>>
  BY DEF Notify, MayNotify, server, central
<1>2. PICK i \in 1..added : u \in UUIDsOf(<<layout[i]>>)
  BY <1>1 DEF ManagerOK
<1>3. /\ layout \in Layouts /\ layout \in Seq(ServiceRecord) /\ added \in 0..Len(layout)
      /\ Len(layout) \in added..Len(layout) /\ Len(layout) \in 0..Len(layout)
  BY LayoutsAre DEF ServerOK
<1>4. u \in UUID
  <2>1. i \in 1..Len(layout)
    BY <1>3
  <2> QED  BY <1>2, <1>3, <2>1, UUIDsOfMany
<1> DEFINE h == LocalUUIDToHandle(Table, u)
<1>5. h \in DOMAIN Table /\ Table[h].type = u
  BY <1>2, <1>3, HandleFound DEF Table
<1> HIDE DEF h
<1>6. /\ Table \in Seq(Attribute) /\ Tables[layout][Len(layout)] \in Seq(Attribute)
      /\ Extends(Tables[layout][Len(layout)], Table)
  BY <1>3, TableGood, TableGrows DEF Table
<1>7. h \in DOMAIN Tables[layout][Len(layout)] /\ Tables[layout][Len(layout)][h].type = u
  BY <1>5, <1>6, ExtendsKeeps
<1>8. h \in Nat
  BY <1>5, <1>6
<1>9. r.op = "notify" /\ r.handle = h /\ r.sent = u /\ r \in Answer
  BY <1>4, <1>8 DEF Notification, Answer, h
<1> HIDE DEF r
<1>10. r \in AnswersOf(layout, added)
  BY <1>7, <1>9 DEF AnswersOf
<1>11. QueuesOK'
  <2>1. toCentral[c] \in Seq(Answer) /\ toCentral[c] \in Seq(AnswersOf(layout, added))
    BY DEF QueuesOK
  <2>2. /\ Append(toCentral[c], r) \in Seq(Answer)
        /\ Append(toCentral[c], r) \in Seq(AnswersOf(layout, added))
    BY <1>9, <1>10, <2>1
  <2>3. toCentral' = [toCentral EXCEPT ![c] = Append(@, r)]
    BY <1>1 DEF Respond
  <2> QED  BY <1>1, <2>2, <2>3 DEF QueuesOK
<1> QED  BY <1>1, <1>11, ServerFrame, CountsFrame, CachesFrame, TasksFrame, MarksFrame,
            ManagerFrame, EnabledFrame, HeardFrame

-----------------------------------------------------------------------------
(* The central's read loop *)

\* What the read loop takes, and the queue it leaves.
LEMMA AnswerTaken ==
  ASSUME LinkIInv, NEW c \in Central, NEW op, Take(c, op),
         UNCHANGED <<layout, added, asked, conn, toServer>>
  PROVE /\ Head(toCentral[c]) \in Answer /\ Head(toCentral[c]).op = op
        /\ Head(toCentral[c]) \in AnswersOf(layout, added)
        /\ conn[c] # 0 /\ QueuesOK'
<1> USE DEF LinkIInv
<1>1. /\ toCentral[c] # <<>> /\ Head(toCentral[c]).op = op
      /\ toCentral' = [toCentral EXCEPT ![c] = Tail(@)]
  BY DEF Take
<1>2. toCentral[c] \in Seq(Answer) /\ toCentral[c] \in Seq(AnswersOf(layout, added))
  BY DEF QueuesOK
<1>3. conn[c] # 0
  BY <1>1 DEF QueuesOK
<1>4. Head(toCentral[c]) \in Answer /\ Head(toCentral[c]) \in AnswersOf(layout, added)
  BY <1>1, <1>2
<1>5. Tail(toCentral[c]) \in Seq(Answer) /\ Tail(toCentral[c]) \in Seq(AnswersOf(layout, added))
  BY <1>1, <1>2
<1>6. QueuesOK'
  BY <1>1, <1>3, <1>5 DEF QueuesOK
<1> QED  BY <1>1, <1>3, <1>4, <1>6

\* The goroutine that waits goes on.
LEMMA CompleteKeeps ==
  ASSUME LinkIInv, NEW c \in Central, NEW ops, Complete(c, ops),
         UNCHANGED <<layout, made, known, notifying>>
  PROVE TasksOK' /\ MarksOK'
<1> USE DEF LinkIInv
<1>1. CASE tracker[c] \in ops
  <2>1. /\ tracker' = [tracker EXCEPT ![c] = "none"]
        /\ tasks' = [tasks EXCEPT ![c] =
              {IF t.stage = "waiting" /\ t.at = conn[c] /\ t.op = tracker[c]
               THEN Answered(t) ELSE t : t \in tasks[c]}]
    BY <1>1 DEF Complete
  <2>2. \A t \in tasks[c] : t.stage = "waiting" => Answered(t) \in GoodTasks(made[c])
    BY TaskFields, FailedGood DEF CountsOK
  <2> DEFINE after == {IF t.stage = "waiting" /\ t.at = conn[c] /\ t.op = tracker[c]
                       THEN Answered(t) ELSE t : t \in tasks[c]}
  <2>3. after \subseteq GoodTasks(made[c])
    BY <2>2 DEF TasksOK
  <2> HIDE DEF after
  <2>4. tasks' = [tasks EXCEPT ![c] = after]
    BY <2>1 DEF after
  <2>5. after \subseteq TaskRecord
    BY <2>3 DEF GoodTasks
  <2>6. TasksOK'
    BY <2>3, <2>4, <2>5 DEF TasksOK
  <2>7. MarksOK'
    BY <2>1 DEF MarksOK, Wants
  <2> QED  BY <2>6, <2>7
<1>2. CASE tracker[c] \notin ops
  BY <1>2, TasksFrame, MarksFrame DEF Complete
<1> QED  BY <1>1, <1>2

LEMMA ReceiveServicesStep ==
  ASSUME LinkIInv, NEW c \in Central, ReceiveServices(c)
  PROVE LinkIInv'
<1> USE DEF LinkIInv
<1> DEFINE p == Head(toCentral[c])
<1>1. /\ Take(c, "services") /\ cache' = [cache EXCEPT ![c] = AddServices(@, p.data)]
      /\ Complete(c, {"services"})
      /\ UNCHANGED <<layout, phase, added, published, subscribers, delivering, conn, made, toServer,
                     cccd, known, notifying, asked, heard, failures>>
  BY DEF ReceiveServices, server, bounds
<1>2. p \in Answer /\ p.op = "services" /\ conn[c] # 0 /\ QueuesOK'
  BY <1>1, AnswerTaken
<1> HIDE DEF p
<1>3. p.data \in Seq(ServiceEntry)
  BY <1>2 DEF Answer
<1>4. CachesOK'
  <2>1. AddServices(cache[c], p.data) \in GoodCache(layout, added)
    BY <1>3, ServicesAdded DEF CachesOK
  <2> QED  BY <1>1, <1>2, <2>1 DEF CachesOK
<1>5. TasksOK' /\ MarksOK'
  BY <1>1, CompleteKeeps
<1> QED  BY <1>1, <1>2, <1>4, <1>5, ServerFrame, CountsFrame, ManagerFrame, EnabledFrame, HeardFrame

\* A response may be of an earlier state of the table: its handles are exact still.
LEMMA ReceiveCharacteristicsStep ==
  ASSUME LinkIInv, NEW c \in Central, ReceiveCharacteristics(c)
  PROVE LinkIInv'
<1> USE DEF LinkIInv
<1> DEFINE p == Head(toCentral[c])
<1>1. /\ Take(c, "characteristics") /\ cache' = [cache EXCEPT ![c] = AddCharacteristics(@, p.data)]
      /\ Complete(c, {"characteristics"})
      /\ UNCHANGED <<layout, phase, added, published, subscribers, delivering, conn, made, toServer,
                     cccd, known, notifying, asked, heard, failures>>
  BY DEF ReceiveCharacteristics, server, bounds
<1>2. p \in Answer /\ p.op = "characteristics" /\ p \in AnswersOf(layout, added) /\ conn[c] # 0
      /\ QueuesOK'
  BY <1>1, AnswerTaken
<1> HIDE DEF p
<1>3. /\ p.data \in Seq(FoundCharacteristic)
      /\ \A i \in DOMAIN p.data : Exact(layout, added, p.data[i].handle, p.data[i].uuid)
  BY <1>2 DEF Answer, AnswersOf
<1>4. CachesOK'
  <2>1. AddCharacteristics(cache[c], p.data) \in GoodCache(layout, added)
    BY <1>3, CharacteristicsAdded DEF CachesOK, ServerOK
  <2> QED  BY <1>1, <1>2, <2>1 DEF CachesOK
<1>5. TasksOK' /\ MarksOK'
  BY <1>1, CompleteKeeps
<1> QED  BY <1>1, <1>2, <1>4, <1>5, ServerFrame, CountsFrame, ManagerFrame, EnabledFrame, HeardFrame

LEMMA ReceiveEndStep ==
  ASSUME LinkIInv, NEW c \in Central, ReceiveError(c) \/ ReceiveWriteResponse(c)
  PROVE LinkIInv'
<1> USE DEF LinkIInv
<1>1. PICK op, ops : Take(c, op) /\ Complete(c, ops)
  BY DEF ReceiveError, ReceiveWriteResponse
<1>2. UNCHANGED <<layout, phase, added, published, subscribers, delivering, conn, made, toServer,
                  cccd, cache, known, notifying, asked, heard, failures>>
  BY DEF ReceiveError, ReceiveWriteResponse, server, bounds
<1>3. QueuesOK'
  BY <1>1, <1>2, AnswerTaken
<1>4. TasksOK' /\ MarksOK'
  BY <1>1, <1>2, CompleteKeeps
<1> QED  BY <1>2, <1>3, <1>4, ServerFrame, CountsFrame, CachesFrame, ManagerFrame, EnabledFrame,
            HeardFrame

\* The central's own table gives the handle the name the notification was sent for.
LEMMA ReceiveNotificationStep ==
  ASSUME LinkIInv, NEW c \in Central, ReceiveNotification(c)
  PROVE LinkIInv'
<1> USE DEF LinkIInv
<1> DEFINE p == Head(toCentral[c])
<1>1. /\ Take(c, "notify") /\ Hears(c, p.sent, HandleToUUIDs(OwnTable, p.handle).char)
      /\ UNCHANGED <<layout, phase, added, published, subscribers, delivering, conn, made, toServer,
                     cccd, cache, tracker, tasks, known, notifying, asked, failures>>
  BY DEF ReceiveNotification, server, central, bounds
<1>2. p.op = "notify" /\ p \in AnswersOf(layout, added) /\ QueuesOK'
  BY <1>1, AnswerTaken
<1> HIDE DEF p
<1>3. /\ p.handle \in DOMAIN Tables[layout][Len(layout)]
      /\ Tables[layout][Len(layout)][p.handle].type = p.sent
  BY <1>2 DEF AnswersOf
<1>4. HandleToUUIDs(OwnTable, p.handle).char = p.sent
  BY <1>3, OwnName DEF ServerOK, OwnTable
<1>5. HeardAsSent'
  <2>1. heard' \subseteq heard \cup {<<p.sent, p.sent>>}
    BY <1>1, <1>4 DEF Hears
  <2> QED  BY <2>1 DEF HeardAsSent
<1> QED  BY <1>1, <1>2, <1>5, ServerFrame, CountsFrame, CachesFrame, TasksFrame, MarksFrame,
            ManagerFrame, EnabledFrame

-----------------------------------------------------------------------------
LEMMA NextLink == LinkIInv /\ [Next]_vars => LinkIInv'
<1> SUFFICES ASSUME LinkIInv, [Next]_vars PROVE LinkIInv'
  OBVIOUS
<1>1. CASE Start \/ StartAdvertising
  BY <1>1, StartStep
<1>2. CASE AddService
  BY <1>2, AddServiceStep
<1>3. CASE Crash
  BY <1>3, CrashStep
<1>4. ASSUME NEW c \in Central, Connect(c) \/ Lose(c) \/ RequestPhoto(c) PROVE LinkIInv'
  BY <1>4, ConnectStep, LoseStep, RequestPhotoStep
<1>5. ASSUME NEW c \in Central, Task(c) PROVE LinkIInv'
  BY <1>5, LookupStep, SendRequestStep, TimeoutStep, CollectStep, ConvertStep, LegacyStep,
     SubscribeStep DEF Task
<1>6. ASSUME NEW c \in Central, Receive(c) PROVE LinkIInv'
  BY <1>6, ReceiveServicesStep, ReceiveCharacteristicsStep, ReceiveEndStep,
     ReceiveNotificationStep DEF Receive
<1>7. ASSUME NEW c \in Central, Serve(c) PROVE LinkIInv'
  BY <1>7, ServeServicesStep, ServeCharacteristicsStep, ServeWriteStep DEF Serve
<1>8. ASSUME NEW c \in Central, NEW u, Notify(c, u) PROVE LinkIInv'
  BY <1>8, NotifyStep
<1>9. ASSUME NEW d \in delivering, Deliver(d) PROVE LinkIInv'
  BY <1>9, DeliverStep
<1>10. CASE UNCHANGED vars
  <2>1. UNCHANGED <<layout, phase, added, published, subscribers, delivering, conn, made, toServer,
                    toCentral, cccd, cache, tracker, tasks, known, notifying, asked, heard, failures>>
    BY <1>10 DEF vars, server, central, bounds
  <2> QED  BY <2>1, ServerFrame, CountsFrame, QueuesFrame, CachesFrame, TasksFrame, MarksFrame,
              ManagerFrame, EnabledFrame, HeardFrame DEF LinkIInv
<1> QED  BY <1>1, <1>2, <1>3, <1>4, <1>5, <1>6, <1>7, <1>8, <1>9, <1>10 DEF Next

THEOREM LinkInductive == Spec => []LinkIInv
BY InitLink, NextLink, PTL DEF Spec

\* For any number of centrals, layouts, connections lost and restarts: the goroutines,
\* queues, caches and the manager hold what their types say, and what a connection has
\* enabled the manager lists too, but for the one subscription under way to it
\* (gatt/cccd.go, cb_peripheral_manager.go, bluetooth_advertiser.go).
THEOREM LinkHolds == Spec => []LinkInv
<1>1. LinkIInv => LinkInv
  BY LinkIInvType DEF LinkInv, LinkIInv, EnabledOK
<1> QED  BY <1>1, LinkInductive, PTL

\* Whatever a discovery caches while the table grows, connections break and goroutines of
\* earlier connections go on, a cached handle is the value of the characteristic it is
\* kept for (gatt/discovery.go, wire_discovery.go, wire_utils.go).
THEOREM CachesAreExact == Spec => []CacheIsExact
BY LinkInductive, LinkIInvExact, PTL

\* The manager lists a central for a characteristic only if that central wrote for this
\* very characteristic in this run of the server (handleCharacteristicMessage).
THEOREM SubscribersAsked == Spec => []SubscriberAsked
BY LinkInductive, LinkIInvExact, PTL

\* A notification is delivered as the characteristic it was sent for, though it travels
\* as a handle that each side names by its own table (wire_att.go, attToGATTMessage).
THEOREM NotificationsHeardAsSent == Spec => []HeardAsSent
<1>1. LinkIInv => HeardAsSent
  BY DEF LinkIInv
<1> QED  BY <1>1, LinkInductive, PTL

=============================================================================
