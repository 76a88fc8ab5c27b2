------------------------ MODULE SessionResourcesProofs ------------------------
(***************************************************************************)
(* Proofs about ResourceManager, for pools of any size and any keys, and   *)
(* about SessionResources, which uses it, for any peers, sessions and PDRs. *)
(***************************************************************************)
EXTENDS SessionResources, FiniteSetTheorems, TLAPS

-----------------------------------------------------------------------------
(* The pools *)

\* Taking the head of a free list of distinct ids: the rest has distinct ids,
\* and the head is not among them.
LEMMA TailDistinct ==
    ASSUME NEW S, NEW list \in Seq(S), list # <<>>, Distinct(list)
    PROVE  /\ Tail(list) \in Seq(S)
           /\ Distinct(Tail(list))
           /\ Listed(Tail(list)) \subseteq Listed(list)
           /\ Head(list) \in S
           /\ Head(list) \in Listed(list)
           /\ Head(list) \notin Listed(Tail(list))
           /\ \A x \in Listed(list) : x = Head(list) \/ x \in Listed(Tail(list))
<1>1. /\ Len(list) \in Nat \ {0}
      /\ DOMAIN list = 1 .. Len(list)
      /\ Head(list) = list[1]
      /\ \A i \in 1 .. Len(list) : list[i] \in S
  OBVIOUS
<1>2. /\ Tail(list) \in Seq(S)
      /\ DOMAIN Tail(list) = 1 .. Len(list) - 1
      /\ \A i \in 1 .. Len(list) - 1 : Tail(list)[i] = list[i + 1]
  BY <1>1
<1>3. \A i \in 1 .. Len(list) - 1 : i + 1 \in 1 .. Len(list) /\ i + 1 # 1
  BY <1>1
<1>4. \A i, j \in 1 .. Len(list) : list[i] = list[j] => i = j
  BY <1>1 DEF Distinct
<1>5. Distinct(Tail(list))
  BY <1>1, <1>2, <1>3, <1>4 DEF Distinct
<1>6. Listed(Tail(list)) \subseteq Listed(list)
  BY <1>1, <1>2, <1>3 DEF Listed
<1>7. 1 \in 1 .. Len(list)
  BY <1>1
<1>8. Head(list) \in S /\ Head(list) \in Listed(list)
  BY <1>1, <1>7 DEF Listed
<1>9. Head(list) \notin Listed(Tail(list))
  BY <1>1, <1>2, <1>3, <1>4, <1>7 DEF Listed
<1>10. ASSUME NEW i \in 1 .. Len(list), i # 1
       PROVE  list[i] \in Listed(Tail(list))
  <2>1. i - 1 \in 1 .. Len(list) - 1 /\ Tail(list)[i - 1] = list[i]
    BY <1>1, <1>2, <1>10
  <2> QED  BY <1>2, <2>1 DEF Listed
<1>11. \A x \in Listed(list) : x = Head(list) \/ x \in Listed(Tail(list))
  BY <1>1, <1>10 DEF Listed
<1> QED  BY <1>2, <1>5, <1>6, <1>8, <1>9, <1>11

\* Appending a list of distinct ids, none of them listed already.
LEMMA ConcatDistinct ==
    ASSUME NEW S, NEW l \in Seq(S), NEW m \in Seq(S), Distinct(l), Distinct(m),
           \A x \in Listed(m) : x \notin Listed(l)
    PROVE  /\ l \o m \in Seq(S)
           /\ Distinct(l \o m)
           /\ \A x \in Listed(l \o m) : x \in Listed(l) \/ x \in Listed(m)
           /\ \A x \in Listed(l) \cup Listed(m) : x \in Listed(l \o m)
<1> DEFINE c == l \o m
<1>1. /\ Len(l) \in Nat /\ Len(m) \in Nat
      /\ DOMAIN l = 1 .. Len(l)
      /\ DOMAIN m = 1 .. Len(m)
  OBVIOUS
<1>2. /\ c \in Seq(S)
      /\ DOMAIN c = 1 .. Len(l) + Len(m)
      /\ \A i \in 1 .. Len(l) + Len(m) :
           c[i] = IF i <= Len(l) THEN l[i] ELSE m[i - Len(l)]
  OBVIOUS
<1> HIDE DEF c
<1>3. \A i \in 1 .. Len(l) + Len(m) :
         \/ i \in 1 .. Len(l) /\ c[i] = l[i] /\ c[i] \in Listed(l)
         \/ i - Len(l) \in 1 .. Len(m) /\ c[i] = m[i - Len(l)] /\ c[i] \in Listed(m)
  <2> SUFFICES ASSUME NEW i \in 1 .. Len(l) + Len(m)
               PROVE  \/ i \in 1 .. Len(l) /\ c[i] = l[i] /\ c[i] \in Listed(l)
                      \/ i - Len(l) \in 1 .. Len(m) /\ c[i] = m[i - Len(l)] /\ c[i] \in Listed(m)
    OBVIOUS
  <2>1. CASE i <= Len(l)
    <3>1. i \in 1 .. Len(l) /\ c[i] = l[i]
      BY <1>1, <1>2, <2>1
    <3> QED  BY <1>1, <3>1 DEF Listed
  <2>2. CASE ~(i <= Len(l))
    <3>1. i - Len(l) \in 1 .. Len(m) /\ c[i] = m[i - Len(l)]
      BY <1>1, <1>2, <2>2
    <3> QED  BY <1>1, <3>1 DEF Listed
  <2> QED  BY <2>1, <2>2
<1>4. ASSUME NEW i \in 1 .. Len(l) + Len(m), NEW j \in 1 .. Len(l) + Len(m), c[i] = c[j]
      PROVE  i = j
  <2>1. CASE i \in 1 .. Len(l) /\ c[i] = l[i] /\ c[i] \in Listed(l)
    <3>1. j \in 1 .. Len(l) /\ c[j] = l[j]
      BY <1>3, <1>4, <2>1
    <3> QED  BY <1>1, <1>4, <2>1, <3>1 DEF Distinct
  <2>2. CASE i - Len(l) \in 1 .. Len(m) /\ c[i] = m[i - Len(l)] /\ c[i] \in Listed(m)
    <3>1. j - Len(l) \in 1 .. Len(m) /\ c[j] = m[j - Len(l)]
      BY <1>3, <1>4, <2>2
    <3>2. i - Len(l) = j - Len(l)
      BY <1>1, <1>4, <2>2, <3>1 DEF Distinct
    <3> QED  BY <1>1, <3>2
  <2> QED  BY <1>3, <2>1, <2>2
<1>5. Distinct(c)
  BY <1>2, <1>4 DEF Distinct
<1>6. \A x \in Listed(c) : x \in Listed(l) \/ x \in Listed(m)
  BY <1>2, <1>3 DEF Listed
<1>7. ASSUME NEW i \in 1 .. Len(l) PROVE l[i] \in Listed(c)
  <2>1. i \in 1 .. Len(l) + Len(m) /\ c[i] = l[i]
    BY <1>1, <1>2
  <2> QED  BY <1>2, <2>1 DEF Listed
<1>8. ASSUME NEW i \in 1 .. Len(m) PROVE m[i] \in Listed(c)
  <2> DEFINE k == Len(l) + i
  <2>1. k \in 1 .. Len(l) + Len(m) /\ ~(k <= Len(l)) /\ k - Len(l) = i
    BY <1>1
  <2> HIDE DEF k
  <2>2. c[k] = m[i]
    BY <1>2, <2>1
  <2> QED  BY <1>2, <2>1, <2>2 DEF Listed
<1>9. \A x \in Listed(l) \cup Listed(m) : x \in Listed(c)
  BY <1>1, <1>7, <1>8 DEF Listed
<1> QED  BY <1>2, <1>5, <1>6, <1>9 DEF c

\* One released id is a list of distinct ids.
LEMMA AppendDistinct ==
    ASSUME NEW S, NEW l \in Seq(S), NEW x \in S, Distinct(l), x \notin Listed(l)
    PROVE  /\ Append(l, x) \in Seq(S)
           /\ Distinct(Append(l, x))
           /\ \A y \in Listed(Append(l, x)) : y \in Listed(l) \/ y = x
           /\ \A y \in Listed(l) \cup {x} : y \in Listed(Append(l, x))
<1> DEFINE c == Append(l, x)
<1>1. Len(l) \in Nat /\ DOMAIN l = 1 .. Len(l)
  OBVIOUS
<1>2. /\ c \in Seq(S)
      /\ DOMAIN c = 1 .. Len(l) + 1
      /\ \A i \in 1 .. Len(l) : c[i] = l[i]
      /\ c[Len(l) + 1] = x
  OBVIOUS
<1> HIDE DEF c
<1>3. \A i \in 1 .. Len(l) + 1 :
         \/ i \in 1 .. Len(l) /\ c[i] = l[i] /\ c[i] \in Listed(l)
         \/ i = Len(l) + 1 /\ c[i] = x
  BY <1>1, <1>2 DEF Listed
<1>4. Distinct(c)
  BY <1>1, <1>2, <1>3 DEF Distinct
<1>5. \A y \in Listed(c) : y \in Listed(l) \/ y = x
  BY <1>2, <1>3 DEF Listed
<1>6. /\ \A i \in 1 .. Len(l) : i \in 1 .. Len(l) + 1
      /\ Len(l) + 1 \in 1 .. Len(l) + 1
  BY <1>1
<1>7. \A y \in Listed(l) \cup {x} : y \in Listed(c)
  BY <1>1, <1>2, <1>6 DEF Listed
<1> QED  BY <1>2, <1>4, <1>5, <1>7 DEF c

\* However a Go map is walked through, its values come out as a list of distinct
\* ids, which are the values of the map.
LEMMA OrderDistinct ==
    ASSUME NEW n \in Nat, NEW S \in SUBSET (1 .. n), NEW f \in Orders(S)
    PROVE  /\ f \in Seq(1 .. n)
           /\ Distinct(f)
           /\ Listed(f) = S
<1>1. IsFiniteSet(S)
  <2>1. IsFiniteSet(1 .. n)
    BY FS_Interval
  <2> QED  BY <2>1, FS_Subset
<1>2. Cardinality(S) \in Nat
  BY <1>1, FS_CardinalityType
<1>3. /\ f \in [1 .. Cardinality(S) -> S]
      /\ \A i, j \in 1 .. Cardinality(S) : f[i] = f[j] => i = j
  BY DEF Orders
<1>4. f \in [1 .. Cardinality(S) -> 1 .. n]
  BY <1>3
<1>5. f \in Seq(1 .. n)
  BY <1>2, <1>4
<1>6. f \in Surjection(1 .. Cardinality(S), S)
  <2>1. f \in Injection(1 .. Cardinality(S), S)
    BY <1>3 DEF Injection, IsInjective
  <2>2. Cardinality(1 .. Cardinality(S)) = Cardinality(S)
    BY <1>2, FS_Interval
  <2> QED  BY <1>1, <2>1, <2>2, FS_Injection
<1>7. Listed(f) = S
  <2>1. DOMAIN f = 1 .. Cardinality(S) /\ \A i \in 1 .. Cardinality(S) : f[i] \in S
    BY <1>3
  <2>2. \A t \in S : \E i \in 1 .. Cardinality(S) : f[i] = t
    BY <1>6 DEF Surjection
  <2> QED  BY <2>1, <2>2 DEF Listed
<1> QED  BY <1>3, <1>5, <1>7 DEF Distinct

-----------------------------------------------------------------------------
\* busyIPs has one address for a key.
OneIpPerKey == \A b, c \in busyIPs : b.seID = c.seID => b = c

Inv == TypeOK /\ NoDoubleHandout /\ OneIpPerKey

\* The initial pools are lists of distinct ids.
LEMMA InvInit == Init => Inv
<1> SUFFICES ASSUME Init PROVE Inv
  OBVIOUS
<1>1. freeTEIDs \in Seq(Teids) /\ Distinct(freeTEIDs)
  BY PoolAssumption DEF Init, Teids, Distinct
<1>2. freeIPs \in Seq(Ips) /\ Distinct(freeIPs)
  BY PoolAssumption DEF Init, Ips, Distinct
<1> QED  BY <1>1, <1>2 DEF Init, Inv, TypeOK, NoDoubleHandout, OneIpPerKey

\* Every operation keeps the invariant.
LEMMA InvStep == Inv /\ [Next]_vars => Inv'
<1> SUFFICES ASSUME Inv, [Next]_vars PROVE Inv'
  OBVIOUS
<1> USE DEF Inv, TypeOK
<1>1. ASSUME NEW s \in SeId, NEW p \in PdrId, AllocateTEID(s, p) PROVE Inv'
  <2> DEFINE row == [seID |-> s, pdrID |-> p, teid |-> Head(freeTEIDs)]
  <2>1. /\ freeTEIDs' = Tail(freeTEIDs)
        /\ freeTEIDs # <<>>
        /\ \A b \in busyTEIDs' : b = row \/ b \in busyTEIDs
        /\ UNCHANGED <<freeIPs, busyIPs>>
    BY <1>1 DEF AllocateTEID, ipam
  <2>2. /\ freeTEIDs' \in Seq(Teids)
        /\ Distinct(freeTEIDs')
        /\ Listed(freeTEIDs') \subseteq Listed(freeTEIDs)
        /\ row.teid \in Teids
        /\ row.teid \in Listed(freeTEIDs)
        /\ row.teid \notin Listed(freeTEIDs')
    BY <2>1, TailDistinct DEF NoDoubleHandout
  <2>3. row \in TeidRow
    BY <2>2 DEF TeidRow
  <2>4. TypeOK'
    BY <2>1, <2>2, <2>3
  <2>5. \A b \in busyTEIDs' : b.teid \notin Listed(freeTEIDs')
    BY <2>1, <2>2 DEF NoDoubleHandout
  <2>6. \A b \in busyTEIDs : b.teid # row.teid
    BY <2>2 DEF NoDoubleHandout
  <2>7. \A b, c \in busyTEIDs' : b.teid = c.teid => b = c
    BY <2>1, <2>6 DEF NoDoubleHandout
  <2> QED  BY <2>1, <2>2, <2>4, <2>5, <2>7 DEF NoDoubleHandout, OneIpPerKey
<1>2. ASSUME NEW s \in SeId, ReleaseTEID(s) PROVE Inv'
  <2> DEFINE S == {b.teid : b \in TeidRows(s)}
  <2>1. PICK order \in Orders(S) : freeTEIDs' = freeTEIDs \o order
    BY <1>2 DEF ReleaseTEID
  <2>2. /\ busyTEIDs' = busyTEIDs \ TeidRows(s)
        /\ UNCHANGED <<freeIPs, busyIPs>>
    BY <1>2 DEF ReleaseTEID, ipam
  <2>3. S \subseteq 1 .. TeidRange
    BY DEF TeidRows, TeidRow, Teids
  <2>4. order \in Seq(Teids) /\ Distinct(order) /\ Listed(order) \subseteq S
    BY <2>3, OrderDistinct, PoolAssumption DEF Teids
  <2>5. \A x \in S : \E b \in busyTEIDs : b \in TeidRows(s) /\ b.teid = x
    BY DEF TeidRows
  <2> HIDE DEF S
  <2>6. \A x \in Listed(order) : x \notin Listed(freeTEIDs)
    BY <2>4, <2>5 DEF NoDoubleHandout
  <2>7. /\ freeTEIDs' \in Seq(Teids)
        /\ Distinct(freeTEIDs')
        /\ \A x \in Listed(freeTEIDs') : x \in Listed(freeTEIDs) \/ x \in S
    BY <2>1, <2>4, <2>6, ConcatDistinct DEF NoDoubleHandout
  <2>8. TypeOK'
    BY <2>2, <2>7
  <2>9. \A b \in busyTEIDs' : b.teid \notin Listed(freeTEIDs')
    BY <2>2, <2>5, <2>7 DEF NoDoubleHandout
  <2> QED  BY <2>2, <2>7, <2>8, <2>9 DEF NoDoubleHandout, OneIpPerKey
<1>3. ASSUME NEW s \in SeId, AllocateIP(s) PROVE Inv'
  <2> DEFINE row == [seID |-> s, ip |-> Head(freeIPs)]
  <2>1. /\ freeIPs' = Tail(freeIPs)
        /\ freeIPs # <<>>
        /\ \A b \in busyIPs' : b = row \/ b \in busyIPs
        /\ UNCHANGED <<freeTEIDs, busyTEIDs>>
    BY <1>3 DEF AllocateIP, fteidm
  <2>2. /\ freeIPs' \in Seq(Ips)
        /\ Distinct(freeIPs')
        /\ Listed(freeIPs') \subseteq Listed(freeIPs)
        /\ row.ip \in Ips
        /\ row.ip \in Listed(freeIPs)
        /\ row.ip \notin Listed(freeIPs')
    BY <2>1, TailDistinct DEF NoDoubleHandout
  <2>3. row \in IpRow
    BY <2>2 DEF IpRow
  <2>4. TypeOK'
    BY <2>1, <2>2, <2>3
  <2>5. \A b \in busyIPs' : b.ip \notin Listed(freeIPs')
    BY <2>1, <2>2 DEF NoDoubleHandout
  <2>6. \A b \in busyIPs : b.ip # row.ip
    BY <2>2 DEF NoDoubleHandout
  <2>7. \A b, c \in busyIPs' : b.ip = c.ip => b = c
    BY <2>1, <2>6 DEF NoDoubleHandout
  <2>8. OneIpPerKey'
    BY <1>3 DEF AllocateIP, OneIpPerKey
  <2> QED  BY <2>1, <2>2, <2>4, <2>5, <2>7, <2>8 DEF NoDoubleHandout
<1>4. ASSUME NEW s \in SeId, ReleaseIP(s) PROVE Inv'
  <2>1. PICK b \in busyIPs : freeIPs' = Append(freeIPs, b.ip) /\ busyIPs' = busyIPs \ {b}
    BY <1>4 DEF ReleaseIP
  <2>2. UNCHANGED <<freeTEIDs, busyTEIDs>>
    BY <1>4 DEF ReleaseIP, fteidm
  <2>3. b.ip \in Ips /\ b.ip \notin Listed(freeIPs)
    BY DEF IpRow, NoDoubleHandout
  <2>4. /\ freeIPs' \in Seq(Ips)
        /\ Distinct(freeIPs')
        /\ \A y \in Listed(freeIPs') : y \in Listed(freeIPs) \/ y = b.ip
    BY <2>1, <2>3, AppendDistinct DEF NoDoubleHandout
  <2>5. TypeOK'
    BY <2>1, <2>2, <2>4
  <2>6. \A c \in busyIPs' : c.ip \notin Listed(freeIPs')
    BY <2>1, <2>4 DEF NoDoubleHandout
  <2> QED  BY <2>1, <2>2, <2>4, <2>5, <2>6 DEF NoDoubleHandout, OneIpPerKey
<1>5. CASE UNCHANGED vars
  BY <1>5 DEF vars, NoDoubleHandout, OneIpPerKey, Listed, Distinct
<1> QED  BY <1>1, <1>2, <1>3, <1>4, <1>5 DEF Next

\* Pools of any size and any calls: no TEID and no UE address is handed out
\* twice.
THEOREM HandedOutOnce == Spec => []NoDoubleHandout
<1>1. Spec => []Inv
  BY InvInit, InvStep, PTL DEF Spec
<1>2. Inv => NoDoubleHandout
  BY DEF Inv
<1> QED  BY <1>1, <1>2, PTL
-----------------------------------------------------------------------------
(* The pools implement IdPool *)

TeidKeys(t) == {<<b.seID, b.pdrID>> : b \in {c \in busyTEIDs : c.teid = t}}

\* A TEID is with its keys and, if it is listed, in the pool.
LEMMA TeidPlace ==
    ASSUME NEW t \in Teids
    PROVE  /\ t \in Listed(freeTEIDs) => TeidPlaces[t] = TeidKeys(t) \cup {<<>>}
           /\ t \notin Listed(freeTEIDs) => TeidPlaces[t] = TeidKeys(t)
  BY DEF TeidPlaces, TeidKeys

\* An allocation takes a free TEID.
LEMMA AllocateTEIDTakes ==
    ASSUME Inv, NEW s \in SeId, NEW p \in PdrId, AllocateTEID(s, p)
    PROVE  TeidPool!Next
<1>0. /\ freeTEIDs' = Tail(freeTEIDs)
      /\ freeTEIDs # <<>>
      /\ Head(freeTEIDs) \in Teids
  BY TailDistinct DEF AllocateTEID, Inv, TypeOK, NoDoubleHandout
<1> PICK i \in Teids : i = Head(freeTEIDs)
  BY <1>0
<1> DEFINE h == <<s, p>>
           row == [seID |-> s, pdrID |-> p, teid |-> i]
<1>1. busyTEIDs' = {b \in busyTEIDs : b.seID # s \/ b.pdrID # p} \cup {row}
  BY DEF AllocateTEID
<1>2. /\ i \in Listed(freeTEIDs)
      /\ i \notin Listed(freeTEIDs')
      /\ \A x \in Teids \ {i} : x \in Listed(freeTEIDs') <=> x \in Listed(freeTEIDs)
  BY <1>0, TailDistinct DEF Inv, TypeOK, NoDoubleHandout
<1>3. \A b \in busyTEIDs : b.teid # i
  BY <1>2 DEF Inv, NoDoubleHandout
<1>4. TeidPlaces[i] = {<<>>}
  BY <1>2, <1>3, TeidPlace DEF TeidKeys
<1>5. TeidPlaces'[i] = {h}
  <2>1. TeidKeys(i)' = {h}
    <3>1. row \in busyTEIDs' /\ row.teid = i /\ row.seID = s /\ row.pdrID = p
      BY <1>1
    <3>2. \A b \in busyTEIDs' : b.teid = i => b = row
      BY <1>1, <1>3
    <3> HIDE DEF row
    <3> QED  BY <3>1, <3>2 DEF TeidKeys
  <2> QED  BY <1>2, <2>1 DEF TeidPlaces, TeidKeys
<1>6. ASSUME NEW j \in Teids, j # i PROVE TeidPlaces'[j] = TeidPlaces[j] \ {h}
  <2>1. TeidKeys(j)' = TeidKeys(j) \ {h}
    BY <1>1, <1>6 DEF TeidKeys
  <2>2. <<>> # h
    OBVIOUS
  <2>3. TeidPlaces'[j] = TeidKeys(j)' \cup (IF j \in Listed(freeTEIDs') THEN {<<>>} ELSE {})
    BY DEF TeidPlaces, TeidKeys
  <2> QED  BY <1>2, <1>6, <2>1, <2>2, <2>3, TeidPlace
<1>7. TeidPlaces' = [j \in Teids |-> IF j = i THEN {h} ELSE TeidPlaces[j] \ {h}]
  BY <1>5, <1>6 DEF TeidPlaces
<1>8. TeidPool!Take(i, h)
  BY <1>7 DEF TeidPool!Take
<1>9. i \in TeidPool!FreeIds /\ h \in SeId \X PdrId
  BY <1>2, <1>4 DEF TeidPool!FreeIds
<1> QED  BY <1>8, <1>9 DEF TeidPool!Next

\* A release frees the TEIDs of the keys it is for, and no others.
LEMMA ReleaseTEIDReleases ==
    ASSUME Inv, NEW s \in SeId, ReleaseTEID(s)
    PROVE  TeidPool!Next
<1> DEFINE S == {b.teid : b \in TeidRows(s)}
           H == {<<b.seID, b.pdrID>> : b \in TeidRows(s)}
<1>1. PICK order \in Orders(S) : freeTEIDs' = freeTEIDs \o order
  BY DEF ReleaseTEID
<1>2. busyTEIDs' = busyTEIDs \ TeidRows(s)
  BY DEF ReleaseTEID
<1>3. S \subseteq 1 .. TeidRange
  BY DEF TeidRows, TeidRow, Teids, Inv, TypeOK
<1>4. order \in Seq(Teids) /\ Distinct(order) /\ Listed(order) = S
  BY <1>3, OrderDistinct, PoolAssumption DEF Teids
<1>5. \A x \in S : \E b \in busyTEIDs : b \in TeidRows(s) /\ b.teid = x
  BY DEF TeidRows
<1>6. \A b \in TeidRows(s) : b.teid \in S
  OBVIOUS
<1> HIDE DEF S
<1>7. /\ \A x \in Listed(freeTEIDs') : x \in Listed(freeTEIDs) \/ x \in S
      /\ \A x \in Listed(freeTEIDs) \cup S : x \in Listed(freeTEIDs')
  <2>1. \A x \in Listed(order) : x \notin Listed(freeTEIDs)
    BY <1>4, <1>5 DEF Inv, NoDoubleHandout
  <2>2. freeTEIDs \in Seq(Teids) /\ Distinct(freeTEIDs)
    BY DEF Inv, TypeOK, NoDoubleHandout
  <2>3. /\ \A x \in Listed(freeTEIDs \o order) : x \in Listed(freeTEIDs) \/ x \in Listed(order)
        /\ \A x \in Listed(freeTEIDs) \cup Listed(order) : x \in Listed(freeTEIDs \o order)
    BY <1>4, <2>1, <2>2, ConcatDistinct
  <2> QED  BY <1>1, <1>4, <2>3
<1>9. \A b \in TeidRows(s) : b \in busyTEIDs /\ b.seID = s /\ b.teid \in Teids
  BY DEF TeidRows, TeidRow, Inv, TypeOK
<1>10. ASSUME NEW j \in Teids, j \in S
       PROVE  TeidPlaces[j] \cap H # {} /\ TeidPlaces'[j] = {<<>>}
  <2>1. PICK b \in TeidRows(s) : b \in busyTEIDs /\ b.teid = j
    BY <1>5, <1>10
  <2>2. <<b.seID, b.pdrID>> \in TeidPlaces[j] /\ <<b.seID, b.pdrID>> \in H
    BY <2>1 DEF TeidPlaces
  <2>3. \A c \in busyTEIDs' : c.teid # j
    BY <1>2, <2>1 DEF Inv, NoDoubleHandout
  <2>4. TeidPlaces'[j] = {<<>>}
    BY <1>7, <1>10, <2>3 DEF TeidPlaces
  <2> QED  BY <2>2, <2>4
<1>11. ASSUME NEW j \in Teids, j \notin S
       PROVE  TeidPlaces[j] \cap H = {} /\ TeidPlaces'[j] = TeidPlaces[j]
  <2>1. \A c \in busyTEIDs : c.teid = j => c \notin TeidRows(s) /\ c.seID # s
    BY <1>6, <1>11 DEF TeidRows
  <2>2. \A c : (c \in busyTEIDs' /\ c.teid = j) <=> (c \in busyTEIDs /\ c.teid = j)
    BY <1>2, <2>1
  <2>3. TeidKeys(j)' = TeidKeys(j)
    BY <2>2 DEF TeidKeys
  <2>4. j \in Listed(freeTEIDs') <=> j \in Listed(freeTEIDs)
    BY <1>7, <1>11
  <2>5. TeidPlaces'[j] = TeidPlaces[j]
    BY <2>3, <2>4 DEF TeidPlaces, TeidKeys
  <2>6. \A k \in TeidPlaces[j] : k = <<>> \/ \E c \in busyTEIDs :
            c.teid = j /\ k = <<c.seID, c.pdrID>>
    BY DEF TeidPlaces
  <2>7. \A k \in H : \E b \in TeidRows(s) : k = <<b.seID, b.pdrID>>
    OBVIOUS
  <2>8. \A k \in H : k # <<>> /\ k[1] = s
    BY <1>9, <2>7
  <2>9. \A k \in TeidPlaces[j] : k = <<>> \/ k[1] # s
    BY <2>1, <2>6
  <2>10. TeidPlaces[j] \cap H = {}
    BY <2>8, <2>9
  <2> QED  BY <2>5, <2>10
<1>12. H \in SUBSET TeidPool!Holders
  <2> SUFFICES ASSUME NEW b \in TeidRows(s)
               PROVE  <<b.seID, b.pdrID>> \in TeidPool!Holders
    OBVIOUS
  <2>1. b.teid \in Teids /\ <<b.seID, b.pdrID>> \in TeidPlaces[b.teid]
    BY <1>9 DEF TeidPlaces
  <2> QED  BY <2>1 DEF TeidPool!Holders
<1> HIDE DEF H
<1>13. TeidPlaces' = [j \in Teids |-> IF TeidPlaces[j] \cap H # {} THEN {<<>>} ELSE TeidPlaces[j]]
  BY <1>10, <1>11 DEF TeidPlaces
<1>14. TeidPool!Release(H)
  BY <1>13 DEF TeidPool!Release
<1> QED  BY <1>12, <1>14 DEF TeidPool!Next

IpKeys(a) == {<<b.seID>> : b \in {c \in busyIPs : c.ip = a}}

\* An allocation takes a free address.
LEMMA AllocateIPTakes ==
    ASSUME Inv, NEW s \in SeId, AllocateIP(s)
    PROVE  IpPool!Next
<1>0. /\ freeIPs' = Tail(freeIPs)
      /\ freeIPs # <<>>
      /\ Head(freeIPs) \in Ips
  BY TailDistinct DEF AllocateIP, Inv, TypeOK, NoDoubleHandout
<1> PICK i \in Ips : i = Head(freeIPs)
  BY <1>0
<1> DEFINE h == <<s>>
           row == [seID |-> s, ip |-> i]
<1>1. busyIPs' = {b \in busyIPs : b.seID # s} \cup {row}
  BY DEF AllocateIP
<1>2. /\ i \in Listed(freeIPs)
      /\ i \notin Listed(freeIPs')
      /\ \A x \in Ips \ {i} : x \in Listed(freeIPs') <=> x \in Listed(freeIPs)
  BY <1>0, TailDistinct DEF Inv, TypeOK, NoDoubleHandout
<1>3. \A b \in busyIPs : b.ip # i
  BY <1>2 DEF Inv, NoDoubleHandout
<1>4. IpPlaces[i] = {<<>>}
  BY <1>2, <1>3 DEF IpPlaces
<1>5. IpPlaces'[i] = {h}
  <2>1. IpKeys(i)' = {h}
    <3>1. row \in busyIPs' /\ row.ip = i /\ row.seID = s
      BY <1>1
    <3>2. \A b \in busyIPs' : b.ip = i => b = row
      BY <1>1, <1>3
    <3> HIDE DEF row
    <3> QED  BY <3>1, <3>2 DEF IpKeys
  <2> QED  BY <1>2, <2>1 DEF IpPlaces, IpKeys
<1>6. ASSUME NEW j \in Ips, j # i PROVE IpPlaces'[j] = IpPlaces[j] \ {h}
  <2>1. IpKeys(j)' = IpKeys(j) \ {h}
    BY <1>1, <1>6 DEF IpKeys
  <2>2. <<>> # h
    OBVIOUS
  <2>3. /\ IpPlaces'[j] = IpKeys(j)' \cup (IF j \in Listed(freeIPs') THEN {<<>>} ELSE {})
        /\ IpPlaces[j] = IpKeys(j) \cup (IF j \in Listed(freeIPs) THEN {<<>>} ELSE {})
    BY DEF IpPlaces, IpKeys
  <2> QED  BY <1>2, <1>6, <2>1, <2>2, <2>3
<1>7. IpPlaces' = [j \in Ips |-> IF j = i THEN {h} ELSE IpPlaces[j] \ {h}]
  BY <1>5, <1>6 DEF IpPlaces
<1>8. IpPool!Take(i, h)
  BY <1>7 DEF IpPool!Take
<1>9. i \in IpPool!FreeIds /\ h \in {<<t>> : t \in SeId}
  BY <1>4 DEF IpPool!FreeIds
<1> QED  BY <1>8, <1>9 DEF IpPool!Next

\* A release frees the address of its key.
LEMMA ReleaseIPReleases ==
    ASSUME Inv, NEW s \in SeId, ReleaseIP(s)
    PROVE  IpPool!Next
<1>1. PICK b \in busyIPs :
        b.seID = s /\ freeIPs' = Append(freeIPs, b.ip) /\ busyIPs' = busyIPs \ {b}
  BY DEF ReleaseIP
<1> DEFINE H == {<<s>>}
<1>2. b.ip \in Ips /\ b.ip \notin Listed(freeIPs)
  BY DEF IpRow, Inv, TypeOK, NoDoubleHandout
<1>3. /\ \A y \in Listed(freeIPs') : y \in Listed(freeIPs) \/ y = b.ip
      /\ \A y \in Listed(freeIPs) \cup {b.ip} : y \in Listed(freeIPs')
  BY <1>1, <1>2, AppendDistinct DEF Inv, TypeOK, NoDoubleHandout
<1>4. <<s>> \in IpPlaces[b.ip]
  BY <1>1, <1>2 DEF IpPlaces
<1>5. IpPlaces'[b.ip] = {<<>>}
  <2>1. \A c \in busyIPs' : c.ip # b.ip
    BY <1>1 DEF Inv, NoDoubleHandout
  <2> QED  BY <1>2, <1>3, <2>1 DEF IpPlaces
<1>6. ASSUME NEW j \in Ips, j # b.ip
      PROVE  IpPlaces[j] \cap H = {} /\ IpPlaces'[j] = IpPlaces[j]
  <2>1. \A c : (c \in busyIPs' /\ c.ip = j) <=> (c \in busyIPs /\ c.ip = j)
    BY <1>1, <1>6
  <2>2. IpKeys(j)' = IpKeys(j)
    BY <2>1 DEF IpKeys
  <2>3. IpPlaces'[j] = IpPlaces[j]
    BY <1>3, <1>6, <2>2 DEF IpPlaces, IpKeys
  <2>4. \A c \in busyIPs : c.ip = j => c.seID # s
    BY <1>1, <1>6 DEF Inv, OneIpPerKey
  <2>5. \A k \in IpPlaces[j] : k = <<>> \/ \E c \in busyIPs : c.ip = j /\ k = <<c.seID>>
    BY DEF IpPlaces
  <2>6. <<s>> \notin IpPlaces[j]
    BY <2>4, <2>5
  <2> QED  BY <2>3, <2>6
<1>7. IpPlaces' = [j \in Ips |-> IF IpPlaces[j] \cap H # {} THEN {<<>>} ELSE IpPlaces[j]]
  BY <1>4, <1>5, <1>6 DEF IpPlaces
<1>8. IpPool!Release(H)
  BY <1>7 DEF IpPool!Release
<1>9. H \in SUBSET IpPool!Holders
  BY <1>2, <1>4 DEF IpPool!Holders
<1> QED  BY <1>8, <1>9 DEF IpPool!Next

\* At first every id is free.
LEMMA PoolsInit == Init => TeidPool!Init /\ IpPool!Init
<1> SUFFICES ASSUME Init PROVE TeidPool!Init /\ IpPool!Init
  OBVIOUS
<1>1. Listed(freeTEIDs) = Teids /\ busyTEIDs = {}
  BY DEF Init, Listed
<1>2. Listed(freeIPs) = Ips /\ busyIPs = {}
  BY DEF Init, Listed
<1>3. TeidPlaces = [t \in Teids |-> {<<>>}]
  BY <1>1 DEF TeidPlaces
<1>4. IpPlaces = [a \in Ips |-> {<<>>}]
  BY <1>2 DEF IpPlaces
<1> QED  BY <1>3, <1>4 DEF TeidPool!Init, IpPool!Init

\* What leaves the lists and rows alone leaves the places alone.
LEMMA PlacesUnchanged ==
    /\ UNCHANGED fteidm => UNCHANGED TeidPlaces
    /\ UNCHANGED ipam => UNCHANGED IpPlaces
  BY DEF fteidm, ipam, TeidPlaces, IpPlaces, Listed

\* Every operation is a step of one pool and leaves the other alone.
LEMMA PoolsStep ==
    Inv /\ [Next]_vars => [TeidPool!Next]_TeidPlaces /\ [IpPool!Next]_IpPlaces
<1> SUFFICES ASSUME Inv, [Next]_vars
             PROVE  [TeidPool!Next]_TeidPlaces /\ [IpPool!Next]_IpPlaces
  OBVIOUS
<1>1. ASSUME NEW s \in SeId, NEW p \in PdrId, AllocateTEID(s, p)
      PROVE  TeidPool!Next /\ UNCHANGED ipam
  BY <1>1, AllocateTEIDTakes DEF AllocateTEID
<1>2. ASSUME NEW s \in SeId, ReleaseTEID(s) PROVE TeidPool!Next /\ UNCHANGED ipam
  BY <1>2, ReleaseTEIDReleases DEF ReleaseTEID
<1>3. ASSUME NEW s \in SeId, AllocateIP(s) PROVE IpPool!Next /\ UNCHANGED fteidm
  BY <1>3, AllocateIPTakes DEF AllocateIP
<1>4. ASSUME NEW s \in SeId, ReleaseIP(s) PROVE IpPool!Next /\ UNCHANGED fteidm
  BY <1>4, ReleaseIPReleases DEF ReleaseIP
<1>5. CASE UNCHANGED vars
  BY <1>5, PlacesUnchanged DEF vars, fteidm, ipam
<1> QED  BY <1>1, <1>2, <1>3, <1>4, <1>5, PlacesUnchanged DEF Next

\* Pools of any size implement IdPool: an id is with one key at a time, goes from
\* one key to another only through the free list, and is lost only when its key
\* is given again.
THEOREM PoolsImplemented == Spec => PoolsKeepPromise
<1>1. Spec => []Inv
  BY InvInit, InvStep, PTL DEF Spec
<1>2. Spec => TeidPool!Spec /\ IpPool!Spec
  BY <1>1, PoolsInit, PoolsStep, PTL DEF Spec, TeidPool!Spec, IpPool!Spec
<1> QED  BY <1>2 DEF PoolsKeepPromise

-----------------------------------------------------------------------------
(* The handlers that use the pools *)

\* Sessions with a remote SEID: the stored ones and the one being established.
Active == stored \cup (IF cur.op = "est" THEN {cur.sess} ELSE {})

\* The request record.
CurFits ==
    /\ cur = [op |-> cur.op, sess |-> cur.sess, stage |-> cur.stage, cache |-> cur.cache,
              left |-> cur.left, pending |-> cur.pending]
    /\ cur.stage \in 0 .. 3
    /\ cur.op \in {"est", "mod", "del", "free"} => cur.sess \in Sess
    /\ cur.op \in {"mod", "del"} => cur.sess \in stored
    /\ cur.op \in {"est", "free"} => cur.sess \notin stored
    /\ cur.op = "prune" => cur.sess \in Node \X (0 .. MaxSeid)
    /\ cur.left \subseteq PdrsOf(cur.sess)
    /\ cur.left # {} => cur.op \in {"del", "prune"}
    /\ cur.op = "prune" => \A s \in cur.pending : s[1] = cur.sess[1] /\ s # cur.sess
    /\ cur.op # "prune" => cur.pending = {}

\* In creations and updates the TEIDCache holds TEIDs of the pool.
CacheFits ==
    cur.op \in {"est", "mod"} /\ cur.stage <= 2 =>
        \A c \in DOMAIN cur.cache : cur.cache[c] \in Teids

\* SEIDs are given once in the life of an association, and sessions have a remote
\* SEID as long as they exist.
SeidsFit ==
    /\ \A s \in stored : s[1] \in assoc /\ s[2] <= nextSeid[s[1]]
    /\ cur.op = "est" => cur.sess[1] \in assoc /\ cur.sess[2] <= nextSeid[cur.sess[1]]
    /\ \A s \in Active : remoteSeid[s] \in RemoteSeid

\* PDRs belong to such sessions, one for an id, and have a TEID or an address.
PdrsFit ==
    /\ \A p, q \in pdrs : p.sess = q.sess /\ p.id = q.id => p = q
    /\ \A p \in pdrs : p.sess \in Active /\ (p.teid = 0 <=> p.ip # 0)

Fits == ResTypeOK /\ Inv /\ CurFits /\ CacheFits /\ SeidsFit /\ PdrsFit

\* Sessions are a peer and a SEID.
LEMMA SessPair ==
    ASSUME NEW s \in Sess
    PROVE  s = <<s[1], s[2]>> /\ s[1] \in Node /\ s[2] \in 2 .. MaxSeid /\ s[2] \in SeId
  BY SessionAssumption DEF Sess

\* The session a request works on, and the sessions of PDRs, are known to the
\* pools by SEIDs.
LEMMA KeysAreSeids ==
    ASSUME Fits
    PROVE  /\ cur.op \in {"est", "mod"} => cur.sess \in Sess /\ remoteSeid[cur.sess] \in SeId
           /\ \A p \in pdrs : p.sess \in Sess /\ remoteSeid[p.sess] \in SeId
           /\ cur.op \in {"del", "free"} => cur.sess \in Sess /\ cur.sess[2] \in SeId
<1>1. \A s \in Active : s \in Sess /\ remoteSeid[s] \in SeId
  BY SessionAssumption DEF Fits, ResTypeOK, SeidsFit, Active, CurFits
<1>2. cur.op \in {"est", "mod"} => cur.sess \in Active
  BY DEF Fits, CurFits, Active
<1>3. \A p \in pdrs : p.sess \in Active
  BY DEF Fits, PdrsFit
<1>4. cur.op \in {"del", "free"} => cur.sess \in Sess
  BY DEF Fits, CurFits
<1> QED  BY <1>1, <1>2, <1>3, <1>4, SessPair

\* What a step of the handlers does to the pools is an operation of ResourceManager,
\* under a SEID.
LEMMA PoolOperation == Fits /\ [ResNext]_resVars => [Next]_vars
<1> SUFFICES ASSUME Fits, [ResNext]_resVars PROVE [Next]_vars
  OBVIOUS
<1>0. /\ cur.op \in {"est", "mod"} => cur.sess \in Sess /\ remoteSeid[cur.sess] \in SeId
      /\ \A p \in pdrs : p.sess \in Sess /\ remoteSeid[p.sess] \in SeId
      /\ cur.op \in {"del", "free"} => cur.sess \in Sess /\ cur.sess[2] \in SeId
  BY KeysAreSeids
<1>1. UplinkPdr \subseteq PdrId
  BY SessionAssumption
<1>2. \A o \in {"create", "update"} : \A i : MayPut(o, i) => cur.op \in {"est", "mod"}
  BY DEF MayPut, Reached
<1>3. ASSUME NEW p \in pdrs, ReleaseOf(p) PROVE [Next]_vars
  BY <1>0, <1>3 DEF ReleaseOf, Next, pools, vars
<1>4. ASSUME NEW n \in Node,
             \/ AssociationSetup(n)
             \/ PruneAssociation(n)
             \/ \E r \in RemoteSeid : EstablishmentRequest(n, r)
      PROVE  UNCHANGED vars
  BY <1>4 DEF AssociationSetup, PruneAssociation, EstablishmentRequest, pools, vars
<1>5. ASSUME NEW s \in stored,
             \/ \E r \in RemoteSeid : ModificationRequest(s, r)
             \/ DeletionRequest(s)
             \/ PruneSession(s)
      PROVE  UNCHANGED vars
  BY <1>5 DEF ModificationRequest, DeletionRequest, PruneSession, pools, vars
<1>6. ASSUME NEW o \in {"create", "update"}, NEW i \in UplinkPdr,
             \/ \E t \in GivenTeid : PutGivenTeid(o, i, t)
             \/ \E c \in ChooseId : PutCachedTeid(o, i, c)
      PROVE  UNCHANGED vars
  BY <1>6 DEF PutGivenTeid, PutCachedTeid, pools, vars
<1>7. ASSUME NEW o \in {"create", "update"}, NEW i \in UplinkPdr,
             NEW c \in ChooseId \cup {NoChooseId}, PutChosenTeid(o, i, c)
      PROVE  Next
  BY <1>0, <1>1, <1>2, <1>7 DEF PutChosenTeid, Next
<1>8. ASSUME NEW o \in {"create", "update"}, NEW i \in DownlinkPdr, PutChosenIp(o, i)
      PROVE  Next
  BY <1>0, <1>2, <1>8 DEF PutChosenIp, Next
<1>9. ASSUME NEW p \in pdrs, RemovePdr(p) \/ DeletionPdr(p) \/ PrunePdr(p)
      PROVE  [Next]_vars
  <2>1. UNCHANGED pools \/ ReleaseOf(p)
    BY <1>9 DEF RemovePdr, DeletionPdr, PrunePdr, pools
  <2> QED  BY <1>3, <2>1 DEF pools, vars
<1>10. CASE RequestFails \/ RequestDone \/ PruneDone
  BY <1>10 DEF RequestFails, RequestDone, PruneDone, pools, vars
<1>11. CASE DeletionDone
  BY <1>0, <1>11 DEF DeletionDone, ReleaseIpOf, Next, pools, vars
<1>12. CASE DeletionTeids
  BY <1>0, <1>12 DEF DeletionTeids, Next
<1>13. CASE UNCHANGED resVars
  BY <1>13 DEF resVars, pools, vars
<1> QED  BY <1>4, <1>5, <1>6, <1>7, <1>8, <1>9, <1>10, <1>11, <1>12, <1>13 DEF ResNext

\* Before the first request.
LEMMA FitsInit == ResInit => Fits
<1> SUFFICES ASSUME ResInit PROVE Fits
  OBVIOUS
<1>1. Inv
  BY InvInit DEF ResInit
<1>2. ResTypeOK
  BY <1>1, SessionAssumption DEF ResInit, ResTypeOK, Inv, Idle, NoSess, Sess
<1>3. CurFits /\ CacheFits
  BY DEF ResInit, CurFits, CacheFits, Idle, PdrsOf
<1>4. SeidsFit /\ PdrsFit
  BY DEF ResInit, SeidsFit, PdrsFit, Active, Idle
<1> QED  BY <1>1, <1>2, <1>3, <1>4 DEF Fits

\* Everything about a request that is not about its PDRs.
Others == UNCHANGED <<assoc, nextSeid, stored, remoteSeid>>

\* PDRs are put into a session, with ids of the right kind.
LEMMA FitsPut ==
    ASSUME Fits, Inv',
           NEW o \in {"create", "update"}, NEW i \in PdrId, MayPut(o, i),
           NEW p \in SpdrInfo, p.sess = cur.sess, p.id = i, p.teid = 0 <=> p.ip # 0,
           StorePdr(p), Others,
           NEW cache, cur' = [cur EXCEPT !.stage = Stage(o), !.cache = cache],
           \A c \in DOMAIN cache : cache[c] \in Teids
    PROVE  Fits'
<1>1. /\ cur.op \in {"est", "mod"} /\ cur.left = {} /\ cur.pending = {}
      /\ cur.sess \in Sess
  BY DEF MayPut, Reached, Fits, CurFits
<1>2. /\ cur'.op = cur.op /\ cur'.sess = cur.sess /\ cur'.stage = Stage(o) /\ cur'.cache = cache
      /\ cur'.left = {} /\ cur'.pending = {}
      /\ cur' = [op |-> cur'.op, sess |-> cur'.sess, stage |-> cur'.stage, cache |-> cur'.cache,
              left |-> cur'.left, pending |-> cur'.pending]
  BY <1>1 DEF Fits, CurFits
<1>3. Stage(o) \in 0 .. 3
  BY DEF Stage
<1>4. /\ pdrs' = (pdrs \ PdrAt(cur.sess, i)) \cup {p}
      /\ rows' = rows \cup {KeyOf(p)}
      /\ UNCHANGED <<assoc, nextSeid, stored, remoteSeid>>
  BY DEF StorePdr, Others
<1>5. KeyOf(p) \in ({"ul"} \X (Teids \cup GivenTeid \cup {0})) \cup ({"dl"} \X Ips)
  BY DEF KeyOf, SpdrInfo
<1>6. ResTypeOK'
  BY <1>1, <1>2, <1>4, <1>5 DEF ResTypeOK, Fits, Inv
<1>7. CurFits'
  BY <1>1, <1>2, <1>3, <1>4 DEF CurFits, Fits
<1>8. CacheFits'
  BY <1>2 DEF CacheFits
<1>9. SeidsFit'
  BY <1>2, <1>4 DEF SeidsFit, Active, Fits
<1>10. PdrsFit'
  <2>1. Active' = Active /\ cur.sess \in Active
    BY <1>1, <1>2, <1>4 DEF Active, Fits, CurFits
  <2>2. \A q \in pdrs' : q = p \/ (q \in pdrs /\ (q.sess # p.sess \/ q.id # p.id))
    BY <1>4 DEF PdrAt, PdrsOf
  <2> QED  BY <2>1, <2>2 DEF PdrsFit, Fits
<1> QED  BY <1>6, <1>7, <1>8, <1>9, <1>10 DEF Fits

\* PDRs are taken out of the maps.
LEMMA FitsDelete ==
    ASSUME Fits, Inv', NEW p \in pdrs,
           RemovePdr(p) \/ DeletionPdr(p) \/ PrunePdr(p)
    PROVE  Fits'
<1>1. /\ rows' \subseteq rows /\ pdrs' \subseteq pdrs
      /\ UNCHANGED <<assoc, nextSeid, stored, remoteSeid>>
  BY DEF RemovePdr, DeletionPdr, PrunePdr, RowsWithout
<1>2. /\ cur.op \in {"mod", "del", "prune"}
      /\ cur.op = "mod" => cur.left = {} /\ cur.pending = {} /\ cur.sess \in Sess
      /\ cur.op # "mod" => UNCHANGED pdrs
  BY DEF RemovePdr, DeletionPdr, PrunePdr, Reached, Fits, CurFits
<1>3. /\ cur' = [op |-> cur'.op, sess |-> cur'.sess, stage |-> cur'.stage, cache |-> cur'.cache,
                 left |-> cur'.left, pending |-> cur'.pending]
      /\ \/ cur' = Idle
         \/ /\ cur'.op = cur.op /\ cur'.sess = cur.sess /\ cur'.pending = cur.pending
            /\ cur'.left \subseteq cur.left
            /\ \/ cur'.op = "mod" /\ cur'.stage = 3
               \/ cur'.op \in {"del", "prune"} /\ cur'.stage = cur.stage
  <2>0. cur' = Idle => cur' = [op |-> cur'.op, sess |-> cur'.sess, stage |-> cur'.stage,
            cache |-> cur'.cache, left |-> cur'.left, pending |-> cur'.pending]
    BY DEF Idle
  <2>1. CASE RemovePdr(p)
    <3>1. /\ cur' = Idle \/ cur' = [cur EXCEPT !.stage = 3, !.cache = CacheAfter(p)]
          /\ cur.op = "mod"
      BY <2>1 DEF RemovePdr, Reached, Stage
    <3> QED  BY <2>0, <3>1 DEF Fits, CurFits
  <2>2. CASE DeletionPdr(p)
    <3>1. /\ cur' = Idle \/ cur' = [cur EXCEPT !.left = @ \ {p}, !.cache = CacheAfter(p)]
          /\ cur.op = "del"
      BY <2>2 DEF DeletionPdr
    <3> QED  BY <2>0, <3>1 DEF Fits, CurFits
  <2>3. CASE PrunePdr(p)
    BY <2>3 DEF PrunePdr, Fits, CurFits, Idle
  <2> QED  BY <2>1, <2>2, <2>3
<1>4. cur' = Idle => cur'.op = "idle" /\ cur'.sess = NoSess /\ cur'.left = {}
                       /\ cur'.pending = {} /\ cur'.stage = 0
  BY DEF Idle
<1>5. ResTypeOK'
  BY <1>1, <1>2, <1>3, <1>4 DEF ResTypeOK, Fits, Inv
<1>6. CurFits'
  <2>1. \A q \in cur'.left : q \in pdrs' /\ q.sess = cur'.sess
    BY <1>1, <1>2, <1>3, <1>4 DEF CurFits, Fits, PdrsOf
  <2> QED  BY <1>1, <1>2, <1>3, <1>4, <2>1 DEF CurFits, Fits, PdrsOf
<1>7. CacheFits'
  BY <1>3, <1>4 DEF CacheFits
<1>8. Active' = Active
  BY <1>1, <1>2, <1>3, <1>4 DEF Active
<1>9. SeidsFit' /\ PdrsFit'
  BY <1>1, <1>2, <1>3, <1>4, <1>8 DEF SeidsFit, PdrsFit, Fits
<1> QED  BY <1>5, <1>6, <1>7, <1>9 DEF Fits

\* A request arrives.
LEMMA FitsRequest ==
    ASSUME Fits, Inv',
           \/ \E n \in Node : \E r \in RemoteSeid : EstablishmentRequest(n, r)
           \/ \E s \in stored : \E r \in RemoteSeid : ModificationRequest(s, r)
           \/ \E s \in stored : DeletionRequest(s)
           \/ \E n \in Node : PruneAssociation(n)
    PROVE  Fits'
<1> DOMAIN <<>> = {}
  OBVIOUS
<1>0. UNCHANGED <<assoc, stored, pdrs, rows>> /\ cur.op = "idle" /\ Active = stored
  BY DEF EstablishmentRequest, ModificationRequest, DeletionRequest, PruneAssociation, Active
<1>1. ASSUME NEW n \in Node, NEW r \in RemoteSeid, EstablishmentRequest(n, r) PROVE Fits'
  <2> DEFINE s == <<n, nextSeid[n] + 1>>
  <2>1. /\ nextSeid' = [nextSeid EXCEPT ![n] = nextSeid[n] + 1]
        /\ remoteSeid' = [remoteSeid EXCEPT ![s] = r]
        /\ n \in assoc /\ nextSeid[n] < MaxSeid
        /\ nextSeid[n] \in 1 .. MaxSeid
    BY <1>1 DEF EstablishmentRequest, Fits, ResTypeOK
  <2>2. /\ cur'.op = "est" /\ cur'.sess = s /\ cur'.stage = 0
        /\ cur'.left = {} /\ cur'.pending = {}
        /\ cur' = [op |-> cur'.op, sess |-> cur'.sess, stage |-> cur'.stage,
                   cache |-> cur'.cache, left |-> cur'.left, pending |-> cur'.pending]
        /\ cur'.cache = <<>>
    BY <1>1 DEF EstablishmentRequest, Idle
  <2>3. s \in Sess /\ s \notin stored /\ s[1] = n /\ s[2] = nextSeid[n] + 1
    BY <2>1, SessionAssumption DEF Sess, Fits, SeidsFit
  <2>4. \A t \in stored : t \in Sess /\ t[1] \in Node /\ t[2] \in 2 .. MaxSeid
    BY SessPair DEF Fits, ResTypeOK
  <2>5. nextSeid' \in [Node -> 1 .. MaxSeid] /\ remoteSeid' \in [Sess -> RemoteSeid \cup {0}]
    BY <2>1, <2>3, SessionAssumption DEF Fits, ResTypeOK
  <2> HIDE DEF s
  <2>6. ResTypeOK'
    <3>1. cur'.sess \in Node \X (0 .. MaxSeid)
      BY <2>2, <2>3 DEF Sess
    <3> QED  BY <1>0, <2>2, <2>5, <3>1 DEF ResTypeOK, Fits, Inv
  <2>7. CurFits' /\ CacheFits'
    BY <1>0, <2>2, <2>3 DEF CurFits, CacheFits, Fits
  <2>8. Active' = stored \cup {s}
    BY <1>0, <2>2 DEF Active
  <2>9. \A m \in Node : nextSeid[m] \in Int /\ nextSeid'[m] \in Int /\ nextSeid[m] <= nextSeid'[m]
    BY <2>1 DEF Fits, ResTypeOK
  <2>10. SeidsFit'
    <3>1. \A t \in stored : t[1] \in assoc /\ t[2] <= nextSeid'[t[1]]
      BY <2>4, <2>9 DEF SeidsFit, Fits
    <3>2. cur'.sess[1] \in assoc /\ cur'.sess[2] <= nextSeid'[cur'.sess[1]]
      BY <2>1, <2>2, <2>3, <2>5, <2>9 DEF Fits, ResTypeOK
    <3>3. \A t \in Active' : remoteSeid'[t] \in RemoteSeid
      BY <1>0, <2>1, <2>3, <2>4, <2>8 DEF SeidsFit, Fits, ResTypeOK
    <3> QED  BY <1>0, <3>1, <3>2, <3>3 DEF SeidsFit
  <2>11. PdrsFit'
    BY <1>0, <2>8 DEF PdrsFit, Fits
  <2> QED  BY <2>6, <2>7, <2>10, <2>11 DEF Fits
<1>2. ASSUME NEW s \in stored, NEW r \in RemoteSeid, ModificationRequest(s, r) PROVE Fits'
  <2>1. /\ remoteSeid' = [remoteSeid EXCEPT ![s] = r] /\ UNCHANGED nextSeid
        /\ cur'.op = "mod" /\ cur'.sess = s /\ cur'.stage = 0
        /\ cur'.left = {} /\ cur'.pending = {}
        /\ cur' = [op |-> cur'.op, sess |-> cur'.sess, stage |-> cur'.stage,
                   cache |-> cur'.cache, left |-> cur'.left, pending |-> cur'.pending]
        /\ cur'.cache = <<>>
    BY <1>2 DEF ModificationRequest, Idle
  <2>2. s \in Sess /\ s \in Node \X (0 .. MaxSeid)
    BY DEF Fits, ResTypeOK, Sess
  <2>3. remoteSeid' \in [Sess -> RemoteSeid \cup {0}]
    BY <2>1, <2>2 DEF Fits, ResTypeOK
  <2>4. ResTypeOK'
    BY <1>0, <2>1, <2>2, <2>3 DEF ResTypeOK, Fits, Inv
  <2>5. CurFits' /\ CacheFits'
    BY <1>0, <2>1, <2>2 DEF CurFits, CacheFits, Fits
  <2>6. Active' = stored
    BY <1>0, <2>1 DEF Active
  <2>7. SeidsFit'
    BY <1>0, <2>1, <2>2, <2>6 DEF SeidsFit, Fits, ResTypeOK
  <2>8. PdrsFit'
    BY <1>0, <2>6 DEF PdrsFit, Fits
  <2> QED  BY <2>4, <2>5, <2>7, <2>8 DEF Fits
<1>3. ASSUME NEW s \in stored, DeletionRequest(s) PROVE Fits'
  <2>1. /\ UNCHANGED <<remoteSeid, nextSeid>>
        /\ cur'.op = "del" /\ cur'.sess = s /\ cur'.stage = 0
        /\ cur'.left = PdrsOf(s) /\ cur'.pending = {}
        /\ cur' = [op |-> cur'.op, sess |-> cur'.sess, stage |-> cur'.stage,
                   cache |-> cur'.cache, left |-> cur'.left, pending |-> cur'.pending]
    BY <1>3 DEF DeletionRequest, Idle
  <2>2. s \in Sess /\ s \in Node \X (0 .. MaxSeid) /\ PdrsOf(s) \subseteq pdrs
    BY DEF Fits, ResTypeOK, Sess, PdrsOf
  <2>3. ResTypeOK'
    BY <1>0, <2>1, <2>2 DEF ResTypeOK, Fits, Inv
  <2>4. CurFits' /\ CacheFits'
    BY <1>0, <2>1, <2>2 DEF CurFits, CacheFits, Fits, PdrsOf
  <2>5. Active' = stored
    BY <1>0, <2>1 DEF Active
  <2>6. SeidsFit' /\ PdrsFit'
    BY <1>0, <2>1, <2>5 DEF SeidsFit, PdrsFit, Fits
  <2> QED  BY <2>3, <2>4, <2>6 DEF Fits
<1>4. ASSUME NEW n \in Node, PruneAssociation(n) PROVE Fits'
  <2>1. /\ UNCHANGED <<remoteSeid, nextSeid>>
        /\ cur'.op = "prune" /\ cur'.sess = <<n, 0>> /\ cur'.stage = 0
        /\ cur'.left = {} /\ cur'.pending = SessionsOf(n)
        /\ cur' = [op |-> cur'.op, sess |-> cur'.sess, stage |-> cur'.stage,
                   cache |-> cur'.cache, left |-> cur'.left, pending |-> cur'.pending]
    BY <1>4 DEF PruneAssociation, Idle
  <2>2. \A s \in stored : s \in Sess /\ s[2] \in 2 .. MaxSeid
    BY SessPair DEF Fits, ResTypeOK
  <2>3. \A s \in SessionsOf(n) : s \in stored /\ s[1] = n /\ s # <<n, 0>>
    BY <2>2, SessionAssumption DEF SessionsOf
  <2>4. ResTypeOK'
    BY <1>0, <2>1, <2>3, SessionAssumption DEF ResTypeOK, Fits, Inv
  <2>5. CurFits' /\ CacheFits'
    BY <1>0, <2>1, <2>3, SessionAssumption DEF CurFits, CacheFits, Fits, PdrsOf
  <2>6. Active' = stored
    BY <1>0, <2>1 DEF Active
  <2>7. SeidsFit' /\ PdrsFit'
    BY <1>0, <2>1, <2>6 DEF SeidsFit, PdrsFit, Fits
  <2> QED  BY <2>4, <2>5, <2>7 DEF Fits
<1> QED  BY <1>1, <1>2, <1>3, <1>4

\* A request ends, or moves on to the next session.
LEMMA FitsEnd ==
    ASSUME Fits, Inv',
           \/ \E s \in stored : PruneSession(s)
           \/ RequestFails \/ RequestDone
           \/ DeletionDone \/ DeletionTeids \/ PruneDone
    PROVE  Fits'
<1>0. /\ cur' = Idle => cur'.op = "idle" /\ cur'.sess = NoSess /\ cur'.left = {}
                          /\ cur'.pending = {} /\ cur'.stage = 0
      /\ cur' = Idle => cur' = [op |-> cur'.op, sess |-> cur'.sess, stage |-> cur'.stage,
            cache |-> cur'.cache, left |-> cur'.left, pending |-> cur'.pending]
  BY DEF Idle
<1>1. ASSUME NEW s \in stored, PruneSession(s) PROVE Fits'
  <2>1. /\ UNCHANGED <<assoc, nextSeid, stored, remoteSeid, pdrs, rows>>
        /\ cur.op = "prune" /\ s \in cur.pending
        /\ cur' = [cur EXCEPT !.sess = s, !.left = PdrsOf(s), !.cache = <<>>,
                              !.pending = @ \ {s}]
    BY <1>1 DEF PruneSession
  <2>2. /\ cur'.op = "prune" /\ cur'.sess = s /\ cur'.stage = cur.stage
        /\ cur'.left = PdrsOf(s) /\ cur'.pending = cur.pending \ {s}
        /\ cur' = [op |-> cur'.op, sess |-> cur'.sess, stage |-> cur'.stage,
                   cache |-> cur'.cache, left |-> cur'.left, pending |-> cur'.pending]
    BY <2>1 DEF Fits, CurFits
  <2>3. s \in Sess /\ s \in Node \X (0 .. MaxSeid) /\ PdrsOf(s) \subseteq pdrs
    BY DEF Fits, ResTypeOK, Sess, PdrsOf
  <2>4. ResTypeOK'
    BY <2>1, <2>2, <2>3 DEF ResTypeOK, Fits, Inv
  <2>5. CurFits' /\ CacheFits'
    BY <2>1, <2>2, <2>3 DEF CurFits, CacheFits, Fits, PdrsOf
  <2>6. Active' = Active
    BY <2>1, <2>2 DEF Active
  <2>7. SeidsFit' /\ PdrsFit'
    BY <2>1, <2>2, <2>6 DEF SeidsFit, PdrsFit, Fits
  <2> QED  BY <2>4, <2>5, <2>7 DEF Fits
<1>2. CASE RequestFails
  <2>1. /\ cur.op \in {"est", "mod"} /\ cur' = Idle
        /\ UNCHANGED <<assoc, nextSeid, stored, rows>>
        /\ pdrs' = IF cur.op = "est" THEN pdrs \ PdrsOf(cur.sess) ELSE pdrs
        /\ remoteSeid' = IF cur.op = "est" THEN [remoteSeid EXCEPT ![cur.sess] = 0]
                         ELSE remoteSeid
    BY <1>2 DEF RequestFails, GiveUp
  <2>2. \A t \in stored : remoteSeid'[t] = remoteSeid[t]
    BY <2>1 DEF Fits, CurFits, ResTypeOK
  <2>3. \A p \in pdrs' : p \in pdrs /\ p.sess \in stored
    BY <2>1 DEF Fits, PdrsFit, PdrsOf, Active
  <2>4. remoteSeid' \in [Sess -> RemoteSeid \cup {0}]
    BY <2>1 DEF Fits, ResTypeOK
  <2>5. ResTypeOK'
    BY <1>0, <2>1, <2>3, <2>4 DEF ResTypeOK, Fits, Inv
  <2>6. CurFits' /\ CacheFits'
    BY <1>0, <2>1 DEF CurFits, CacheFits
  <2>7. Active' = stored /\ stored \subseteq Active
    BY <1>0, <2>1 DEF Active
  <2>8. SeidsFit' /\ PdrsFit'
    BY <1>0, <2>1, <2>2, <2>3, <2>7 DEF SeidsFit, PdrsFit, Fits
  <2> QED  BY <2>5, <2>6, <2>8 DEF Fits
<1>3. CASE RequestDone
  <2>1. /\ cur.op \in {"est", "mod"} /\ cur' = Idle
        /\ UNCHANGED <<assoc, nextSeid, remoteSeid, pdrs, rows>>
        /\ stored' = stored \cup {cur.sess} /\ cur.sess \in Sess
    BY <1>3 DEF RequestDone, Fits, CurFits
  <2>2. Active' = Active
    BY <1>0, <2>1 DEF Active, Fits, CurFits
  <2>3. ResTypeOK'
    BY <1>0, <2>1 DEF ResTypeOK, Fits, Inv
  <2>4. CurFits' /\ CacheFits'
    BY <1>0, <2>1 DEF CurFits, CacheFits
  <2>5. SeidsFit' /\ PdrsFit'
    BY <1>0, <2>1, <2>2 DEF SeidsFit, PdrsFit, Fits, CurFits
  <2> QED  BY <2>3, <2>4, <2>5 DEF Fits
<1>4. CASE DeletionDone
  <2>1. /\ cur.op = "del" /\ UNCHANGED <<assoc, nextSeid, rows>>
        /\ stored' = stored \ {cur.sess} /\ cur.sess \in Sess
        /\ pdrs' = pdrs \ PdrsOf(cur.sess)
        /\ remoteSeid' = [remoteSeid EXCEPT ![cur.sess] = 0]
    BY <1>4 DEF DeletionDone, Fits, CurFits
  <2>2. /\ cur'.op = "free" /\ cur'.sess = cur.sess /\ cur'.stage = 0
        /\ cur'.left = {} /\ cur'.pending = {}
        /\ cur' = [op |-> cur'.op, sess |-> cur'.sess, stage |-> cur'.stage,
                   cache |-> cur'.cache, left |-> cur'.left, pending |-> cur'.pending]
    BY <1>4 DEF DeletionDone, Idle
  <2>3. \A t \in stored' : t \in stored /\ remoteSeid'[t] = remoteSeid[t]
    BY <2>1 DEF Fits, ResTypeOK
  <2>4. \A p \in pdrs' : p \in pdrs /\ p.sess \in stored'
    BY <2>1 DEF Fits, PdrsFit, PdrsOf, Active
  <2>5. remoteSeid' \in [Sess -> RemoteSeid \cup {0}]
    BY <2>1 DEF Fits, ResTypeOK
  <2>6. ResTypeOK'
    BY <2>1, <2>2, <2>4, <2>5 DEF ResTypeOK, Fits, Inv
  <2>7. CurFits' /\ CacheFits'
    BY <2>1, <2>2 DEF CurFits, CacheFits
  <2>8. Active' = stored' /\ stored \subseteq Active
    BY <2>2 DEF Active
  <2>9. SeidsFit' /\ PdrsFit'
    BY <2>1, <2>2, <2>3, <2>4, <2>8 DEF SeidsFit, PdrsFit, Fits
  <2> QED  BY <2>6, <2>7, <2>9 DEF Fits
<1>5. CASE DeletionTeids
  <2>1. /\ cur.op = "free" /\ cur' = Idle
        /\ UNCHANGED <<assoc, nextSeid, stored, remoteSeid, pdrs, rows>>
    BY <1>5 DEF DeletionTeids
  <2>2. Active' = Active
    BY <1>0, <2>1 DEF Active
  <2>3. ResTypeOK'
    BY <1>0, <2>1 DEF ResTypeOK, Fits, Inv
  <2>4. CurFits' /\ CacheFits'
    BY <1>0, <2>1 DEF CurFits, CacheFits
  <2>5. SeidsFit' /\ PdrsFit'
    BY <1>0, <2>1, <2>2 DEF SeidsFit, PdrsFit, Fits
  <2> QED  BY <2>3, <2>4, <2>5 DEF Fits
<1>6. CASE PruneDone
  <2> DEFINE n == cur.sess[1]
  <2>1. /\ cur.op = "prune" /\ cur' = Idle /\ UNCHANGED <<nextSeid, rows>>
        /\ assoc' = assoc \ {n}
        /\ stored' = stored \ SessionsOf(n)
        /\ pdrs' = {p \in pdrs : p.sess[1] # n}
        /\ remoteSeid' = [s \in Sess |-> IF s[1] = n THEN 0 ELSE remoteSeid[s]]
    BY <1>6 DEF PruneDone
  <2>2. \A t \in stored' : t \in stored /\ t \in Sess /\ t[1] # n
    BY <2>1 DEF Fits, ResTypeOK, SessionsOf
  <2>3. \A p \in pdrs' : p \in pdrs /\ p.sess \in stored'
    BY <2>1 DEF Fits, PdrsFit, SessionsOf, Active
  <2>4. remoteSeid' \in [Sess -> RemoteSeid \cup {0}]
    BY <2>1 DEF Fits, ResTypeOK
  <2>5. \A t \in stored' : remoteSeid'[t] = remoteSeid[t]
    BY <2>1, <2>2
  <2> HIDE DEF n
  <2>6. ResTypeOK'
    BY <1>0, <2>1, <2>3, <2>4 DEF ResTypeOK, Fits, Inv
  <2>7. CurFits' /\ CacheFits'
    BY <1>0, <2>1 DEF CurFits, CacheFits
  <2>8. Active' = stored' /\ stored \subseteq Active
    BY <1>0, <2>1 DEF Active
  <2>9. SeidsFit' /\ PdrsFit'
    BY <1>0, <2>1, <2>2, <2>3, <2>5, <2>8 DEF SeidsFit, PdrsFit, Fits
  <2> QED  BY <2>6, <2>7, <2>9 DEF Fits
<1> QED  BY <1>1, <1>2, <1>3, <1>4, <1>5, <1>6

\* An allocation takes the head of the free list.
LEMMA HeadsAreIds ==
    ASSUME Inv
    PROVE  /\ freeTEIDs # <<>> => Head(freeTEIDs) \in Teids
           /\ freeIPs # <<>> => Head(freeIPs) \in Ips
  BY TailDistinct DEF Inv, TypeOK, NoDoubleHandout

\* What a Create PDR or an Update PDR stores and remembers.
LEMMA PutFacts ==
    ASSUME Fits, NEW o \in {"create", "update"}, NEW i
    PROVE  /\ MayPut(o, i) => /\ cur.op \in {"est", "mod"} /\ cur.sess \in Sess
                              /\ cur.stage <= 2
                              /\ \A c \in DOMAIN cur.cache : cur.cache[c] \in Teids
                              /\ Stage(o) <= 2
           /\ i \in UplinkPdr \cup DownlinkPdr => i \in PdrId
<1>1. MayPut(o, i) => cur.op \in {"est", "mod"} /\ cur.stage <= Stage(o)
  BY DEF MayPut, Reached
<1>2. Stage(o) \in 1 .. 2
  BY DEF Stage
<1>3. cur.stage \in 0 .. 3
  BY DEF Fits, CurFits
<1> QED  BY <1>1, <1>2, <1>3, SessionAssumption DEF Fits, CurFits, CacheFits

\* Every step of the handlers keeps the shape of sessions, PDRs and request.
LEMMA FitsStep == Fits /\ [ResNext]_resVars => Fits'
<1> SUFFICES ASSUME Fits, [ResNext]_resVars PROVE Fits'
  OBVIOUS
<1>0. Inv'
  BY PoolOperation, InvStep DEF Fits
<1>1. ASSUME NEW n \in Node, AssociationSetup(n) PROVE Fits'
  <2>1. /\ UNCHANGED <<stored, remoteSeid, pdrs, rows, cur>> /\ cur.op = "idle"
        /\ assoc' = assoc \cup {n}
        /\ nextSeid' = IF n \in assoc THEN nextSeid ELSE [nextSeid EXCEPT ![n] = 1]
    BY <1>1 DEF AssociationSetup
  <2>2. nextSeid' \in [Node -> 1 .. MaxSeid]
    BY <2>1, SessionAssumption DEF Fits, ResTypeOK
  <2>3. \A m \in assoc : m \in Node /\ nextSeid'[m] = nextSeid[m]
    BY <2>1 DEF Fits, ResTypeOK
  <2>4. ResTypeOK'
    BY <1>0, <2>1, <2>2 DEF ResTypeOK, Fits, Inv
  <2>5. CurFits' /\ CacheFits'
    BY <2>1 DEF CurFits, CacheFits, Fits, PdrsOf
  <2>6. SeidsFit' /\ PdrsFit'
    BY <2>1, <2>3 DEF SeidsFit, PdrsFit, Fits, Active
  <2> QED  BY <1>0, <2>4, <2>5, <2>6 DEF Fits
<1>2. ASSUME NEW o \in {"create", "update"}, NEW i \in UplinkPdr, NEW t \in GivenTeid,
             PutGivenTeid(o, i, t)
      PROVE  Fits'
  <2>1. /\ MayPut(o, i) /\ StorePdr(Uplink(i, t)) /\ Others
        /\ cur' = [cur EXCEPT !.stage = Stage(o)]
    BY <1>2 DEF PutGivenTeid, Others
  <2>0. t # 0
    BY SessionAssumption, PoolAssumption
  <2>2. /\ Uplink(i, t) \in SpdrInfo /\ Uplink(i, t).sess = cur.sess /\ Uplink(i, t).id = i
        /\ Uplink(i, t).teid # 0 /\ Uplink(i, t).ip = 0
    BY <2>0, <2>1, PutFacts DEF Uplink, SpdrInfo
  <2>3. cur' = [cur EXCEPT !.stage = Stage(o), !.cache = cur.cache]
    BY <2>1 DEF Fits, CurFits
  <2> QED  BY <1>0, <2>1, <2>2, <2>3, PutFacts, FitsPut
<1>3. ASSUME NEW o \in {"create", "update"}, NEW i \in UplinkPdr, NEW c \in ChooseId,
             PutCachedTeid(o, i, c)
      PROVE  Fits'
  <2> DEFINE t == cur.cache[c]
  <2>1. /\ MayPut(o, i) /\ StorePdr(Uplink(i, t)) /\ Others /\ c \in DOMAIN cur.cache
        /\ cur' = [cur EXCEPT !.stage = Stage(o)]
    BY <1>3 DEF PutCachedTeid, Others
  <2>2. t \in Teids /\ t # 0
    BY <2>1, PutFacts DEF Teids
  <2> HIDE DEF t
  <2>3. /\ Uplink(i, t) \in SpdrInfo /\ Uplink(i, t).sess = cur.sess /\ Uplink(i, t).id = i
        /\ Uplink(i, t).teid # 0 /\ Uplink(i, t).ip = 0
    BY <2>1, <2>2, PutFacts DEF Uplink, SpdrInfo
  <2>4. cur' = [cur EXCEPT !.stage = Stage(o), !.cache = cur.cache]
    BY <2>1 DEF Fits, CurFits
  <2> QED  BY <1>0, <2>1, <2>3, <2>4, PutFacts, FitsPut
<1>4. ASSUME NEW o \in {"create", "update"}, NEW i \in UplinkPdr,
             NEW c \in ChooseId \cup {NoChooseId}, PutChosenTeid(o, i, c)
      PROVE  Fits'
  <2> DEFINE t == Head(freeTEIDs)
             cache == IF c = NoChooseId THEN cur.cache ELSE CacheWith(c, t)
  <2>1. /\ MayPut(o, i) /\ StorePdr(Uplink(i, t)) /\ Others /\ freeTEIDs # <<>>
        /\ cur' = [cur EXCEPT !.stage = Stage(o), !.cache = cache]
    BY <1>4 DEF PutChosenTeid, Others, AllocateTEID
  <2>2. t \in Teids /\ t # 0
    BY <2>1, HeadsAreIds DEF Teids, Fits
  <2> HIDE DEF t
  <2>3. /\ Uplink(i, t) \in SpdrInfo /\ Uplink(i, t).sess = cur.sess /\ Uplink(i, t).id = i
        /\ Uplink(i, t).teid # 0 /\ Uplink(i, t).ip = 0
    BY <2>1, <2>2, PutFacts DEF Uplink, SpdrInfo
  <2>4. \A k \in DOMAIN cache : cache[k] \in Teids
    BY <2>1, <2>2, PutFacts DEF CacheWith
  <2> HIDE DEF cache
  <2> QED  BY <1>0, <2>1, <2>3, <2>4, PutFacts, FitsPut
<1>5. ASSUME NEW o \in {"create", "update"}, NEW i \in DownlinkPdr, PutChosenIp(o, i)
      PROVE  Fits'
  <2> DEFINE a == Head(freeIPs)
  <2>1. /\ MayPut(o, i) /\ StorePdr(Downlink(i, a)) /\ Others /\ freeIPs # <<>>
        /\ cur' = [cur EXCEPT !.stage = Stage(o)]
    BY <1>5 DEF PutChosenIp, Others, AllocateIP
  <2>2. a \in Ips /\ a # 0
    BY <2>1, HeadsAreIds DEF Ips, Fits
  <2> HIDE DEF a
  <2>3. /\ Downlink(i, a) \in SpdrInfo /\ Downlink(i, a).sess = cur.sess
        /\ Downlink(i, a).id = i /\ Downlink(i, a).teid = 0 /\ Downlink(i, a).ip # 0
    BY <2>1, <2>2, PutFacts DEF Downlink, SpdrInfo
  <2>4. cur' = [cur EXCEPT !.stage = Stage(o), !.cache = cur.cache]
    BY <2>1 DEF Fits, CurFits
  <2> QED  BY <1>0, <2>1, <2>3, <2>4, PutFacts, FitsPut
<1>6. CASE \/ \E n \in Node : \E r \in RemoteSeid : EstablishmentRequest(n, r)
           \/ \E s \in stored : \E r \in RemoteSeid : ModificationRequest(s, r)
           \/ \E s \in stored : DeletionRequest(s)
           \/ \E n \in Node : PruneAssociation(n)
  BY <1>0, <1>6, FitsRequest
<1>7. CASE \/ \E s \in stored : PruneSession(s)
           \/ RequestFails \/ RequestDone
           \/ DeletionDone \/ DeletionTeids \/ PruneDone
  BY <1>0, <1>7, FitsEnd
<1>8. ASSUME NEW p \in pdrs, RemovePdr(p) \/ DeletionPdr(p) \/ PrunePdr(p) PROVE Fits'
  BY <1>0, <1>8, FitsDelete
<1>9. CASE UNCHANGED resVars
  <2>1. UNCHANGED <<assoc, nextSeid, stored, remoteSeid, pdrs, rows, cur>>
    BY <1>9 DEF resVars
  <2>2. ResTypeOK'
    BY <1>0, <2>1 DEF ResTypeOK, Fits, Inv
  <2> QED  BY <1>0, <2>1, <2>2 DEF Fits, CurFits, CacheFits, SeidsFit, PdrsFit, Active, PdrsOf
<1> QED  BY <1>1, <1>2, <1>3, <1>4, <1>5, <1>6, <1>7, <1>8, <1>9 DEF ResNext

\* Whatever peers do: every variable of the handlers has its type.
THEOREM ResourceTypes == ResSpec => []ResTypeOK
<1>1. Fits => ResTypeOK
  BY DEF Fits
<1> QED  BY <1>1, FitsInit, FitsStep, PTL DEF ResSpec

\* Whatever peers do, no TEID and no UE address is handed out twice: the handlers
\* use the pools by their operations only.
THEOREM HandlersHandOutOnce == ResSpec => []NoDoubleHandout
<1>1. Fits => NoDoubleHandout
  BY DEF Fits, Inv
<1> QED  BY <1>1, FitsInit, FitsStep, PTL DEF ResSpec

\* Whatever peers do, the pools keep the promise of IdPool below the handlers.
THEOREM HandlersUsePools == ResSpec => PoolsKeepPromise
<1>1. ResInit => Init
  BY DEF ResInit
<1>2. Fits => Inv
  BY DEF Fits
<1>3. ResSpec => []Fits
  BY FitsInit, FitsStep, PTL DEF ResSpec
<1>4. ResSpec => Spec
  BY <1>1, <1>3, PoolOperation, PTL DEF ResSpec, Spec
<1> QED  BY <1>4, PoolsImplemented

\* A step of a pool keeps every TEID, and every address, in one place and passes it
\* on only when free.
LEMMA TeidsPassOn ==
    ASSUME TeidPool!OnePlace, [TeidPool!Next]_TeidPlaces
    PROVE  TeidPool!OnePlace' /\ TeidPool!Passes
<1> USE DEF TeidPool!OnePlace, TeidPool!Passes
<1>1. ASSUME NEW i \in Teids, NEW h, TeidPool!Take(i, h), TeidPlaces[i] = {<<>>}
      PROVE  TeidPool!OnePlace' /\ TeidPool!Passes
  <2>1. TeidPlaces'[i] = {h} /\ \A j \in Teids \ {i} : TeidPlaces'[j] = TeidPlaces[j] \ {h}
    BY <1>1 DEF TeidPool!Take
  <2>2. \A j \in Teids \ {i} : TeidPlaces'[j] = TeidPlaces[j] \/ (TeidPlaces[j] # {} /\ TeidPlaces'[j] = {})
    BY <2>1
  <2> QED  BY <1>1, <2>1, <2>2
<1>2. ASSUME NEW H, TeidPool!Release(H) PROVE TeidPool!OnePlace' /\ TeidPool!Passes
  BY <1>2 DEF TeidPool!Release
<1>3. CASE UNCHANGED TeidPlaces
  BY <1>3
<1> QED  BY <1>1, <1>2, <1>3 DEF TeidPool!Next, TeidPool!FreeIds

LEMMA IpsPassOn ==
    ASSUME IpPool!OnePlace, [IpPool!Next]_IpPlaces
    PROVE  IpPool!OnePlace' /\ IpPool!Passes
<1> USE DEF IpPool!OnePlace, IpPool!Passes
<1>1. ASSUME NEW i \in Ips, NEW h, IpPool!Take(i, h), IpPlaces[i] = {<<>>}
      PROVE  IpPool!OnePlace' /\ IpPool!Passes
  <2>1. IpPlaces'[i] = {h} /\ \A j \in Ips \ {i} : IpPlaces'[j] = IpPlaces[j] \ {h}
    BY <1>1 DEF IpPool!Take
  <2>2. \A j \in Ips \ {i} : IpPlaces'[j] = IpPlaces[j] \/ (IpPlaces[j] # {} /\ IpPlaces'[j] = {})
    BY <2>1
  <2> QED  BY <1>1, <2>1, <2>2
<1>2. ASSUME NEW H, IpPool!Release(H) PROVE IpPool!OnePlace' /\ IpPool!Passes
  BY <1>2 DEF IpPool!Release
<1>3. CASE UNCHANGED IpPlaces
  BY <1>3
<1> QED  BY <1>1, <1>2, <1>3 DEF IpPool!Next, IpPool!FreeIds

\* Whatever peers do, between two keys a TEID or an address is in the free list, and
\* one whose key was given again never comes back (AllocateTEID, ReleaseTEID,
\* AllocateIP, ReleaseIP under the session handlers).
THEOREM IdsChangeHandsFree ==
    ResSpec => TeidPool!Handover /\ IpPool!Handover
<1>1. (TeidPool!Init => TeidPool!OnePlace) /\ (IpPool!Init => IpPool!OnePlace)
  BY DEF TeidPool!Init, TeidPool!OnePlace, IpPool!Init, IpPool!OnePlace
<1>2. TeidPool!OnePlace /\ [TeidPool!Next]_TeidPlaces => TeidPool!OnePlace' /\ TeidPool!Passes
  BY TeidsPassOn
<1>3. IpPool!OnePlace /\ [IpPool!Next]_IpPlaces => IpPool!OnePlace' /\ IpPool!Passes
  BY IpsPassOn
<1>4. TeidPool!Spec => TeidPool!Handover
  BY <1>1, <1>2, PTL DEF TeidPool!Spec, TeidPool!Handover
<1>5. IpPool!Spec => IpPool!Handover
  BY <1>1, <1>3, PTL DEF IpPool!Spec, IpPool!Handover
<1> QED  BY <1>4, <1>5, HandlersUsePools DEF PoolsKeepPromise

-----------------------------------------------------------------------------
(* Peers whose SEIDs do not meet and that do not remove PDRs one by one *)

\* What of Stress leaves the pools to themselves.
Careful == Stress \subseteq {"rechoose", "reseid", "badIE"}

\* Request c deletes session s; it is through with PDR p.
Leaving(c, s) ==
    \/ c.op = "del" /\ s = c.sess
    \/ c.op = "prune" /\ s[1] = c.sess[1] /\ s \notin c.pending

Through(c, p) == Leaving(c, p.sess) /\ p \notin c.left

\* Session t of the sessions S is known by seID.
Meets(S, r, c, seID, t) ==
    \/ t \in S /\ (seID = r[t] \/ seID = t[2])
    \/ c.op = "free" /\ t = c.sess /\ seID = t[2]

\* No two sessions meet in a SEID.
SeidsApart ==
    \A s, t \in Active : s # t => remoteSeid[s] # remoteSeid[t] /\ remoteSeid[s] # t[2]

\* Ids are booked under SEIDs of no other session than the one that has them.
BookedApart ==
    /\ \A p \in pdrs, b \in busyTEIDs : b.teid = p.teid =>
         \A t : Meets(Active, remoteSeid, cur, b.seID, t) => t = p.sess
    /\ \A p \in pdrs, b \in busyIPs : b.ip = p.ip =>
         \A t : Meets(Active, remoteSeid, cur, b.seID, t) => t = p.sess

\* Ids of sessions that no deletion is at work on are not free, and none is with
\* two sessions.
HeldApart ==
    /\ \A p \in pdrs : ~Leaving(cur, p.sess) => p.teid \notin Listed(freeTEIDs)
    /\ \A p, q \in pdrs : p.teid = q.teid /\ p.teid # 0 => p.sess = q.sess
    /\ \A p \in pdrs : p.ip \notin Listed(freeIPs)
    /\ \A p, q \in pdrs : p.ip = q.ip /\ p.ip # 0 => p = q

\* So are the TEIDs that a request remembers for its next PDR.
CachedApart ==
    cur.op \in {"est", "mod"} /\ cur.stage <= 2 =>
        \A c \in DOMAIN cur.cache :
            /\ cur.cache[c] \notin Listed(freeTEIDs)
            /\ \A p \in pdrs : p.teid = cur.cache[c] => p.sess = cur.sess
            /\ \A b \in busyTEIDs : b.teid = cur.cache[c] =>
                 \A t : Meets(Active, remoteSeid, cur, b.seID, t) => t = cur.sess

\* A PDR has its row, until a deletion is through with it or with one that shares
\* its TEID.
RowsKept ==
    \A p \in pdrs : ~Through(cur, p) =>
        \/ KeyOf(p) \in rows
        \/ p \in cur.left /\ p.ip = 0 /\ CacheKey(p) \in DOMAIN cur.cache

\* A deletion that is through with a PDR with a TEID has released the TEIDs.
Released ==
    \A p \in pdrs : Through(cur, p) /\ p.teid # 0 =>
        \A b \in busyTEIDs : b.seID # remoteSeid[p.sess]

Apart == SeidsApart /\ BookedApart /\ HeldApart /\ CachedApart /\ RowsKept /\ Released

\* Without sessions there is nothing to keep apart.
LEMMA ApartInit == ResInit => Apart
<1> SUFFICES ASSUME ResInit PROVE Apart
  OBVIOUS
<1>1. pdrs = {} /\ Active = {} /\ cur.op = "idle"
  BY DEF ResInit, Active, Idle
<1> QED  BY <1>1 DEF Apart, SeidsApart, BookedApart, HeldApart, CachedApart, RowsKept, Released

\* The head of the free TEIDs goes to a key.
LEMMA TookTeid ==
    ASSUME Inv, NEW s, NEW i, AllocateTEID(s, i)
    PROVE  /\ Head(freeTEIDs) \in Teids
           /\ Head(freeTEIDs) \in Listed(freeTEIDs)
           /\ Head(freeTEIDs) \notin Listed(freeTEIDs')
           /\ Listed(freeTEIDs') \subseteq Listed(freeTEIDs)
           /\ \A x \in Listed(freeTEIDs) : x = Head(freeTEIDs) \/ x \in Listed(freeTEIDs')
           /\ \A b \in busyTEIDs : b.teid # Head(freeTEIDs)
           /\ \A b \in busyTEIDs' : b \in busyTEIDs \/ (b.seID = s /\ b.teid = Head(freeTEIDs))
           /\ UNCHANGED <<freeIPs, busyIPs>>
<1>1. /\ freeTEIDs' = Tail(freeTEIDs) /\ freeTEIDs # <<>>
      /\ freeTEIDs \in Seq(Teids) /\ Distinct(freeTEIDs)
      /\ UNCHANGED <<freeIPs, busyIPs>>
  BY DEF AllocateTEID, ipam, Inv, TypeOK, NoDoubleHandout
<1>2. /\ Head(freeTEIDs) \in Teids
      /\ Head(freeTEIDs) \in Listed(freeTEIDs)
      /\ Head(freeTEIDs) \notin Listed(freeTEIDs')
      /\ Listed(freeTEIDs') \subseteq Listed(freeTEIDs)
      /\ \A x \in Listed(freeTEIDs) : x = Head(freeTEIDs) \/ x \in Listed(freeTEIDs')
  BY <1>1, TailDistinct
<1>3. \A b \in busyTEIDs : b.teid # Head(freeTEIDs)
  BY <1>2 DEF Inv, NoDoubleHandout
<1>4. \A b \in busyTEIDs' : b \in busyTEIDs \/ (b.seID = s /\ b.teid = Head(freeTEIDs))
  BY DEF AllocateTEID
<1> QED  BY <1>1, <1>2, <1>3, <1>4

\* The head of the free addresses goes to a key.
LEMMA TookIp ==
    ASSUME Inv, NEW s, AllocateIP(s)
    PROVE  /\ Head(freeIPs) \in Ips
           /\ Head(freeIPs) \in Listed(freeIPs)
           /\ Head(freeIPs) \notin Listed(freeIPs')
           /\ Listed(freeIPs') \subseteq Listed(freeIPs)
           /\ \A x \in Listed(freeIPs) : x = Head(freeIPs) \/ x \in Listed(freeIPs')
           /\ \A b \in busyIPs : b.ip # Head(freeIPs)
           /\ \A b \in busyIPs' : b \in busyIPs \/ (b.seID = s /\ b.ip = Head(freeIPs))
           /\ UNCHANGED <<freeTEIDs, busyTEIDs>>
<1>1. /\ freeIPs' = Tail(freeIPs) /\ freeIPs # <<>>
      /\ freeIPs \in Seq(Ips) /\ Distinct(freeIPs)
      /\ UNCHANGED <<freeTEIDs, busyTEIDs>>
  BY DEF AllocateIP, fteidm, Inv, TypeOK, NoDoubleHandout
<1>2. /\ Head(freeIPs) \in Ips
      /\ Head(freeIPs) \in Listed(freeIPs)
      /\ Head(freeIPs) \notin Listed(freeIPs')
      /\ Listed(freeIPs') \subseteq Listed(freeIPs)
      /\ \A x \in Listed(freeIPs) : x = Head(freeIPs) \/ x \in Listed(freeIPs')
  BY <1>1, TailDistinct
<1>3. \A b \in busyIPs : b.ip # Head(freeIPs)
  BY <1>2 DEF Inv, NoDoubleHandout
<1>4. \A b \in busyIPs' : b \in busyIPs \/ (b.seID = s /\ b.ip = Head(freeIPs))
  BY DEF AllocateIP
<1> QED  BY <1>1, <1>2, <1>3, <1>4

\* The TEIDs booked under a SEID become free.
LEMMA FreedTeids ==
    ASSUME Inv, NEW s, ReleaseTEID(s)
    PROVE  /\ \A x \in Listed(freeTEIDs') :
                x \in Listed(freeTEIDs) \/ \E b \in busyTEIDs : b.seID = s /\ b.teid = x
           /\ Listed(freeTEIDs) \subseteq Listed(freeTEIDs')
           /\ \A b \in busyTEIDs : b.seID = s => b.teid \in Listed(freeTEIDs')
           /\ \A b \in busyTEIDs' : b \in busyTEIDs /\ b.seID # s
           /\ UNCHANGED <<freeIPs, busyIPs>>
<1> DEFINE S == {b.teid : b \in TeidRows(s)}
<1>1. PICK order \in Orders(S) : freeTEIDs' = freeTEIDs \o order
  BY DEF ReleaseTEID
<1>2. S \subseteq 1 .. TeidRange
  BY DEF TeidRows, TeidRow, Teids, Inv, TypeOK
<1>3. order \in Seq(Teids) /\ Distinct(order) /\ Listed(order) = S
  BY <1>1, <1>2, OrderDistinct, PoolAssumption DEF Teids
<1>4. /\ \A x \in S : \E b \in busyTEIDs : b.seID = s /\ b.teid = x
      /\ \A b \in busyTEIDs : b.seID = s => b.teid \in S
  BY DEF TeidRows
<1> HIDE DEF S
<1>5. /\ freeTEIDs \in Seq(Teids) /\ Distinct(freeTEIDs)
      /\ \A x \in Listed(order) : x \notin Listed(freeTEIDs)
  BY <1>3, <1>4 DEF Inv, TypeOK, NoDoubleHandout
<1>6. /\ \A x \in Listed(freeTEIDs \o order) : x \in Listed(freeTEIDs) \/ x \in Listed(order)
      /\ \A x \in Listed(freeTEIDs) \cup Listed(order) : x \in Listed(freeTEIDs \o order)
  BY <1>3, <1>5, ConcatDistinct
<1>7. \A b \in busyTEIDs' : b \in busyTEIDs /\ b.seID # s
  BY DEF ReleaseTEID, TeidRows
<1>8. UNCHANGED <<freeIPs, busyIPs>>
  BY DEF ReleaseTEID, ipam
<1> QED  BY <1>1, <1>3, <1>4, <1>6, <1>7, <1>8

\* The address booked under a SEID, if there is one, becomes free.
LEMMA FreedIp ==
    ASSUME Inv, NEW s, ReleaseIpOf(s)
    PROVE  /\ \A x \in Listed(freeIPs') :
                x \in Listed(freeIPs) \/ \E b \in busyIPs : b.seID = s /\ b.ip = x
           /\ Listed(freeIPs) \subseteq Listed(freeIPs')
           /\ \A b \in busyIPs : b.seID = s => b.ip \in Listed(freeIPs')
           /\ busyIPs' \subseteq busyIPs
           /\ UNCHANGED <<freeTEIDs, busyTEIDs>>
<1>1. CASE \E b \in busyIPs : b.seID = s
  <2>1. ReleaseIP(s)
    BY <1>1 DEF ReleaseIpOf
  <2>2. PICK b \in busyIPs : /\ b.seID = s /\ freeIPs' = Append(freeIPs, b.ip)
                             /\ busyIPs' = busyIPs \ {b}
    BY <2>1 DEF ReleaseIP
  <2>3. b.ip \in Ips /\ b.ip \notin Listed(freeIPs)
    BY <2>2 DEF IpRow, Inv, TypeOK, NoDoubleHandout
  <2>4. /\ \A y \in Listed(freeIPs') : y \in Listed(freeIPs) \/ y = b.ip
        /\ \A y \in Listed(freeIPs) \cup {b.ip} : y \in Listed(freeIPs')
    BY <2>2, <2>3, AppendDistinct DEF Inv, TypeOK, NoDoubleHandout
  <2>5. \A c \in busyIPs : c.seID = s => c = b
    BY <2>2 DEF Inv, OneIpPerKey
  <2> QED  BY <2>1, <2>2, <2>4, <2>5 DEF ReleaseIP, fteidm
<1>2. CASE ~\E b \in busyIPs : b.seID = s
  BY <1>2 DEF ReleaseIpOf, pools, Listed
<1> QED  BY <1>1, <1>2

\* Bookings stay apart when ids are given back and no session is known by more.
LEMMA BookedKept ==
    ASSUME BookedApart, pdrs' \subseteq pdrs,
           busyTEIDs' \subseteq busyTEIDs, busyIPs' \subseteq busyIPs,
           \A x, t : Meets(Active', remoteSeid', cur', x, t) => Meets(Active, remoteSeid, cur, x, t)
    PROVE  BookedApart'
  BY DEF BookedApart

\* A step that neither gives nor takes ids keeps them apart, if it comes between
\* requests, between the sessions of an association that is lost, or ends a request,
\* and if the sessions stay apart.
LEMMA ApartMoves ==
    ASSUME Fits, Apart, pdrs' \subseteq pdrs, UNCHANGED <<pools, rows>>,
           SeidsApart', BookedApart',
           cur.left = {},
           cur'.op \in {"est", "mod"} => DOMAIN cur'.cache = {},
           \A p \in pdrs' : Leaving(cur, p.sess) =>
             Leaving(cur', p.sess) /\ remoteSeid'[p.sess] = remoteSeid[p.sess],
           \A p \in pdrs' : Through(cur', p) <=> Leaving(cur, p.sess)
    PROVE  Apart'
<1>1. UNCHANGED <<freeTEIDs, busyTEIDs, freeIPs, busyIPs, rows>>
  BY DEF pools
<1>2. \A p \in pdrs' : Through(cur', p) <=> Through(cur, p)
  BY DEF Through
<1>3. HeldApart'
  BY <1>1 DEF HeldApart, Apart, Listed
<1>4. CachedApart'
  BY DEF CachedApart
<1>5. RowsKept'
  BY <1>1, <1>2 DEF RowsKept, Apart
<1>6. Released'
  BY <1>1, <1>2 DEF Released, Apart
<1> QED  BY <1>3, <1>4, <1>5, <1>6 DEF Apart

\* A peer outside of Stress chooses SEIDs that meet no other session and no booking.
LEMMA ChosenApart ==
    ASSUME Careful, NEW s, NEW r, PeerChooses(s, r)
    PROVE  /\ \A t \in stored \ {s} : r # remoteSeid[t] /\ r # t[2] /\ s[2] # remoteSeid[t]
           /\ \A p \in pdrs, b \in busyTEIDs :
                b.teid = p.teid /\ p.sess # s => b.seID # r /\ b.seID # s[2]
           /\ \A p \in pdrs, b \in busyIPs :
                b.ip = p.ip /\ p.sess # s => b.seID # r /\ b.seID # s[2]
<1>1. /\ r \notin SeidsInUse(s) /\ s[2] \notin SeidsInUse(s)
      /\ \A t \in stored \ {s} : r # t[2]
  BY DEF PeerChooses, Careful
<1>2. \A t \in stored \ {s} : remoteSeid[t] \in SeidsInUse(s)
  BY DEF SeidsInUse
<1>3. \A p \in pdrs, b \in busyTEIDs : b.teid = p.teid /\ p.sess # s => b.seID \in SeidsInUse(s)
  BY DEF SeidsInUse
<1>4. \A p \in pdrs, b \in busyIPs : b.ip = p.ip /\ p.sess # s => b.seID \in SeidsInUse(s)
  BY DEF SeidsInUse
<1> QED  BY <1>1, <1>2, <1>3, <1>4

\* Requests start with sessions apart.
LEMMA ApartRequest ==
    ASSUME Careful, Fits, Fits', Apart,
           \/ \E n \in Node : \E r \in RemoteSeid : EstablishmentRequest(n, r)
           \/ \E s \in stored : \E r \in RemoteSeid : ModificationRequest(s, r)
           \/ \E s \in stored : DeletionRequest(s)
           \/ \E n \in Node : PruneAssociation(n)
           \/ \E n \in Node : AssociationSetup(n)
    PROVE  Apart'
<1> DOMAIN <<>> = {}
  OBVIOUS
<1>0. /\ UNCHANGED <<pools, stored, pdrs, rows>> /\ cur.op = "idle" /\ Active = stored
      /\ cur.left = {}
      /\ \A s : ~Leaving(cur, s)
      /\ UNCHANGED <<busyTEIDs, busyIPs>>
  BY DEF EstablishmentRequest, ModificationRequest, DeletionRequest, PruneAssociation,
         AssociationSetup, Active, Fits, CurFits, Leaving, pools
<1>1. ASSUME NEW n \in Node, NEW r \in RemoteSeid, EstablishmentRequest(n, r) PROVE Apart'
  <2> DEFINE s == <<n, nextSeid[n] + 1>>
  <2>1. /\ remoteSeid' = [remoteSeid EXCEPT ![s] = r]
        /\ cur'.op = "est" /\ cur'.sess = s /\ cur'.cache = <<>>
        /\ PeerChooses(s, r)
    BY <1>1 DEF EstablishmentRequest, Idle
  <2> HIDE DEF s
  <2>2. s \in Sess /\ s \notin stored
    BY <1>0, <2>1 DEF Fits, CurFits
  <2>3. Active' = stored \cup {s}
    BY <1>0, <2>1 DEF Active
  <2>4. /\ remoteSeid'[s] = r
        /\ \A t \in stored : t # s /\ remoteSeid'[t] = remoteSeid[t]
    BY <2>1, <2>2 DEF Fits, ResTypeOK
  <2>5. SeidsApart'
    BY <1>0, <2>1, <2>3, <2>4, ChosenApart DEF SeidsApart, Apart
  <2>6. BookedApart'
    <3>1. \A p \in pdrs : p.sess \in stored /\ p.sess # s
      BY <1>0, <2>2 DEF Fits, PdrsFit
    <3>2. \A x, t : Meets(Active', remoteSeid', cur', x, t) =>
            \/ t \in stored /\ Meets(Active, remoteSeid, cur, x, t)
            \/ t = s /\ (x = r \/ x = s[2])
      BY <1>0, <2>1, <2>3, <2>4 DEF Meets
    <3>3. \A p \in pdrs, b \in busyTEIDs : b.teid = p.teid => b.seID # r /\ b.seID # s[2]
      BY <2>1, <3>1, ChosenApart
    <3>4. \A p \in pdrs, b \in busyIPs : b.ip = p.ip => b.seID # r /\ b.seID # s[2]
      BY <2>1, <3>1, ChosenApart
    <3> QED  BY <1>0, <3>2, <3>3, <3>4 DEF BookedApart, Apart
  <2>7. \A p : ~Through(cur', p)
    BY <2>1 DEF Through, Leaving
  <2> QED  BY <1>0, <2>1, <2>5, <2>6, <2>7, ApartMoves
<1>2. ASSUME NEW s \in stored, NEW r \in RemoteSeid, ModificationRequest(s, r) PROVE Apart'
  <2>1. /\ remoteSeid' = [remoteSeid EXCEPT ![s] = r]
        /\ cur'.op = "mod" /\ cur'.sess = s /\ cur'.cache = <<>>
        /\ r = remoteSeid[s] \/ PeerChooses(s, r)
    BY <1>2 DEF ModificationRequest, Idle
  <2>2. s \in Sess
    BY DEF Fits, ResTypeOK
  <2>3. Active' = stored
    BY <1>0, <2>1 DEF Active
  <2>4. /\ remoteSeid'[s] = r
        /\ \A t \in stored \ {s} : remoteSeid'[t] = remoteSeid[t]
    BY <2>1, <2>2 DEF Fits, ResTypeOK
  <2>5. CASE r = remoteSeid[s]
    <3>1. \A t \in stored : remoteSeid'[t] = remoteSeid[t]
      BY <2>4, <2>5
    <3>2. SeidsApart'
      BY <1>0, <2>3, <3>1 DEF SeidsApart, Apart
    <3>3. \A x, t : Meets(Active', remoteSeid', cur', x, t) => Meets(Active, remoteSeid, cur, x, t)
      BY <1>0, <2>1, <2>3, <3>1 DEF Meets
    <3>4. BookedApart'
      BY <1>0, <3>3, BookedKept DEF Apart
    <3>5. \A p : ~Through(cur', p)
      BY <2>1 DEF Through, Leaving
    <3> QED  BY <1>0, <2>1, <3>2, <3>4, <3>5, ApartMoves
  <2>6. CASE PeerChooses(s, r)
    <3>1. SeidsApart'
      BY <1>0, <2>3, <2>4, <2>6, ChosenApart DEF SeidsApart, Apart
    <3>2. BookedApart'
      <4>1. \A x, t : Meets(Active', remoteSeid', cur', x, t) =>
              \/ Meets(Active, remoteSeid, cur, x, t)
              \/ t = s /\ (x = r \/ x = s[2])
        BY <1>0, <2>1, <2>3, <2>4 DEF Meets
      <4>2. \A p \in pdrs, b \in busyTEIDs :
              b.teid = p.teid /\ p.sess # s => b.seID # r /\ b.seID # s[2]
        BY <2>6, ChosenApart
      <4>3. \A p \in pdrs, b \in busyIPs :
              b.ip = p.ip /\ p.sess # s => b.seID # r /\ b.seID # s[2]
        BY <2>6, ChosenApart
      <4> QED  BY <1>0, <4>1, <4>2, <4>3 DEF BookedApart, Apart
    <3>3. \A p : ~Through(cur', p)
      BY <2>1 DEF Through, Leaving
    <3> QED  BY <1>0, <2>1, <3>1, <3>2, <3>3, ApartMoves
  <2> QED  BY <2>1, <2>5, <2>6
<1>3. ASSUME UNCHANGED remoteSeid, cur'.op \notin {"est", "mod", "free"},
             \A p \in pdrs : ~Through(cur', p)
      PROVE  Apart'
  <2>1. Active' = Active
    BY <1>0, <1>3 DEF Active
  <2>2. SeidsApart'
    BY <1>3, <2>1 DEF SeidsApart, Apart
  <2>3. \A x, t : Meets(Active', remoteSeid', cur', x, t) => Meets(Active, remoteSeid, cur, x, t)
    BY <1>3, <2>1 DEF Meets
  <2>4. BookedApart'
    BY <1>0, <2>3, BookedKept DEF Apart
  <2> QED  BY <1>0, <1>3, <2>2, <2>4, ApartMoves
<1>4. ASSUME NEW s \in stored, DeletionRequest(s) PROVE Apart'
  <2>1. /\ UNCHANGED remoteSeid
        /\ cur'.op = "del" /\ cur'.sess = s /\ cur'.left = PdrsOf(s)
    BY <1>4 DEF DeletionRequest, Idle
  <2>2. \A p \in pdrs : ~Through(cur', p)
    BY <2>1 DEF Through, Leaving, PdrsOf
  <2> QED  BY <1>3, <2>1, <2>2
<1>5. ASSUME NEW n \in Node, PruneAssociation(n) PROVE Apart'
  <2>1. /\ UNCHANGED remoteSeid
        /\ cur'.op = "prune" /\ cur'.sess = <<n, 0>> /\ cur'.pending = SessionsOf(n)
    BY <1>5 DEF PruneAssociation, Idle
  <2>2. \A p \in pdrs : p.sess \in stored
    BY <1>0 DEF Fits, PdrsFit
  <2>3. \A p \in pdrs : ~Through(cur', p)
    BY <2>1, <2>2 DEF Through, Leaving, SessionsOf
  <2> QED  BY <1>3, <2>1, <2>3
<1>6. ASSUME NEW n \in Node, AssociationSetup(n) PROVE Apart'
  <2>1. UNCHANGED <<remoteSeid, cur>>
    BY <1>6 DEF AssociationSetup
  <2>2. \A p \in pdrs : ~Through(cur', p)
    BY <1>0, <2>1 DEF Through
  <2> QED  BY <1>0, <1>3, <2>1, <2>2
<1> QED  BY <1>1, <1>2, <1>4, <1>5, <1>6

\* Requests that end, and the loop over the sessions of a lost association.
LEMMA ApartEnd ==
    ASSUME Fits, Fits', Apart,
           \/ \E s \in stored : PruneSession(s)
           \/ RequestFails \/ RequestDone \/ PruneDone
    PROVE  Apart'
<1>0. /\ cur' = Idle => cur'.op = "idle" /\ cur'.left = {}
      /\ cur' = Idle => \A p : ~Through(cur', p)
  BY DEF Idle, Through, Leaving
<1>1. ASSUME NEW s \in stored, PruneSession(s) PROVE Apart'
  <2>1. /\ UNCHANGED <<pools, stored, remoteSeid, pdrs, rows>>
        /\ cur.op = "prune" /\ s \in cur.pending /\ cur.left = {}
        /\ cur' = [cur EXCEPT !.sess = s, !.left = PdrsOf(s), !.cache = <<>>,
                              !.pending = @ \ {s}]
    BY <1>1 DEF PruneSession
  <2>2. /\ cur'.op = "prune" /\ cur'.sess = s
        /\ cur'.left = PdrsOf(s) /\ cur'.pending = cur.pending \ {s}
        /\ s[1] = cur.sess[1]
    BY <2>1 DEF Fits, CurFits
  <2>3. Active' = Active
    BY <2>1, <2>2 DEF Active
  <2>4. SeidsApart'
    BY <2>1, <2>3 DEF SeidsApart, Apart
  <2>5. \A x, t : Meets(Active', remoteSeid', cur', x, t) => Meets(Active, remoteSeid, cur, x, t)
    BY <2>1, <2>2, <2>3 DEF Meets
  <2>6. BookedApart'
    BY <2>1, <2>5, BookedKept DEF Apart, pools
  <2>7. \A p \in pdrs : Leaving(cur, p.sess) => Leaving(cur', p.sess)
    BY <2>1, <2>2 DEF Leaving
  <2>8. \A p \in pdrs : Through(cur', p) <=> Leaving(cur, p.sess)
    BY <2>1, <2>2 DEF Leaving, Through, PdrsOf
  <2> QED  BY <2>1, <2>2, <2>4, <2>6, <2>7, <2>8, ApartMoves
<1>2. CASE RequestFails
  <2>1. /\ cur.op \in {"est", "mod"} /\ cur' = Idle /\ cur.left = {}
        /\ UNCHANGED <<pools, stored, rows>>
        /\ pdrs' \subseteq pdrs
        /\ remoteSeid' = IF cur.op = "est" THEN [remoteSeid EXCEPT ![cur.sess] = 0]
                         ELSE remoteSeid
    BY <1>2 DEF RequestFails, GiveUp, Fits, CurFits
  <2>2. \A t \in stored : remoteSeid'[t] = remoteSeid[t]
    BY <2>1 DEF Fits, CurFits, ResTypeOK
  <2>3. Active' = stored /\ stored \subseteq Active
    BY <1>0, <2>1 DEF Active
  <2>4. SeidsApart'
    BY <2>2, <2>3 DEF SeidsApart, Apart
  <2>5. \A x, t : Meets(Active', remoteSeid', cur', x, t) => Meets(Active, remoteSeid, cur, x, t)
    BY <1>0, <2>1, <2>2, <2>3 DEF Meets
  <2>6. BookedApart'
    BY <2>1, <2>5, BookedKept DEF Apart, pools
  <2>7. \A p \in pdrs : ~Leaving(cur, p.sess)
    BY <2>1 DEF Leaving
  <2> QED  BY <1>0, <2>1, <2>4, <2>6, <2>7, ApartMoves
<1>3. CASE RequestDone
  <2>1. /\ cur.op \in {"est", "mod"} /\ cur' = Idle /\ cur.left = {}
        /\ UNCHANGED <<pools, remoteSeid, pdrs, rows>>
        /\ stored' = stored \cup {cur.sess}
    BY <1>3 DEF RequestDone, Fits, CurFits
  <2>2. Active' = Active
    BY <1>0, <2>1 DEF Active, Fits, CurFits
  <2>3. SeidsApart'
    BY <2>1, <2>2 DEF SeidsApart, Apart
  <2>4. \A x, t : Meets(Active', remoteSeid', cur', x, t) => Meets(Active, remoteSeid, cur, x, t)
    BY <1>0, <2>1, <2>2 DEF Meets
  <2>5. BookedApart'
    BY <2>1, <2>4, BookedKept DEF Apart, pools
  <2>6. \A p \in pdrs : ~Leaving(cur, p.sess)
    BY <2>1 DEF Leaving
  <2> QED  BY <1>0, <2>1, <2>3, <2>5, <2>6, ApartMoves
<1>4. CASE PruneDone
  <2> DEFINE n == cur.sess[1]
  <2>1. /\ cur.op = "prune" /\ cur' = Idle /\ cur.left = {} /\ UNCHANGED <<pools, rows>>
        /\ stored' = stored \ SessionsOf(n)
        /\ pdrs' = {p \in pdrs : p.sess[1] # n}
        /\ remoteSeid' = [s \in Sess |-> IF s[1] = n THEN 0 ELSE remoteSeid[s]]
    BY <1>4 DEF PruneDone
  <2>2. \A t \in stored' : t \in stored /\ t \in Sess /\ t[1] # n
    BY <2>1 DEF Fits, ResTypeOK, SessionsOf
  <2>3. \A t \in stored' : remoteSeid'[t] = remoteSeid[t]
    BY <2>1, <2>2
  <2>4. \A p \in pdrs' : ~Leaving(cur, p.sess)
    BY <2>1 DEF Leaving
  <2> HIDE DEF n
  <2>5. Active' = stored' /\ stored \subseteq Active
    BY <1>0, <2>1 DEF Active
  <2>6. SeidsApart'
    BY <2>2, <2>3, <2>5 DEF SeidsApart, Apart
  <2>7. \A x, t : Meets(Active', remoteSeid', cur', x, t) => Meets(Active, remoteSeid, cur, x, t)
    BY <1>0, <2>1, <2>2, <2>3, <2>5 DEF Meets
  <2>8. BookedApart'
    BY <2>1, <2>7, BookedKept DEF Apart, pools
  <2> QED  BY <1>0, <2>1, <2>4, <2>6, <2>8, ApartMoves
<1> QED  BY <1>1, <1>2, <1>3, <1>4

\* A PDR is stored with an id that no other session has.
LEMMA ApartPut ==
    ASSUME Fits, Fits', Apart,
           NEW o \in {"create", "update"}, NEW i, MayPut(o, i),
           NEW p, p.sess = cur.sess, StorePdr(p), Others,
           NEW cache, cur' = [cur EXCEPT !.stage = Stage(o), !.cache = cache],
           Listed(freeTEIDs') \subseteq Listed(freeTEIDs),
           Listed(freeIPs') \subseteq Listed(freeIPs),
           p.teid \notin Listed(freeTEIDs'), p.ip \notin Listed(freeIPs'),
           \A q \in pdrs : q.teid = p.teid /\ p.teid # 0 => q.sess = cur.sess,
           \A q \in pdrs : p.ip # 0 => q.ip # p.ip,
           \A b \in busyTEIDs' : b \in busyTEIDs \/ b.teid = p.teid,
           \A b \in busyIPs' : b \in busyIPs \/ b.ip = p.ip,
           \A b \in busyTEIDs' : b.teid = p.teid =>
             \A t : Meets(Active, remoteSeid, cur, b.seID, t) => t = cur.sess,
           \A b \in busyIPs' : b.ip = p.ip =>
             \A t : Meets(Active, remoteSeid, cur, b.seID, t) => t = cur.sess,
           \A c \in DOMAIN cache : \/ c \in DOMAIN cur.cache /\ cache[c] = cur.cache[c]
                                   \/ cache[c] = p.teid /\ p.teid # 0
    PROVE  Apart'
<1>1. /\ cur.op \in {"est", "mod"} /\ cur.left = {} /\ cur.stage <= 2
      /\ cur'.op = cur.op /\ cur'.sess = cur.sess /\ cur'.cache = cache /\ cur'.left = {}
  BY PutFacts DEF Fits, CurFits
<1>2. /\ \A q \in pdrs' : q = p \/ q \in pdrs
      /\ rows \subseteq rows' /\ KeyOf(p) \in rows'
      /\ UNCHANGED <<stored, remoteSeid>>
  BY DEF StorePdr, Others
<1>3. Active' = Active
  BY <1>1, <1>2 DEF Active
<1>4. \A x, t : Meets(Active', remoteSeid', cur', x, t) <=> Meets(Active, remoteSeid, cur, x, t)
  BY <1>1, <1>2, <1>3 DEF Meets
<1>5. \A q : ~Leaving(cur, q.sess) /\ ~Leaving(cur', q.sess) /\ ~Through(cur', q) /\ ~Through(cur, q)
  BY <1>1 DEF Leaving, Through
<1>6. SeidsApart'
  BY <1>2, <1>3 DEF SeidsApart, Apart
<1>7. /\ \A b \in busyTEIDs' : b.teid # 0
      /\ \A b \in busyIPs' : b.ip # 0
  BY DEF Fits, Inv, TypeOK, TeidRow, IpRow, Teids, Ips
<1>8. BookedApart'
  <2>1. ASSUME NEW q \in pdrs', NEW b \in busyTEIDs', b.teid = q.teid,
               NEW t, Meets(Active, remoteSeid, cur, b.seID, t)
        PROVE  t = q.sess
    <3>1. CASE q = p
      BY <2>1, <3>1
    <3>2. CASE q \in pdrs /\ b \in busyTEIDs
      BY <2>1, <3>2 DEF BookedApart, Apart
    <3>3. CASE q \in pdrs /\ b.teid = p.teid
      BY <1>7, <2>1, <3>3
    <3> QED  BY <1>2, <3>1, <3>2, <3>3
  <2>2. ASSUME NEW q \in pdrs', NEW b \in busyIPs', b.ip = q.ip,
               NEW t, Meets(Active, remoteSeid, cur, b.seID, t)
        PROVE  t = q.sess
    <3>1. CASE q = p
      BY <2>2, <3>1
    <3>2. CASE q \in pdrs /\ b \in busyIPs
      BY <2>2, <3>2 DEF BookedApart, Apart
    <3>3. CASE q \in pdrs /\ b.ip = p.ip
      BY <1>7, <2>2, <3>3
    <3> QED  BY <1>2, <3>1, <3>2, <3>3
  <2> QED  BY <1>4, <2>1, <2>2 DEF BookedApart
<1>9. HeldApart'
  BY <1>2, <1>5 DEF HeldApart, Apart
<1>10. CachedApart'
  <2>1. ASSUME NEW c \in DOMAIN cache
        PROVE  /\ cache[c] \notin Listed(freeTEIDs')
               /\ \A q \in pdrs' : q.teid = cache[c] => q.sess = cur.sess
               /\ \A b \in busyTEIDs' : b.teid = cache[c] =>
                    \A t : Meets(Active, remoteSeid, cur, b.seID, t) => t = cur.sess
    <3>1. CASE c \in DOMAIN cur.cache /\ cache[c] = cur.cache[c]
      BY <1>1, <1>2, <3>1 DEF CachedApart, Apart
    <3>2. CASE cache[c] = p.teid /\ p.teid # 0
      BY <1>2, <3>2
    <3> QED  BY <2>1, <3>1, <3>2
  <2> QED  BY <1>1, <1>4, <2>1 DEF CachedApart
<1>11. RowsKept'
  BY <1>1, <1>2, <1>5 DEF RowsKept, Apart
<1>12. Released'
  BY <1>5 DEF Released
<1> QED  BY <1>6, <1>8, <1>9, <1>10, <1>11, <1>12 DEF Apart

\* In a session being worked on, ids are booked under its remote SEID, which no
\* other session meets.
LEMMA OwnSeid ==
    ASSUME Fits, SeidsApart, cur.op \in {"est", "mod"}
    PROVE  \A t : Meets(Active, remoteSeid, cur, remoteSeid[cur.sess], t) => t = cur.sess
<1>1. cur.sess \in Active
  BY DEF Active, Fits, CurFits
<1> QED  BY <1>1 DEF Meets, SeidsApart

\* Create PDR and Update PDR.
LEMMA ApartPuts ==
    ASSUME Careful, Fits, Fits', Apart, NEW o \in {"create", "update"}
    PROVE  /\ \A i \in UplinkPdr, t \in GivenTeid : PutGivenTeid(o, i, t) => Apart'
           /\ \A i \in UplinkPdr, c \in ChooseId : PutCachedTeid(o, i, c) => Apart'
           /\ \A i \in UplinkPdr, c \in ChooseId \cup {NoChooseId} :
                PutChosenTeid(o, i, c) => Apart'
           /\ \A i \in DownlinkPdr : PutChosenIp(o, i) => Apart'
<1>0. /\ \A x \in Listed(freeTEIDs) \cup Listed(freeTEIDs') : x \in Teids
      /\ \A x \in Listed(freeIPs) \cup Listed(freeIPs') : x \in Ips
      /\ \A b \in busyTEIDs : b.teid \in Teids
      /\ \A b \in busyIPs : b.ip \in Ips
      /\ 0 \notin Teids /\ 0 \notin Ips
      /\ \A i : MayPut(o, i) =>
           /\ cur.op \in {"est", "mod"} /\ cur.stage <= 2
           /\ \A c \in DOMAIN cur.cache : cur.cache[c] \in Teids
           /\ \A p \in pdrs : ~Leaving(cur, p.sess)
  <2>1. /\ \A x \in Listed(freeTEIDs) \cup Listed(freeTEIDs') : x \in Teids
        /\ \A x \in Listed(freeIPs) \cup Listed(freeIPs') : x \in Ips
    BY DEF Fits, Inv, TypeOK, Listed
  <2>2. /\ \A b \in busyTEIDs : b.teid \in Teids
        /\ \A b \in busyIPs : b.ip \in Ips
        /\ 0 \notin Teids /\ 0 \notin Ips
    BY DEF Fits, Inv, TypeOK, TeidRow, IpRow, Teids, Ips
  <2> QED  BY <2>1, <2>2, PutFacts DEF Leaving
<1>1. ASSUME NEW i \in UplinkPdr, NEW t \in GivenTeid, PutGivenTeid(o, i, t) PROVE Apart'
  <2> DEFINE p == Uplink(i, t)
  <2>1. /\ MayPut(o, i) /\ StorePdr(p) /\ Others
        /\ cur' = [cur EXCEPT !.stage = Stage(o)]
        /\ UNCHANGED <<freeTEIDs, busyTEIDs, freeIPs, busyIPs>>
        /\ \A q \in pdrs : q.teid = t => q.sess = cur.sess
    BY <1>1 DEF PutGivenTeid, Careful, PdrAt, PdrsOf, Others, pools
  <2>2. p.sess = cur.sess /\ p.teid = t /\ p.ip = 0
    BY DEF Uplink
  <2>3. cur' = [cur EXCEPT !.stage = Stage(o), !.cache = cur.cache]
    BY <2>1 DEF Fits, CurFits
  <2>4. t \notin Teids
    BY SessionAssumption, PoolAssumption DEF Teids
  <2> HIDE DEF p
  <2>5. Listed(freeTEIDs') = Listed(freeTEIDs) /\ Listed(freeIPs') = Listed(freeIPs)
    BY <2>1
  <2>6. p.teid \notin Listed(freeTEIDs') /\ p.ip \notin Listed(freeIPs')
    BY <1>0, <2>2, <2>4, <2>5
  <2>7. \A q \in pdrs : q.teid = p.teid => q.sess = cur.sess
    BY <2>1, <2>2
  <2>8. /\ \A b \in busyTEIDs' : b.teid # p.teid
        /\ \A b \in busyIPs' : b.ip # p.ip
    BY <1>0, <2>1, <2>2, <2>4
  <2>9. busyTEIDs' = busyTEIDs /\ busyIPs' = busyIPs /\ p.ip = 0
    BY <2>1, <2>2
  <2>10. MayPut(o, i) /\ StorePdr(p) /\ Others /\ p.sess = cur.sess
    BY <2>1, <2>2
  <2> QED  BY <2>3, <2>5, <2>6, <2>7, <2>8, <2>9, <2>10, ApartPut
<1>2. ASSUME NEW i \in UplinkPdr, NEW c \in ChooseId, PutCachedTeid(o, i, c) PROVE Apart'
  <2> DEFINE t == cur.cache[c]
             p == Uplink(i, t)
  <2>1. /\ MayPut(o, i) /\ StorePdr(p) /\ Others /\ c \in DOMAIN cur.cache
        /\ cur' = [cur EXCEPT !.stage = Stage(o)]
        /\ UNCHANGED <<freeTEIDs, busyTEIDs, freeIPs, busyIPs>>
    BY <1>2 DEF PutCachedTeid, Others, pools
  <2>2. p.sess = cur.sess /\ p.teid = t /\ p.ip = 0
    BY DEF Uplink
  <2>3. cur' = [cur EXCEPT !.stage = Stage(o), !.cache = cur.cache]
    BY <2>1 DEF Fits, CurFits
  <2>4. /\ t \notin Listed(freeTEIDs)
        /\ \A q \in pdrs : q.teid = t => q.sess = cur.sess
        /\ \A b \in busyTEIDs : b.teid = t =>
             \A u : Meets(Active, remoteSeid, cur, b.seID, u) => u = cur.sess
    BY <1>0, <2>1 DEF CachedApart, Apart
  <2>5. Listed(freeTEIDs') = Listed(freeTEIDs) /\ Listed(freeIPs') = Listed(freeIPs)
    BY <2>1
  <2> HIDE DEF p, t
  <2>6. p.teid \notin Listed(freeTEIDs') /\ p.ip \notin Listed(freeIPs')
    BY <1>0, <2>2, <2>4, <2>5
  <2>7. \A q \in pdrs : q.teid = p.teid => q.sess = cur.sess
    BY <2>2, <2>4
  <2>8. \A b \in busyTEIDs' : b.teid = p.teid =>
          \A u : Meets(Active, remoteSeid, cur, b.seID, u) => u = cur.sess
    BY <2>1, <2>2, <2>4
  <2>9. \A b \in busyIPs' : b.ip # p.ip
    BY <1>0, <2>1, <2>2
  <2>10. busyTEIDs' = busyTEIDs /\ busyIPs' = busyIPs /\ p.ip = 0
    BY <2>1, <2>2
  <2>11. MayPut(o, i) /\ StorePdr(p) /\ Others /\ p.sess = cur.sess
    BY <2>1, <2>2
  <2> QED  BY <2>3, <2>5, <2>6, <2>7, <2>8, <2>9, <2>10, <2>11, ApartPut
<1>3. ASSUME NEW i \in UplinkPdr, NEW c \in ChooseId \cup {NoChooseId}, PutChosenTeid(o, i, c)
      PROVE  Apart'
  <2> DEFINE t == Head(freeTEIDs)
             p == Uplink(i, t)
             cache == IF c = NoChooseId THEN cur.cache ELSE CacheWith(c, t)
  <2>1. /\ MayPut(o, i) /\ StorePdr(p) /\ Others /\ AllocateTEID(remoteSeid[cur.sess], i)
        /\ cur' = [cur EXCEPT !.stage = Stage(o), !.cache = cache]
    BY <1>3 DEF PutChosenTeid, Others
  <2>2. p.sess = cur.sess /\ p.teid = t /\ p.ip = 0
    BY DEF Uplink
  <2>3. /\ t \in Listed(freeTEIDs)
        /\ t \notin Listed(freeTEIDs')
        /\ Listed(freeTEIDs') \subseteq Listed(freeTEIDs)
        /\ \A b \in busyTEIDs : b.teid # t
        /\ \A b \in busyTEIDs' : b \in busyTEIDs \/ (b.seID = remoteSeid[cur.sess] /\ b.teid = t)
        /\ UNCHANGED <<freeIPs, busyIPs>>
    BY <2>1, TookTeid DEF Fits
  <2>4. \A k \in DOMAIN cache : \/ k \in DOMAIN cur.cache /\ cache[k] = cur.cache[k]
                                \/ cache[k] = t
    BY DEF CacheWith
  <2> HIDE DEF p, t, cache
  <2>5. \A u : Meets(Active, remoteSeid, cur, remoteSeid[cur.sess], u) => u = cur.sess
    BY <1>0, <2>1, OwnSeid DEF Apart
  <2>6. \A q \in pdrs : q.teid # t
    BY <1>0, <2>1, <2>3 DEF HeldApart, Apart
  <2>7. Listed(freeIPs') = Listed(freeIPs) /\ t # 0 /\ 0 \notin Listed(freeIPs')
    BY <1>0, <2>3
  <2>8. \A b \in busyTEIDs' : b.teid = p.teid =>
          \A u : Meets(Active, remoteSeid, cur, b.seID, u) => u = cur.sess
    BY <2>2, <2>3, <2>5
  <2>9. \A b \in busyIPs' : b.ip # p.ip
    BY <1>0, <2>2, <2>3
  <2>10. /\ p.teid \notin Listed(freeTEIDs') /\ p.ip \notin Listed(freeIPs') /\ p.ip = 0
         /\ Listed(freeTEIDs') \subseteq Listed(freeTEIDs)
         /\ Listed(freeIPs') \subseteq Listed(freeIPs)
    BY <2>2, <2>3, <2>7
  <2>11. \A q \in pdrs : q.teid # p.teid
    BY <2>2, <2>6
  <2>12. /\ \A b \in busyTEIDs' : b \in busyTEIDs \/ b.teid = p.teid
         /\ busyIPs' = busyIPs
    BY <2>2, <2>3
  <2>13. \A k \in DOMAIN cache : \/ k \in DOMAIN cur.cache /\ cache[k] = cur.cache[k]
                                 \/ cache[k] = p.teid /\ p.teid # 0
    BY <2>2, <2>4, <2>7
  <2>14. /\ MayPut(o, i) /\ StorePdr(p) /\ Others /\ p.sess = cur.sess
         /\ cur' = [cur EXCEPT !.stage = Stage(o), !.cache = cache]
    BY <2>1, <2>2
  <2> QED  BY <2>8, <2>9, <2>10, <2>11, <2>12, <2>13, <2>14, ApartPut
<1>4. ASSUME NEW i \in DownlinkPdr, PutChosenIp(o, i) PROVE Apart'
  <2> DEFINE a == Head(freeIPs)
             p == Downlink(i, a)
  <2>1. /\ MayPut(o, i) /\ StorePdr(p) /\ Others /\ AllocateIP(remoteSeid[cur.sess])
        /\ cur' = [cur EXCEPT !.stage = Stage(o)]
    BY <1>4 DEF PutChosenIp, Others
  <2>2. p.sess = cur.sess /\ p.teid = 0 /\ p.ip = a
    BY DEF Downlink
  <2>3. /\ a \in Listed(freeIPs)
        /\ a \notin Listed(freeIPs')
        /\ Listed(freeIPs') \subseteq Listed(freeIPs)
        /\ \A b \in busyIPs : b.ip # a
        /\ \A b \in busyIPs' : b \in busyIPs \/ (b.seID = remoteSeid[cur.sess] /\ b.ip = a)
        /\ UNCHANGED <<freeTEIDs, busyTEIDs>>
    BY <2>1, TookIp DEF Fits
  <2>4. cur' = [cur EXCEPT !.stage = Stage(o), !.cache = cur.cache]
    BY <2>1 DEF Fits, CurFits
  <2> HIDE DEF p, a
  <2>5. \A u : Meets(Active, remoteSeid, cur, remoteSeid[cur.sess], u) => u = cur.sess
    BY <1>0, <2>1, OwnSeid DEF Apart
  <2>6. \A q \in pdrs : q.ip # a
    BY <2>3 DEF HeldApart, Apart
  <2>7. Listed(freeTEIDs') = Listed(freeTEIDs) /\ 0 \notin Listed(freeTEIDs')
    BY <1>0, <2>3
  <2>8. \A b \in busyIPs' : b.ip = p.ip =>
          \A u : Meets(Active, remoteSeid, cur, b.seID, u) => u = cur.sess
    BY <2>2, <2>3, <2>5
  <2>9. \A b \in busyTEIDs' : b.teid # p.teid
    BY <1>0, <2>2, <2>3
  <2> QED  BY <2>1, <2>2, <2>3, <2>4, <2>6, <2>7, <2>8, <2>9, ApartPut
<1> QED  BY <1>1, <1>2, <1>3, <1>4

\* deletePDR finds the row of its PDR, or has deleted it for a PDR with the same
\* TEID.
LEMMA DeleteSucceeds ==
    ASSUME Fits, RowsKept, NEW p \in pdrs,
           RemovePdr(p) \/ DeletionPdr(p) \/ PrunePdr(p)
    PROVE  ~DeleteFails(p)
<1>1. ~Through(cur, p)
  <2>1. CASE RemovePdr(p)
    BY <2>1 DEF RemovePdr, Reached, Through, Leaving
  <2>2. CASE DeletionPdr(p) \/ PrunePdr(p)
    BY <2>2 DEF DeletionPdr, PrunePdr, Through
  <2> QED  BY <2>1, <2>2
<1> QED  BY <1>1 DEF RowsKept, DeleteFails, SkipsMap

\* A release under the remote SEID of a session frees no TEID of another.
LEMMA ReleaseApart ==
    ASSUME Fits, Apart, NEW p \in pdrs, ReleaseOf(p)
    PROVE  /\ \A q \in pdrs : q.teid \in Listed(freeTEIDs') =>
                q.teid \in Listed(freeTEIDs) \/ (q.sess = p.sess /\ p.teid # 0)
           /\ busyTEIDs' \subseteq busyTEIDs
           /\ p.teid # 0 => \A b \in busyTEIDs' : b.seID # remoteSeid[p.sess]
           /\ UNCHANGED <<freeIPs, busyIPs>>
           /\ Listed(freeTEIDs) \subseteq Listed(freeTEIDs')
           /\ p.teid # 0 => \A b \in busyTEIDs :
                b.seID = remoteSeid[p.sess] => b.teid \in Listed(freeTEIDs')
<1>1. CASE p.teid = 0
  BY <1>1 DEF ReleaseOf, pools, Listed
<1>2. CASE p.teid # 0
  <2>1. ReleaseTEID(remoteSeid[p.sess])
    BY <1>2 DEF ReleaseOf
  <2>2. /\ \A x \in Listed(freeTEIDs') : x \in Listed(freeTEIDs)
             \/ \E b \in busyTEIDs : b.seID = remoteSeid[p.sess] /\ b.teid = x
        /\ Listed(freeTEIDs) \subseteq Listed(freeTEIDs')
        /\ \A b \in busyTEIDs : b.seID = remoteSeid[p.sess] => b.teid \in Listed(freeTEIDs')
        /\ \A b \in busyTEIDs' : b \in busyTEIDs /\ b.seID # remoteSeid[p.sess]
        /\ UNCHANGED <<freeIPs, busyIPs>>
    BY <2>1, FreedTeids DEF Fits
  <2>3. Meets(Active, remoteSeid, cur, remoteSeid[p.sess], p.sess)
    BY DEF Meets, Fits, PdrsFit
  <2>4. \A q \in pdrs, b \in busyTEIDs :
          b.teid = q.teid /\ b.seID = remoteSeid[p.sess] => q.sess = p.sess
    BY <2>3 DEF BookedApart, Apart
  <2> QED  BY <1>2, <2>2, <2>4
<1> QED  BY <1>1, <1>2

\* Two PDRs with the same row.
LEMMA SameRow ==
    ASSUME Fits, HeldApart, NEW p \in pdrs, NEW q \in pdrs, KeyOf(p) = KeyOf(q)
    PROVE  \/ p = q
           \/ p.teid = q.teid /\ p.teid # 0 /\ p.ip = 0 /\ q.ip = 0 /\ p.sess = q.sess
<1>1. CASE p.ip # 0
  <2>1. q.ip = p.ip
    BY <1>1 DEF KeyOf
  <2> QED  BY <1>1, <2>1 DEF HeldApart
<1>2. CASE p.ip = 0
  <2>1. q.ip = 0 /\ q.teid = p.teid
    BY <1>2 DEF KeyOf
  <2>2. p.teid # 0
    BY <1>2 DEF Fits, PdrsFit
  <2> QED  BY <1>2, <2>1, <2>2 DEF HeldApart
<1> QED  BY <1>1, <1>2

\* Remove PDR, for the last PDR of its session with a TEID.
LEMMA ApartRemove ==
    ASSUME Careful, Fits, Fits', Apart, NEW p \in pdrs, RemovePdr(p)
    PROVE  Apart'
<1>1. ~DeleteFails(p)
  BY DeleteSucceeds DEF Apart
<1>2. /\ cur.op = "mod" /\ cur.left = {}
      /\ p.sess = cur.sess
      /\ p.teid # 0 => \A q \in pdrs \ {p} : q.sess = cur.sess => q.teid = 0
      /\ pdrs' = pdrs \ {p}
      /\ rows' = RowsWithout(p) /\ ReleaseOf(p)
      /\ UNCHANGED <<stored, remoteSeid>>
      /\ cur' = [cur EXCEPT !.stage = 3, !.cache = CacheAfter(p)]
  BY <1>1 DEF RemovePdr, Reached, PdrsOf, Stage, Careful, Fits, CurFits
<1>3. cur'.op = "mod" /\ cur'.sess = cur.sess /\ cur'.stage = 3 /\ cur'.left = {}
  BY <1>2 DEF Fits, CurFits
<1>4. Active' = Active
  BY <1>2, <1>3 DEF Active
<1>5. \A x, t : Meets(Active', remoteSeid', cur', x, t) => Meets(Active, remoteSeid, cur, x, t)
  BY <1>2, <1>3, <1>4 DEF Meets
<1>6. /\ \A q \in pdrs : q.teid \in Listed(freeTEIDs') =>
           q.teid \in Listed(freeTEIDs) \/ (q.sess = p.sess /\ p.teid # 0)
      /\ busyTEIDs' \subseteq busyTEIDs
      /\ UNCHANGED <<freeIPs, busyIPs>>
  BY <1>2, ReleaseApart
<1>7. \A q : ~Leaving(cur, q.sess) /\ ~Through(cur, q) /\ ~Through(cur', q)
  BY <1>2, <1>3 DEF Leaving, Through
<1>8. SeidsApart'
  BY <1>2, <1>4 DEF SeidsApart, Apart
<1>9. BookedApart'
  BY <1>2, <1>5, <1>6, BookedKept DEF Apart
<1>10. HeldApart'
  <2>0. Listed(freeTEIDs') \subseteq Teids
    BY DEF Fits, Inv, TypeOK, Listed
  <2>1. \A x \in Listed(freeTEIDs') : x # 0
    BY <2>0 DEF Teids
  <2>2. \A q \in pdrs' : q.teid \notin Listed(freeTEIDs')
    BY <1>2, <1>6, <1>7, <2>1 DEF HeldApart, Apart
  <2> QED  BY <1>2, <1>6, <2>2 DEF HeldApart, Apart
<1>11. CachedApart'
  BY <1>3 DEF CachedApart
<1>12. RowsKept'
  <2>1. \A q \in pdrs : KeyOf(q) \in rows
    BY <1>2, <1>7 DEF RowsKept, Apart
  <2>2. \A q \in pdrs' : q \in pdrs /\ KeyOf(q) # KeyOf(p)
    BY <1>2, SameRow DEF Apart
  <2>3. \A q \in pdrs' : KeyOf(q) \in rows'
    BY <1>2, <2>1, <2>2 DEF RowsWithout
  <2> QED  BY <2>3 DEF RowsKept
<1>13. Released'
  BY <1>7 DEF Released
<1> QED  BY <1>8, <1>9, <1>10, <1>11, <1>12, <1>13 DEF Apart

\* deletePDR in the loops of a deletion and of a lost association.
LEMMA ApartDelete ==
    ASSUME Fits, Fits', Apart, NEW p \in pdrs, DeletionPdr(p) \/ PrunePdr(p)
    PROVE  Apart'
<1>1. ~DeleteFails(p)
  BY DeleteSucceeds DEF Apart
<1>2. /\ cur.op \in {"del", "prune"} /\ p \in cur.left
      /\ UNCHANGED <<stored, remoteSeid, pdrs>>
      /\ rows' = RowsWithout(p) /\ ReleaseOf(p)
      /\ cur' = [cur EXCEPT !.left = @ \ {p}, !.cache = CacheAfter(p)]
  BY <1>1 DEF DeletionPdr, PrunePdr
<1>3. /\ cur'.op = cur.op /\ cur'.sess = cur.sess /\ cur'.pending = cur.pending
      /\ cur'.left = cur.left \ {p} /\ cur'.cache = CacheAfter(p)
      /\ p.sess = cur.sess
      /\ cur.op = "prune" => cur.sess \notin cur.pending
  BY <1>2 DEF Fits, CurFits, PdrsOf
<1>4. Active' = Active
  BY <1>2, <1>3 DEF Active
<1>5. \A x, t : Meets(Active', remoteSeid', cur', x, t) => Meets(Active, remoteSeid, cur, x, t)
  BY <1>2, <1>3, <1>4 DEF Meets
<1>6. /\ \A q \in pdrs : q.teid \in Listed(freeTEIDs') =>
           q.teid \in Listed(freeTEIDs) \/ (q.sess = p.sess /\ p.teid # 0)
      /\ busyTEIDs' \subseteq busyTEIDs
      /\ p.teid # 0 => \A b \in busyTEIDs' : b.seID # remoteSeid[p.sess]
      /\ UNCHANGED <<freeIPs, busyIPs>>
  BY <1>2, ReleaseApart
<1>7. /\ \A s : Leaving(cur', s) <=> Leaving(cur, s)
      /\ Leaving(cur, p.sess)
      /\ \A q : Through(cur', q) <=> Through(cur, q) \/ (Leaving(cur, q.sess) /\ q = p)
  BY <1>2, <1>3 DEF Leaving, Through
<1>8. SeidsApart'
  BY <1>2, <1>4 DEF SeidsApart, Apart
<1>9. BookedApart'
  BY <1>2, <1>5, <1>6, BookedKept DEF Apart
<1>10. HeldApart'
  BY <1>2, <1>6, <1>7 DEF HeldApart, Apart
<1>11. CachedApart'
  BY <1>2, <1>3 DEF CachedApart
<1>12. RowsKept'
  <2> SUFFICES ASSUME NEW q \in pdrs, ~Through(cur', q)
               PROVE  \/ KeyOf(q) \in rows'
                      \/ q \in cur'.left /\ q.ip = 0 /\ CacheKey(q) \in DOMAIN cur'.cache
    BY <1>2 DEF RowsKept
  <2>1. q # p /\ ~Through(cur, q)
    BY <1>7
  <2>2. DOMAIN cur.cache \subseteq DOMAIN cur'.cache
    BY <1>3 DEF CacheAfter, CacheWith
  <2>3. CASE q \in cur.left /\ q.ip = 0 /\ CacheKey(q) \in DOMAIN cur.cache
    BY <1>3, <2>1, <2>2, <2>3
  <2>4. CASE KeyOf(q) \in rows /\ KeyOf(q) # KeyOf(p)
    BY <1>2, <2>4 DEF RowsWithout
  <2>5. CASE KeyOf(q) \in rows /\ KeyOf(q) = KeyOf(p)
    <3>1. q.teid = p.teid /\ p.ip = 0 /\ q.ip = 0 /\ q.sess = p.sess
      BY <2>1, <2>5, SameRow DEF Apart
    <3>2. q \in cur.left
      BY <1>7, <2>1, <3>1 DEF Through
    <3>3. CASE SkipsMap(p)
      BY <1>2, <2>5, <3>3 DEF RowsWithout
    <3>4. CASE ~SkipsMap(p)
      <4>1. CacheKey(p) \in DOMAIN cur'.cache
        BY <1>3, <3>1, <3>4 DEF CacheAfter, CacheWith
      <4>2. CacheKey(q) = CacheKey(p)
        BY <3>1 DEF CacheKey
      <4> QED  BY <1>3, <2>1, <3>1, <3>2, <4>1, <4>2
    <3> QED  BY <3>3, <3>4
  <2> QED  BY <2>1, <2>3, <2>4, <2>5 DEF RowsKept, Apart
<1>13. Released'
  BY <1>2, <1>6, <1>7 DEF Released, Apart
<1> QED  BY <1>8, <1>9, <1>10, <1>11, <1>12, <1>13 DEF Apart

\* ReleaseResources frees nothing of another session.
LEMMA ApartRelease ==
    ASSUME Fits, Fits', Apart, DeletionDone \/ DeletionTeids
    PROVE  Apart'
<1>1. CASE DeletionDone
  <2>1. /\ cur.op = "del" /\ cur.left = {} /\ UNCHANGED rows
        /\ stored' = stored \ {cur.sess} /\ cur.sess \in stored /\ cur.sess \in Sess
        /\ pdrs' = pdrs \ PdrsOf(cur.sess)
        /\ remoteSeid' = [remoteSeid EXCEPT ![cur.sess] = 0]
        /\ ReleaseIpOf(cur.sess[2])
    BY <1>1 DEF DeletionDone, Fits, CurFits
  <2>2. cur'.op = "free" /\ cur'.sess = cur.sess /\ cur'.left = {}
    BY <1>1 DEF DeletionDone, Idle
  <2>3. \A t \in stored' : t \in stored /\ t # cur.sess /\ remoteSeid'[t] = remoteSeid[t]
    BY <2>1 DEF Fits, ResTypeOK
  <2>4. Active' = stored' /\ Active = stored
    BY <2>1, <2>2 DEF Active
  <2>5. \A x, t : Meets(Active', remoteSeid', cur', x, t) => Meets(Active, remoteSeid, cur, x, t)
    BY <2>1, <2>2, <2>3, <2>4 DEF Meets
  <2>6. /\ \A x \in Listed(freeIPs') :
             x \in Listed(freeIPs) \/ \E b \in busyIPs : b.seID = cur.sess[2] /\ b.ip = x
        /\ busyIPs' \subseteq busyIPs
        /\ UNCHANGED <<freeTEIDs, busyTEIDs>>
    BY <2>1, FreedIp DEF Fits
  <2>7. Meets(Active, remoteSeid, cur, cur.sess[2], cur.sess)
    BY <2>1, <2>4 DEF Meets
  <2>8. \A p \in pdrs' : p \in pdrs /\ p.sess # cur.sess
    BY <2>1 DEF PdrsOf
  <2>9. \A p : ~Through(cur', p) /\ ~Leaving(cur', p.sess)
    BY <2>2 DEF Through, Leaving
  <2>10. \A p \in pdrs' : ~Leaving(cur, p.sess) /\ ~Through(cur, p)
    BY <2>1, <2>8 DEF Leaving, Through
  <2>11. SeidsApart'
    BY <2>3, <2>4 DEF SeidsApart, Apart
  <2>12. BookedApart'
    BY <2>5, <2>6, <2>8, BookedKept DEF Apart
  <2>13. HeldApart'
    <3>1. \A p \in pdrs' : p.ip \notin Listed(freeIPs')
      BY <2>6, <2>7, <2>8 DEF BookedApart, HeldApart, Apart
    <3>2. Listed(freeTEIDs') = Listed(freeTEIDs)
      BY <2>6
    <3> QED  BY <2>8, <2>10, <3>1, <3>2 DEF HeldApart, Apart
  <2>14. CachedApart'
    BY <2>2 DEF CachedApart
  <2>15. RowsKept'
    BY <2>1, <2>8, <2>10 DEF RowsKept, Apart
  <2>16. Released'
    BY <2>9 DEF Released
  <2> QED  BY <2>11, <2>12, <2>13, <2>14, <2>15, <2>16 DEF Apart
<1>2. CASE DeletionTeids
  <2>1. /\ cur.op = "free" /\ cur' = Idle /\ cur.left = {} /\ cur.sess \notin stored
        /\ UNCHANGED <<stored, remoteSeid, pdrs, rows>>
        /\ ReleaseTEID(cur.sess[2])
    BY <1>2 DEF DeletionTeids, Fits, CurFits
  <2>2. cur'.op = "idle" /\ cur'.left = {}
    BY <2>1 DEF Idle
  <2>3. Active' = stored /\ Active = stored
    BY <2>1, <2>2 DEF Active
  <2>4. \A x, t : Meets(Active', remoteSeid', cur', x, t) => Meets(Active, remoteSeid, cur, x, t)
    BY <2>1, <2>2, <2>3 DEF Meets
  <2>5. /\ \A x \in Listed(freeTEIDs') :
             x \in Listed(freeTEIDs) \/ \E b \in busyTEIDs : b.seID = cur.sess[2] /\ b.teid = x
        /\ busyTEIDs' \subseteq busyTEIDs
        /\ UNCHANGED <<freeIPs, busyIPs>>
    BY <2>1, FreedTeids DEF Fits
  <2>6. Meets(Active, remoteSeid, cur, cur.sess[2], cur.sess)
    BY <2>1 DEF Meets
  <2>7. \A p \in pdrs : p.sess # cur.sess
    BY <2>1, <2>3 DEF Fits, PdrsFit
  <2>8. \A p : ~Through(cur', p) /\ ~Leaving(cur, p.sess) /\ ~Through(cur, p)
    BY <2>1, <2>2 DEF Through, Leaving
  <2>9. SeidsApart'
    BY <2>1, <2>3 DEF SeidsApart, Apart
  <2>10. BookedApart'
    BY <2>1, <2>4, <2>5, BookedKept DEF Apart
  <2>11. HeldApart'
    <3>1. \A p \in pdrs : p.teid \notin Listed(freeTEIDs')
      BY <2>5, <2>6, <2>7, <2>8 DEF BookedApart, HeldApart, Apart
    <3> QED  BY <2>1, <2>5, <3>1 DEF HeldApart, Apart
  <2>12. CachedApart'
    BY <2>2 DEF CachedApart
  <2>13. RowsKept'
    BY <2>1, <2>8 DEF RowsKept, Apart
  <2>14. Released'
    BY <2>8 DEF Released
  <2> QED  BY <2>9, <2>10, <2>11, <2>12, <2>13, <2>14 DEF Apart
<1> QED  BY <1>1, <1>2

\* Every step keeps the ids of sessions apart.
LEMMA ApartStep ==
    ASSUME Careful PROVE Fits /\ Fits' /\ Apart /\ [ResNext]_resVars => Apart'
<1> SUFFICES ASSUME Fits, Fits', Apart, [ResNext]_resVars PROVE Apart'
  OBVIOUS
<1>1. CASE \E n \in Node :
             \/ AssociationSetup(n)
             \/ PruneAssociation(n)
             \/ \E r \in RemoteSeid : EstablishmentRequest(n, r)
  BY <1>1, ApartRequest
<1>2. CASE \E s \in stored :
             \/ \E r \in RemoteSeid : ModificationRequest(s, r)
             \/ DeletionRequest(s)
  BY <1>2, ApartRequest
<1>3. CASE (\E s \in stored : PruneSession(s)) \/ RequestFails \/ RequestDone \/ PruneDone
  BY <1>3, ApartEnd
<1>4. ASSUME NEW o \in {"create", "update"},
             \/ \E i \in UplinkPdr :
                  \/ \E t \in GivenTeid : PutGivenTeid(o, i, t)
                  \/ \E c \in ChooseId : PutCachedTeid(o, i, c)
                  \/ \E c \in ChooseId \cup {NoChooseId} : PutChosenTeid(o, i, c)
             \/ \E i \in DownlinkPdr : PutChosenIp(o, i)
      PROVE  Apart'
  BY <1>4, ApartPuts
<1>5. ASSUME NEW p \in pdrs, RemovePdr(p) \/ DeletionPdr(p) \/ PrunePdr(p) PROVE Apart'
  BY <1>5, ApartRemove, ApartDelete
<1>6. CASE DeletionDone \/ DeletionTeids
  BY <1>6, ApartRelease
<1>7. CASE UNCHANGED resVars
  <2>1. UNCHANGED <<freeTEIDs, busyTEIDs, freeIPs, busyIPs, stored, remoteSeid, pdrs, rows, cur>>
    BY <1>7 DEF resVars, pools
  <2>2. SeidsApart' /\ BookedApart'
    <3>1. Active' = Active
      BY <2>1 DEF Active
    <3>2. SeidsApart'
      BY <2>1, <3>1 DEF SeidsApart, Apart
    <3> QED  BY <2>1, <3>1, <3>2, BookedKept DEF Apart
  <2>3. HeldApart' /\ RowsKept' /\ Released'
    BY <2>1 DEF HeldApart, RowsKept, Released, Apart
  <2>4. CachedApart'
    BY <2>1 DEF CachedApart, Apart, Active
  <2> QED  BY <2>2, <2>3, <2>4 DEF Apart
<1> QED  BY <1>1, <1>2, <1>3, <1>4, <1>5, <1>6, <1>7 DEF ResNext

\* The invariant holds in every state.
LEMMA ApartAlways ==
    ASSUME Careful PROVE ResSpec => [](Fits /\ Apart)
<1>1. Fits /\ Fits' /\ Apart /\ [ResNext]_resVars => Apart'
  BY ApartStep
<1> QED  BY <1>1, FitsInit, FitsStep, ApartInit, PTL DEF ResSpec

\* With peers whose SEIDs do not meet and that do not remove PDRs one by one: between
\* requests, no id that the UPF chose for a session is free or with another session,
\* whatever requests failed, replaced ids or changed remote SEIDs before.
THEOREM ResourcesAreExclusive ==
    ASSUME Careful PROVE ResSpec => []ResourcesExclusive
<1>1. Fits /\ Apart => ResourcesExclusive
  <2> SUFFICES ASSUME Apart, cur.op = "idle", NEW s \in stored
               PROVE  /\ TeidsOf(s) \cap Listed(freeTEIDs) = {}
                      /\ IpsOf(s) \cap Listed(freeIPs) = {}
                      /\ \A t \in stored \ {s} :
                           TeidsOf(s) \cap TeidsOf(t) = {} /\ IpsOf(s) \cap IpsOf(t) = {}
    BY DEF ResourcesExclusive
  <2>1. 0 \notin Teids /\ 0 \notin Ips
    BY DEF Teids, Ips
  <2>2. /\ \A t, x : x \in TeidsOf(t) =>
             x # 0 /\ \E p \in pdrs : p.sess = t /\ p.teid = x /\ ~Leaving(cur, p.sess)
        /\ \A t, x : x \in IpsOf(t) => x # 0 /\ \E p \in pdrs : p.sess = t /\ p.ip = x
    BY <2>1 DEF TeidsOf, IpsOf, PdrsOf, Leaving
  <2>3. \A x \in TeidsOf(s) : x \notin Listed(freeTEIDs)
    BY <2>2 DEF HeldApart, Apart
  <2>4. \A x \in IpsOf(s) : x \notin Listed(freeIPs)
    BY <2>2 DEF HeldApart, Apart
  <2>5. ASSUME NEW t \in stored \ {s} PROVE TeidsOf(s) \cap TeidsOf(t) = {}
    BY <2>2, <2>5 DEF HeldApart, Apart
  <2>6. ASSUME NEW t \in stored \ {s} PROVE IpsOf(s) \cap IpsOf(t) = {}
    BY <2>2, <2>6 DEF HeldApart, Apart
  <2> QED  BY <2>3, <2>4, <2>5, <2>6
<1>2. ResSpec => [](Fits /\ Apart)
  BY ApartAlways
<1> QED  BY <1>1, <1>2, PTL

-----------------------------------------------------------------------------
(* Where ids go astray *)

\* An id that was free or with a PDR is neither after the step.
TeidLost(t) ==
    /\ t \in Teids /\ t \notin Listed(freeTEIDs') /\ \A p \in pdrs' : p.teid # t
    /\ t \in Listed(freeTEIDs) \/ \E p \in pdrs : p.teid = t

IpLost(a) ==
    /\ a \in Ips /\ a \notin Listed(freeIPs') /\ \A p \in pdrs' : p.ip # a
    /\ a \in Listed(freeIPs) \/ \E p \in pdrs : p.ip = a

\* The ways in which a TEID and an address go astray.
TeidExcuse(t) ==
    \/ FailedOrReplaced({p \in pdrs : p.teid = t})
    \/ \A p \in {q \in pdrs : q.teid = t} :
         ~\E b \in busyTEIDs : b.teid = t /\ b.seID = remoteSeid[p.sess]

IpExcuse(a) ==
    \/ FailedOrReplaced({p \in pdrs : p.ip = a})
    \/ cur.op \in {"mod", "prune"}
    \/ \A p \in {q \in pdrs : q.ip = a} : ~\E b \in busyIPs : b.ip = a /\ b.seID = p.sess[2]

\* What a step does not touch is not lost.
LEMMA NothingLost ==
    /\ Listed(freeTEIDs) \subseteq Listed(freeTEIDs') /\ pdrs \subseteq pdrs' =>
         \A t : ~TeidLost(t)
    /\ Listed(freeIPs) \subseteq Listed(freeIPs') /\ pdrs \subseteq pdrs' =>
         \A a : ~IpLost(a)
  BY DEF TeidLost, IpLost

\* A PDR is stored: an id that is lost was that of the PDR before.
LEMMA LostByPut ==
    ASSUME NEW p, StorePdr(p),
           \A x \in Listed(freeTEIDs) : x \in Listed(freeTEIDs') \/ x = p.teid,
           \A x \in Listed(freeIPs) : x \in Listed(freeIPs') \/ x = p.ip
    PROVE  /\ \A t : TeidLost(t) => FailedOrReplaced({q \in pdrs : q.teid = t})
           /\ \A a : IpLost(a) => FailedOrReplaced({q \in pdrs : q.ip = a})
<1>1. pdrs' = (pdrs \ PdrAt(p.sess, p.id)) \cup {p}
  BY DEF StorePdr
<1>2. ASSUME NEW q \in pdrs, q \notin pdrs' PROVE PdrAt(q.sess, q.id)' \ {q} # {}
  <2>1. q.sess = p.sess /\ q.id = p.id
    BY <1>1, <1>2 DEF PdrAt, PdrsOf
  <2>2. p \in pdrs' /\ p # q
    BY <1>1, <1>2
  <2> QED  BY <2>1, <2>2 DEF PdrAt, PdrsOf
<1>3. ASSUME NEW t, TeidLost(t) PROVE \A q \in {r \in pdrs : r.teid = t} : q \in pdrs /\ q \notin pdrs'
  BY <1>3 DEF TeidLost
<1>4. ASSUME NEW a, IpLost(a) PROVE \A q \in {r \in pdrs : r.ip = a} : q \in pdrs /\ q \notin pdrs'
  BY <1>4 DEF IpLost
<1> QED  BY <1>2, <1>3, <1>4 DEF FailedOrReplaced

\* Every step loses ids only in these ways.
LEMMA LostOnlyWhereKnown ==
    ASSUME Careful, Fits, Apart, ResNext
    PROVE  (\A t : TeidLost(t) => TeidExcuse(t)) /\ (\A a : IpLost(a) => IpExcuse(a))
<1> DEFINE Goal == (\A t : TeidLost(t) => TeidExcuse(t)) /\ (\A a : IpLost(a) => IpExcuse(a))
<1> SUFFICES Goal
  OBVIOUS
<1>0. /\ \A t : FailedOrReplaced({q \in pdrs : q.teid = t}) => TeidExcuse(t)
      /\ \A a : FailedOrReplaced({q \in pdrs : q.ip = a}) => IpExcuse(a)
  BY DEF TeidExcuse, IpExcuse
<1>1. ASSUME Listed(freeTEIDs) \subseteq Listed(freeTEIDs'),
             Listed(freeIPs) \subseteq Listed(freeIPs'), pdrs \subseteq pdrs'
      PROVE  Goal
  BY <1>1, NothingLost
<1>2. ASSUME UNCHANGED <<pools, pdrs>> PROVE Goal
  BY <1>1, <1>2 DEF pools
<1>3. CASE \E n \in Node :
             \/ AssociationSetup(n)
             \/ PruneAssociation(n)
             \/ \E r \in RemoteSeid : EstablishmentRequest(n, r)
  BY <1>2, <1>3 DEF AssociationSetup, PruneAssociation, EstablishmentRequest
<1>4. CASE \E s \in stored :
             \/ \E r \in RemoteSeid : ModificationRequest(s, r)
             \/ DeletionRequest(s)
             \/ PruneSession(s)
  BY <1>2, <1>4 DEF ModificationRequest, DeletionRequest, PruneSession
<1>5. ASSUME NEW p, StorePdr(p),
             \A x \in Listed(freeTEIDs) : x \in Listed(freeTEIDs') \/ x = p.teid,
             \A x \in Listed(freeIPs) : x \in Listed(freeIPs') \/ x = p.ip
      PROVE  Goal
  BY <1>0, <1>5, LostByPut
<1>6. ASSUME NEW o \in {"create", "update"}, NEW i \in UplinkPdr, NEW t \in GivenTeid,
             PutGivenTeid(o, i, t)
      PROVE  Goal
  <2>1. StorePdr(Uplink(i, t)) /\ UNCHANGED <<freeTEIDs, freeIPs>>
    BY <1>6 DEF PutGivenTeid, pools
  <2> QED  BY <1>5, <2>1
<1>7. ASSUME NEW o \in {"create", "update"}, NEW i \in UplinkPdr, NEW c \in ChooseId,
             PutCachedTeid(o, i, c)
      PROVE  Goal
  <2>1. StorePdr(Uplink(i, cur.cache[c])) /\ UNCHANGED <<freeTEIDs, freeIPs>>
    BY <1>7 DEF PutCachedTeid, pools
  <2> QED  BY <1>5, <2>1
<1>8. ASSUME NEW o \in {"create", "update"}, NEW i \in UplinkPdr,
             NEW c \in ChooseId \cup {NoChooseId}, PutChosenTeid(o, i, c)
      PROVE  Goal
  <2>1. /\ StorePdr(Uplink(i, Head(freeTEIDs)))
        /\ AllocateTEID(remoteSeid[cur.sess], i)
    BY <1>8 DEF PutChosenTeid
  <2>2. /\ \A x \in Listed(freeTEIDs) : x = Head(freeTEIDs) \/ x \in Listed(freeTEIDs')
        /\ UNCHANGED freeIPs
    BY <2>1, TookTeid DEF Fits
  <2>3. Uplink(i, Head(freeTEIDs)).teid = Head(freeTEIDs)
    BY DEF Uplink
  <2> QED  BY <1>5, <2>1, <2>2, <2>3
<1>9. ASSUME NEW o \in {"create", "update"}, NEW i \in DownlinkPdr, PutChosenIp(o, i)
      PROVE  Goal
  <2>1. /\ StorePdr(Downlink(i, Head(freeIPs)))
        /\ AllocateIP(remoteSeid[cur.sess])
    BY <1>9 DEF PutChosenIp
  <2>2. /\ \A x \in Listed(freeIPs) : x = Head(freeIPs) \/ x \in Listed(freeIPs')
        /\ UNCHANGED freeTEIDs
    BY <2>1, TookIp DEF Fits
  <2>3. Downlink(i, Head(freeIPs)).ip = Head(freeIPs)
    BY DEF Downlink
  <2> QED  BY <1>5, <2>1, <2>2, <2>3
<1>10. ASSUME NEW p \in pdrs, RemovePdr(p) PROVE Goal
  <2>1. ~DeleteFails(p)
    BY <1>10, DeleteSucceeds DEF Apart
  <2>2. cur.op = "mod" /\ pdrs' = pdrs \ {p} /\ ReleaseOf(p)
    BY <1>10, <2>1 DEF RemovePdr, Reached
  <2>3. /\ Listed(freeTEIDs) \subseteq Listed(freeTEIDs')
        /\ p.teid # 0 => \A b \in busyTEIDs :
             b.seID = remoteSeid[p.sess] => b.teid \in Listed(freeTEIDs')
    BY <2>2, ReleaseApart
  <2>4. ASSUME NEW t, TeidLost(t) PROVE TeidExcuse(t)
    <3>1. \A q \in pdrs : q.teid = t => q = p
      BY <2>2, <2>4 DEF TeidLost
    <3>2. t \in Teids /\ t # 0 /\ t \notin Listed(freeTEIDs')
      BY <2>4 DEF TeidLost, Teids
    <3> QED  BY <2>3, <3>1, <3>2 DEF TeidExcuse
  <2>5. \A a : IpExcuse(a)
    BY <2>2 DEF IpExcuse
  <2> QED  BY <2>4, <2>5
<1>11. ASSUME NEW p \in pdrs, DeletionPdr(p) \/ PrunePdr(p) PROVE Goal
  <2>1. UNCHANGED pdrs /\ (ReleaseOf(p) \/ UNCHANGED pools)
    BY <1>11 DEF DeletionPdr, PrunePdr, pools
  <2>2. CASE ReleaseOf(p)
    <3>1. Listed(freeTEIDs) \subseteq Listed(freeTEIDs') /\ UNCHANGED freeIPs
      BY <2>2, ReleaseApart
    <3> QED  BY <1>1, <2>1, <3>1
  <2> QED  BY <1>2, <2>1, <2>2
<1>12. CASE RequestFails
  <2>1. CASE cur.op = "est"
    <3>1. cur'.op = "idle" /\ UNCHANGED stored /\ cur.sess \notin stored
      BY <1>12, <2>1 DEF RequestFails, GiveUp, Idle, Fits, CurFits
    <3> QED  BY <1>0, <2>1, <3>1 DEF FailedOrReplaced
  <2>2. CASE cur.op # "est"
    BY <1>2, <1>12, <2>2 DEF RequestFails, GiveUp
  <2> QED  BY <2>1, <2>2
<1>13. CASE RequestDone
  BY <1>2, <1>13 DEF RequestDone
<1>14. CASE DeletionDone
  <2>1. /\ cur.op = "del" /\ cur.left = {} /\ pdrs' = pdrs \ PdrsOf(cur.sess)
        /\ ReleaseIpOf(cur.sess[2])
    BY <1>14 DEF DeletionDone
  <2>2. /\ Listed(freeIPs) \subseteq Listed(freeIPs')
        /\ \A b \in busyIPs : b.seID = cur.sess[2] => b.ip \in Listed(freeIPs')
        /\ UNCHANGED freeTEIDs
    BY <2>1, FreedIp DEF Fits
  <2>3. ASSUME NEW t, TeidLost(t) PROVE TeidExcuse(t)
    <3>1. /\ \A q \in pdrs : q.teid = t => q.sess = cur.sess
          /\ t # 0
      BY <2>1, <2>3 DEF TeidLost, PdrsOf, Teids
    <3>2. \A q \in pdrs : q.teid = t => Through(cur, q)
      BY <2>1, <3>1 DEF Through, Leaving
    <3> QED  BY <3>1, <3>2 DEF TeidExcuse, Released, Apart
  <2>4. ASSUME NEW a, IpLost(a) PROVE IpExcuse(a)
    <3>1. /\ \A q \in pdrs : q.ip = a => q.sess = cur.sess
          /\ a \notin Listed(freeIPs')
      BY <2>1, <2>4 DEF IpLost, PdrsOf
    <3> QED  BY <2>2, <3>1 DEF IpExcuse
  <2> QED  BY <2>3, <2>4
<1>15. CASE DeletionTeids
  <2>1. ReleaseTEID(cur.sess[2]) /\ UNCHANGED pdrs
    BY <1>15 DEF DeletionTeids
  <2>2. Listed(freeTEIDs) \subseteq Listed(freeTEIDs') /\ UNCHANGED freeIPs
    BY <2>1, FreedTeids DEF Fits
  <2> QED  BY <1>1, <2>1, <2>2
<1>16. CASE PruneDone
  <2>1. /\ cur.op = "prune" /\ cur.left = {} /\ cur.pending = {}
        /\ pdrs' = {p \in pdrs : p.sess[1] # cur.sess[1]}
        /\ UNCHANGED freeTEIDs
    BY <1>16 DEF PruneDone, pools
  <2>2. ASSUME NEW t, TeidLost(t) PROVE TeidExcuse(t)
    <3>1. /\ \A q \in pdrs : q.teid = t => q.sess[1] = cur.sess[1]
          /\ t # 0
      BY <2>1, <2>2 DEF TeidLost, Teids
    <3>2. \A q \in pdrs : q.teid = t => Through(cur, q)
      BY <2>1, <3>1 DEF Through, Leaving
    <3> QED  BY <3>1, <3>2 DEF TeidExcuse, Released, Apart
  <2>3. \A a : IpExcuse(a)
    BY <2>1 DEF IpExcuse
  <2> QED  BY <2>2, <2>3
<1> HIDE DEF Goal
<1>17. CASE \E o \in {"create", "update"} :
              \/ \E i \in UplinkPdr :
                   \/ \E t \in GivenTeid : PutGivenTeid(o, i, t)
                   \/ \E c \in ChooseId : PutCachedTeid(o, i, c)
                   \/ \E c \in ChooseId \cup {NoChooseId} : PutChosenTeid(o, i, c)
              \/ \E i \in DownlinkPdr : PutChosenIp(o, i)
  BY <1>6, <1>7, <1>8, <1>9, <1>17
<1>18. CASE \E p \in pdrs : RemovePdr(p) \/ DeletionPdr(p) \/ PrunePdr(p)
  BY <1>10, <1>11, <1>18
<1> QED  BY <1>3, <1>4, <1>12, <1>13, <1>14, <1>15, <1>16, <1>17, <1>18 DEF ResNext

\* With such peers every session that ends gives back all ids it was given, but in
\* the known ways, whatever the order of requests, failures and lost associations.
THEOREM OrphansAreKnown ==
    ASSUME Careful PROVE ResSpec => OrphanedOnlyWhereKnown
<1> DEFINE Known ==
      /\ \A t \in OrphanTeids' \ OrphanTeids :
           LET old == {p \in pdrs : p.teid = t}
           IN  \/ FailedOrReplaced(old)
               \/ \A p \in old : ~\E b \in busyTEIDs :
                     b.teid = t /\ b.seID = remoteSeid[p.sess]
      /\ \A a \in OrphanIps' \ OrphanIps :
           LET old == {p \in pdrs : p.ip = a}
           IN  \/ FailedOrReplaced(old)
               \/ cur.op \in {"mod", "prune"}
               \/ \A p \in old : ~\E b \in busyIPs : b.ip = a /\ b.seID = p.sess[2]
<1>1. Fits /\ Apart /\ [ResNext]_resVars => [Known]_resVars
  <2> SUFFICES ASSUME Fits, Apart, ResNext PROVE Known
    OBVIOUS
  <2>1. (\A t : TeidLost(t) => TeidExcuse(t)) /\ (\A a : IpLost(a) => IpExcuse(a))
    BY LostOnlyWhereKnown
  <2>2. \A t \in OrphanTeids' \ OrphanTeids : TeidLost(t)
    BY DEF OrphanTeids, TeidLost
  <2>3. \A a \in OrphanIps' \ OrphanIps : IpLost(a)
    BY DEF OrphanIps, IpLost
  <2> QED  BY <2>1, <2>2, <2>3 DEF TeidExcuse, IpExcuse
<1>2. ResSpec => [](Fits /\ Apart)
  BY ApartAlways
<1> QED  BY <1>1, <1>2, PTL DEF ResSpec, OrphanedOnlyWhereKnown
=============================================================================
