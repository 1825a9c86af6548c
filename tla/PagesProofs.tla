------------------------------- MODULE PagesProofs -------------------------------
(* Theorems about the pages of the web application: the cycle they all look at, the  *)
(* lists they show, and the venue map with its import.  They hold for any number of  *)
(* cycles, of rows, of booths and areas and of actions of the user, and whatever the *)
(* order in which requests are answered.                                             *)
EXTENDS Browser, SheetsProofs, SequenceTheorems

-----------------------------------------------------------------------------
\* The active cycle (ActiveCycle).

Latest(q) == q[Len(q)]

\* No replacement of the address is under way: the address names the cycle.
AtRest ==
    /\ optimistic \in {NoCycle, url}
    /\ CycleId # NoCycle => url = CycleId
    /\ picked # NoCycle => CycleId = picked

\* The replacements under way end with the cycle that was chosen.
UnderWay ==
    /\ optimistic \in {NoCycle, Latest(replacing)} \/ (optimistic = url /\ url \notin listed)
    /\ picked # NoCycle => Latest(replacing) = picked

AddressFollows ==
    /\ \A i \in 1..Len(replacing) : replacing[i] \in listed
    /\ replacing = <<>> => AtRest
    /\ replacing # <<>> => UnderWay

PickedIsListed == picked # NoCycle => picked \in listed
CycleIsStored  == storable /\ CycleId # NoCycle => stored = CycleId
CycleInv == CycleTypeOK /\ PickedIsListed /\ CycleIsStored /\ (~crossed => AddressFollows)

LEMMA CycleIdIsListed ==
    ASSUME NEW L \in SUBSET CycleIds, NEW a, NEW o, NEW u, NEW s
    PROVE  /\ L = {} => CycleIdOf(L, a, o, u, s) = NoCycle
           /\ L # {} => CycleIdOf(L, a, o, u, s) \in L /\ CycleIdOf(L, a, o, u, s) # NoCycle
           /\ o \in L => CycleIdOf(L, a, o, u, s) = o
           /\ o \notin L /\ u \in L => CycleIdOf(L, a, o, u, s) = u
           /\ o \notin L /\ u \notin L /\ s \in L => CycleIdOf(L, a, o, u, s) = s
BY NoCycleIsNone DEF CycleIdOf, DefaultCycle

\* The cycle that is rendered is the one that is stored and looked at afterwards.
LEMMA Rendered ==
    ASSUME NEW L \in SUBSET CycleIds, NEW a \in MaybeCycle, NEW o \in MaybeCycle, NEW u \in MaybeCycle,
           NEW s \in MaybeCycle, NEW q \in Seq(CycleIds), Render(L, a, o, u, s, q), storable' = storable
    PROVE  /\ CycleId' = CycleIdOf(L, a, o, u, s)
           /\ CycleIsStored'
           /\ listed' \subseteq CycleIds /\ {active', url', optimistic', stored'} \subseteq MaybeCycle
           /\ replacing' \in Seq(CycleIds)
           /\ \/ replacing' = q
              \/ /\ replacing' = Append(q, CycleId') /\ CycleId' # NoCycle /\ CycleId' \in L
<1> DEFINE c == CycleIdOf(L, a, o, u, s)
<1>1. /\ L = {} => c = NoCycle
      /\ L # {} => c \in L /\ c # NoCycle
      /\ o \in L => c = o
      /\ o \notin L /\ u \in L => c = u
      /\ o \notin L /\ u \notin L /\ s \in L => c = s
  BY CycleIdIsListed
<1> HIDE DEF c
<1>2. /\ listed' = L /\ active' = a /\ optimistic' = o /\ url' = u
      /\ stored' = IF storable /\ c # NoCycle THEN c ELSE s
      /\ replacing' = q \/ (replacing' = Append(q, c) /\ c # NoCycle)
  BY DEF Render, c
<1>3. CycleId' = CycleIdOf(L, a, o, u, stored')
  BY <1>2 DEF CycleId
<1>4. CycleId' = c
  <2>1. CASE stored' = s
    BY <1>3, <2>1 DEF c
  <2>2. CASE stored' = c /\ c # NoCycle
    <3>1. /\ o \in L => CycleIdOf(L, a, o, u, c) = o
          /\ o \notin L /\ u \in L => CycleIdOf(L, a, o, u, c) = u
          /\ o \notin L /\ u \notin L /\ c \in L => CycleIdOf(L, a, o, u, c) = c
      BY CycleIdIsListed
    <3> QED
      BY <1>1, <1>3, <2>2, <3>1
  <2> QED
    BY <1>2, <2>1, <2>2
<1>5. CycleIsStored'
  BY <1>2, <1>4 DEF CycleIsStored
<1>6. c \in MaybeCycle /\ (c # NoCycle => c \in L)
  BY <1>1 DEF MaybeCycle
<1>7. replacing' \in Seq(CycleIds)
  <2>1. CASE replacing' = Append(q, c) /\ c # NoCycle
    BY <1>6, <2>1, AppendProperties
  <2> QED
    BY <1>2, <2>1
<1> QED
  BY <1>2, <1>4, <1>5, <1>6, <1>7 DEF c

LEMMA LatestOfAppend ==
    ASSUME NEW q \in Seq(CycleIds), NEW c \in CycleIds
    PROVE  /\ Append(q, c) # <<>> /\ Latest(Append(q, c)) = c
           /\ \A i \in 1..Len(Append(q, c)) : Append(q, c)[i] = c \/ (i \in 1..Len(q) /\ Append(q, c)[i] = q[i])
BY AppendProperties, LenProperties DEF Latest

LEMMA RestOfQueue ==
    ASSUME NEW q \in Seq(CycleIds), q # <<>>, NEW i \in {1, Len(q)}
    PROVE  LET rest == SubSeq(q, i + 1, Len(q))
           IN  /\ q[i] \in CycleIds /\ Latest(q) \in CycleIds /\ i \in 1..Len(q) /\ Len(q) \in 1..Len(q)
               /\ rest \in Seq(CycleIds)
               /\ \A j \in 1..Len(rest) : rest[j] = q[i + j] /\ i + j \in 1..Len(q)
               /\ rest # <<>> => Latest(rest) = Latest(q)
               /\ rest = <<>> => q[i] = Latest(q)
<1> DEFINE rest == SubSeq(q, i + 1, Len(q))
<1>1. Len(q) \in Nat \ {0} /\ i \in 1..Len(q) /\ Len(q) \in 1..Len(q)
  BY LenProperties, EmptySeq
<1>2. \A j \in 1..Len(q) : q[j] \in CycleIds
  BY ElementOfSeq
<1>3. /\ rest \in Seq(CycleIds)
      /\ Len(rest) = IF i + 1 <= Len(q) THEN Len(q) - (i + 1) + 1 ELSE 0
      /\ \A j \in 1..(Len(q) - (i + 1) + 1) : rest[j] = q[i + 1 + j - 1]
  <2>1. \A j \in (i + 1)..Len(q) : q[j] \in CycleIds
    BY <1>1, <1>2
  <2>2. i + 1 \in Int /\ Len(q) \in Int
    BY <1>1
  <2> QED
    BY <2>1, <2>2, SubSeqProperties
<1> HIDE DEF rest
<1>4. Len(rest) = Len(q) - i
  BY <1>1, <1>3
<1>5. \A j \in 1..Len(rest) : rest[j] = q[i + j] /\ i + j \in 1..Len(q)
  BY <1>1, <1>3, <1>4
<1>6. ASSUME rest # <<>>
      PROVE  Latest(rest) = Latest(q)
  <2>1. Len(rest) \in 1..Len(rest)
    BY <1>3, <1>6, EmptySeq
  <2> QED
    BY <1>1, <1>4, <1>5, <2>1 DEF Latest
<1>7. ASSUME rest = <<>>
      PROVE  q[i] = Latest(q)
  <2>1. Len(rest) = 0
    BY <1>7, EmptySeq
  <2> QED
    BY <1>1, <1>4, <2>1 DEF Latest
<1> QED
  BY <1>1, <1>2, <1>3, <1>5, <1>6, <1>7 DEF rest, Latest

\* A list that is loaded while no replacement is under way.
LEMMA ReloadFollows ==
    ASSUME CycleInv, Reload
    PROVE  CycleInv'
<1> USE NoCycleIsNone
<1>1. PICK L \in SUBSET CycleIds, a \in MaybeCycle :
          /\ Render(L, a, optimistic, url, stored, replacing)
          /\ picked' = IF picked \in L THEN picked ELSE NoCycle
  BY DEF Reload
<1> DEFINE c == CycleIdOf(L, a, optimistic, url, stored)
<1>2. /\ optimistic \in MaybeCycle /\ url \in MaybeCycle /\ stored \in MaybeCycle /\ replacing \in Seq(CycleIds)
      /\ storable' = storable /\ crossed' = (crossed \/ replacing # <<>>) /\ crossed \in BOOLEAN
      /\ listed' = L /\ url' = url /\ optimistic' = optimistic
      /\ replacing' = IF c # NoCycle /\ c # url /\ (c # CycleId \/ url # url) THEN Append(replacing, c)
                      ELSE replacing
  BY <1>1 DEF Reload, CycleInv, CycleTypeOK, Render
<1>3. /\ CycleId' = c /\ CycleIsStored'
      /\ listed' \subseteq CycleIds /\ {active', url', optimistic', stored'} \subseteq MaybeCycle
      /\ replacing' \in Seq(CycleIds)
  BY <1>1, <1>2, Rendered
<1>4. CycleTypeOK'
  <2>1. used' \in 0..MaxCycleActions
    BY CycleBoundIsNat DEF Reload, CycleInv, CycleTypeOK
  <2>2. picked' \in MaybeCycle /\ storable' \in BOOLEAN /\ crossed' \in BOOLEAN
    BY <1>1, <1>2 DEF CycleInv, CycleTypeOK, MaybeCycle
  <2> QED
    BY <1>3, <2>1, <2>2 DEF CycleTypeOK
<1>5. PickedIsListed'
  BY <1>1, <1>2 DEF PickedIsListed
<1>6. ASSUME ~crossed'
      PROVE  AddressFollows'
  <2>1. replacing = <<>> /\ AtRest
    BY <1>2, <1>6 DEF CycleInv, AddressFollows
  <2>2. /\ L = {} => c = NoCycle
        /\ L # {} => c \in L /\ c # NoCycle
        /\ optimistic \in L => c = optimistic
        /\ optimistic \notin L /\ url \in L => c = url
    BY CycleIdIsListed
  <2>3. NoCycle \notin L
    OBVIOUS
  <2>4. CycleId' = c /\ (picked' # NoCycle => picked' = picked /\ picked \in L)
    BY <1>1, <1>3
  <2> HIDE DEF c
  <2>5. CASE replacing' = <<>>
    <3>1. c # NoCycle => c = url
      <4>1. ASSUME c # NoCycle, c # url
            PROVE  FALSE
        <5>1. c = CycleId \/ replacing' = Append(<<>>, c)
          BY <1>2, <2>1, <4>1
        <5>2. Append(<<>>, c) # <<>>
          BY <2>2, <4>1, EmptySeq, LatestOfAppend
        <5>3. c = CycleId
          BY <2>5, <5>1, <5>2
        <5> QED
          BY <2>1, <4>1, <5>3 DEF AtRest
      <4> QED
        BY <4>1
    <3>2. picked' # NoCycle => c = picked'
      BY <2>1, <2>2, <2>3, <2>4 DEF AtRest
    <3>3. AtRest'
      BY <1>2, <2>1, <2>4, <3>1, <3>2 DEF AtRest
    <3>4. Len(replacing') = 0
      BY <2>5, EmptySeq
    <3> QED
      BY <2>5, <3>3, <3>4 DEF AddressFollows
  <2>6. CASE replacing' # <<>>
    <3>1. replacing' = Append(<<>>, c) /\ c # NoCycle /\ c # url /\ c # CycleId
      BY <1>2, <2>1, <2>6
    <3>2. c \in L /\ c \in CycleIds
      BY <2>2, <3>1
    <3>3. /\ Latest(replacing') = c
          /\ \A i \in 1..Len(replacing') : replacing'[i] = c
      <4>1. Len(<<>>) = 0 /\ <<>> \in Seq(CycleIds)
        BY EmptySeq
      <4> DEFINE none == <<>>
      <4> HIDE DEF none
      <4>2. /\ Latest(Append(none, c)) = c
            /\ \A i \in 1..Len(Append(none, c)) : Append(none, c)[i] = c \/ i \in 1..Len(none)
        BY <3>2, <4>1, LatestOfAppend DEF none
      <4>3. replacing' = Append(none, c) /\ Len(none) = 0
        BY <3>1, <4>1 DEF none
      <4> QED
        BY <4>2, <4>3
    <3>4. picked' = NoCycle
      BY <2>1, <2>2, <2>3, <2>4, <3>1 DEF AtRest
    <3>5. optimistic = NoCycle \/ (optimistic = url /\ url \notin L)
      BY <2>1, <2>2, <3>1 DEF AtRest
    <3>6. UnderWay'
      BY <1>2, <3>3, <3>4, <3>5 DEF UnderWay, Latest
    <3> QED
      BY <1>2, <2>6, <3>2, <3>3, <3>6 DEF AddressFollows
  <2> QED
    BY <2>5, <2>6
<1> QED
  BY <1>3, <1>4, <1>5, <1>6 DEF CycleInv

LEMMA PickFollows ==
    ASSUME CycleInv, Pick
    PROVE  CycleInv'
<1> USE NoCycleIsNone
<1>1. PICK c \in Pickable :
          /\ Render(listed, active, c, url, IF storable THEN c ELSE stored, replacing)
          /\ picked' = c
          /\ crossed' = (crossed \/ (c = url /\ replacing # <<>>))
  BY DEF Pick
<1>2. /\ c \in listed /\ c # CycleId /\ c \in CycleIds /\ c # NoCycle /\ c \in MaybeCycle
      /\ active \in MaybeCycle /\ url \in MaybeCycle /\ stored \in MaybeCycle /\ replacing \in Seq(CycleIds)
      /\ listed \in SUBSET CycleIds /\ storable' = storable /\ crossed \in BOOLEAN
  BY DEF Pick, Pickable, CycleInv, CycleTypeOK, MaybeCycle
<1>3. CycleIdOf(listed, active, c, url, IF storable THEN c ELSE stored) = c
  BY <1>2, CycleIdIsListed
<1>4. /\ listed' = listed /\ url' = url /\ optimistic' = c
      /\ replacing' = IF c # url THEN Append(replacing, c) ELSE replacing
  BY <1>1, <1>2, <1>3 DEF Render
<1>5. /\ CycleId' = c /\ CycleIsStored'
      /\ listed' \subseteq CycleIds /\ {active', url', optimistic', stored'} \subseteq MaybeCycle
      /\ replacing' \in Seq(CycleIds)
  <2> DEFINE s == IF storable THEN c ELSE stored
  <2>1. s \in MaybeCycle
    BY <1>2
  <2>2. Render(listed, active, c, url, s, replacing) /\ CycleIdOf(listed, active, c, url, s) = c
    BY <1>1, <1>3
  <2> HIDE DEF s
  <2> QED
    BY <1>2, <2>1, <2>2, Rendered
<1>6. CycleTypeOK'
  <2>1. used' \in 0..MaxCycleActions
    BY CycleBoundIsNat DEF Pick, CycleInv, CycleTypeOK
  <2>2. picked' \in MaybeCycle /\ storable' \in BOOLEAN /\ crossed' \in BOOLEAN
    BY <1>1, <1>2 DEF CycleInv, CycleTypeOK
  <2> QED
    BY <1>5, <2>1, <2>2 DEF CycleTypeOK
<1>7. PickedIsListed'
  BY <1>1, <1>2, <1>4 DEF PickedIsListed
<1>8. ASSUME ~crossed'
      PROVE  AddressFollows'
  <2>1. AddressFollows /\ (c = url => replacing = <<>>)
    BY <1>1, <1>2, <1>8 DEF CycleInv
  <2>2. c # url
    <3>1. CycleId # NoCycle
      BY <1>2, CycleIdIsListed DEF CycleId
    <3>2. replacing = <<>> => url = CycleId
      BY <2>1, <3>1 DEF AddressFollows, AtRest
    <3> QED
      BY <1>2, <2>1, <3>2
  <2>3. replacing' = Append(replacing, c)
    BY <1>4, <2>2
  <2>4. /\ replacing' # <<>> /\ Latest(replacing') = c
        /\ \A i \in 1..Len(replacing') : replacing'[i] \in listed
    BY <1>2, <2>1, <2>3, LatestOfAppend DEF AddressFollows
  <2>5. UnderWay'
    BY <1>1, <1>4, <2>4 DEF UnderWay, Latest
  <2> QED
    BY <1>4, <2>4, <2>5 DEF AddressFollows
<1> QED
  BY <1>5, <1>6, <1>7, <1>8 DEF CycleInv

LEMMA ReplacedFollows ==
    ASSUME CycleInv, Replaced
    PROVE  CycleInv'
<1> USE NoCycleIsNone
<1>1. PICK i \in {1, Len(replacing)} :
          Render(listed, active, OptimisticAfter(replacing[i]), replacing[i], stored,
                 SubSeq(replacing, i + 1, Len(replacing)))
  BY DEF Replaced
<1> DEFINE u == replacing[i]
           o == OptimisticAfter(u)
           rest == SubSeq(replacing, i + 1, Len(replacing))
           c == CycleIdOf(listed, active, o, u, stored)
<1>2. /\ replacing # <<>> /\ storable' = storable /\ used' = used /\ picked' = picked /\ crossed' = crossed
      /\ replacing \in Seq(CycleIds) /\ listed \in SUBSET CycleIds /\ active \in MaybeCycle
      /\ url \in MaybeCycle /\ optimistic \in MaybeCycle /\ stored \in MaybeCycle
  BY DEF Replaced, CycleInv, CycleTypeOK
<1>3. /\ u \in CycleIds /\ Latest(replacing) \in CycleIds /\ i \in 1..Len(replacing)
      /\ rest \in Seq(CycleIds)
      /\ \A j \in 1..Len(rest) : rest[j] = replacing[i + j] /\ i + j \in 1..Len(replacing)
      /\ rest # <<>> => Latest(rest) = Latest(replacing)
      /\ rest = <<>> => u = Latest(replacing)
  BY <1>2, RestOfQueue
<1>4. o = IF u # url THEN NoCycle ELSE optimistic
  BY DEF OptimisticAfter
<1>5. u \in MaybeCycle /\ o \in MaybeCycle
  BY <1>2, <1>3, <1>4 DEF MaybeCycle
<1>6. Render(listed, active, o, u, stored, rest)
  BY <1>1
<1>7. /\ listed' = listed /\ url' = u /\ optimistic' = o
      /\ replacing' = IF c # NoCycle /\ c # u /\ (c # CycleId \/ u # url) THEN Append(rest, c) ELSE rest
  BY <1>6 DEF Render
<1> HIDE DEF u, o, rest
<1>8. /\ CycleId' = c /\ CycleIsStored'
      /\ listed' \subseteq CycleIds /\ {active', url', optimistic', stored'} \subseteq MaybeCycle
      /\ replacing' \in Seq(CycleIds)
  BY <1>2, <1>3, <1>5, <1>6, Rendered
<1>9. CycleTypeOK'
  BY <1>2, <1>8 DEF CycleInv, CycleTypeOK
<1>10. PickedIsListed'
  BY <1>2, <1>7 DEF CycleInv, PickedIsListed
<1>11. ASSUME ~crossed'
       PROVE  AddressFollows'
  <2>1. AddressFollows /\ UnderWay
    BY <1>2, <1>11 DEF CycleInv, AddressFollows
  <2>2. u \in listed /\ u # NoCycle
    BY <1>2, <1>3, <2>1 DEF AddressFollows, u
  <2>3. /\ o \in listed => c = o
        /\ o \notin listed => c = u
    BY <1>2, <2>2, CycleIdIsListed
  <2>4. u = url => o = optimistic /\ c = CycleId
    BY <1>4 DEF c, CycleId
  <2>5. u # url => o = NoCycle /\ c = u
    BY <1>2, <1>4, <2>3
  <2>6. replacing' = rest
    <3> HIDE DEF c
    <3> QED
      BY <1>7, <2>4, <2>5
  <2>7. \A j \in 1..Len(replacing') : replacing'[j] \in listed'
    BY <1>3, <1>7, <2>1, <2>6 DEF AddressFollows
  <2>8. o \in {NoCycle, Latest(replacing)}
    BY <1>4, <2>1, <2>2 DEF UnderWay
  <2>9. ASSUME rest = <<>>
        PROVE  AtRest'
    <3>1. u = Latest(replacing)
      BY <1>3, <2>9
    <3>2. c = u
      <4> HIDE DEF c
      <4>1. NoCycle \notin listed
        BY <1>2
      <4> QED
        BY <2>2, <2>3, <2>8, <3>1, <4>1
    <3>3. picked' # NoCycle => u = picked'
      BY <1>2, <2>1, <3>1 DEF UnderWay
    <3> QED
      BY <1>7, <1>8, <2>8, <3>1, <3>2, <3>3 DEF AtRest
  <2>10. ASSUME rest # <<>>
         PROVE  UnderWay'
    <3>1. Latest(replacing)' = Latest(replacing)
      BY <1>3, <2>6, <2>10 DEF Latest
    <3> QED
      BY <1>2, <1>7, <2>1, <2>8, <3>1 DEF UnderWay
  <2> QED
    BY <2>6, <2>7, <2>9, <2>10 DEF AddressFollows
<1> QED
  BY <1>8, <1>9, <1>10, <1>11 DEF CycleInv

LEMMA VisitFollows ==
    ASSUME CycleInv, Visit
    PROVE  CycleInv'
<1> USE NoCycleIsNone
<1>1. PICK u \in MaybeCycle \ {url} :
          /\ Render(listed, active, OptimisticAfter(u), u, stored, replacing)
          /\ picked' = IF u = NoCycle /\ storable THEN picked ELSE IF u \in listed THEN u ELSE NoCycle
  BY DEF Visit
<1> DEFINE c == CycleIdOf(listed, active, NoCycle, u, stored)
<1>2. /\ replacing = <<>> /\ storable' = storable /\ crossed' = crossed
      /\ replacing \in Seq(CycleIds) /\ listed \in SUBSET CycleIds /\ active \in MaybeCycle
      /\ stored \in MaybeCycle /\ NoCycle \in MaybeCycle /\ u # url
  BY <1>1 DEF Visit, CycleInv, CycleTypeOK, MaybeCycle
<1>3. Render(listed, active, NoCycle, u, stored, replacing)
  BY <1>1, <1>2 DEF OptimisticAfter
<1>4. /\ listed' = listed /\ url' = u /\ optimistic' = NoCycle
      /\ replacing' = IF c # NoCycle /\ c # u THEN Append(replacing, c) ELSE replacing
  BY <1>2, <1>3 DEF Render
<1>5. /\ CycleId' = c /\ CycleIsStored'
      /\ listed' \subseteq CycleIds /\ {active', url', optimistic', stored'} \subseteq MaybeCycle
      /\ replacing' \in Seq(CycleIds)
  BY <1>1, <1>2, <1>3, Rendered
<1>6. CycleTypeOK'
  <2>1. used' \in 0..MaxCycleActions
    BY CycleBoundIsNat DEF Visit, CycleInv, CycleTypeOK
  <2>2. picked' \in MaybeCycle /\ storable' \in BOOLEAN /\ crossed' \in BOOLEAN
    BY <1>1, <1>2 DEF CycleInv, CycleTypeOK
  <2> QED
    BY <1>5, <2>1, <2>2 DEF CycleTypeOK
<1>7. PickedIsListed'
  BY <1>1, <1>4 DEF CycleInv, PickedIsListed
<1>8. ASSUME ~crossed'
      PROVE  AddressFollows'
  <2>1. AtRest
    BY <1>2, <1>8 DEF CycleInv, AddressFollows
  <2>2. /\ listed = {} => c = NoCycle
        /\ listed # {} => c \in listed /\ c # NoCycle
        /\ u \in listed => c = u
        /\ u \notin listed /\ stored \in listed => c = stored
    BY <1>2, CycleIdIsListed
  <2>3. picked' # NoCycle => c = picked' /\ (u \in listed \/ u = NoCycle)
    <3>1. CASE u = NoCycle /\ storable /\ picked # NoCycle
      <4>1. CycleId = picked /\ stored = CycleId /\ picked \in listed
        BY <2>1, <3>1 DEF AtRest, CycleInv, CycleIsStored, PickedIsListed
      <4> QED
        BY <1>1, <1>2, <2>2, <3>1, <4>1
    <3> QED
      BY <1>1, <2>2, <3>1
  <2> HIDE DEF c
  <2>4. CASE c # NoCycle /\ c # u
    <3>1. c \in listed /\ c \in CycleIds
      BY <1>2, <2>2, <2>4
    <3>2. replacing' = Append(replacing, c) /\ Len(replacing) = 0
      BY <1>2, <1>4, <2>4, EmptySeq
    <3>3. /\ replacing' # <<>> /\ Latest(replacing') = c
          /\ \A j \in 1..Len(replacing') : replacing'[j] = c
      <4>1. /\ Append(replacing, c) # <<>> /\ Latest(Append(replacing, c)) = c
            /\ \A j \in 1..Len(Append(replacing, c)) :
                   Append(replacing, c)[j] = c \/ j \in 1..Len(replacing)
        BY <1>2, <3>1, LatestOfAppend
      <4> QED
        BY <3>2, <4>1
    <3>4. UnderWay'
      BY <1>4, <2>3, <3>3 DEF UnderWay, Latest
    <3> QED
      BY <1>4, <3>1, <3>3, <3>4 DEF AddressFollows
  <2>5. CASE c = NoCycle \/ c = u
    <3>1. replacing' = <<>> /\ Len(replacing') = 0
      BY <1>2, <1>4, <2>5, EmptySeq
    <3>2. AtRest'
      BY <1>4, <1>5, <2>3, <2>5 DEF AtRest
    <3> QED
      BY <3>1, <3>2 DEF AddressFollows
  <2> QED
    BY <2>4, <2>5
<1> QED
  BY <1>5, <1>6, <1>7, <1>8 DEF CycleInv

LEMMA CycleInvariant == CycleSpec => []CycleInv
<1>1. CycleInit => CycleInv
  <2> SUFFICES ASSUME CycleInit PROVE CycleInv
    OBVIOUS
  <2>1. CycleTypeOK
    <3>1. used \in 0..MaxCycleActions
      BY CycleBoundIsNat DEF CycleInit
    <3>2. replacing \in Seq(CycleIds)
      BY EmptySeq DEF CycleInit
    <3> QED
      BY <3>1, <3>2 DEF CycleInit, CycleTypeOK, MaybeCycle
  <2>2. CycleId = NoCycle
    BY CycleIdIsListed DEF CycleId, CycleInit
  <2>3. Len(replacing) = 0
    BY EmptySeq DEF CycleInit
  <2> QED
    BY <2>1, <2>2, <2>3 DEF CycleInit, CycleInv, PickedIsListed, CycleIsStored, AddressFollows, AtRest
<1>2. ASSUME CycleInv, [CycleNext]_cycleVars
      PROVE  CycleInv'
  <2>1. CASE UNCHANGED cycleVars
    BY <1>2, <2>1 DEF CycleInv, cycleVars, CycleTypeOK, PickedIsListed, CycleIsStored, AddressFollows, AtRest,
        UnderWay, CycleId
  <2> QED
    BY <1>2, <2>1, ReloadFollows, PickFollows, ReplacedFollows, VisitFollows DEF CycleNext
<1> QED
  BY <1>1, <1>2, PTL DEF CycleSpec

\* What the address, the choice and the storage have is of its type.
THEOREM CycleTyped == CycleSpec => []CycleTypeOK
BY CycleInvariant, PTL DEF CycleInv

\* What the user chose, in the switcher or by going back, forward or to an address, stays
\* chosen, through late replacements of the address, reloads of the list and links that
\* do not carry it; except when he chose what the address still named, or the list was
\* loaded again, while a replacement was under way.
THEOREM PickKept == CycleSpec => []PickIsKept
<1>1. CycleInv => PickIsKept
  BY DEF CycleInv, PickIsKept, AddressFollows, AtRest
<1> QED
  BY <1>1, CycleInvariant, PTL

-----------------------------------------------------------------------------
\* The list pages (Pages).

\* A change that is shown before it is answered, and an answer after which the page loads
\* its list again.
Advanced(m) == m.of = "change" /\ page.changed = "optimistic"
Rereads(m)  == Reaction(m) \in {"reload", "refetch", "insertAndReload"}

\* The rows the page will show when it has received the answer to m.
RowsAfter(m) ==
    IF m.phase = "done" THEN [shown.rows EXCEPT ![m.id] = m.row]
    ELSE IF Advanced(m) THEN [shown.rows EXCEPT ![m.id] = m.previous] ELSE shown.rows

\* As long as nothing has overlapped there is one request at a time.
OneRequest ==
    ~disturbed => /\ \A k, l \in loads : k = l
                  /\ \A m, n \in moves : m = n
                  /\ loads # {} => moves = {}

LoadsAreHeard ==
    /\ page.changed # "refetch" => \A l \in loads : l.by = "effect"
    /\ ~mounted => loads = {}

Undisturbed == ~disturbed /\ mounted
Ready == shown.status = "ready"
LoadTells(l) ==
    /\ l.view.cycle = view.cycle /\ (page.asked => l.view = view)
    /\ l.phase = "ready" => l.rows = Listed(view)
MoveTells(m) ==
    /\ m.cycle = view.cycle
    /\ Ready /\ (m.phase = "done" => ~Rereads(m)) => RowsAfter(m) = Listed(view)
    /\ Ready /\ m.of = "change" /\ m.phase = "sent" => m.previous # None /\ Listed(view)[m.id] = m.previous
PageFollows ==
    Undisturbed => /\ \A l \in loads : LoadTells(l)
                   /\ \A m \in moves : MoveTells(m)
                   /\ Ready /\ loads = {} /\ moves = {} => shown.rows = Listed(view)

\* A page sends only what it offers.
MovesAreOffered == \A m \in moves : Reaction(m) # "never"

Follows == OneRequest /\ LoadsAreHeard /\ MovesAreOffered /\ PageFollows
PageInv == PageTypeOK /\ Follows

LEMMA PageKinds ==
    ASSUME page \in AllPages
    PROVE  /\ page.keyed \in BOOLEAN /\ page.perCycle \in BOOLEAN /\ page.asked \in BOOLEAN
           /\ page.changed \in {"optimistic", "refetch", "reload", "replace"}
           /\ page.created \in {"insertAndReload", "insert", "reload", "never"}
           /\ page.removed \in {"drop", "reload", "never"}
           /\ page.perCycle => page.asked
           /\ ~page.asked => ~page.keyed
           /\ page.changed = "refetch" => ~page.asked /\ page.created = "insert" /\ page.removed = "drop"
           /\ page.created = "insert" => ~page.asked
<1>1. CASE page = BuilderSales
  BY <1>1 DEF BuilderSales
<1>2. CASE page = Partners
  BY <1>2 DEF Partners
<1>3. CASE page = CyclesList
  BY <1>3 DEF CyclesList
<1>4. CASE page = Organizations
  BY <1>4 DEF Organizations
<1>5. CASE page = ContactsList
  BY <1>5 DEF ContactsList
<1>6. CASE page = StaffAccounts
  BY <1>6 DEF StaffAccounts
<1> QED
  BY <1>1, <1>2, <1>3, <1>4, <1>5, <1>6 DEF AllPages

LEMMA KeyIsKey ==
    ASSUME NEW v \in Views
    PROVE  Key(v) \in Keys
BY DEF Key, Keys

LEMMA ListedIsRows ==
    ASSUME PageTypeOK, NEW v
    PROVE  Listed(v) \in Rows
BY DEF PageTypeOK, Listed, Rows

\* The rows of a view that is not asked for are those of its cycle.
LEMMA ListedByCycle ==
    ASSUME NEW v, NEW w, v.cycle = w.cycle, page.asked => v = w
    PROVE  Listed(v) = Listed(w)
BY DEF Listed

LEMMA WithIsContent ==
    ASSUME PageTypeOK, NEW i \in Ids, NEW row \in RowValues \cup {None}
    PROVE  /\ With(i, row) \in Contents
           /\ With(i, row).status = shown.status
           /\ Ready => With(i, row).rows = [shown.rows EXCEPT ![i] = row]
BY DEF PageTypeOK, With, Contents, Rows, Ready

LEMMA PutIsTyped ==
    ASSUME PageTypeOK, NEW content \in Contents, NEW k \in Keys, Put(content, k)
    PROVE  shown' \in Contents /\ cache' \in [Keys -> Contents \cup {None}]
BY DEF PageTypeOK, Put

LEMMA TurnIsTyped ==
    ASSUME PageTypeOK, NEW v \in Views, TurnTo(v)
    PROVE  /\ view' \in Views /\ shown' \in Contents /\ loads' \subseteq Loads /\ disturbed' \in BOOLEAN
<1>1. Key(v) \in Keys
  BY KeyIsKey
<1>2. shown' \in Contents
  BY <1>1 DEF PageTypeOK, TurnTo
<1>3. Request("effect", v) \in Loads /\ StillHeard(loads) \subseteq Loads
  BY DEF PageTypeOK, Request, Loads, NoRows, Rows, StillHeard
<1>4. loads' \subseteq Loads /\ disturbed' \in BOOLEAN
  BY <1>3 DEF PageTypeOK, TurnTo, StartLoad, Alone
<1> QED
  BY <1>2, <1>4 DEF TurnTo

LEMMA MoveChangesType ==
    ASSUME NEW m \in Moves, NEW row \in RowValues \cup {None}
    PROVE  /\ [m EXCEPT !.phase = "done", !.row = row] \in Moves
           /\ [m EXCEPT !.phase = "failed"] \in Moves
BY DEF Moves

LEMMA EffectsAreRows ==
    ASSUME PageTypeOK, NEW m \in Moves, NEW row \in Effects(m)
    PROVE  row \in RowValues \cup {None}
<1>1. m.of \in {"change", "create", "remove"} /\ m.id \in Ids /\ m.to \in Stages /\ m.cycle \in EventCycles
  BY DEF Moves
<1>2. server[m.id] \in RowValues \cup {None}
  BY <1>1 DEF PageTypeOK, Rows
<1>3. CASE m.of = "change"
  <2>1. row = [server[m.id] EXCEPT !.stage = m.to] /\ server[m.id] # None
    BY <1>3 DEF Effects
  <2> QED
    BY <1>1, <1>2, <2>1 DEF RowValues
<1>4. CASE m.of = "create"
  <2>1. PICK b \in BOOLEAN : row = [cycle |-> m.cycle, mine |-> b, stage |-> "open"]
    BY <1>4 DEF Effects
  <2> QED
    BY <1>1, <2>1 DEF RowValues, Stages
<1>5. CASE m.of = "remove"
  BY <1>5 DEF Effects
<1> QED
  BY <1>1, <1>3, <1>4, <1>5

LEMMA SentIsMove ==
    ASSUME PageTypeOK, NEW of \in {"change", "create", "remove"}, NEW i \in Ids, NEW to \in Stages,
           Send(of, i, to)
    PROVE  moves' \subseteq Moves
<1>1. Key(view) \in Keys /\ shown.rows[i] \in RowValues \cup {None} /\ view.cycle \in EventCycles
  BY KeyIsKey DEF PageTypeOK, Contents, Rows, Views
<1>2. [of |-> of, id |-> i, key |-> Key(view), previous |-> shown.rows[i], to |-> to,
       cycle |-> view.cycle, phase |-> "sent", row |-> None] \in Moves
  BY <1>1 DEF Moves
<1> QED
  BY <1>2 DEF PageTypeOK, Send

LEMMA ActCounts ==
    ASSUME PageTypeOK, Act
    PROVE  actions' \in 0..MaxPageActions
BY PageBoundIsNat DEF PageTypeOK, Act

LEMMA PageNextTyped ==
    ASSUME PageTypeOK, PageNext
    PROVE  PageTypeOK'
<1> USE DEF PageTypeOK
<1>1. CASE SwitchCycle
  <2>1. PICK c \in EventCycles \ {view.cycle} : TurnTo([view EXCEPT !.cycle = c])
    BY <1>1 DEF SwitchCycle
  <2>2. [view EXCEPT !.cycle = c] \in Views
    BY DEF Views
  <2>3. /\ view' \in Views /\ shown' \in Contents /\ loads' \subseteq Loads /\ disturbed' \in BOOLEAN
    BY <2>1, <2>2, TurnIsTyped
  <2>4. actions' \in 0..MaxPageActions
    BY <1>1, ActCounts DEF SwitchCycle
  <2> QED
    BY <1>1, <2>1, <2>3, <2>4 DEF SwitchCycle, TurnTo
<1>2. CASE TypeFilter
  <2>1. actions' \in 0..MaxPageActions
    BY <1>2, ActCounts DEF TypeFilter
  <2> QED
    BY <1>2, <2>1 DEF TypeFilter
<1>3. CASE Debounced
  <2>1. [view EXCEPT !.filter = typed] \in Views
    BY DEF Views
  <2>2. /\ view' \in Views /\ shown' \in Contents /\ loads' \subseteq Loads /\ disturbed' \in BOOLEAN
    BY <1>3, <2>1, TurnIsTyped DEF Debounced
  <2> QED
    BY <1>3, <2>2 DEF Debounced, TurnTo
<1>4. CASE Leave
  <2>1. actions' \in 0..MaxPageActions
    BY <1>4, ActCounts DEF Leave
  <2> QED
    BY <1>4, <2>1 DEF Leave
<1>5. CASE Return
  <2> DEFINE v == [view EXCEPT !.filter = "all"]
  <2>1. v \in Views
    BY DEF Views, Filters
  <2>2. Key(v) \in Keys /\ Loading \in Contents
    BY <2>1, KeyIsKey DEF Loading, Contents, NoRows, Rows
  <2>3. Request("effect", v) \in Loads
    BY <2>1 DEF Request, Loads, NoRows, Rows
  <2> HIDE DEF v
  <2>4. /\ view' = v /\ typed' = "all" /\ loads' = {Request("effect", v)}
        /\ shown' = IF cache[Key(v)] = None THEN Loading ELSE cache[Key(v)]
    BY <1>5 DEF Return, v
  <2>5. shown' \in Contents
    BY <2>2, <2>4
  <2>6. disturbed' \in BOOLEAN
    BY <1>5 DEF Return, Alone
  <2> QED
    BY <1>5, <2>1, <2>3, <2>4, <2>5, <2>6 DEF Return, Filters
<1>6. ASSUME NEW l \in loads, AnswerLoad(l)
      PROVE  PageTypeOK'
  <2>1. l \in Loads /\ Listed(l.view) \in Rows
    BY ListedIsRows
  <2>2. [l EXCEPT !.phase = "ready", !.rows = Listed(l.view)] \in Loads /\ [l EXCEPT !.phase = "error"] \in Loads
    BY <2>1 DEF Loads
  <2>3. loads' \subseteq Loads
    BY <1>6, <2>2 DEF AnswerLoad
  <2> QED
    BY <1>6, <2>3 DEF AnswerLoad
<1>7. ASSUME NEW l \in loads, ReceiveLoad(l)
      PROVE  PageTypeOK'
  <2>1. l \in Loads
    OBVIOUS
  <2>2. l.view \in Views /\ Key(l.view) \in Keys
    BY <2>1, KeyIsKey DEF Loads
  <2>3. [status |-> l.phase, rows |-> l.rows] \in Contents
    BY <1>7, <2>1 DEF Loads, Contents, ReceiveLoad
  <2>4. shown' \in Contents /\ cache' \in [Keys -> Contents \cup {None}]
    BY <1>7, <2>2, <2>3, PutIsTyped DEF ReceiveLoad, KeepShown
  <2>5. disturbed' \in BOOLEAN
    BY <1>7 DEF ReceiveLoad
  <2> QED
    BY <1>7, <2>4, <2>5 DEF ReceiveLoad
<1>8. ASSUME NEW i \in Ids, ChangeRow(i)
      PROVE  PageTypeOK'
  <2>1. PICK to \in Stages \ {shown.rows[i].stage} :
            /\ Send("change", i, to)
            /\ IF page.changed = "optimistic"
               THEN Put(With(i, [shown.rows[i] EXCEPT !.stage = to]), Key(view)) ELSE KeepShown
    BY <1>8 DEF ChangeRow
  <2>2. moves' \subseteq Moves
    BY <2>1, SentIsMove
  <2>3. [shown.rows[i] EXCEPT !.stage = to] \in RowValues \cup {None}
    BY <1>8 DEF ChangeRow, Contents, Rows, RowValues
  <2>4. With(i, [shown.rows[i] EXCEPT !.stage = to]) \in Contents /\ Key(view) \in Keys
    BY <2>3, WithIsContent, KeyIsKey
  <2>5. shown' \in Contents /\ cache' \in [Keys -> Contents \cup {None}]
    BY <2>1, <2>4, PutIsTyped DEF KeepShown
  <2>6. actions' \in 0..MaxPageActions /\ disturbed' \in BOOLEAN
    BY <1>8, ActCounts DEF ChangeRow, Overlap, Alone
  <2> QED
    BY <1>8, <2>2, <2>5, <2>6 DEF ChangeRow
<1>9. ASSUME NEW i \in Ids, CreateRow(i) \/ RemoveRow(i)
      PROVE  PageTypeOK'
  <2>1. moves' \subseteq Moves
    BY <1>9, SentIsMove DEF CreateRow, RemoveRow, Stages
  <2>2. actions' \in 0..MaxPageActions /\ disturbed' \in BOOLEAN
    BY <1>9, ActCounts DEF CreateRow, RemoveRow, Overlap, Alone
  <2> QED
    BY <1>9, <2>1, <2>2 DEF CreateRow, RemoveRow, KeepShown
<1>10. ASSUME NEW m \in moves, AnswerMove(m)
       PROVE  PageTypeOK'
  <2>1. m \in Moves /\ m.id \in Ids /\ server \in [Ids -> RowValues \cup {None}]
    BY DEF Moves, Rows
  <2>2. ASSUME NEW row \in Effects(m)
        PROVE  /\ [server EXCEPT ![m.id] = row] \in Rows
               /\ [m EXCEPT !.phase = "done", !.row = row] \in Moves
    <3>1. row \in RowValues \cup {None}
      BY <2>1, EffectsAreRows
    <3> QED
      BY <2>1, <3>1, MoveChangesType DEF Rows
  <2>3. [m EXCEPT !.phase = "failed"] \in Moves
    BY <2>1, MoveChangesType
  <2>4. server' \in Rows
    BY <1>10, <2>2 DEF AnswerMove
  <2>5. moves' \subseteq Moves
    <3>1. PICK n \in Moves : moves' = (moves \ {m}) \cup {n}
      <4>1. CASE moves' = (moves \ {m}) \cup {[m EXCEPT !.phase = "failed"]}
        BY <2>3, <4>1
      <4>2. CASE \E row \in Effects(m) : moves' = (moves \ {m}) \cup {[m EXCEPT !.phase = "done", !.row = row]}
        BY <2>2, <4>2
      <4> QED
        BY <1>10, <4>1, <4>2 DEF AnswerMove
    <3> QED
      BY <3>1
  <2>6. disturbed' \in BOOLEAN
    BY <1>10 DEF AnswerMove
  <2> QED
    BY <1>10, <2>4, <2>5, <2>6 DEF AnswerMove
<1>11. ASSUME NEW m \in moves, ReceiveMove(m)
       PROVE  PageTypeOK'
  <2>1. m.id \in Ids /\ m.key \in Keys /\ m.previous \in RowValues \cup {None} /\ m.row \in RowValues \cup {None}
    BY DEF Moves
  <2>2. With(m.id, m.previous) \in Contents /\ With(m.id, m.row) \in Contents
    BY <2>1, WithIsContent
  <2>3. shown' \in Contents /\ cache' \in [Keys -> Contents \cup {None}]
    <3>1. \/ UNCHANGED <<shown, cache>> \/ Put(With(m.id, m.previous), m.key) \/ Put(With(m.id, m.row), m.key)
      BY <1>11 DEF ReceiveMove, KeepShown, Undo
    <3> QED
      BY <2>1, <2>2, <3>1, PutIsTyped
  <2>4. Request("effect", view) \in Loads /\ Request("handler", view) \in Loads /\ StillHeard(loads) \subseteq Loads
    BY DEF Request, Loads, NoRows, Rows, StillHeard
  <2>5. loads' \subseteq Loads
    <3>1. \/ loads' = loads \/ StartLoad(view) \/ loads' = loads \cup {Request("handler", view)}
      BY <1>11 DEF ReceiveMove
    <3> QED
      BY <2>4, <3>1 DEF StartLoad
  <2>6. disturbed' \in BOOLEAN
    BY <1>11 DEF ReceiveMove
  <2> QED
    BY <1>11, <2>3, <2>5, <2>6 DEF ReceiveMove
<1> QED
  BY <1>1, <1>2, <1>3, <1>4, <1>5, <1>6, <1>7, <1>8, <1>9, <1>10, <1>11 DEF PageNext

\* What the reactions and the lists of a page depend on.
LEMMA SameReaction ==
    ASSUME page' = page, NEW m
    PROVE  Reaction(m)' = Reaction(m) /\ Rereads(m)' = Rereads(m) /\ Advanced(m)' = Advanced(m)
BY DEF Reaction, Rereads, Advanced

LEMMA SameList ==
    ASSUME page' = page, server' = server, view'.cycle = view.cycle, page.asked => view' = view
    PROVE  Listed(view)' = Listed(view)
BY DEF Listed

\* The load an effect starts has the page for itself when no change is under way.
LEMMA LoadBegins ==
    ASSUME PageInv, NEW v \in Views, page' = page, view' = v, moves' = moves, disturbed' = ~Alone,
           mounted',
           \/ loads' = {Request("effect", v)}
           \/ page.changed # "refetch" /\ loads' = StillHeard(loads) \cup {Request("effect", v)}
    PROVE  Follows'
<1>1. loads' = {Request("effect", v)}
  BY DEF PageInv, Follows, LoadsAreHeard, StillHeard
<1>2. Request("effect", v).by = "effect" /\ Request("effect", v).view = v /\ Request("effect", v).phase = "sent"
  BY DEF Request
<1>3. ~disturbed' => moves' = {}
  BY DEF Alone
<1>4. OneRequest'
  BY <1>1, <1>3 DEF OneRequest
<1>5. LoadsAreHeard'
  BY <1>1, <1>2 DEF LoadsAreHeard
<1>6. MovesAreOffered'
  BY SameReaction DEF PageInv, Follows, MovesAreOffered
<1>7. PageFollows'
  BY <1>1, <1>2, <1>3 DEF PageFollows, LoadTells, Undisturbed
<1> QED
  BY <1>4, <1>5, <1>6, <1>7 DEF Follows

LEMMA TurnFollows ==
    ASSUME PageInv, NEW v \in Views, TurnTo(v), mounted, page.asked \/ v.cycle = view.cycle
    PROVE  Follows'
<1>1. CASE page.asked
  <2>1. page.changed # "refetch"
    BY <1>1, PageKinds DEF PageInv, PageTypeOK
  <2>2. /\ page' = page /\ view' = v /\ moves' = moves /\ disturbed' = ~Alone /\ mounted'
        /\ loads' = StillHeard(loads) \cup {Request("effect", v)}
    BY <1>1 DEF TurnTo, StartLoad
  <2> QED
    BY <2>1, <2>2, LoadBegins
<1>2. CASE ~page.asked
  <2>1. Key(v) = Key(view)
    BY <1>2, PageKinds DEF PageInv, PageTypeOK, Key
  <2>2. /\ page' = page /\ view' = v /\ server' = server /\ moves' = moves /\ mounted' = mounted
        /\ shown' = shown /\ loads' = loads /\ disturbed' = disturbed
    BY <1>2, <2>1 DEF TurnTo
  <2>3. view'.cycle = view.cycle
    BY <1>2, <2>2
  <2>4. Listed(view)' = Listed(view)
    BY <1>2, <2>2, <2>3, SameList
  <2>5. OneRequest' /\ LoadsAreHeard'
    BY <2>2 DEF PageInv, Follows, OneRequest, LoadsAreHeard
  <2>6. MovesAreOffered'
    BY <2>2, SameReaction DEF PageInv, Follows, MovesAreOffered
  <2>7. ASSUME Undisturbed', NEW l \in loads' PROVE LoadTells(l)'
    BY <1>2, <2>2, <2>3, <2>4, <2>7 DEF PageInv, Follows, PageFollows, Undisturbed, LoadTells
  <2>8. ASSUME Undisturbed', NEW m \in moves' PROVE MoveTells(m)'
    <3>1. MoveTells(m)
      BY <2>2, <2>8 DEF PageInv, Follows, PageFollows, Undisturbed
    <3>2. Rereads(m)' = Rereads(m) /\ RowsAfter(m)' = RowsAfter(m) /\ Ready' = Ready
      BY <2>2, SameReaction DEF RowsAfter, Ready
    <3> QED
      BY <2>3, <2>4, <3>1, <3>2 DEF MoveTells
  <2>9. PageFollows'
    BY <2>2, <2>4, <2>7, <2>8 DEF PageInv, Follows, PageFollows, Undisturbed, Ready
  <2> QED
    BY <2>5, <2>6, <2>9 DEF Follows
<1> QED
  BY <1>1, <1>2

\* Typing a filter, leaving the page and stuttering change nothing that is promised.
LEMMA NothingFollows ==
    ASSUME PageInv, page' = page, server' = server, view' = view, shown' = shown, moves' = moves,
           disturbed' = disturbed,
           (mounted' = mounted /\ loads' = loads) \/ (~mounted' /\ loads' = {})
    PROVE  Follows'
<1>1. OneRequest' /\ LoadsAreHeard'
  BY DEF PageInv, Follows, OneRequest, LoadsAreHeard
<1>2. MovesAreOffered'
  BY SameReaction DEF PageInv, Follows, MovesAreOffered
<1>3. ASSUME Undisturbed' PROVE PageFollows'
  <2>1. Undisturbed /\ mounted' = mounted /\ loads' = loads
    BY <1>3 DEF Undisturbed
  <2>2. Listed(view)' = Listed(view)
    BY SameList
  <2>3. ASSUME NEW l \in loads' PROVE LoadTells(l)'
    BY <2>1, <2>2, <2>3 DEF PageInv, Follows, PageFollows, LoadTells
  <2>4. ASSUME NEW m \in moves' PROVE MoveTells(m)'
    <3>1. MoveTells(m)
      BY <2>1, <2>4 DEF PageInv, Follows, PageFollows
    <3>2. Rereads(m)' = Rereads(m) /\ RowsAfter(m)' = RowsAfter(m) /\ Ready' = Ready
      BY SameReaction DEF RowsAfter, Ready
    <3> QED
      BY <2>2, <3>1, <3>2 DEF MoveTells
  <2> QED
    BY <2>1, <2>2, <2>3, <2>4 DEF PageInv, Follows, PageFollows, Ready
<1>4. PageFollows'
  BY <1>3 DEF PageFollows
<1> QED
  BY <1>1, <1>2, <1>4 DEF Follows

LEMMA LoadAnswerFollows ==
    ASSUME PageInv, NEW l \in loads, AnswerLoad(l)
    PROVE  Follows'
<1>1. PICK a \in {[l EXCEPT !.phase = "ready", !.rows = Listed(l.view)], [l EXCEPT !.phase = "error"]} :
          loads' = (loads \ {l}) \cup {a}
  BY DEF AnswerLoad
<1>2. l \in Loads
  BY DEF PageInv, PageTypeOK
<1>3. /\ a.by = l.by /\ a.view = l.view /\ a.phase # "sent"
      /\ a.phase = "ready" => a.rows = Listed(l.view)
  BY <1>2 DEF Loads
<1>4. /\ page' = page /\ server' = server /\ view' = view /\ shown' = shown /\ moves' = moves
      /\ mounted' = mounted /\ disturbed' = disturbed
  BY DEF AnswerLoad
<1>5. OneRequest'
  BY <1>1, <1>4 DEF PageInv, Follows, OneRequest
<1>6. LoadsAreHeard'
  BY <1>1, <1>3, <1>4 DEF PageInv, Follows, LoadsAreHeard
<1>7. MovesAreOffered'
  BY <1>4, SameReaction DEF PageInv, Follows, MovesAreOffered
<1>8. ASSUME Undisturbed' PROVE PageFollows'
  <2>1. Undisturbed /\ loads' = {a} /\ moves' = {}
    BY <1>1, <1>4, <1>8 DEF PageInv, Follows, OneRequest, Undisturbed
  <2>2. LoadTells(l)
    BY <2>1 DEF PageInv, Follows, PageFollows
  <2>3. Listed(view)' = Listed(view)
    BY <1>4, SameList
  <2>4. Listed(l.view) = Listed(view)
    BY <2>2, ListedByCycle DEF LoadTells
  <2>5. LoadTells(a)'
    BY <1>3, <1>4, <2>2, <2>3, <2>4 DEF LoadTells
  <2> QED
    BY <2>1, <2>5 DEF PageFollows
<1>9. PageFollows'
  BY <1>8 DEF PageFollows
<1> QED
  BY <1>5, <1>6, <1>7, <1>9 DEF Follows

LEMMA ReceiveLoadFollows ==
    ASSUME PageInv, NEW l \in loads, ReceiveLoad(l)
    PROVE  Follows'
<1>1. /\ page' = page /\ server' = server /\ view' = view /\ moves' = moves
      /\ mounted' = mounted /\ loads' = loads \ {l} /\ l.phase \in {"ready", "error"}
      /\ ~disturbed' => ~disturbed /\ (l.by = "handler" => l.phase = "ready")
  BY DEF ReceiveLoad
<1>2. OneRequest'
  BY <1>1 DEF PageInv, Follows, OneRequest
<1>3. LoadsAreHeard'
  BY <1>1 DEF PageInv, Follows, LoadsAreHeard
<1>4. MovesAreOffered'
  BY <1>1, SameReaction DEF PageInv, Follows, MovesAreOffered
<1>5. ASSUME Undisturbed' PROVE PageFollows'
  <2>1. Undisturbed /\ loads' = {} /\ moves' = {}
    BY <1>1, <1>5 DEF PageInv, Follows, OneRequest, Undisturbed
  <2>2. LoadTells(l)
    BY <2>1 DEF PageInv, Follows, PageFollows
  <2>3. Listed(view)' = Listed(view)
    BY <1>1, SameList
  <2>4. shown' = [status |-> l.phase, rows |-> l.rows]
    BY <1>1, <1>5 DEF ReceiveLoad, Undisturbed, Put
  <2>5. Ready' => shown.rows' = Listed(view)'
    BY <2>2, <2>3, <2>4 DEF LoadTells, Ready
  <2> QED
    BY <2>1, <2>5 DEF PageFollows
<1>6. PageFollows'
  BY <1>5 DEF PageFollows
<1> QED
  BY <1>2, <1>3, <1>4, <1>6 DEF Follows

\* The rows shown after the answer, for a request that has not been carried out.
LEMMA RowsBefore ==
    ASSUME NEW m, m.phase # "done"
    PROVE  RowsAfter(m) = IF Advanced(m) THEN [shown.rows EXCEPT ![m.id] = m.previous] ELSE shown.rows
BY DEF RowsAfter

\* The user sends a change to the API: if a card is moved in advance, then to where the
\* answer will leave it, and back to where it was otherwise.
LEMMA SendFollows ==
    ASSUME PageInv, NEW of \in {"change", "create", "remove"}, NEW i \in Ids, NEW to \in Stages,
           Send(of, i, to), Overlap, mounted, UNCHANGED <<page, mounted, view, server, loads>>,
           of = "change" => Ready /\ shown.rows[i] # None,
           of = "create" => page.created # "never", of = "remove" => page.removed # "never",
           IF of = "change" /\ page.changed = "optimistic"
           THEN \E row \in RowValues : shown' = With(i, row) ELSE shown' = shown
    PROVE  Follows'
<1>1. PICK n : n = [of |-> of, id |-> i, key |-> Key(view), previous |-> shown.rows[i], to |-> to,
                    cycle |-> view.cycle, phase |-> "sent", row |-> None]
  OBVIOUS
<1>2. moves' = moves \cup {n}
  BY <1>1 DEF Send
<1>3. n.of = of /\ n.id = i /\ n.previous = shown.rows[i] /\ n.cycle = view.cycle /\ n.phase = "sent"
  BY <1>1
<1>4. ~disturbed' => ~disturbed /\ loads = {} /\ moves = {}
  BY DEF Overlap, Alone
<1>5. OneRequest'
  BY <1>2, <1>4 DEF OneRequest
<1>6. LoadsAreHeard'
  BY DEF PageInv, Follows, LoadsAreHeard
<1>7. MovesAreOffered'
  <2>1. Reaction(n) # "never"
    <3>1. page.changed # "never"
      BY PageKinds DEF PageInv, PageTypeOK
    <3> QED
      BY <1>3, <3>1 DEF Reaction
  <2> QED
    BY <1>2, <2>1, SameReaction DEF PageInv, Follows, MovesAreOffered
<1>8. ASSUME Undisturbed' PROVE PageFollows'
  <2>1. Undisturbed /\ loads' = {} /\ moves' = {n} /\ (Ready => shown.rows = Listed(view))
    BY <1>2, <1>4, <1>8 DEF PageInv, Follows, PageFollows, Undisturbed
  <2>2. Listed(view)' = Listed(view)
    BY SameList
  <2>3. Ready' = Ready
    <3>1. PageTypeOK
      BY DEF PageInv
    <3>2. shown'.status = shown.status
      <4>1. CASE \E row \in RowValues : shown' = With(i, row)
        <5>1. PICK row \in RowValues \cup {None} : shown' = With(i, row)
          BY <4>1
        <5>2. With(i, row).status = shown.status
          BY <3>1, WithIsContent
        <5> QED
          BY <5>1, <5>2
      <4>2. CASE shown' = shown
        BY <4>2
      <4> QED
        BY <4>1, <4>2
    <3> QED
      BY <3>2 DEF Ready
  <2>4. Advanced(n)' = Advanced(n) /\ (Advanced(n) <=> of = "change" /\ page.changed = "optimistic")
    BY <1>3, SameReaction DEF Advanced
  <2>5. Ready => RowsAfter(n)' = shown.rows
    <3> SUFFICES ASSUME Ready PROVE RowsAfter(n)' = shown.rows
      OBVIOUS
    <3>1. shown.rows \in [Ids -> RowValues \cup {None}]
      BY DEF PageInv, PageTypeOK, Contents, Rows
    <3>2. CASE Advanced(n)
      <4>1. PICK row \in RowValues : shown' = With(i, row)
        BY <2>4, <3>2
      <4>2. shown'.rows = [shown.rows EXCEPT ![i] = row]
        BY <4>1, WithIsContent DEF PageInv
      <4>3. RowsAfter(n)' = [shown'.rows EXCEPT ![i] = shown.rows[i]]
        BY <1>3, <2>4, <3>2 DEF RowsAfter
      <4> QED
        BY <3>1, <4>2, <4>3
    <3>3. CASE ~Advanced(n)
      <4>1. shown' = shown
        BY <2>4, <3>3
      <4> QED
        BY <1>3, <2>4, <3>3, <4>1 DEF RowsAfter
    <3> QED
      BY <3>2, <3>3
  <2>6. MoveTells(n)'
    BY <1>3, <2>1, <2>2, <2>3, <2>5 DEF MoveTells
  <2> QED
    BY <2>1, <2>6 DEF PageFollows
<1>9. PageFollows'
  BY <1>8 DEF PageFollows
<1> QED
  BY <1>5, <1>6, <1>7, <1>9 DEF Follows

\* What the API does with a row that the page knows, the page will show.
LEMMA AnswerIsListed ==
    ASSUME PageInv, Undisturbed, NEW m \in moves, Ready, m.phase = "sent", NEW row \in Effects(m),
           page' = page, view' = view, server' = [server EXCEPT ![m.id] = row],
           m.of = "create" => ~page.asked
    PROVE  [shown.rows EXCEPT ![m.id] = row] = Listed(view)'
<1>1. /\ m.id \in Ids /\ m.of \in {"change", "create", "remove"} /\ row \in RowValues \cup {None}
      /\ server \in [Ids -> RowValues \cup {None}] /\ shown.rows \in [Ids -> RowValues \cup {None}]
  BY EffectsAreRows DEF PageInv, PageTypeOK, Moves, Rows, Contents
<1>2. MoveTells(m)
  BY DEF PageInv, Follows, PageFollows
<1>3. /\ RowsAfter(m) = Listed(view) /\ m.cycle = view.cycle
      /\ m.of = "change" => m.previous # None /\ Listed(view)[m.id] = m.previous
  BY <1>2 DEF MoveTells
<1>4. RowsAfter(m) = IF Advanced(m) THEN [shown.rows EXCEPT ![m.id] = m.previous] ELSE shown.rows
  BY RowsBefore
<1>5. ASSUME NEW i \in Ids, i # m.id PROVE shown.rows[i] = Listed(view)'[i]
  <2>1. shown.rows[i] = Listed(view)[i]
    BY <1>1, <1>3, <1>4, <1>5
  <2>2. Listed(view)'[i] = Listed(view)[i]
    BY <1>1, <1>5 DEF Listed
  <2> QED
    BY <2>1, <2>2
<1>6. row # None => row.cycle = view.cycle /\ (page.asked /\ view.filter = "mine" => row.mine)
  <2>1. CASE m.of = "change"
    <3>1. row = [server[m.id] EXCEPT !.stage = m.to] /\ server[m.id] # None
      BY <2>1 DEF Effects
    <3>2. Listed(view)[m.id] # None
      BY <1>3, <2>1
    <3>3. server[m.id].cycle = view.cycle /\ (page.asked /\ view.filter = "mine" => server[m.id].mine)
      BY <1>1, <3>2 DEF Listed
    <3>4. row.cycle = server[m.id].cycle /\ row.mine = server[m.id].mine
      BY <1>1, <3>1 DEF RowValues
    <3> QED
      BY <3>3, <3>4
  <2>2. CASE m.of = "create"
    <3>1. PICK b \in BOOLEAN : row = [cycle |-> m.cycle, mine |-> b, stage |-> "open"]
      BY <2>2 DEF Effects
    <3> QED
      BY <1>3, <2>2, <3>1
  <2>3. CASE m.of = "remove"
    BY <2>3 DEF Effects
  <2> QED
    BY <1>1, <2>1, <2>2, <2>3
<1>7. Listed(view)'[m.id] = row
  BY <1>1, <1>6 DEF Listed
<1>8. Listed(view)' = [i \in Ids |-> Listed(view)'[i]]
  BY DEF Listed
<1> QED
  BY <1>1, <1>5, <1>7, <1>8

LEMMA AnswerMoveFollows ==
    ASSUME PageInv, NEW m \in moves, AnswerMove(m)
    PROVE  Follows'
<1>1. m \in Moves /\ m.phase = "sent"
  BY DEF PageInv, PageTypeOK, AnswerMove
<1>2. PICK n : /\ moves' = (moves \ {m}) \cup {n}
               /\ n.of = m.of /\ n.id = m.id /\ n.previous = m.previous /\ n.cycle = m.cycle
               /\ \/ /\ n.phase = "done" /\ n.row \in Effects(m) /\ server' = [server EXCEPT ![m.id] = n.row]
                  \/ n.phase = "failed" /\ (disturbed' \/ server' = server)
  <2>1. CASE \E row \in Effects(m) : /\ moves' = (moves \ {m}) \cup {[m EXCEPT !.phase = "done", !.row = row]}
                                     /\ server' = [server EXCEPT ![m.id] = row]
    <3>1. PICK row \in Effects(m) : /\ moves' = (moves \ {m}) \cup {[m EXCEPT !.phase = "done", !.row = row]}
                                    /\ server' = [server EXCEPT ![m.id] = row]
      BY <2>1
    <3>2. PICK n : n = [m EXCEPT !.phase = "done", !.row = row]
      OBVIOUS
    <3>3. /\ n.of = m.of /\ n.id = m.id /\ n.previous = m.previous /\ n.cycle = m.cycle
          /\ n.phase = "done" /\ n.row = row
      BY <1>1, <3>2 DEF Moves
    <3> QED
      BY <3>1, <3>2, <3>3
  <2>2. CASE /\ moves' = (moves \ {m}) \cup {[m EXCEPT !.phase = "failed"]}
             /\ disturbed' \/ server' = server
    <3>1. PICK n : n = [m EXCEPT !.phase = "failed"]
      OBVIOUS
    <3>2. /\ n.of = m.of /\ n.id = m.id /\ n.previous = m.previous /\ n.cycle = m.cycle
          /\ n.phase = "failed"
      BY <1>1, <3>1 DEF Moves
    <3> QED
      BY <2>2, <3>1, <3>2
  <2> QED
    BY <2>1, <2>2 DEF AnswerMove
<1>3. /\ page' = page /\ view' = view /\ shown' = shown /\ mounted' = mounted /\ loads' = loads
      /\ ~disturbed' => ~disturbed
  <2>1. disturbed' = disturbed \/ disturbed' = TRUE
    BY DEF AnswerMove
  <2>2. ~disturbed' => ~disturbed
    BY <2>1, Zenon
  <2>3. page' = page /\ view' = view /\ shown' = shown /\ mounted' = mounted /\ loads' = loads
    BY DEF AnswerMove
  <2> QED
    BY <2>2, <2>3
<1>4. OneRequest'
  BY <1>2, <1>3 DEF PageInv, Follows, OneRequest
<1>5. LoadsAreHeard'
  BY <1>3 DEF PageInv, Follows, LoadsAreHeard
<1>6. Reaction(n) = Reaction(m) /\ Rereads(n) = Rereads(m) /\ (Advanced(n) <=> Advanced(m))
  BY <1>2 DEF Reaction, Rereads, Advanced
<1>7. Reaction(n)' = Reaction(n) /\ Rereads(n)' = Rereads(n) /\ Advanced(n)' = Advanced(n)
  BY <1>3, SameReaction
<1>8. MovesAreOffered'
  BY <1>2, <1>3, <1>6, SameReaction DEF PageInv, Follows, MovesAreOffered
<1>9. ASSUME Undisturbed' PROVE PageFollows'
  <2>1. Undisturbed /\ loads' = {} /\ moves' = {n}
    BY <1>2, <1>3, <1>9 DEF PageInv, Follows, OneRequest, Undisturbed
  <2>2. MoveTells(m)
    BY <2>1 DEF PageInv, Follows, PageFollows
  <2>3. Ready' = Ready /\ n.cycle = view'.cycle /\ n.phase # "sent"
    BY <1>2, <1>3, <2>2 DEF Ready, MoveTells
  <2>4. ASSUME Ready, n.phase = "done" => ~Rereads(n) PROVE RowsAfter(n)' = Listed(view)'
    <3>1. CASE n.phase = "done"
      <4>1. m.of = "create" => ~page.asked
        <5>1. Reaction(m) # "never" /\ ~Rereads(m)
          BY <1>6, <2>4, <3>1 DEF PageInv, Follows, MovesAreOffered
        <5>2. ASSUME m.of = "create" PROVE page.created = "insert"
          BY <5>1, <5>2, PageKinds DEF PageInv, PageTypeOK, Reaction, Rereads
        <5> QED
          BY <5>2, PageKinds DEF PageInv, PageTypeOK
      <4>2. n.row \in Effects(m) /\ server' = [server EXCEPT ![m.id] = n.row]
        BY <1>2, <3>1
      <4>3. [shown.rows EXCEPT ![m.id] = n.row] = Listed(view)'
        BY <1>1, <1>3, <2>1, <2>4, <4>1, <4>2, AnswerIsListed
      <4> QED
        BY <1>2, <1>3, <3>1, <4>3 DEF RowsAfter
    <3>2. CASE n.phase = "failed"
      <4>1. Listed(view)' = Listed(view)
        BY <1>2, <1>3, <1>9, <3>2, SameList DEF Undisturbed
      <4>2. RowsAfter(m) = Listed(view)
        BY <1>1, <2>2, <2>4 DEF MoveTells
      <4>3. RowsAfter(m) = IF Advanced(m) THEN [shown.rows EXCEPT ![m.id] = m.previous] ELSE shown.rows
        BY <1>1, RowsBefore
      <4>4. RowsAfter(n)' = IF Advanced(m) THEN [shown.rows EXCEPT ![m.id] = m.previous] ELSE shown.rows
        BY <1>2, <1>3, <1>6, <1>7, <3>2 DEF RowsAfter
      <4> QED
        BY <4>1, <4>2, <4>3, <4>4
    <3> QED
      BY <1>2, <3>1, <3>2
  <2>5. MoveTells(n)'
    BY <1>7, <2>3, <2>4 DEF MoveTells
  <2> QED
    BY <2>1, <2>5 DEF PageFollows
<1>10. PageFollows'
  BY <1>9 DEF PageFollows
<1> QED
  BY <1>4, <1>5, <1>8, <1>10 DEF Follows

LEMMA ReceiveMoveFollows ==
    ASSUME PageInv, NEW m \in moves, ReceiveMove(m)
    PROVE  Follows'
<1>1. m \in Moves /\ m.id \in Ids /\ m.previous \in RowValues \cup {None} /\ m.row \in RowValues \cup {None}
  BY DEF PageInv, PageTypeOK, Moves
<1>2. /\ page' = page /\ view' = view /\ server' = server /\ mounted' = mounted /\ moves' = moves \ {m}
      /\ m.phase \in {"done", "failed"}
  BY <1>1 DEF ReceiveMove, Moves
<1>3. ~disturbed' => moves' = {} /\ (Reloads(m) \/ (loads = {} /\ ~disturbed))
  <2>1. disturbed' = (moves # {m} \/ ~(Reloads(m) \/ (loads = {} /\ ~disturbed)))
    BY DEF ReceiveMove
  <2>2. ~disturbed' => moves = {m} /\ (Reloads(m) \/ (loads = {} /\ ~disturbed))
    BY <2>1, Zenon
  <2> QED
    BY <1>2, <2>2
<1>4. \/ loads' = loads
      \/ loads' = StillHeard(loads) \cup {Request("effect", view)}
      \/ loads' = loads \cup {Request("handler", view)} /\ Reaction(m) = "refetch" /\ ~Reloads(m)
  <2>1. CASE mounted /\ m.phase = "done"
    <3>1. CASE Reloads(m)
      <4>1. Reaction(m) # "refetch"
        BY <3>1 DEF Reloads
      <4> QED
        BY <2>1, <3>1, <4>1 DEF ReceiveMove, StartLoad
    <3>2. CASE ~Reloads(m) /\ Reaction(m) = "refetch"
      BY <2>1, <3>2 DEF ReceiveMove
    <3>3. CASE ~Reloads(m) /\ Reaction(m) # "refetch"
      BY <2>1, <3>3 DEF ReceiveMove
    <3> QED
      BY <3>1, <3>2, <3>3
  <2>2. CASE ~mounted \/ m.phase = "failed"
    BY <2>2 DEF ReceiveMove
  <2> QED
    BY <1>2, <2>1, <2>2
<1>5. Reaction(m) = "refetch" => page.changed = "refetch"
  <2>1. m.of \in {"change", "create", "remove"}
    BY <1>1 DEF Moves
  <2>2. page.created # "refetch" /\ page.removed # "refetch"
    BY PageKinds DEF PageInv, PageTypeOK
  <2> QED
    BY <2>1, <2>2 DEF Reaction
<1>6. Reloads(m) => page.changed # "refetch" /\ loads' = {Request("effect", view)}
  <2> SUFFICES ASSUME Reloads(m) PROVE page.changed # "refetch" /\ loads' = {Request("effect", view)}
    OBVIOUS
  <2>1. m.phase = "done" /\ mounted /\ Reaction(m) \in {"reload", "insertAndReload"}
    BY DEF Reloads
  <2>2. m.of \in {"change", "create", "remove"}
    BY <1>1 DEF Moves
  <2>3. page.changed # "refetch"
    BY <2>1, <2>2, PageKinds DEF PageInv, PageTypeOK, Reaction
  <2>4. loads' = StillHeard(loads) \cup {Request("effect", view)}
    BY <2>1 DEF ReceiveMove, StartLoad
  <2> QED
    BY <2>3, <2>4 DEF PageInv, Follows, LoadsAreHeard, StillHeard
<1>7. ~mounted => loads' = loads
  BY DEF ReceiveMove
<1>8. Request("effect", view).by = "effect" /\ Request("handler", view).by = "handler"
  BY DEF Request
<1>9. ASSUME ~disturbed' PROVE moves' = {} /\ \A k, l \in loads' : k = l
  <2>1. CASE Reloads(m)
    BY <1>3, <1>6, <1>9, <2>1
  <2>2. CASE loads = {} /\ ~Reloads(m)
    BY <1>3, <1>4, <1>9, <2>2 DEF StillHeard
  <2> QED
    BY <1>3, <1>9, <2>1, <2>2
<1>10. OneRequest'
  BY <1>9 DEF OneRequest
<1>11. LoadsAreHeard'
  <2>1. ASSUME page.changed # "refetch", NEW l \in loads' PROVE l.by = "effect"
    BY <1>4, <1>5, <1>8, <2>1 DEF PageInv, Follows, LoadsAreHeard, StillHeard
  <2>2. ~mounted => loads' = {}
    BY <1>7 DEF PageInv, Follows, LoadsAreHeard
  <2> QED
    BY <1>2, <2>1, <2>2 DEF LoadsAreHeard
<1>12. MovesAreOffered'
  BY <1>2, SameReaction DEF PageInv, Follows, MovesAreOffered
<1>13. ASSUME Undisturbed' PROVE PageFollows'
  <2>1. mounted /\ ~disturbed' /\ moves' = {}
    BY <1>2, <1>9, <1>13 DEF Undisturbed
  <2>2. Listed(view)' = Listed(view)
    BY <1>2, SameList
  <2>3. ASSUME NEW l \in loads', loads' \in {{Request("effect", view)}, {Request("handler", view)}}
        PROVE  LoadTells(l)'
    <3>1. l.view = view /\ l.phase = "sent"
      BY <2>3 DEF Request
    <3> QED
      BY <1>2, <3>1 DEF LoadTells
  <2>4. CASE Reloads(m)
    BY <1>6, <2>1, <2>3, <2>4 DEF PageFollows
  <2>5. CASE ~Reloads(m)
    <3>1. loads = {} /\ ~disturbed /\ Undisturbed
      BY <1>3, <2>1, <2>5 DEF Undisturbed
    <3>2. MoveTells(m)
      BY <3>1 DEF PageInv, Follows, PageFollows
    <3>3. CASE m.phase = "failed"
      <4>1. Undo(m) /\ loads' = {}
        BY <2>1, <3>1, <3>3 DEF ReceiveMove
      <4>2. Ready => RowsAfter(m) = Listed(view)
        BY <3>2, <3>3 DEF MoveTells
      <4>3. Reaction(m) = "optimistic" <=> Advanced(m)
        BY <1>1, PageKinds DEF PageInv, PageTypeOK, Reaction, Advanced, Moves
      <4>4. RowsAfter(m) = IF Advanced(m) THEN [shown.rows EXCEPT ![m.id] = m.previous] ELSE shown.rows
        BY <3>3, RowsBefore
      <4>5. CASE Advanced(m)
        <5>1. shown' = With(m.id, m.previous)
          BY <4>1, <4>3, <4>5 DEF Undo, Put
        <5>2. /\ With(m.id, m.previous).status = shown.status
              /\ Ready => With(m.id, m.previous).rows = [shown.rows EXCEPT ![m.id] = m.previous]
          BY <1>1, WithIsContent DEF PageInv
        <5> QED
          BY <2>1, <2>2, <4>1, <4>2, <4>4, <4>5, <5>1, <5>2 DEF PageFollows, Ready
      <4>6. CASE ~Advanced(m)
        <5>1. shown' = shown
          BY <4>1, <4>3, <4>6 DEF Undo, KeepShown
        <5> QED
          BY <2>1, <2>2, <4>1, <4>2, <4>4, <4>6, <5>1 DEF PageFollows, Ready
      <4> QED
        BY <4>5, <4>6
    <3>4. CASE m.phase = "done" /\ Reaction(m) = "refetch"
      <4>1. loads' = {Request("handler", view)}
        BY <2>1, <2>5, <3>1, <3>4 DEF ReceiveMove
      <4> QED
        BY <2>1, <2>3, <4>1 DEF PageFollows
    <3>5. CASE m.phase = "done" /\ Reaction(m) # "refetch"
      <4>1. ~Rereads(m)
        BY <2>1, <2>5, <3>5 DEF Reloads, Rereads
      <4>2. loads' = {} /\ shown' = With(m.id, m.row)
        BY <2>1, <2>5, <3>1, <3>5, <4>1 DEF ReceiveMove, Rereads, Put
      <4>3. /\ With(m.id, m.row).status = shown.status
            /\ Ready => With(m.id, m.row).rows = [shown.rows EXCEPT ![m.id] = m.row]
        BY <1>1, WithIsContent DEF PageInv
      <4>4. Ready => [shown.rows EXCEPT ![m.id] = m.row] = Listed(view)
        BY <3>2, <3>5, <4>1 DEF MoveTells, RowsAfter
      <4> QED
        BY <2>1, <2>2, <4>2, <4>3, <4>4 DEF PageFollows, Ready
    <3> QED
      BY <1>2, <3>3, <3>4, <3>5
  <2> QED
    BY <2>4, <2>5
<1>14. PageFollows'
  BY <1>13 DEF PageFollows
<1> QED
  BY <1>10, <1>11, <1>12, <1>14 DEF Follows

\* The first list is that of the cycle and the filter that are shown.
LEMMA PageStarts ==
    ASSUME PageInit
    PROVE  PageInv
<1>1. loads = {Request("effect", view)} /\ moves = {} /\ ~disturbed /\ mounted
  BY DEF PageInit, Request
<1>2. /\ Request("effect", view).by = "effect" /\ Request("effect", view).view = view
      /\ Request("effect", view).phase = "sent"
  BY DEF Request
<1>3. OneRequest
  BY <1>1 DEF OneRequest
<1>4. LoadsAreHeard /\ MovesAreOffered
  BY <1>1, <1>2 DEF LoadsAreHeard, MovesAreOffered
<1>5. PageFollows
  BY <1>1, <1>2 DEF PageFollows, LoadTells
<1>6. PageTypeOK
  <2>1. view \in Views /\ typed \in Filters
    BY DEF PageInit, Views, Filters
  <2>2. server \in Rows
    <3>1. [cycle : EventCycles, mine : BOOLEAN, stage : {"open"}] \subseteq RowValues
      BY DEF RowValues, Stages
    <3>2. server \in [Ids -> [cycle : EventCycles, mine : BOOLEAN, stage : {"open"}] \cup {None}]
      BY DEF PageInit
    <3> QED
      BY <3>1, <3>2 DEF Rows
  <2>3. Loading \in Contents /\ NoRows \in Rows
    BY DEF Loading, Contents, NoRows, Rows
  <2>4. loads \subseteq Loads
    BY <1>1, <2>1, <2>3 DEF Request, Loads
  <2>5. cache \in [Keys -> Contents \cup {None}]
    BY DEF PageInit
  <2>6. actions \in 0..MaxPageActions
    BY PageBoundIsNat DEF PageInit
  <2> QED
    BY <1>1, <2>1, <2>2, <2>3, <2>4, <2>5, <2>6 DEF PageInit, PageTypeOK
<1> QED
  BY <1>3, <1>4, <1>5, <1>6 DEF PageInv, Follows

\* The promise of the list pages: see PageFollows.
LEMMA PageInvariant == PageSpec => []PageInv
<1>1. PageInit => PageInv
  BY PageStarts
<1>2. PageInv /\ [PageNext]_pageVars => PageInv'
  <2> SUFFICES ASSUME PageInv, [PageNext]_pageVars PROVE PageInv'
    OBVIOUS
  <2>1. CASE UNCHANGED pageVars
    <3>1. PageTypeOK'
      BY <2>1 DEF PageInv, PageTypeOK, pageVars
    <3>2. /\ page' = page /\ server' = server /\ view' = view /\ shown' = shown /\ moves' = moves
          /\ disturbed' = disturbed /\ mounted' = mounted /\ loads' = loads
      BY <2>1 DEF pageVars
    <3>3. Follows'
      BY <3>2, NothingFollows
    <3> QED
      BY <3>1, <3>3 DEF PageInv
  <2>2. CASE PageNext
    <3>1. PageTypeOK'
      BY <2>2, PageNextTyped DEF PageInv
    <3>2. page.perCycle => page.asked
      BY PageKinds DEF PageInv, PageTypeOK
    <3>3. view \in Views /\ typed \in Filters
      BY DEF PageInv, PageTypeOK
    <3>4. ASSUME SwitchCycle PROVE Follows'
      <4>1. PICK c \in EventCycles \ {view.cycle} : TurnTo([view EXCEPT !.cycle = c])
        BY <3>4 DEF SwitchCycle
      <4>2. [view EXCEPT !.cycle = c] \in Views
        BY <3>3 DEF Views
      <4>3. page.asked /\ mounted
        BY <3>2, <3>4 DEF SwitchCycle, Act
      <4> QED
        BY <4>1, <4>2, <4>3, TurnFollows
    <3>5. ASSUME TypeFilter PROVE Follows'
      <4>1. /\ page' = page /\ server' = server /\ view' = view /\ shown' = shown /\ moves' = moves
            /\ disturbed' = disturbed /\ mounted' = mounted /\ loads' = loads
        BY <3>5 DEF TypeFilter
      <4> QED
        BY <4>1, NothingFollows
    <3>6. ASSUME Debounced PROVE Follows'
      <4>1. [view EXCEPT !.filter = typed] \in Views /\ [view EXCEPT !.filter = typed].cycle = view.cycle
        BY <3>3 DEF Views
      <4>2. mounted /\ TurnTo([view EXCEPT !.filter = typed])
        BY <3>6 DEF Debounced
      <4> QED
        BY <4>1, <4>2, TurnFollows
    <3>7. ASSUME Leave PROVE Follows'
      <4>1. /\ page' = page /\ server' = server /\ view' = view /\ shown' = shown /\ moves' = moves
            /\ disturbed' = disturbed /\ ~mounted' /\ loads' = {}
        BY <3>7 DEF Leave
      <4> QED
        BY <4>1, NothingFollows
    <3>8. ASSUME Return PROVE Follows'
      <4>1. PICK v : v = [view EXCEPT !.filter = "all"]
        OBVIOUS
      <4>2. v \in Views
        BY <3>3, <4>1 DEF Views, Filters
      <4>3. /\ page' = page /\ view' = v /\ moves' = moves /\ disturbed' = ~Alone /\ mounted'
            /\ loads' = {Request("effect", v)}
        BY <3>8, <4>1 DEF Return
      <4> QED
        BY <4>2, <4>3, LoadBegins
    <3>9. ASSUME NEW l \in loads, AnswerLoad(l) \/ ReceiveLoad(l) PROVE Follows'
      BY <3>9, LoadAnswerFollows, ReceiveLoadFollows
    <3>10. ASSUME NEW i \in Ids, ChangeRow(i) PROVE Follows'
      <4>1. PICK to \in Stages \ {shown.rows[i].stage} :
                /\ Send("change", i, to)
                /\ IF page.changed = "optimistic"
                   THEN Put(With(i, [shown.rows[i] EXCEPT !.stage = to]), Key(view)) ELSE KeepShown
        BY <3>10 DEF ChangeRow
      <4>2. [shown.rows[i] EXCEPT !.stage = to] \in RowValues
        BY <3>10 DEF ChangeRow, PageInv, PageTypeOK, Contents, Rows, RowValues
      <4>3. IF page.changed = "optimistic" THEN \E row \in RowValues : shown' = With(i, row) ELSE shown' = shown
        BY <4>1, <4>2 DEF Put, KeepShown
      <4>4. /\ Overlap /\ mounted /\ UNCHANGED <<page, mounted, view, server, loads>>
            /\ Ready /\ shown.rows[i] # None
        BY <3>10 DEF ChangeRow, Act, Ready
      <4> QED
        BY <4>1, <4>3, <4>4, SendFollows
    <3>11. ASSUME NEW i \in Ids, CreateRow(i) PROVE Follows'
      BY <3>11, SendFollows DEF CreateRow, KeepShown, Act, Stages
    <3>12. ASSUME NEW i \in Ids, RemoveRow(i) PROVE Follows'
      BY <3>12, SendFollows DEF RemoveRow, KeepShown, Act, Stages
    <3>13. ASSUME NEW m \in moves, AnswerMove(m) \/ ReceiveMove(m) PROVE Follows'
      BY <3>13, AnswerMoveFollows, ReceiveMoveFollows
    <3>14. Follows'
      BY <2>2, <3>4, <3>5, <3>6, <3>7, <3>8, <3>9, <3>10, <3>11, <3>12, <3>13 DEF PageNext
    <3> QED
      BY <3>1, <3>14 DEF PageInv
  <2> QED
    BY <2>1, <2>2
<1> QED
  BY <1>1, <1>2, PTL DEF PageSpec

\* What a page, its cache and its requests have is of its type.
THEOREM PageTyped == PageSpec => []PageTypeOK
BY PageInvariant, PTL DEF PageInv

\* A page whose requests are all answered shows the rows the API has for the cycle and the
\* filters selected: a late answer for an earlier view is not shown, and a card moved in
\* advance has gone back if the API refused.  It need not when requests have overlapped,
\* or an answer was lost, since the last load that had the page for itself.
THEOREM PageAgrees == PageSpec => []SettledPageAgrees
<1>1. PageInv => SettledPageAgrees
  BY DEF PageInv, Follows, PageFollows, SettledPageAgrees, Undisturbed, Ready
<1> QED
  BY <1>1, PageInvariant, PTL

-----------------------------------------------------------------------------
\* The venue map page (MapEditor).

\* A finite set of numbers is counted off in its order.
UpTo(S, b) == {c \in S : c <= b}

LEMMA CountedOff ==
    ASSUME NEW S \in SUBSET Nat, IsFiniteSet(S)
    PROVE  /\ Cardinality(S) \in Nat
           /\ \A b \in S : Cardinality(UpTo(S, b)) \in 1..Cardinality(S)
           /\ \A b, c \in S : b < c => Cardinality(UpTo(S, b)) < Cardinality(UpTo(S, c))
           /\ \A i \in 1..Cardinality(S) : \E b \in S : Cardinality(UpTo(S, b)) = i
<1> DEFINE n == Cardinality(S)
           rank == [b \in S |-> Cardinality(UpTo(S, b))]
<1>1. n \in Nat
  BY FS_CardinalityType
<1>2. ASSUME NEW b \in S
      PROVE  IsFiniteSet(UpTo(S, b)) /\ Cardinality(UpTo(S, b)) \in 1..n
  <2>1. UpTo(S, b) \in SUBSET S /\ b \in UpTo(S, b)
    BY DEF UpTo
  <2>2. IsFiniteSet(UpTo(S, b)) /\ Cardinality(UpTo(S, b)) <= n
    BY <2>1, FS_Subset
  <2>3. Cardinality(UpTo(S, b)) \in Nat /\ Cardinality(UpTo(S, b)) # 0
    BY <2>1, <2>2, FS_CardinalityType, FS_EmptySet
  <2> QED
    BY <1>1, <2>2, <2>3
<1>3. ASSUME NEW b \in S, NEW c \in S, b < c
      PROVE  Cardinality(UpTo(S, b)) < Cardinality(UpTo(S, c))
  <2>1. UpTo(S, b) \in SUBSET UpTo(S, c) /\ c \in UpTo(S, c) /\ c \notin UpTo(S, b)
    <3>1. \A d \in S : d <= b => d <= c
      BY <1>3
    <3>2. b \in Nat /\ c \in Nat /\ c <= c /\ ~(c <= b)
      BY <1>3
    <3> QED
      BY <3>1, <3>2 DEF UpTo
  <2>2. /\ Cardinality(UpTo(S, b)) <= Cardinality(UpTo(S, c))
        /\ Cardinality(UpTo(S, c)) # Cardinality(UpTo(S, b))
    BY <1>2, <2>1, FS_Subset
  <2> QED
    BY <1>1, <1>2, <2>2
<1>4. rank \in Injection(S, 1..n)
  <2>1. rank \in [S -> 1..n]
    BY <1>2
  <2>2. ASSUME NEW b \in S, NEW c \in S, rank[b] = rank[c] PROVE b = c
    BY <1>1, <1>2, <1>3, <2>2
  <2> QED
    BY <2>1, <2>2 DEF Injection, IsInjective
<1>5. IsFiniteSet(1..n) /\ Cardinality(1..n) = n
  BY <1>1, FS_Interval
<1>6. rank \in Surjection(S, 1..n)
  BY <1>4, <1>5, FS_Injection
<1>7. \A i \in 1..n : \E b \in S : rank[b] = i
  BY <1>6 DEF Surjection
<1> QED
  BY <1>1, <1>2, <1>3, <1>7

LEMMA LeastExists ==
    ASSUME NEW S \in SUBSET Nat, IsFiniteSet(S), S # {}
    PROVE  \E i \in S : \A j \in S : i <= j
<1>1. Cardinality(S) \in Nat /\ Cardinality(S) # 0
  BY FS_CardinalityType, FS_EmptySet
<1>2. PICK i \in S : Cardinality(UpTo(S, i)) = 1
  BY <1>1, CountedOff
<1>3. ASSUME NEW j \in S, j < i PROVE FALSE
  BY <1>1, <1>2, <1>3, CountedOff
<1> QED
  BY <1>3

\* The booths of a set in the order of the catalog: each of them once.
LEMMA InOrderCountsOff ==
    ASSUME NEW S \in SUBSET Booths
    PROVE  /\ Cardinality(S) \in Nat /\ Cardinality(S) <= NumBooths
           /\ InOrder(S) \in [1..Cardinality(S) -> S]
           /\ \A i, j \in 1..Cardinality(S) : InOrder(S)[i] = InOrder(S)[j] => i = j
           /\ \A b \in S : \E i \in 1..Cardinality(S) : InOrder(S)[i] = b
<1>1. IsFiniteSet(Booths) /\ Cardinality(Booths) = NumBooths
  BY HallIsSized, FS_Interval DEF Booths
<1>2. IsFiniteSet(S) /\ Cardinality(S) <= NumBooths /\ S \in SUBSET Nat
  <2>1. Booths \in SUBSET Nat
    BY HallIsSized DEF Booths
  <2> QED
    BY <1>1, <2>1, FS_Subset
<1>3. \A i \in 1..Cardinality(S) : InOrder(S)[i] = CHOOSE b \in S : Cardinality(UpTo(S, b)) = i
  BY DEF InOrder, UpTo
<1>4. DOMAIN InOrder(S) = 1..Cardinality(S) /\ InOrder(S) = [i \in DOMAIN InOrder(S) |-> InOrder(S)[i]]
  BY DEF InOrder
<1>5. \A i \in 1..Cardinality(S) : InOrder(S)[i] \in S /\ Cardinality(UpTo(S, InOrder(S)[i])) = i
  <2>1. \A i \in 1..Cardinality(S) : \E b \in S : Cardinality(UpTo(S, b)) = i
    BY <1>2, CountedOff
  <2> QED
    BY <1>3, <2>1
<1>6. ASSUME NEW b \in S PROVE \E i \in 1..Cardinality(S) : InOrder(S)[i] = b
  <2>1. Cardinality(UpTo(S, b)) \in 1..Cardinality(S)
    BY <1>2, CountedOff
  <2> DEFINE i == Cardinality(UpTo(S, b))
  <2>2. PICK c \in S : c = InOrder(S)[i] /\ Cardinality(UpTo(S, c)) = i
    BY <1>5, <2>1
  <2>3. c = b
    <3>1. Cardinality(UpTo(S, b)) \in Nat /\ Cardinality(UpTo(S, c)) = Cardinality(UpTo(S, b))
      BY <2>1, <2>2
    <3>2. ~(c < b) /\ ~(b < c)
      BY <1>2, <3>1, CountedOff
    <3> QED
      BY <1>2, <3>2
  <2> QED
    BY <2>1, <2>2, <2>3
<1> QED
  BY <1>2, <1>4, <1>5, <1>6, CountedOff

LEMMA HallValues ==
    /\ Spots \subseteq Nat /\ Booths \subseteq Nat /\ Booths \subseteq Spots /\ AreaIds \subseteq Nat
    /\ 0 \notin AreaIds /\ 0 \notin Booths
    /\ \A s \in Parks : s \notin Spots
    /\ \A i \in 1..NumBooths : ParkedRow + i - 1 \in Parks
    /\ NoArea \notin Booths /\ NoArea \notin AreaIds /\ NoArea \notin Areas /\ NoArea \notin Layouts
    /\ NoArea \notin Spots /\ NoArea \notin [Booths -> Spots]
<1>1. /\ Spots \subseteq Nat /\ Booths \subseteq Nat /\ Booths \subseteq Spots /\ AreaIds \subseteq Nat
      /\ 0 \notin AreaIds /\ 0 \notin Booths
  BY HallIsSized, MapBoundsAreNat DEF Booths, Spots, AreaIds
<1>2. \A s \in Parks : s \notin Spots
  BY HallIsSized DEF Parks, Spots, ParkedRow
<1>3. ASSUME NEW i \in 1..NumBooths PROVE ParkedRow + i - 1 \in Parks
  <2>1. i - 1 \in 0..(NumBooths - 1) /\ ParkedRow + i - 1 = ParkedRow + (i - 1)
    BY HallIsSized DEF ParkedRow
  <2> QED
    BY <2>1 DEF Parks
<1> QED
  BY <1>1, <1>2, <1>3, NoAreaIsNone

\* The area that is found for a booth is one with its code; without one there is none.
LEMMA FoundHasCode ==
    ASSUME NEW l, NEW b
    PROVE  /\ FindBoothArea(b, l) \in AreaIds \cup {0}
           /\ FindBoothArea(b, l) # 0 =>
                  l[FindBoothArea(b, l)] # NoArea /\ l[FindBoothArea(b, l)].code = b
           /\ FindBoothArea(b, l) = 0 => \A j \in AreaIds : l[j] # NoArea => l[j].code # b
<1> DEFINE found == {i \in Existing(l) : l[i].code = b}
<1>1. FindBoothArea(b, l) = IF found = {} THEN 0 ELSE CHOOSE i \in found : \A j \in found : i <= j
  BY DEF FindBoothArea
<1>2. found \in SUBSET AreaIds /\ \A i \in AreaIds : i \in found <=> (l[i] # NoArea /\ l[i].code = b)
  BY DEF Existing
<1> HIDE DEF found
<1>3. CASE found = {}
  BY <1>1, <1>2, <1>3
<1>4. CASE found # {}
  <2>1. IsFiniteSet(AreaIds)
    BY MapBoundsAreNat, FS_Interval DEF AreaIds
  <2>2. IsFiniteSet(found) /\ found \in SUBSET Nat
    BY <1>2, <2>1, FS_Subset, HallValues
  <2>3. \E i \in found : \A j \in found : i <= j
    BY <1>4, <2>2, LeastExists
  <2>4. FindBoothArea(b, l) \in found
    BY <1>1, <1>4, <2>3
  <2> QED
    BY <1>2, <2>4, HallValues
<1> QED
  BY <1>3, <1>4

LEMMA FoundBySameCodes ==
    ASSUME NEW l, NEW m, NEW b,
           \A i \in AreaIds : (l[i] # NoArea /\ l[i].code = b) <=> (m[i] # NoArea /\ m[i].code = b)
    PROVE  FindBoothArea(b, l) = FindBoothArea(b, m)
<1> DEFINE found == {i \in Existing(l) : l[i].code = b}
           other == {i \in Existing(m) : m[i].code = b}
<1>1. found = other
  BY DEF Existing
<1>2. /\ FindBoothArea(b, l) = IF found = {} THEN 0 ELSE CHOOSE i \in found : \A j \in found : i <= j
      /\ FindBoothArea(b, m) = IF other = {} THEN 0 ELSE CHOOSE i \in other : \A j \in other : i <= j
  BY DEF FindBoothArea
<1> HIDE DEF found, other
<1> QED
  BY <1>1, <1>2

LEMMA PersistIsWrite ==
    ASSUME NEW b \in Booths, NEW s \in Spots, NEW l
    PROVE  /\ Persist(b, s, l) \in Writes
           /\ Persist(b, s, l).area = FindBoothArea(b, l) /\ Persist(b, s, l).code = b
           /\ Persist(b, s, l).spot = s /\ Persist(b, s, l).fatal = TRUE
BY FoundHasCode DEF Persist, Writes

LEMMA OrderedBooths ==
    ASSUME NEW S \in SUBSET Booths
    PROVE  /\ InOrder(S) \in Seq(Booths) /\ Len(InOrder(S)) = Cardinality(S) /\ Len(InOrder(S)) \in 0..NumBooths
           /\ \A i \in 1..Len(InOrder(S)) : InOrder(S)[i] \in S
           /\ \A i, j \in 1..Len(InOrder(S)) : InOrder(S)[i] = InOrder(S)[j] => i = j
           /\ \A b \in S : \E i \in 1..Len(InOrder(S)) : InOrder(S)[i] = b
<1>1. /\ Cardinality(S) \in Nat /\ Cardinality(S) <= NumBooths
      /\ InOrder(S) \in [1..Cardinality(S) -> S]
      /\ \A i, j \in 1..Cardinality(S) : InOrder(S)[i] = InOrder(S)[j] => i = j
      /\ \A b \in S : \E i \in 1..Cardinality(S) : InOrder(S)[i] = b
  BY InOrderCountsOff
<1>2. InOrder(S) \in Seq(Booths) /\ Len(InOrder(S)) = Cardinality(S)
  BY <1>1
<1> QED
  BY <1>1, <1>2, HallIsSized

-----------------------------------------------------------------------------
LEMMA ThreeJoined ==
    ASSUME NEW S, NEW s \in Seq(S), NEW t \in Seq(S), NEW u \in Seq(S), NEW r, r = s \o t \o u
    PROVE  /\ r \in Seq(S) /\ Len(r) = Len(s) + Len(t) + Len(u)
           /\ \A k \in 1..Len(s) : r[k] = s[k]
           /\ \A k \in 1..Len(t) : r[Len(s) + k] = t[k]
           /\ \A k \in 1..Len(u) : r[Len(s) + Len(t) + k] = u[k]
<1>1. s \o t \in Seq(S) /\ Len(s \o t) = Len(s) + Len(t) /\ Len(s) \in Nat /\ Len(t) \in Nat /\ Len(u) \in Nat
  BY ConcatProperties
<1>2. r \in Seq(S) /\ Len(r) = Len(s \o t) + Len(u)
  BY <1>1, ConcatProperties
<1>3. ASSUME NEW k \in 1..Len(s) PROVE r[k] = s[k]
  <2>1. (s \o t)[k] = s[k]
    BY <1>1, ConcatProperties
  <2>2. ((s \o t) \o u)[k] = (s \o t)[k]
    BY <1>1, ConcatProperties
  <2> QED
    BY <2>1, <2>2
<1>4. ASSUME NEW k \in 1..Len(t) PROVE r[Len(s) + k] = t[k]
  <2>1. (s \o t)[Len(s) + k] = t[k]
    BY <1>1, ConcatProperties
  <2>2. ((s \o t) \o u)[Len(s) + k] = (s \o t)[Len(s) + k]
    BY <1>1, ConcatProperties
  <2> QED
    BY <2>1, <2>2
<1>5. ASSUME NEW k \in 1..Len(u) PROVE r[Len(s) + Len(t) + k] = u[k]
  BY <1>1, ConcatProperties
<1> QED
  BY <1>1, <1>2, <1>3, <1>4, <1>5

\* The requests of an import: each booth that moves is parked, then each is placed, then
\* those without an area get one.
LEMMA ImportInThreeParts ==
    ASSUME NEW n, n = Len(BoothMoves), NEW p, p = Len(BoothCreates), mapBooths \in [Booths -> Spots]
    PROVE  /\ n \in 0..NumBooths /\ p \in 0..NumBooths
           /\ ImportWrites \in Seq(Writes) /\ Len(ImportWrites) = n + n + p
           /\ \A k \in 1..n : /\ BoothMoves[k] \in Booths
                              /\ ImportWrites[k] = [area |-> FindBoothArea(BoothMoves[k], plan), code |-> BoothMoves[k],
                                                    spot |-> ParkedRow + k - 1, fatal |-> TRUE]
                              /\ ImportWrites[n + k] = [area |-> FindBoothArea(BoothMoves[k], plan), code |-> BoothMoves[k],
                                                        spot |-> mapBooths[BoothMoves[k]], fatal |-> FALSE]
           /\ \A k \in 1..p : /\ BoothCreates[k] \in Booths
                              /\ ImportWrites[n + n + k] = [area |-> FindBoothArea(BoothCreates[k], plan), code |-> BoothCreates[k],
                                                            spot |-> mapBooths[BoothCreates[k]], fatal |-> FALSE]
<1> DEFINE Place(s) == [i \in 1..Len(s) |-> [Persist(s[i], mapBooths[s[i]], plan) EXCEPT !.fatal = FALSE]]
<1>1. /\ n \in 0..NumBooths /\ BoothMoves \in Seq(Booths) /\ p \in 0..NumBooths /\ BoothCreates \in Seq(Booths)
  BY OrderedBooths DEF BoothMoves, BoothCreates
<1>2. /\ \A k \in 1..n : BoothMoves[k] \in Booths
      /\ \A k \in 1..p : BoothCreates[k] \in Booths
  BY <1>1
<1>3. ASSUME NEW s \in Seq(Booths)
      PROVE  /\ Place(s) \in Seq(Writes) /\ Len(Place(s)) = Len(s)
             /\ \A k \in 1..Len(s) : Place(s)[k] = [area |-> FindBoothArea(s[k], plan), code |-> s[k],
                                                    spot |-> mapBooths[s[k]], fatal |-> FALSE]
  <2>1. Len(s) \in Nat /\ \A k \in 1..Len(s) : s[k] \in Booths
    BY <1>3
  <2>2. ASSUME NEW k \in 1..Len(s)
        PROVE  /\ Place(s)[k] = [area |-> FindBoothArea(s[k], plan), code |-> s[k],
                                 spot |-> mapBooths[s[k]], fatal |-> FALSE]
               /\ Place(s)[k] \in Writes
    <3>1. Place(s)[k] = [Persist(s[k], mapBooths[s[k]], plan) EXCEPT !.fatal = FALSE]
      BY <2>2
    <3>2. Place(s)[k] = [area |-> FindBoothArea(s[k], plan), code |-> s[k], spot |-> mapBooths[s[k]], fatal |-> FALSE]
      BY <3>1 DEF Persist
    <3>3. FindBoothArea(s[k], plan) \in AreaIds \cup {0} /\ mapBooths[s[k]] \in Spots
      BY <2>1, FoundHasCode
    <3> QED
      BY <2>1, <3>2, <3>3 DEF Writes
  <2>3. Place(s) \in [1..Len(s) -> Writes]
    BY <2>2
  <2> QED
    BY <2>1, <2>2, <2>3
<1>4. /\ Parking \in Seq(Writes) /\ Len(Parking) = n
      /\ \A k \in 1..n : Parking[k] = [area |-> FindBoothArea(BoothMoves[k], plan), code |-> BoothMoves[k],
                                       spot |-> ParkedRow + k - 1, fatal |-> TRUE]
  <2>1. ASSUME NEW k \in 1..n
        PROVE  /\ Parking[k] = [area |-> FindBoothArea(BoothMoves[k], plan), code |-> BoothMoves[k],
                                spot |-> ParkedRow + k - 1, fatal |-> TRUE]
               /\ Parking[k] \in Writes
    <3>1. Parking[k] = [area |-> FindBoothArea(BoothMoves[k], plan), code |-> BoothMoves[k],
                        spot |-> ParkedRow + k - 1, fatal |-> TRUE]
      BY DEF Parking
    <3>2. FindBoothArea(BoothMoves[k], plan) \in AreaIds \cup {0}
      BY FoundHasCode
    <3>3. k \in 1..NumBooths
      BY <1>1, HallIsSized
    <3>4. ParkedRow + k - 1 \in Parks
      BY <3>3, HallValues
    <3> QED
      BY <1>2, <3>1, <3>2, <3>4 DEF Writes
  <2>2. DOMAIN Parking = 1..n /\ Parking = [i \in 1..n |-> Parking[i]]
    BY DEF Parking
  <2>3. Parking \in [1..n -> Writes]
    BY <2>1, <2>2
  <2> QED
    BY <1>1, <2>1, <2>3
<1>5. ImportWrites = Parking \o Place(BoothMoves) \o Place(BoothCreates)
  BY DEF ImportWrites
<1>6. /\ Place(BoothMoves) \in Seq(Writes) /\ Len(Place(BoothMoves)) = n
      /\ \A k \in 1..n : Place(BoothMoves)[k] = [area |-> FindBoothArea(BoothMoves[k], plan), code |-> BoothMoves[k],
                                            spot |-> mapBooths[BoothMoves[k]], fatal |-> FALSE]
  BY <1>1, <1>3
<1>7. /\ Place(BoothCreates) \in Seq(Writes) /\ Len(Place(BoothCreates)) = p
      /\ \A k \in 1..p : Place(BoothCreates)[k] = [area |-> FindBoothArea(BoothCreates[k], plan), code |-> BoothCreates[k],
                                              spot |-> mapBooths[BoothCreates[k]], fatal |-> FALSE]
  BY <1>1, <1>3
<1> HIDE DEF Place
<1>8. /\ ImportWrites \in Seq(Writes) /\ Len(ImportWrites) = n + n + p
      /\ \A k \in 1..n : ImportWrites[k] = Parking[k]
      /\ \A k \in 1..n : ImportWrites[n + k] = Place(BoothMoves)[k]
      /\ \A k \in 1..p : ImportWrites[n + n + k] = Place(BoothCreates)[k]
  <2>1. Parking \in Seq(Writes) /\ Len(Parking) = n
    BY <1>4
  <2>2. /\ Place(BoothMoves) \in Seq(Writes) /\ Len(Place(BoothMoves)) = n
        /\ Place(BoothCreates) \in Seq(Writes) /\ Len(Place(BoothCreates)) = p
    BY <1>6, <1>7
  <2>3. /\ ImportWrites \in Seq(Writes)
        /\ Len(ImportWrites) = Len(Parking) + Len(Place(BoothMoves)) + Len(Place(BoothCreates))
        /\ \A k \in 1..Len(Parking) : ImportWrites[k] = Parking[k]
        /\ \A k \in 1..Len(Place(BoothMoves)) : ImportWrites[Len(Parking) + k] = Place(BoothMoves)[k]
        /\ \A k \in 1..Len(Place(BoothCreates)) :
               ImportWrites[Len(Parking) + Len(Place(BoothMoves)) + k] = Place(BoothCreates)[k]
    <3> DEFINE A == Parking
               B == Place(BoothMoves)
               C == Place(BoothCreates)
    <3>1. A \in Seq(Writes) /\ B \in Seq(Writes) /\ C \in Seq(Writes) /\ ImportWrites = A \o B \o C
      BY <1>5, <2>1, <2>2
    <3> HIDE DEF A, B, C
    <3>2. /\ ImportWrites \in Seq(Writes) /\ Len(ImportWrites) = Len(A) + Len(B) + Len(C)
          /\ \A k \in 1..Len(A) : ImportWrites[k] = A[k]
          /\ \A k \in 1..Len(B) : ImportWrites[Len(A) + k] = B[k]
          /\ \A k \in 1..Len(C) : ImportWrites[Len(A) + Len(B) + k] = C[k]
      BY <3>1, ThreeJoined
    <3> QED
      BY <3>2 DEF A, B, C
  <2> QED
    BY <2>1, <2>2, <2>3, Zenon
<1>9. /\ n \in 0..NumBooths /\ p \in 0..NumBooths
      /\ ImportWrites \in Seq(Writes) /\ Len(ImportWrites) = n + n + p
  BY <1>1, <1>8
<1>10. ASSUME NEW k \in 1..n
       PROVE  /\ BoothMoves[k] \in Booths
              /\ ImportWrites[k] = [area |-> FindBoothArea(BoothMoves[k], plan), code |-> BoothMoves[k],
                                    spot |-> ParkedRow + k - 1, fatal |-> TRUE]
              /\ ImportWrites[n + k] = [area |-> FindBoothArea(BoothMoves[k], plan), code |-> BoothMoves[k],
                                        spot |-> mapBooths[BoothMoves[k]], fatal |-> FALSE]
  BY <1>2, <1>4, <1>6, <1>8, Zenon
<1>11. ASSUME NEW k \in 1..p
       PROVE  /\ BoothCreates[k] \in Booths
              /\ ImportWrites[n + n + k] = [area |-> FindBoothArea(BoothCreates[k], plan), code |-> BoothCreates[k],
                                            spot |-> mapBooths[BoothCreates[k]], fatal |-> FALSE]
  BY <1>2, <1>7, <1>8, Zenon
<1> QED
  BY <1>9, <1>10, <1>11, Zenon

-----------------------------------------------------------------------------
\* Tasks and their types.

LEMMA TaskIsTask ==
    ASSUME NEW of \in {"import", "pick", "move", "layout"}, NEW b \in Booths \cup {0}, NEW todo \in Seq(Writes)
    PROVE  /\ Task(of, b, todo) \in Tasks
           /\ Task(of, b, todo).of = of /\ Task(of, b, todo).todo = todo /\ ~Task(of, b, todo).brokenOff
BY DEF Task, Tasks, Nowhere

LEMMA CancelledAreTasks ==
    ASSUME NEW ts \in SUBSET Tasks
    PROVE  Cancelled(ts) \subseteq Tasks
<1>1. ASSUME NEW t \in Tasks PROVE [t EXCEPT !.cancelled = TRUE] \in Tasks
  BY <1>1 DEF Tasks
<1> QED
  BY <1>1 DEF Cancelled

LEMMA BesideAreTasks ==
    ASSUME NEW ts \in SUBSET Tasks, NEW t \in Tasks
    PROVE  Beside(ts, t) \subseteq Tasks
<1>1. ASSUME NEW u \in Tasks, NEW a \in BOOLEAN PROVE [u EXCEPT !.alone = a] \in Tasks
  BY <1>1 DEF Tasks
<1>2. (ts = {} /\ plan = places) \in BOOLEAN
  OBVIOUS
<1> QED
  BY <1>1, <1>2 DEF Beside

LEMMA WrittenLayout ==
    ASSUME MapTypeOK, NEW w \in Writes, NEW i \in AreaIds, Written(w, i)
    PROVE  /\ places' \in Layouts
           /\ places'[i] = [code |-> w.code, spot |-> w.spot] /\ places'[i] # NoArea
           /\ \A j \in AreaIds : j # i => places'[j] = places[j]
           /\ IF w.area = 0 THEN places[i] = NoArea ELSE i = w.area /\ places[i] # NoArea
           /\ \A j \in AreaIds : j # i /\ places[j] # NoArea => places[j].spot # w.spot
<1>1. [code |-> w.code, spot |-> w.spot] \in Areas
  BY DEF Areas, Writes
<1>2. places' = [places EXCEPT ![i] = [code |-> w.code, spot |-> w.spot]] /\ places \in Layouts
  BY DEF Written, MapTypeOK
<1>3. /\ IF w.area = 0 THEN i \in FreshIds ELSE i = w.area /\ i \in Existing(places)
      /\ FreeFor(i, w.spot)
  BY DEF Written
<1>4. IF w.area = 0 THEN places[i] = NoArea ELSE i = w.area /\ places[i] # NoArea
  BY <1>3 DEF FreshIds, Existing
<1>5. \A j \in AreaIds : j # i /\ places[j] # NoArea => places[j].spot # w.spot
  BY <1>3 DEF FreeFor, Existing
<1> QED
  BY <1>1, <1>2, <1>4, <1>5, HallValues DEF Layouts

\* What is left of a task after its next request.
LEMMA RestOfTask ==
    ASSUME NEW t \in Tasks, t.todo # <<>>
    PROVE  /\ Head(t.todo) \in Writes /\ Tail(t.todo) \in Seq(Writes)
           /\ Len(t.todo) \in Nat \ {0} /\ Len(Tail(t.todo)) = Len(t.todo) - 1
           /\ Head(t.todo) = t.todo[1]
           /\ \A k \in 1..Len(Tail(t.todo)) : Tail(t.todo)[k] = t.todo[k + 1]
<1>1. t.todo \in Seq(Writes)
  BY DEF Tasks
<1> QED
  BY <1>1, HeadTailProperties

\* A step of a task: its next request is carried out, refused or lost.
LEMMA TaskSteps ==
    ASSUME MapTypeOK, NEW t \in tasks, TaskStep(t)
    PROVE  /\ t.todo # <<>> /\ Head(t.todo) \in Writes
           /\ \E u \in Tasks :
                  /\ tasks' = (tasks \ {t}) \cup {u}
                  /\ u.of = t.of /\ (u.alone => t.alone) /\ (u.brokenOff \/ u.todo = Tail(t.todo))
                  /\ u.todo = <<>> \/ u.todo = Tail(t.todo)
                  /\ u.brokenOff => t.brokenOff \/ u.todo = <<>>
                  /\ \/ \E i \in AreaIds : Written(Head(t.todo), i) /\ (u.brokenOff = t.brokenOff) /\ u.todo = Tail(t.todo)
                     \/ /\ UNCHANGED places
                        /\ ~u.brokenOff /\ u.alone => ~FreeFor(Head(t.todo).area, Head(t.todo).spot) /\ ~Head(t.todo).fatal
                     \/ ~u.alone /\ \E i \in AreaIds : Written(Head(t.todo), i)
<1> DEFINE w == Head(t.todo)
<1>1. t \in Tasks /\ t.todo # <<>>
  BY DEF MapTypeOK, TaskStep, Done
<1>2. w \in Writes /\ Tail(t.todo) \in Seq(Writes) /\ w.fatal \in BOOLEAN /\ <<>> \in Seq(Writes)
  <2>1. w \in Writes /\ Tail(t.todo) \in Seq(Writes)
    BY <1>1, RestOfTask
  <2>2. w.fatal \in BOOLEAN
    BY <2>1 DEF Writes
  <2> QED
    BY <2>1, <2>2
<1> HIDE DEF w
<1>3. CASE \E i \in AreaIds : Written(w, i) /\ Step(t, [t EXCEPT !.todo = Tail(@), !.area = i,
                                                            !.wrote = @ \/ ~(t.of = "import" /\ w.fatal)])
  <2>1. PICK i \in AreaIds : Written(w, i) /\ Step(t, [t EXCEPT !.todo = Tail(@), !.area = i,
                                                            !.wrote = @ \/ ~(t.of = "import" /\ w.fatal)])
    BY <1>3
  <2>2. (t.wrote \/ ~(t.of = "import" /\ w.fatal)) \in BOOLEAN
    OBVIOUS
  <2>3. PICK u : u = [t EXCEPT !.todo = Tail(@), !.area = i, !.wrote = @ \/ ~(t.of = "import" /\ w.fatal)]
    OBVIOUS
  <2>4. /\ u \in Tasks /\ u.of = t.of /\ u.alone = t.alone /\ u.brokenOff = t.brokenOff /\ u.todo = Tail(t.todo)
    BY <1>1, <1>2, <2>2, <2>3 DEF Tasks
  <2>5. tasks' = (tasks \ {t}) \cup {u}
    BY <2>1, <2>3 DEF Step
  <2> QED
    BY <1>1, <1>2, <2>1, <2>4, <2>5 DEF w
<1>4. PICK v : v = Failed(t)
  OBVIOUS
<1>5. /\ v \in Tasks /\ v.of = t.of /\ v.alone = t.alone /\ v.brokenOff = w.fatal
      /\ v.todo = IF w.fatal THEN <<>> ELSE Tail(t.todo)
  BY <1>1, <1>2, <1>4 DEF Failed, Tasks, w
<1>6. CASE ~FreeFor(w.area, w.spot) /\ Step(t, Failed(t)) /\ UNCHANGED places
  <2>1. tasks' = (tasks \ {t}) \cup {v}
    BY <1>4, <1>6 DEF Step
  <2> QED
    BY <1>1, <1>2, <1>5, <1>6, <2>1 DEF w
<1>7. CASE /\ Step(t, [Failed(t) EXCEPT !.alone = FALSE])
           /\ UNCHANGED places \/ \E i \in AreaIds : Written(w, i)
  <2>1. PICK u : u = [v EXCEPT !.alone = FALSE]
    OBVIOUS
  <2>2. /\ u \in Tasks /\ u.of = t.of /\ u.alone = FALSE /\ u.brokenOff = w.fatal
        /\ u.todo = IF w.fatal THEN <<>> ELSE Tail(t.todo)
    BY <1>5, <2>1 DEF Tasks
  <2>3. tasks' = (tasks \ {t}) \cup {u}
    BY <1>4, <1>7, <2>1 DEF Step
  <2> QED
    BY <1>1, <1>2, <1>7, <2>2, <2>3 DEF w
<1> QED
  BY <1>3, <1>6, <1>7 DEF TaskStep, w

-----------------------------------------------------------------------------
\* Every step leaves the state typed.

LEMMA GesturesCount ==
    ASSUME MapTypeOK, Gesture
    PROVE  gestures' \in 0..MaxMapActions
BY MapBoundsAreNat DEF MapTypeOK, Gesture

LEMMA LoadingTyped ==
    ASSUME MapTypeOK, AnswerPlan \/ ReceivePlan \/ FailPlan \/ OnCatalog \/ Revisit \/ LeaveMap
    PROVE  MapTypeOK'
<1>1. CASE AnswerPlan
  BY <1>1, HallValues DEF AnswerPlan, MapTypeOK
<1>2. CASE ReceivePlan
  <2>1. /\ plan' = reading.layout /\ reading' = NotReading /\ due' = TRUE /\ tasks' = Cancelled(tasks)
        /\ UNCHANGED <<visiting, places, mapBooths, dirty, imported, persisting, gestures, outcome, saved>>
    BY <1>2 DEF ReceivePlan, Considered
  <2>2. selection' = selection \/ selection' = [selection EXCEPT !.area = NoArea]
    BY <1>2 DEF ReceivePlan
  <2>3. selection' \in [booth : Booths \cup {NoArea}, area : AreaIds \cup {NoArea}]
    BY <2>2 DEF MapTypeOK
  <2>4. NotReading \in [step : {"none", "sent", "read"}, layout : Layouts \cup {NoArea}] /\ NotReading.step = "none"
    BY DEF NotReading
  <2> QED
    BY <2>1, <2>3, <2>4, CancelledAreTasks DEF MapTypeOK
<1>3. CASE FailPlan
  <2>1. NotReading \in [step : {"none", "sent", "read"}, layout : Layouts \cup {NoArea}] /\ NotReading.step = "none"
    BY DEF NotReading
  <2> QED
    BY <1>3, <2>1, CancelledAreTasks DEF FailPlan, Considered, MapTypeOK
<1>4. CASE OnCatalog
  <2>1. Drawn \in [Booths -> Spots]
    BY HallValues DEF Drawn
  <2> QED
    BY <1>4, <2>1, CancelledAreTasks DEF OnCatalog, Considered, MapTypeOK
<1>5. CASE Revisit
  BY <1>5 DEF Revisit, RefreshPlan, MapTypeOK
<1>6. CASE LeaveMap
  BY <1>6, GesturesCount DEF LeaveMap, NotReading, NoSelection, MapTypeOK
<1> QED
  BY <1>1, <1>2, <1>3, <1>4, <1>5, <1>6

LEMMA StartTyped ==
    ASSUME MapTypeOK, NEW t \in Tasks, Start(t)
    PROVE  tasks' \subseteq Tasks
BY BesideAreTasks DEF MapTypeOK, Start

LEMMA StartingTyped ==
    ASSUME MapTypeOK, PersistMissingMapBooths \/ HandleSaveLayout
    PROVE  MapTypeOK'
<1>1. CASE PersistMissingMapBooths
  <2>1. CASE plan # NoArea /\ mapBooths # NoArea /\ ~imported
    <3>1. mapBooths \in [Booths -> Spots]
      BY <2>1 DEF MapTypeOK
    <3>2. ImportWrites \in Seq(Writes)
      BY <3>1, ImportInThreeParts
    <3>3. tasks' \subseteq Tasks
      BY <1>1, <2>1, <3>2, TaskIsTask, StartTyped DEF PersistMissingMapBooths
    <3> QED
      BY <1>1, <2>1, <3>3 DEF PersistMissingMapBooths, MapTypeOK
  <2> QED
    BY <1>1, <2>1 DEF PersistMissingMapBooths, MapTypeOK
<1>2. CASE HandleSaveLayout
  <2>1. DirtyBooths \in SUBSET Booths
    BY DEF DirtyBooths, MapTypeOK
  <2>2. mapBooths \in [Booths -> Spots]
    BY <1>2 DEF HandleSaveLayout, Gesture, MapTypeOK
  <2> DEFINE order == InOrder(DirtyBooths)
             todo == [i \in 1..Len(order) |-> Persist(order[i], mapBooths[order[i]], plan)]
             at == [b \in Booths |-> IF b \in DirtyBooths THEN mapBooths[b] ELSE NoArea]
  <2>3. todo \in Seq(Writes)
    <3>1. Len(order) \in Nat /\ \A i \in 1..Len(order) : order[i] \in Booths
      BY <2>1, OrderedBooths
    <3>2. \A i \in 1..Len(order) : Persist(order[i], mapBooths[order[i]], plan) \in Writes
      BY <2>2, <3>1, PersistIsWrite
    <3> QED
      BY <3>1, <3>2
  <2>4. at \in [Booths -> Spots \cup {NoArea}]
    BY <2>2
  <2>5. PICK t : t = [Task("layout", 0, todo) EXCEPT !.at = at]
    OBVIOUS
  <2>6. Start(t)
    BY <1>2, <2>5 DEF HandleSaveLayout
  <2> HIDE DEF todo, at
  <2>7. t \in Tasks
    <3>1. PICK v : v = Task("layout", 0, todo)
      OBVIOUS
    <3>2. v \in Tasks
      BY <2>3, <3>1, TaskIsTask
    <3> QED
      BY <2>4, <2>5, <3>1, <3>2 DEF Tasks
  <2>8. tasks' \subseteq Tasks
    BY <2>6, <2>7, StartTyped
  <2>9. gestures' \in 0..MaxMapActions
    BY <1>2, GesturesCount DEF HandleSaveLayout
  <2> QED
    BY <1>2, <2>8, <2>9 DEF HandleSaveLayout, MapTypeOK
<1> QED
  BY <1>1, <1>2

LEMMA SelectingTyped ==
    ASSUME MapTypeOK,
           \/ \E i \in AreaIds \cup {NoArea} : HandleSelectArea(i)
           \/ \E b \in Booths : HandleSelectBooth(b)
    PROVE  MapTypeOK'
<1>1. ASSUME NEW i \in AreaIds \cup {NoArea}, HandleSelectArea(i) PROVE MapTypeOK'
  BY <1>1, GesturesCount DEF HandleSelectArea, MapTypeOK
<1>2. ASSUME NEW b \in Booths, HandleSelectBooth(b) PROVE MapTypeOK'
  <2>1. gestures' \in 0..MaxMapActions /\ mapBooths \in [Booths -> Spots]
    BY <1>2, GesturesCount DEF HandleSelectBooth, Gesture, MapTypeOK
  <2>2. selection' \in [booth : Booths \cup {NoArea}, area : AreaIds \cup {NoArea}]
    <3>1. FindBoothArea(b, plan) \in AreaIds \cup {0}
      BY FoundHasCode
    <3> QED
      BY <1>2, <3>1 DEF HandleSelectBooth
  <2>3. persisting' \in Booths \cup {NoArea} /\ outcome' \in {"none", "done"}
    BY <1>2 DEF HandleSelectBooth, MapTypeOK
  <2>4. tasks' \subseteq Tasks
    <3>1. CASE UNCHANGED tasks
      BY <3>1 DEF MapTypeOK
    <3>2. CASE Start(Task("pick", b, <<Persist(b, mapBooths[b], plan)>>))
      <4>1. Persist(b, mapBooths[b], plan) \in Writes
        BY <2>1, PersistIsWrite
      <4>2. <<Persist(b, mapBooths[b], plan)>> \in Seq(Writes)
        BY <4>1
      <4> QED
        BY <3>2, <4>2, TaskIsTask, StartTyped
    <3> QED
      BY <1>2, <3>1, <3>2 DEF HandleSelectBooth
  <2> QED
    BY <1>2, <2>1, <2>2, <2>3, <2>4 DEF HandleSelectBooth, MapTypeOK
<1> QED
  BY <1>1, <1>2

LEMMA DraggingTyped ==
    ASSUME MapTypeOK, NEW b \in Booths, NEW s \in Spots, HandleBoothMoved(b, s)
    PROVE  MapTypeOK'
<1>1. gestures' \in 0..MaxMapActions /\ mapBooths \in [Booths -> Spots]
  BY GesturesCount DEF HandleBoothMoved, Gesture, MapTypeOK
<1>2. mapBooths' \in [Booths -> Spots] /\ dirty' \subseteq Booths /\ due' = TRUE /\ outcome' = "none"
  BY <1>1 DEF HandleBoothMoved, MapTypeOK
<1>3. saved' \in [Booths -> Spots \cup {NoArea}]
  BY DEF HandleBoothMoved, MapTypeOK
<1>4. selection' \in [booth : Booths \cup {NoArea}, area : AreaIds \cup {NoArea}]
  <2>1. FindBoothArea(b, plan) \in AreaIds \cup {0} /\ selection.area \in AreaIds \cup {NoArea}
    BY FoundHasCode DEF MapTypeOK
  <2> QED
    BY <2>1 DEF HandleBoothMoved
<1>5. tasks' \subseteq Tasks
  <2>1. Persist(b, s, plan) \in Writes
    BY PersistIsWrite
  <2>2. PICK u : u = Task("move", b, <<Persist(b, s, plan)>>)
    OBVIOUS
  <2>3. u \in Tasks
    <3>1. <<Persist(b, s, plan)>> \in Seq(Writes)
      BY <2>1
    <3> QED
      BY <2>2, <3>1, TaskIsTask
  <2>4. [u EXCEPT !.at[b] = s] \in Tasks
    BY <2>3 DEF Tasks
  <2>5. tasks' = Beside(Cancelled(tasks), [u EXCEPT !.at[b] = s])
    BY <2>2 DEF HandleBoothMoved
  <2> QED
    BY <2>4, <2>5, CancelledAreTasks, BesideAreTasks DEF MapTypeOK
<1> QED
  BY <1>1, <1>2, <1>3, <1>4, <1>5 DEF HandleBoothMoved, MapTypeOK

LEMMA TaskStepTyped ==
    ASSUME MapTypeOK, NEW t \in tasks, TaskStep(t)
    PROVE  MapTypeOK'
<1>1. tasks' \subseteq Tasks
  BY TaskSteps DEF MapTypeOK
<1>2. places' \in Layouts
  <2>1. CASE UNCHANGED places
    BY <2>1 DEF MapTypeOK
  <2>2. ASSUME NEW i \in AreaIds, Written(Head(t.todo), i) PROVE places' \in Layouts
    BY <2>2, TaskSteps, WrittenLayout
  <2> QED
    BY <2>1, <2>2 DEF TaskStep
<1> QED
  BY <1>1, <1>2 DEF TaskStep, MapTypeOK

LEMMA EndingTyped ==
    ASSUME MapTypeOK, NEW t \in tasks, EndImport(t) \/ EndPick(t) \/ EndMove(t) \/ EndLayout(t)
    PROVE  MapTypeOK'
<1>1. /\ tasks' \subseteq Tasks /\ UNCHANGED <<visiting, places, plan, mapBooths, gestures>>
  <2>1. tasks \ {t} \in SUBSET Tasks
    BY DEF MapTypeOK
  <2> QED
    BY <2>1, CancelledAreTasks DEF EndImport, EndPick, EndMove, EndLayout, Ends
<1>2. t.area \in AreaIds \cup {NoArea} /\ t.brokenOff \in BOOLEAN
  BY DEF MapTypeOK, Tasks
<1>3. reading' \in [step : {"none", "sent", "read"}, layout : Layouts \cup {NoArea}]
      /\ (reading'.step = "read" => reading'.layout # NoArea)
  <2>1. UNCHANGED reading \/ RefreshPlan
    BY DEF EndImport, EndPick, EndMove, EndLayout
  <2> QED
    BY <2>1 DEF RefreshPlan, MapTypeOK
<1>4. selection' \in [booth : Booths \cup {NoArea}, area : AreaIds \cup {NoArea}]
  <2>1. selection' = selection \/ selection' = [selection EXCEPT !.area = t.area]
    BY DEF EndImport, EndPick, EndMove, EndLayout
  <2> QED
    BY <1>2, <2>1 DEF MapTypeOK
<1>5. saved' \in [Booths -> Spots \cup {NoArea}]
  <2>1. saved' = saved \/ saved' = SavedBy(t)
    BY DEF EndImport, EndPick, EndMove, EndLayout
  <2>2. t.at \in [Booths -> Spots \cup {NoArea}] /\ saved \in [Booths -> Spots \cup {NoArea}]
    BY DEF MapTypeOK, Tasks
  <2> QED
    BY <2>1, <2>2 DEF SavedBy
<1>6. persisting' \in Booths \cup {NoArea} /\ outcome' \in {"none", "done"} /\ dirty' \subseteq Booths
  BY DEF EndImport, EndPick, EndMove, EndLayout, MapTypeOK
<1>7. imported' \in BOOLEAN /\ due' \in BOOLEAN
  BY <1>2 DEF EndImport, EndPick, EndMove, EndLayout, MapTypeOK
<1> QED
  BY <1>1, <1>3, <1>4, <1>5, <1>6, <1>7 DEF MapTypeOK

LEMMA MapNextTyped ==
    ASSUME MapTypeOK, MapNext
    PROVE  MapTypeOK'
BY LoadingTyped, StartingTyped, SelectingTyped, DraggingTyped, TaskStepTyped, EndingTyped DEF MapNext

-----------------------------------------------------------------------------
\* What holds of the areas and of the tasks.

Finds(b) == FindBoothArea(b, places)

\* An area stays, with its code; one without a booth stays as it is.  This is what the page
\* knows of the areas, however old its plan is.
TellsAreas(l) == \A i \in AreaIds :
    /\ l[i] # NoArea => places[i] # NoArea /\ places[i].code = l[i].code
    /\ places[i] # NoArea /\ places[i].code = Foreign => l[i] = places[i]
AreasAreKnown ==
    /\ plan # NoArea => TellsAreas(plan)
    /\ reading.step = "read" => TellsAreas(reading.layout)

KeepsCode(w) == w.area # 0 => places[w.area] # NoArea /\ places[w.area].code = w.code
CodesAreKept == \A t \in tasks : \A k \in 1..Len(t.todo) : KeepsCode(t.todo[k])
AloneIsAlone == \A t \in tasks : t.alone => tasks = {t}

\* A booth that fits is placed, or its place is taken by an area that stays where it is, or
\* its request is still to come; by then its own area is off the hall or has yet to be parked.
ClearOfForeign(b) == \A i \in AreaIds : places[i] # NoArea /\ places[i].code = Foreign => places[i].spot # mapBooths[b]
FitsNow(b)   == ClearOfForeign(b) /\ \A c \in Booths : c < b => mapBooths[c] # mapBooths[b]
IsPlaced(b)  == Finds(b) # 0 /\ places[Finds(b)].spot = mapBooths[b]
IsAway(b)    == Finds(b) # 0 => places[Finds(b)].spot \notin Spots
StaysNow(i)  == places[i].code \in Booths /\ (~FitsNow(places[i].code) \/ i # Finds(places[i].code))
IsBlocked(b) == \E i \in AreaIds : places[i] # NoArea /\ places[i].spot = mapBooths[b] /\ StaysNow(i)
IsDue(s, b)  == \E k \in 1..Len(s) : s[k].code = b /\ ~s[k].fatal
IsParkedBy(s, b) == \E k \in 1..Len(s) : s[k].code = b /\ s[k].fatal

IsImportWrite(w)   == FitsNow(w.code) /\ w.area = Finds(w.code)
PlacesBooth(s, w)  == ~w.fatal => w.spot = mapBooths[w.code] /\ (IsAway(w.code) \/ IsParkedBy(s, w.code))
ParksBooth(s, w)   == w.fatal => w.spot \notin Spots /\ w.area # 0 /\ IsDue(s, w.code)
InItsTurn(s) == \A j, k \in 1..Len(s) : j < k =>
    /\ s[k].fatal => s[j].fatal
    /\ ~s[j].fatal => s[j].code # s[k].code
Progresses(s) ==
    /\ mapBooths # NoArea /\ InItsTurn(s)
    /\ \A k \in 1..Len(s) : IsImportWrite(s[k]) /\ PlacesBooth(s, s[k]) /\ ParksBooth(s, s[k])
    /\ \A b \in Booths : FitsNow(b) => IsDue(s, b) \/ IsPlaced(b) \/ (IsBlocked(b) /\ IsAway(b))

ImportProgresses == \A t \in tasks :
    /\ t.brokenOff => t.todo = <<>>
    /\ t.of = "import" /\ t.alone /\ ~t.brokenOff => Progresses(t.todo)
ImportSettled == outcome = "done" => tasks = {} /\ Progresses(<<>>)
AreaInv == AreasAreKnown /\ CodesAreKept
TaskInv == AloneIsAlone /\ ImportProgresses /\ ImportSettled
MapInv  == MapTypeOK /\ AreaInv /\ TaskInv

LEMMA SameProgress ==
    ASSUME UNCHANGED places, mapBooths # NoArea => mapBooths' = mapBooths, NEW s, Progresses(s)
    PROVE  Progresses(s)'
<1>1. mapBooths' = mapBooths /\ mapBooths # NoArea /\ places' = places
  BY DEF Progresses
<1>2. \A b : Finds(b)' = Finds(b)
  BY <1>1 DEF Finds
<1>3. \A b : FitsNow(b)' <=> FitsNow(b)
  BY <1>1 DEF FitsNow, ClearOfForeign
<1>4. \A b : (IsPlaced(b)' <=> IsPlaced(b)) /\ (IsAway(b)' <=> IsAway(b))
  BY <1>1, <1>2 DEF IsPlaced, IsAway
<1>5. \A b : IsBlocked(b)' <=> IsBlocked(b)
  BY <1>1, <1>2, <1>3 DEF IsBlocked, StaysNow
<1> QED
  BY <1>1, <1>2, <1>3, <1>4, <1>5 DEF Progresses, IsImportWrite, PlacesBooth, ParksBooth, IsDue, IsParkedBy, InItsTurn

LEMMA SameCodes ==
    ASSUME UNCHANGED places, NEW w, KeepsCode(w)
    PROVE  KeepsCode(w)'
BY DEF KeepsCode

\* A step that only ends or disowns tasks.
LEMMA FewerTasks ==
    ASSUME MapTypeOK, CodesAreKept, AloneIsAlone, ImportProgresses, UNCHANGED places,
           mapBooths # NoArea => mapBooths' = mapBooths,
           NEW ts \in SUBSET tasks, tasks' = ts \/ tasks' = Cancelled(ts)
    PROVE  CodesAreKept' /\ AloneIsAlone' /\ ImportProgresses'
<1>1. ASSUME NEW u \in tasks'
      PROVE  \E t \in ts : /\ u.of = t.of /\ u.todo = t.todo /\ u.alone = t.alone /\ u.brokenOff = t.brokenOff
                           /\ ts = {t} => tasks' = {u}
  <2>1. CASE tasks' = ts
    BY <1>1, <2>1
  <2>2. CASE tasks' = Cancelled(ts)
    <3>1. PICK t \in ts : u = IF t.of = "import" THEN [t EXCEPT !.cancelled = TRUE] ELSE t
      BY <1>1, <2>2 DEF Cancelled
    <3>2. u.of = t.of /\ u.todo = t.todo /\ u.alone = t.alone /\ u.brokenOff = t.brokenOff
      <4>1. t \in Tasks
        BY DEF MapTypeOK
      <4> QED
        BY <3>1, <4>1 DEF Tasks
    <3>3. ts = {t} => tasks' = {u}
      BY <2>2, <3>1 DEF Cancelled
    <3> QED
      BY <3>2, <3>3
  <2> QED
    BY <2>1, <2>2
<1>2. CodesAreKept'
  <2> SUFFICES ASSUME NEW u \in tasks', NEW k \in 1..Len(u.todo) PROVE KeepsCode(u.todo[k])'
    BY DEF CodesAreKept
  <2>1. PICK t \in tasks : u.todo = t.todo
    BY <1>1
  <2>2. KeepsCode(u.todo[k])
    BY <2>1 DEF CodesAreKept
  <2> QED
    BY <2>2, SameCodes
<1>3. AloneIsAlone'
  <2> SUFFICES ASSUME NEW u \in tasks', u.alone PROVE tasks' = {u}
    BY DEF AloneIsAlone
  <2>1. PICK t \in ts : u.alone = t.alone /\ (ts = {t} => tasks' = {u})
    BY <1>1
  <2>2. tasks = {t}
    BY <2>1 DEF AloneIsAlone
  <2> QED
    BY <2>1, <2>2
<1>4. ImportProgresses'
  <2>1. ASSUME NEW u \in tasks', u.of = "import", u.alone, ~u.brokenOff PROVE Progresses(u.todo)'
    <3>1. Progresses(u.todo)
      BY <1>1, <2>1 DEF ImportProgresses
    <3> QED
      BY <3>1, SameProgress
  <2>2. ASSUME NEW u \in tasks', u.brokenOff PROVE u.todo = <<>>
    BY <1>1, <2>2 DEF ImportProgresses
  <2> QED
    BY <2>1, <2>2 DEF ImportProgresses
<1> QED
  BY <1>2, <1>3, <1>4

-----------------------------------------------------------------------------
\* A request that is carried out.

\* No area goes or changes its code; one without a booth is what it was.
SameAreas == \A j \in AreaIds :
    /\ places[j] # NoArea => places'[j] # NoArea /\ places'[j].code = places[j].code
    /\ places'[j] # NoArea /\ places'[j].code = Foreign => places[j] = places'[j]

LEMMA WrittenKeepsAreas ==
    ASSUME MapTypeOK, NEW w \in Writes, KeepsCode(w), NEW i \in AreaIds, Written(w, i)
    PROVE  /\ SameAreas
           /\ places'[i] # NoArea /\ places'[i].code = w.code /\ places'[i].spot = w.spot
           /\ places[i] # NoArea => places[i].code = w.code
           /\ \A j \in AreaIds : j # i => places'[j] = places[j]
<1>1. /\ places'[i] = [code |-> w.code, spot |-> w.spot] /\ places'[i] # NoArea
      /\ \A j \in AreaIds : j # i => places'[j] = places[j]
      /\ IF w.area = 0 THEN places[i] = NoArea ELSE i = w.area /\ places[i] # NoArea
  BY WrittenLayout
<1>2. w.code \in Booths /\ w.code # Foreign
  BY HallValues DEF Writes, Foreign
<1>3. places[i] # NoArea => places[i].code = w.code
  BY <1>1 DEF KeepsCode
<1> QED
  BY <1>1, <1>2, <1>3 DEF SameAreas

LEMMA SameAreasAreKnown ==
    ASSUME AreasAreKnown, SameAreas, UNCHANGED <<plan, reading>>
    PROVE  AreasAreKnown'
<1>1. ASSUME NEW l, TellsAreas(l) PROVE TellsAreas(l)'
  BY <1>1 DEF TellsAreas, SameAreas
<1> QED
  BY <1>1 DEF AreasAreKnown

LEMMA SameAreasKeepCodes ==
    ASSUME SameAreas, NEW w \in Writes, KeepsCode(w)
    PROVE  KeepsCode(w)'
BY DEF SameAreas, KeepsCode, Writes

-----------------------------------------------------------------------------
\* A request of an import moves the area it is for, and no other booth is concerned.
LEMMA WrittenFinds ==
    ASSUME MapTypeOK, NEW w \in Writes, KeepsCode(w), w.area = Finds(w.code), NEW i \in AreaIds, Written(w, i)
    PROVE  /\ Finds(w.code)' = i
           /\ \A b \in Booths \ {w.code} : Finds(b)' = Finds(b) /\ Finds(b) # i
           /\ w.area # 0 => w.area = i
           /\ w.area = 0 => places[i] = NoArea
<1>1. /\ places'[i] # NoArea /\ places'[i].code = w.code
      /\ places[i] # NoArea => places[i].code = w.code
      /\ \A j \in AreaIds : j # i => places'[j] = places[j]
  BY WrittenKeepsAreas
<1>2. IF w.area = 0 THEN places[i] = NoArea ELSE i = w.area /\ places[i] # NoArea
  BY WrittenLayout
<1>3. ASSUME NEW b \in Booths \ {w.code} PROVE Finds(b)' = Finds(b) /\ Finds(b) # i
  <2>1. \A j \in AreaIds : (places'[j] # NoArea /\ places'[j].code = b) <=> (places[j] # NoArea /\ places[j].code = b)
    BY <1>1
  <2>2. FindBoothArea(b, places') = FindBoothArea(b, places)
    BY <2>1, FoundBySameCodes
  <2>3. Finds(b) # i
    <3>1. Finds(b) # 0 => places[Finds(b)] # NoArea /\ places[Finds(b)].code = b
      BY FoundHasCode DEF Finds
    <3> QED
      BY <1>1, <3>1, HallValues
  <2> QED
    BY <2>2, <2>3 DEF Finds
<1>4. Finds(w.code)' = i
  <2>1. CASE w.area = 0
    <3>1. \A j \in AreaIds : places[j] # NoArea => places[j].code # w.code
      <4>1. FindBoothArea(w.code, places) = 0
        BY <2>1 DEF Finds
      <4> QED
        BY <4>1, FoundHasCode
    <3>2. FindBoothArea(w.code, places') # 0
      BY <1>1, FoundHasCode
    <3>3. /\ FindBoothArea(w.code, places') \in AreaIds
          /\ places'[FindBoothArea(w.code, places')] # NoArea
          /\ places'[FindBoothArea(w.code, places')].code = w.code
      BY <3>2, FoundHasCode
    <3>4. FindBoothArea(w.code, places') = i
      BY <1>1, <3>1, <3>3
    <3> QED
      BY <3>4 DEF Finds
  <2>2. CASE w.area # 0
    <3>1. i = w.area /\ places[i] # NoArea
      BY <1>2, <2>2
    <3>2. \A j \in AreaIds : (places'[j] # NoArea /\ places'[j].code = w.code)
                                 <=> (places[j] # NoArea /\ places[j].code = w.code)
      BY <1>1, <3>1
    <3>3. FindBoothArea(w.code, places') = FindBoothArea(w.code, places)
      BY <3>2, FoundBySameCodes
    <3> QED
      BY <3>1, <3>3 DEF Finds
  <2> QED
    BY <2>1, <2>2
<1> QED
  BY <1>2, <1>3, <1>4

LEMMA WrittenFits ==
    ASSUME MapTypeOK, NEW w \in Writes, KeepsCode(w), IsImportWrite(w), NEW i \in AreaIds, Written(w, i),
           mapBooths' = mapBooths
    PROVE  /\ \A b : FitsNow(b)' <=> FitsNow(b)
           /\ \A b \in Booths : IsBlocked(b) => IsBlocked(b)'
           /\ \A b \in Booths \ {w.code} : (IsPlaced(b) => IsPlaced(b)') /\ (IsAway(b) => IsAway(b)')
<1>1. /\ SameAreas
      /\ places'[i] # NoArea /\ places'[i].code = w.code
      /\ places[i] # NoArea => places[i].code = w.code
      /\ \A j \in AreaIds : j # i => places'[j] = places[j]
  BY WrittenKeepsAreas
<1>2. /\ Finds(w.code)' = i
      /\ \A b \in Booths \ {w.code} : Finds(b)' = Finds(b) /\ Finds(b) # i
      /\ w.area # 0 => w.area = i
      /\ w.area = 0 => places[i] = NoArea
  BY WrittenFinds DEF IsImportWrite
<1>3. w.code \in Booths /\ w.code # Foreign /\ FitsNow(w.code) /\ w.area = Finds(w.code)
  BY HallValues DEF Writes, Foreign, IsImportWrite
<1>4. \A b : FitsNow(b)' <=> FitsNow(b)
  <2>1. \A j \in AreaIds : (places'[j] # NoArea /\ places'[j].code = Foreign)
                               <=> (places[j] # NoArea /\ places[j].code = Foreign)
    BY <1>1, <1>3 DEF SameAreas
  <2>2. \A j \in AreaIds : places'[j] # NoArea /\ places'[j].code = Foreign => places'[j].spot = places[j].spot
    BY <1>1 DEF SameAreas
  <2>3. \A b : ClearOfForeign(b)' <=> ClearOfForeign(b)
    BY <2>1, <2>2 DEF ClearOfForeign
  <2> QED
    BY <2>3 DEF FitsNow
<1>5. ASSUME NEW b \in Booths, IsBlocked(b) PROVE IsBlocked(b)'
  <2>1. PICK j \in AreaIds : places[j] # NoArea /\ places[j].spot = mapBooths[b] /\ StaysNow(j)
    BY <1>5 DEF IsBlocked
  <2>2. j # i
    BY <1>1, <1>2, <1>3, <2>1 DEF StaysNow
  <2>3. places'[j] = places[j]
    BY <1>1, <2>2
  <2>4. StaysNow(j)'
    <3>1. PICK c : c = places[j].code /\ c = places'[j].code
      BY <2>3
    <3>2. c \in Booths /\ (~FitsNow(c) \/ j # Finds(c))
      BY <2>1, <3>1 DEF StaysNow
    <3>3. ~FitsNow(c)' \/ j # Finds(c)'
      BY <1>2, <1>4, <2>2, <3>2
    <3>4. StaysNow(j)' <=> places'[j].code \in Booths /\ (~FitsNow(places[j].code)' \/ j # Finds(places[j].code)')
      BY DEF StaysNow
    <3> QED
      BY <3>1, <3>2, <3>3, <3>4
  <2> QED
    BY <2>1, <2>3, <2>4 DEF IsBlocked
<1>6. ASSUME NEW b \in Booths \ {w.code}
      PROVE  (IsPlaced(b) => IsPlaced(b)') /\ (IsAway(b) => IsAway(b)')
  <2>1. Finds(b)' = Finds(b) /\ Finds(b) # i /\ Finds(b) \in AreaIds \cup {0}
    BY <1>2, FoundHasCode DEF Finds
  <2>2. Finds(b) # 0 => places'[Finds(b)] = places[Finds(b)]
    BY <1>1, <2>1
  <2> QED
    BY <2>1, <2>2 DEF IsPlaced, IsAway
<1> QED
  BY <1>4, <1>5, <1>6

-----------------------------------------------------------------------------
\* What an import still has to do after its next request.
LEMMA RestOfWrites ==
    ASSUME NEW s \in Seq(Writes), s # <<>>
    PROVE  /\ Head(s) \in Writes /\ Tail(s) \in Seq(Writes) /\ Head(s) = s[1] /\ 1 \in 1..Len(s)
           /\ \A k \in 1..Len(Tail(s)) : k + 1 \in 1..Len(s) /\ Tail(s)[k] = s[k + 1]
           /\ \A m \in 1..Len(s) : m # 1 => m - 1 \in 1..Len(Tail(s)) /\ Tail(s)[m - 1] = s[m]
<1>1. /\ Head(s) \in Writes /\ Tail(s) \in Seq(Writes) /\ Head(s) = s[1] /\ Len(s) \in Nat \ {0}
      /\ Len(Tail(s)) = Len(s) - 1
      /\ \A k \in 1..Len(Tail(s)) : Tail(s)[k] = s[k + 1]
  BY HeadTailProperties
<1>2. ASSUME NEW m \in 1..Len(s), m # 1 PROVE m - 1 \in 1..Len(Tail(s)) /\ Tail(s)[m - 1] = s[m]
  <2>1. m - 1 \in 1..Len(Tail(s)) /\ (m - 1) + 1 = m
    BY <1>1, <1>2
  <2> QED
    BY <1>1, <2>1
<1> QED
  BY <1>1, <1>2

LEMMA RestInItsTurn ==
    ASSUME NEW s \in Seq(Writes), s # <<>>, Progresses(s), NEW w, w = Head(s)
    PROVE  /\ InItsTurn(Tail(s))
           /\ \A b : IsDue(s, b) => IsDue(Tail(s), b) \/ (b = w.code /\ ~w.fatal)
           /\ \A b : IsParkedBy(s, b) => IsParkedBy(Tail(s), b) \/ (b = w.code /\ w.fatal)
           /\ \A k \in 1..Len(Tail(s)) :
                  /\ Tail(s)[k] \in Writes /\ IsImportWrite(Tail(s)[k])
                  /\ PlacesBooth(s, Tail(s)[k]) /\ ParksBooth(s, Tail(s)[k])
                  /\ Tail(s)[k].fatal => w.fatal
                  /\ ~w.fatal => w.code # Tail(s)[k].code
<1>1. /\ w \in Writes /\ Tail(s) \in Seq(Writes) /\ w = s[1] /\ 1 \in 1..Len(s)
      /\ \A k \in 1..Len(Tail(s)) : k + 1 \in 1..Len(s) /\ Tail(s)[k] = s[k + 1]
      /\ \A m \in 1..Len(s) : m # 1 => m - 1 \in 1..Len(Tail(s)) /\ Tail(s)[m - 1] = s[m]
  BY RestOfWrites
<1>2. \A j, k \in 1..Len(s) : j < k => /\ s[k].fatal => s[j].fatal
                                       /\ ~s[j].fatal => s[j].code # s[k].code
  BY DEF Progresses, InItsTurn
<1>3. InItsTurn(Tail(s))
  <2> SUFFICES ASSUME NEW j \in 1..Len(Tail(s)), NEW k \in 1..Len(Tail(s)), j < k
               PROVE  /\ Tail(s)[k].fatal => Tail(s)[j].fatal
                      /\ ~Tail(s)[j].fatal => Tail(s)[j].code # Tail(s)[k].code
    BY DEF InItsTurn
  <2>1. /\ j + 1 \in 1..Len(s) /\ Tail(s)[j] = s[j + 1]
        /\ k + 1 \in 1..Len(s) /\ Tail(s)[k] = s[k + 1] /\ j + 1 < k + 1
    BY <1>1
  <2> QED
    BY <1>2, <2>1
<1>4. ASSUME NEW b, IsDue(s, b) PROVE IsDue(Tail(s), b) \/ (b = w.code /\ ~w.fatal)
  <2>1. PICK m \in 1..Len(s) : s[m].code = b /\ ~s[m].fatal
    BY <1>4 DEF IsDue
  <2>2. CASE m = 1
    BY <1>1, <2>1, <2>2
  <2>3. CASE m # 1
    BY <1>1, <2>1, <2>3 DEF IsDue
  <2> QED
    BY <2>2, <2>3
<1>5. ASSUME NEW b, IsParkedBy(s, b) PROVE IsParkedBy(Tail(s), b) \/ (b = w.code /\ w.fatal)
  <2>1. PICK m \in 1..Len(s) : s[m].code = b /\ s[m].fatal
    BY <1>5 DEF IsParkedBy
  <2>2. CASE m = 1
    BY <1>1, <2>1, <2>2
  <2>3. CASE m # 1
    BY <1>1, <2>1, <2>3 DEF IsParkedBy
  <2> QED
    BY <2>2, <2>3
<1>6. ASSUME NEW k \in 1..Len(Tail(s))
      PROVE  /\ Tail(s)[k] \in Writes /\ IsImportWrite(Tail(s)[k])
             /\ PlacesBooth(s, Tail(s)[k]) /\ ParksBooth(s, Tail(s)[k])
             /\ Tail(s)[k].fatal => w.fatal
             /\ ~w.fatal => w.code # Tail(s)[k].code
  <2>1. k + 1 \in 1..Len(s) /\ Tail(s)[k] = s[k + 1] /\ 1 < k + 1 /\ s[k + 1] \in Writes
    BY <1>1
  <2>2. IsImportWrite(s[k + 1]) /\ PlacesBooth(s, s[k + 1]) /\ ParksBooth(s, s[k + 1])
    BY <2>1 DEF Progresses
  <2>3. (s[k + 1].fatal => w.fatal) /\ (~w.fatal => w.code # s[k + 1].code)
    BY <1>1, <1>2, <2>1
  <2> QED
    BY <2>1, <2>2, <2>3
<1> QED
  BY <1>3, <1>4, <1>5, <1>6

\* The next request is carried out.
LEMMA WrittenProgresses ==
    ASSUME MapTypeOK, NEW s \in Seq(Writes), s # <<>>, Progresses(s), NEW w, w = Head(s), KeepsCode(w),
           NEW i \in AreaIds, Written(w, i), mapBooths' = mapBooths
    PROVE  Progresses(Tail(s))'
<1>1. /\ w \in Writes /\ w = s[1] /\ 1 \in 1..Len(s) /\ Tail(s) \in Seq(Writes)
  BY RestOfWrites
<1>2. IsImportWrite(w) /\ PlacesBooth(s, w) /\ ParksBooth(s, w) /\ mapBooths # NoArea
  BY <1>1 DEF Progresses
<1>3. /\ \A b : FitsNow(b)' <=> FitsNow(b)
      /\ \A b \in Booths : IsBlocked(b) => IsBlocked(b)'
      /\ \A b \in Booths \ {w.code} : (IsPlaced(b) => IsPlaced(b)') /\ (IsAway(b) => IsAway(b)')
  BY <1>1, <1>2, WrittenFits
<1>4. /\ Finds(w.code)' = i
      /\ \A b \in Booths \ {w.code} : Finds(b)' = Finds(b)
      /\ w.area # 0 => w.area = i
  BY <1>1, <1>2, WrittenFinds DEF IsImportWrite
<1>5. places'[i].spot = w.spot /\ w.code \in Booths /\ i # 0
  BY <1>1, WrittenKeepsAreas, HallValues DEF Writes
<1>6. w.fatal => IsAway(w.code)' /\ IsDue(Tail(s), w.code) /\ w.area = i
  <2>1. w.fatal => w.spot \notin Spots /\ w.area # 0 /\ IsDue(s, w.code)
    BY <1>2 DEF ParksBooth
  <2> QED
    BY <1>1, <1>4, <1>5, <2>1, RestInItsTurn DEF IsAway
<1>7. ~w.fatal => IsPlaced(w.code)'
  <2>1. ~w.fatal => w.spot = mapBooths[w.code]
    BY <1>2 DEF PlacesBooth
  <2> QED
    BY <1>4, <1>5, <2>1 DEF IsPlaced
<1>8. ASSUME NEW k \in 1..Len(Tail(s)), NEW v, v = Tail(s)[k]
      PROVE  IsImportWrite(v)' /\ PlacesBooth(Tail(s), v)' /\ ParksBooth(Tail(s), v)'
  <2>1. /\ v \in Writes /\ IsImportWrite(v) /\ PlacesBooth(s, v) /\ ParksBooth(s, v)
        /\ v.fatal => w.fatal
        /\ v.code = w.code => w.fatal
    BY <1>8, RestInItsTurn
  <2>2. v.code \in Booths /\ FitsNow(v.code) /\ v.area = Finds(v.code)
    BY <2>1 DEF Writes, IsImportWrite
  <2>3. IsImportWrite(v)'
    <3>1. v.area = Finds(v.code)'
      BY <1>2, <1>4, <1>6, <2>1, <2>2 DEF IsImportWrite
    <3> QED
      BY <1>3, <2>2, <3>1 DEF IsImportWrite
  <2>4. PlacesBooth(Tail(s), v)'
    <3>1. ASSUME ~v.fatal PROVE v.spot = mapBooths'[v.code] /\ (IsAway(v.code)' \/ IsParkedBy(Tail(s), v.code))
      <4>1. v.spot = mapBooths[v.code] /\ (IsAway(v.code) \/ IsParkedBy(s, v.code))
        BY <2>1, <3>1 DEF PlacesBooth
      <4>2. CASE v.code = w.code
        BY <1>6, <2>1, <4>1, <4>2
      <4>3. CASE v.code # w.code
        <5>1. IsParkedBy(s, v.code) => IsParkedBy(Tail(s), v.code)
          BY <4>3, RestInItsTurn
        <5> QED
          BY <1>3, <2>2, <4>1, <4>3, <5>1
      <4> QED
        BY <4>2, <4>3
    <3>2. PlacesBooth(Tail(s), v)' <=>
              (~v.fatal => v.spot = mapBooths'[v.code] /\ (IsAway(v.code)' \/ IsParkedBy(Tail(s), v.code)))
      BY DEF PlacesBooth, IsParkedBy
    <3> QED
      BY <3>1, <3>2
  <2>5. ParksBooth(Tail(s), v)'
    <3>1. ASSUME v.fatal PROVE v.spot \notin Spots /\ v.area # 0 /\ IsDue(Tail(s), v.code)
      <4>1. v.spot \notin Spots /\ v.area # 0 /\ IsDue(s, v.code) /\ w.fatal
        BY <2>1, <3>1 DEF ParksBooth
      <4> QED
        BY <4>1, RestInItsTurn
    <3>2. ParksBooth(Tail(s), v)' <=> (v.fatal => v.spot \notin Spots /\ v.area # 0 /\ IsDue(Tail(s), v.code))
      BY DEF ParksBooth, IsDue
    <3> QED
      BY <3>1, <3>2
  <2> QED
    BY <2>3, <2>4, <2>5
<1>9. ASSUME NEW b \in Booths, FitsNow(b)'
      PROVE  IsDue(Tail(s), b) \/ IsPlaced(b)' \/ (IsBlocked(b)' /\ IsAway(b)')
  <2>1. IsDue(s, b) \/ IsPlaced(b) \/ (IsBlocked(b) /\ IsAway(b))
    BY <1>3, <1>9 DEF Progresses
  <2>2. CASE b = w.code
    BY <1>6, <1>7, <2>2
  <2>3. CASE b # w.code
    <3>1. IsDue(s, b) => IsDue(Tail(s), b)
      BY <2>3, RestInItsTurn
    <3> QED
      BY <1>3, <2>1, <2>3, <3>1
  <2> QED
    BY <2>2, <2>3
<1>10. InItsTurn(Tail(s))
  BY RestInItsTurn
<1>11. \A b : IsDue(Tail(s), b)' <=> IsDue(Tail(s), b)
  BY DEF IsDue
<1>12. InItsTurn(Tail(s))' <=> InItsTurn(Tail(s))
  BY DEF InItsTurn
<1> QED
  BY <1>2, <1>8, <1>9, <1>10, <1>11, <1>12 DEF Progresses

\* The next request is refused: an area that stays has the spot.
LEMMA RefusedProgresses ==
    ASSUME MapTypeOK, NEW s \in Seq(Writes), s # <<>>, Progresses(s), NEW w, w = Head(s), KeepsCode(w),
           ~w.fatal, ~FreeFor(w.area, w.spot)
    PROVE  Progresses(Tail(s))
<1>1. w \in Writes /\ w = s[1] /\ 1 \in 1..Len(s)
  BY RestOfWrites
<1>2. IsImportWrite(w) /\ PlacesBooth(s, w) /\ mapBooths \in [Booths -> Spots]
  BY <1>1 DEF Progresses, MapTypeOK
<1>3. /\ w.code \in Booths /\ FitsNow(w.code) /\ w.area = Finds(w.code)
      /\ w.spot = mapBooths[w.code]
  BY <1>1, <1>2 DEF Writes, IsImportWrite, PlacesBooth
<1>4. ~IsParkedBy(s, w.code) /\ \A b : ~IsParkedBy(s, b)
  <2>1. ASSUME NEW b PROVE ~IsParkedBy(s, b)
    <3>1. ASSUME NEW m \in 1..Len(s), s[m].fatal PROVE FALSE
      <4>1. m # 1
        BY <1>1, <3>1
      <4>2. \A j, k \in 1..Len(s) : j < k => (s[k].fatal => s[j].fatal)
        BY DEF Progresses, InItsTurn
      <4>3. 1 < m
        BY <4>1
      <4> QED
        BY <1>1, <3>1, <4>2, <4>3
    <3> QED
      BY <3>1 DEF IsParkedBy
  <2> QED
    BY <2>1
<1>5. IsAway(w.code)
  BY <1>2, <1>4 DEF PlacesBooth
<1>6. IsBlocked(w.code)
  <2>1. PICK j \in AreaIds : places[j] # NoArea /\ j # w.area /\ places[j].spot = w.spot
    BY DEF FreeFor, Existing
  <2>2. places[j] \in Areas /\ places[j].code \in Booths \cup {Foreign}
    BY <2>1 DEF MapTypeOK, Layouts, Areas
  <2>3. places[j].code # Foreign
    BY <1>3, <2>1 DEF FitsNow, ClearOfForeign
  <2> DEFINE c == places[j].code
  <2>4. c \in Booths
    BY <2>2, <2>3
  <2>5. ~FitsNow(c) \/ j # Finds(c)
    <3> SUFFICES ASSUME FitsNow(c), j = Finds(c) PROVE FALSE
      OBVIOUS
    <3>1. c # w.code
      BY <1>3, <2>1
    <3>2. c < w.code \/ w.code < c
      <4>1. c \in Nat /\ w.code \in Nat
        BY <1>3, <2>4, HallValues
      <4> HIDE DEF c
      <4> QED
        BY <3>1, <4>1
    <3>3. mapBooths[c] # mapBooths[w.code]
      BY <1>3, <2>4, <3>2 DEF FitsNow
    <3>4. ~IsPlaced(c)
      BY <1>3, <2>1, <3>3 DEF IsPlaced
    <3>5. ~IsAway(c)
      <4>1. places[Finds(c)].spot \in Spots /\ Finds(c) # 0
        BY <1>2, <1>3, <2>1, HallValues
      <4> QED
        BY <4>1 DEF IsAway
    <3>6. IsDue(s, c)
      BY <2>4, <3>4, <3>5 DEF Progresses
    <3>7. PICK m \in 1..Len(s) : s[m].code = c /\ ~s[m].fatal
      BY <3>6 DEF IsDue
    <3>8. IsAway(s[m].code) \/ IsParkedBy(s, s[m].code)
      BY <3>7 DEF Progresses, PlacesBooth
    <3> QED
      BY <1>4, <3>5, <3>7, <3>8
  <2> QED
    BY <1>3, <2>1, <2>4, <2>5 DEF IsBlocked, StaysNow
<1>7. ASSUME NEW k \in 1..Len(Tail(s)), NEW v, v = Tail(s)[k]
      PROVE  IsImportWrite(v) /\ PlacesBooth(Tail(s), v) /\ ParksBooth(Tail(s), v)
  <2>1. IsImportWrite(v) /\ PlacesBooth(s, v) /\ ~v.fatal
    BY <1>7, RestInItsTurn
  <2> QED
    BY <1>4, <2>1 DEF PlacesBooth, ParksBooth
<1>8. ASSUME NEW b \in Booths, FitsNow(b)
      PROVE  IsDue(Tail(s), b) \/ IsPlaced(b) \/ (IsBlocked(b) /\ IsAway(b))
  <2>1. CASE b = w.code
    BY <1>5, <1>6, <2>1
  <2>2. CASE b # w.code
    <3>1. IsDue(s, b) => IsDue(Tail(s), b)
      BY <2>2, RestInItsTurn
    <3> QED
      BY <1>8, <3>1 DEF Progresses
  <2> QED
    BY <2>1, <2>2
<1>9. InItsTurn(Tail(s)) /\ mapBooths # NoArea
  BY RestInItsTurn DEF Progresses
<1> QED
  BY <1>7, <1>8, <1>9 DEF Progresses

-----------------------------------------------------------------------------
\* Where an import that is alone begins.
LEMMA FitsIsFitsNow ==
    ASSUME MapTypeOK, plan # NoArea, TellsAreas(plan), NEW b
    PROVE  Fits(b) <=> FitsNow(b)
<1>1. \A i \in AreaIds : (plan[i] # NoArea /\ plan[i].code = Foreign) <=> (places[i] # NoArea /\ places[i].code = Foreign)
  BY DEF TellsAreas
<1>2. \A i \in AreaIds : places[i] # NoArea /\ places[i].code = Foreign => places[i] = plan[i]
  BY DEF TellsAreas
<1> QED
  BY <1>1, <1>2 DEF Fits, FitsNow, ClearOfForeign, Existing

LEMMA ImportBegins ==
    ASSUME MapTypeOK, plan # NoArea, TellsAreas(plan), mapBooths # NoArea, plan = places
    PROVE  Progresses(ImportWrites)
<1>1. mapBooths \in [Booths -> Spots]
  BY DEF MapTypeOK
<1> DEFINE n == Len(BoothMoves)
           p == Len(BoothCreates)
           s == ImportWrites
           moving == {b \in Booths : Moving(b)}
           missing == {b \in Booths : Creating(b)}
<1>2. /\ n \in 0..NumBooths /\ p \in 0..NumBooths
      /\ s \in Seq(Writes) /\ Len(s) = n + n + p
      /\ \A k \in 1..n : /\ BoothMoves[k] \in Booths
                         /\ s[k] = [area |-> FindBoothArea(BoothMoves[k], plan), code |-> BoothMoves[k],
                                    spot |-> ParkedRow + k - 1, fatal |-> TRUE]
                         /\ s[n + k] = [area |-> FindBoothArea(BoothMoves[k], plan), code |-> BoothMoves[k],
                                        spot |-> mapBooths[BoothMoves[k]], fatal |-> FALSE]
      /\ \A k \in 1..p : /\ BoothCreates[k] \in Booths
                         /\ s[n + n + k] = [area |-> FindBoothArea(BoothCreates[k], plan), code |-> BoothCreates[k],
                                            spot |-> mapBooths[BoothCreates[k]], fatal |-> FALSE]
  BY <1>1, ImportInThreeParts
<1>3. /\ \A k \in 1..n : BoothMoves[k] \in moving
      /\ \A j, k \in 1..n : BoothMoves[j] = BoothMoves[k] => j = k
      /\ \A b \in moving : \E k \in 1..n : BoothMoves[k] = b
  BY OrderedBooths DEF BoothMoves
<1>4. /\ \A k \in 1..p : BoothCreates[k] \in missing
      /\ \A j, k \in 1..p : BoothCreates[j] = BoothCreates[k] => j = k
      /\ \A b \in missing : \E k \in 1..p : BoothCreates[k] = b
  BY OrderedBooths DEF BoothCreates
<1>5. /\ \A b \in moving : /\ b \in Booths /\ FitsNow(b) /\ Finds(b) # 0
                           /\ FindBoothArea(b, plan) = Finds(b)
      /\ \A b \in missing : /\ b \in Booths /\ FitsNow(b) /\ Finds(b) = 0
                             /\ FindBoothArea(b, plan) = Finds(b)
      /\ \A b \in Booths : FitsNow(b) /\ b \notin moving /\ b \notin missing => IsPlaced(b)
  <2>1. \A b : FindBoothArea(b, plan) = Finds(b)
    BY DEF Finds
  <2>2. \A b : Fits(b) <=> FitsNow(b)
    BY FitsIsFitsNow
  <2> QED
    BY <2>1, <2>2 DEF Moving, Creating, IsPlaced
<1> HIDE DEF moving, missing, n, p, s
<1>6. NumBooths \in Nat
  BY HallIsSized
<1>7. /\ \A k \in 1..n : /\ s[k].fatal /\ s[k].code = BoothMoves[k] /\ s[k].code \in moving
                         /\ s[k].area = Finds(BoothMoves[k]) /\ s[k].spot \notin Spots
      /\ \A k \in 1..n : /\ ~s[n + k].fatal /\ s[n + k].code = BoothMoves[k] /\ s[n + k].code \in moving
                         /\ s[n + k].area = Finds(BoothMoves[k]) /\ s[n + k].spot = mapBooths[BoothMoves[k]]
      /\ \A k \in 1..p : /\ ~s[n + n + k].fatal /\ s[n + n + k].code = BoothCreates[k] /\ s[n + n + k].code \in missing
                         /\ s[n + n + k].area = Finds(BoothCreates[k]) /\ s[n + n + k].spot = mapBooths[BoothCreates[k]]
  <2>1. ASSUME NEW k \in 1..n
        PROVE  /\ s[k].fatal /\ s[k].code = BoothMoves[k] /\ s[k].code \in moving
               /\ s[k].area = Finds(BoothMoves[k]) /\ s[k].spot \notin Spots
               /\ ~s[n + k].fatal /\ s[n + k].code = BoothMoves[k] /\ s[n + k].code \in moving
               /\ s[n + k].area = Finds(BoothMoves[k]) /\ s[n + k].spot = mapBooths[BoothMoves[k]]
    <3>1. k \in 1..NumBooths
      BY <1>2, <1>6
    <3>2. ParkedRow + k - 1 \notin Spots
      BY <3>1, HallValues
    <3>3. BoothMoves[k] \in moving /\ FindBoothArea(BoothMoves[k], plan) = Finds(BoothMoves[k])
      BY <1>3, <1>5
    <3>4. /\ s[k] = [area |-> Finds(BoothMoves[k]), code |-> BoothMoves[k], spot |-> ParkedRow + k - 1, fatal |-> TRUE]
          /\ s[n + k] = [area |-> Finds(BoothMoves[k]), code |-> BoothMoves[k], spot |-> mapBooths[BoothMoves[k]], fatal |-> FALSE]
      BY <1>2, <3>3
    <3>5. s[k].fatal /\ s[k].code = BoothMoves[k] /\ s[k].area = Finds(BoothMoves[k]) /\ s[k].spot = ParkedRow + k - 1
      BY <3>4
    <3>6. ~s[n + k].fatal /\ s[n + k].code = BoothMoves[k] /\ s[n + k].area = Finds(BoothMoves[k]) /\ s[n + k].spot = mapBooths[BoothMoves[k]]
      BY <3>4
    <3> QED
      BY <3>2, <3>3, <3>5, <3>6
  <2>2. ASSUME NEW k \in 1..p
        PROVE  /\ ~s[n + n + k].fatal /\ s[n + n + k].code = BoothCreates[k] /\ s[n + n + k].code \in missing
               /\ s[n + n + k].area = Finds(BoothCreates[k]) /\ s[n + n + k].spot = mapBooths[BoothCreates[k]]
    <3>1. BoothCreates[k] \in missing /\ FindBoothArea(BoothCreates[k], plan) = Finds(BoothCreates[k])
      BY <1>4, <1>5
    <3>2. s[n + n + k] = [area |-> Finds(BoothCreates[k]), code |-> BoothCreates[k], spot |-> mapBooths[BoothCreates[k]], fatal |-> FALSE]
      BY <1>2, <3>1
    <3>3. /\ ~s[n + n + k].fatal /\ s[n + n + k].code = BoothCreates[k]
          /\ s[n + n + k].area = Finds(BoothCreates[k]) /\ s[n + n + k].spot = mapBooths[BoothCreates[k]]
      BY <3>2
    <3> QED
      BY <3>1, <3>3
  <2> QED
    BY <2>1, <2>2
<1>8. ASSUME NEW m \in 1..Len(s)
      PROVE  \/ m \in 1..n
             \/ \E k \in 1..n : m = n + k
             \/ \E k \in 1..p : m = n + n + k
  <2>1. CASE m <= n
    BY <1>2, <2>1
  <2>2. CASE n < m /\ m <= n + n
    <3>1. m - n \in 1..n /\ m = n + (m - n)
      BY <1>2, <2>2
    <3> QED
      BY <3>1
  <2>3. CASE n + n < m
    <3>1. m - n - n \in 1..p /\ m = n + n + (m - n - n)
      BY <1>2, <2>3
    <3> QED
      BY <3>1
  <2> QED
    BY <1>2, <2>1, <2>2, <2>3
<1>9. \A b \in moving : IsDue(s, b) /\ IsParkedBy(s, b)
  <2> SUFFICES ASSUME NEW b \in moving PROVE IsDue(s, b) /\ IsParkedBy(s, b)
    OBVIOUS
  <2>1. PICK k \in 1..n : BoothMoves[k] = b
    BY <1>3
  <2>2. k \in 1..Len(s) /\ n + k \in 1..Len(s)
    BY <1>2
  <2> QED
    BY <1>7, <2>1, <2>2 DEF IsDue, IsParkedBy
<1>10. \A b \in missing : IsDue(s, b)
  <2> SUFFICES ASSUME NEW b \in missing PROVE IsDue(s, b)
    OBVIOUS
  <2>1. PICK k \in 1..p : BoothCreates[k] = b
    BY <1>4
  <2>2. n + n + k \in 1..Len(s)
    BY <1>2
  <2> QED
    BY <1>7, <2>1, <2>2 DEF IsDue
<1>11. InItsTurn(s)
  <2> SUFFICES ASSUME NEW j \in 1..Len(s), NEW k \in 1..Len(s), j < k
               PROVE  (s[k].fatal => s[j].fatal) /\ (~s[j].fatal => s[j].code # s[k].code)
    BY DEF InItsTurn
  <2>1. CASE j \in 1..n
    BY <1>7, <2>1
  <2>2. CASE \E h \in 1..n : j = n + h
    <3>1. PICK h \in 1..n : j = n + h
      BY <2>2
    <3>2. k \notin 1..n
      BY <1>2, <3>1
    <3>3. CASE \E g \in 1..n : k = n + g
      <4>1. PICK g \in 1..n : k = n + g
        BY <3>3
      <4>2. g # h
        BY <1>2, <3>1, <4>1
      <4> QED
        BY <1>3, <1>7, <3>1, <4>1, <4>2
    <3>4. CASE \E g \in 1..p : k = n + n + g
      BY <1>5, <1>7, <3>1, <3>4
    <3> QED
      BY <1>8, <3>2, <3>3, <3>4
  <2>3. CASE \E h \in 1..p : j = n + n + h
    <3>1. PICK h \in 1..p : j = n + n + h
      BY <2>3
    <3>2. k \notin 1..n /\ ~ \E g \in 1..n : k = n + g
      BY <1>2, <3>1
    <3>3. PICK g \in 1..p : k = n + n + g
      BY <1>8, <3>2
    <3>4. g # h
      BY <1>2, <3>1, <3>3
    <3> QED
      BY <1>4, <1>7, <3>1, <3>3, <3>4
  <2> QED
    BY <1>8, <2>1, <2>2, <2>3
<1>12. ASSUME NEW m \in 1..Len(s)
       PROVE  IsImportWrite(s[m]) /\ PlacesBooth(s, s[m]) /\ ParksBooth(s, s[m])
  <2>1. CASE m \in 1..n
    BY <1>5, <1>7, <1>9, <2>1 DEF IsImportWrite, PlacesBooth, ParksBooth
  <2>2. CASE \E k \in 1..n : m = n + k
    BY <1>5, <1>7, <1>9, <2>2 DEF IsImportWrite, PlacesBooth, ParksBooth
  <2>3. CASE \E k \in 1..p : m = n + n + k
    BY <1>5, <1>7, <1>10, <2>3 DEF IsImportWrite, PlacesBooth, ParksBooth, IsAway
  <2> QED
    BY <1>8, <2>1, <2>2, <2>3
<1>13. \A b \in Booths : FitsNow(b) => IsDue(s, b) \/ IsPlaced(b)
  BY <1>5, <1>9, <1>10
<1> QED
  BY <1>11, <1>12, <1>13 DEF Progresses, s

-----------------------------------------------------------------------------
\* Every step keeps what holds of the areas and of the tasks.

LEMMA QuietKnown ==
    ASSUME AreasAreKnown, UNCHANGED places,
           plan' = NoArea \/ plan' = plan \/ (reading.step = "read" /\ plan' = reading.layout),
           reading' = reading \/ reading'.step # "read" \/ reading'.layout = places
    PROVE  AreasAreKnown'
<1>1. ASSUME NEW l, TellsAreas(l) PROVE TellsAreas(l)'
  BY <1>1 DEF TellsAreas
<1>2. TellsAreas(places)
  BY DEF TellsAreas
<1>3. plan' # NoArea => TellsAreas(plan')
  BY DEF AreasAreKnown
<1>4. reading'.step = "read" => TellsAreas(reading'.layout)
  BY <1>2 DEF AreasAreKnown
<1>5. AreasAreKnown' <=> /\ plan' # NoArea => TellsAreas(plan)'
                         /\ reading'.step = "read" => TellsAreas(reading.layout)'
  BY DEF AreasAreKnown
<1>6. (TellsAreas(plan)' <=> TellsAreas(plan')) /\ (TellsAreas(reading.layout)' <=> TellsAreas(reading'.layout))
  BY DEF TellsAreas
<1> QED
  BY <1>3, <1>4, <1>5, <1>6

LEMMA QuietKeeps ==
    ASSUME MapInv, UNCHANGED places, mapBooths # NoArea => mapBooths' = mapBooths,
           NEW ts \in SUBSET tasks, tasks' = ts \/ tasks' = Cancelled(ts),
           plan' = NoArea \/ plan' = plan \/ (reading.step = "read" /\ plan' = reading.layout),
           reading' = reading \/ reading'.step # "read" \/ reading'.layout = places,
           outcome' = outcome \/ outcome' = "none"
    PROVE  AreaInv' /\ TaskInv'
<1>1. AreasAreKnown'
  BY QuietKnown DEF MapInv, AreaInv
<1>2. CodesAreKept' /\ AloneIsAlone' /\ ImportProgresses'
  BY FewerTasks DEF MapInv, AreaInv, TaskInv
<1>3. ImportSettled'
  <2> SUFFICES ASSUME outcome' = "done" PROVE tasks' = {} /\ Progresses(<<>>)'
    BY DEF ImportSettled
  <2>1. outcome = "done" /\ tasks = {} /\ Progresses(<<>>)
    BY DEF MapInv, TaskInv, ImportSettled
  <2>2. tasks' = {}
    BY <2>1 DEF Cancelled
  <2> QED
    BY <2>1, <2>2, SameProgress
<1> QED
  BY <1>1, <1>2, <1>3 DEF AreaInv, TaskInv

LEMMA LoadingKeeps ==
    ASSUME MapInv,
           \/ AnswerPlan \/ ReceivePlan \/ FailPlan \/ OnCatalog \/ Revisit \/ LeaveMap
           \/ \E i \in AreaIds \cup {NoArea} : HandleSelectArea(i)
    PROVE  AreaInv' /\ TaskInv'
<1>1. CASE AnswerPlan
  BY <1>1, QuietKeeps DEF AnswerPlan
<1>2. CASE ReceivePlan
  <2>1. reading'.step # "read"
    BY <1>2 DEF ReceivePlan, NotReading
  <2> QED
    BY <1>2, <2>1, QuietKeeps DEF ReceivePlan, Considered
<1>3. CASE FailPlan
  <2>1. reading'.step # "read"
    BY <1>3 DEF FailPlan, NotReading
  <2> QED
    BY <1>3, <2>1, QuietKeeps DEF FailPlan, Considered
<1>4. CASE OnCatalog
  BY <1>4, QuietKeeps DEF OnCatalog, Considered
<1>5. CASE Revisit
  <2>1. reading'.step # "read"
    BY <1>5 DEF Revisit, RefreshPlan
  <2> QED
    BY <1>5, <2>1, QuietKeeps DEF Revisit
<1>6. CASE LeaveMap
  <2>1. /\ tasks' = {} /\ UNCHANGED places /\ plan' = NoArea /\ reading'.step # "read" /\ outcome' = "none"
    BY <1>6 DEF LeaveMap, NotReading
  <2>2. AreasAreKnown'
    BY <2>1, QuietKnown DEF MapInv, AreaInv
  <2>3. CodesAreKept' /\ AloneIsAlone' /\ ImportProgresses' /\ ImportSettled'
    BY <2>1 DEF CodesAreKept, AloneIsAlone, ImportProgresses, ImportSettled
  <2> QED
    BY <2>2, <2>3 DEF AreaInv, TaskInv
<1>7. CASE \E i \in AreaIds \cup {NoArea} : HandleSelectArea(i)
  BY <1>7, QuietKeeps DEF HandleSelectArea
<1> QED
  BY <1>1, <1>2, <1>3, <1>4, <1>5, <1>6, <1>7

LEMMA EndingKeeps ==
    ASSUME MapInv, NEW t \in tasks, EndImport(t) \/ EndPick(t) \/ EndMove(t) \/ EndLayout(t)
    PROVE  AreaInv' /\ TaskInv'
<1>1. /\ tasks' = tasks \ {t} \/ tasks' = Cancelled(tasks \ {t})
      /\ tasks \ {t} \in SUBSET tasks /\ UNCHANGED <<places, mapBooths, plan>> /\ Done(t)
  BY DEF EndImport, EndPick, EndMove, EndLayout, Ends
<1>2. reading' = reading \/ reading'.step # "read"
  BY DEF EndImport, EndPick, EndMove, EndLayout, RefreshPlan
<1>3. outcome = "none"
  BY DEF MapInv, MapTypeOK, TaskInv, ImportSettled
<1>4. CASE outcome' = "none" \/ outcome' = outcome
  BY <1>1, <1>2, <1>4, QuietKeeps
<1>5. CASE EndImport(t) /\ t.alone /\ ~t.brokenOff
  <2>1. AreasAreKnown'
    BY <1>1, <1>2, QuietKnown DEF MapInv, AreaInv
  <2>2. CodesAreKept' /\ AloneIsAlone' /\ ImportProgresses'
    BY <1>1, FewerTasks DEF MapInv, AreaInv, TaskInv
  <2>3. tasks' = {}
    BY <1>5 DEF EndImport, Ends, MapInv, TaskInv, AloneIsAlone
  <2>4. t.of = "import" /\ t.todo = <<>>
    BY <1>1, <1>5 DEF EndImport, Done
  <2>5. Progresses(<<>>)
    BY <1>5, <2>4 DEF MapInv, TaskInv, ImportProgresses
  <2>6. Progresses(<<>>)'
    BY <1>1, <2>5, SameProgress
  <2> QED
    BY <2>1, <2>2, <2>3, <2>6 DEF AreaInv, TaskInv, ImportSettled
<1> QED
  BY <1>4, <1>5 DEF EndImport, EndPick, EndMove, EndLayout

\* A task that is started knows the areas, and is alone only where no other is under way.
LEMMA StartedKeeps ==
    ASSUME MapInv, UNCHANGED <<places, plan, reading>>, outcome' = "none", plan # NoArea, NEW t \in Tasks,
           NEW ts, ts = tasks \/ ts = Cancelled(tasks), tasks' = Beside(ts, t), ~t.brokenOff,
           \A k \in 1..Len(t.todo) : t.todo[k].area = FindBoothArea(t.todo[k].code, plan),
           t.of = "import" => (tasks = {} /\ plan = places => Progresses(t.todo)) /\ mapBooths' = mapBooths
    PROVE  AreaInv' /\ TaskInv'
<1>1. AreasAreKnown'
  BY QuietKnown DEF MapInv, AreaInv
<1>2. TellsAreas(plan) /\ CodesAreKept /\ tasks \in SUBSET Tasks
  BY DEF MapInv, AreaInv, AreasAreKnown, MapTypeOK
<1>3. ASSUME NEW u \in ts
      PROVE  \E v \in tasks : u \in Tasks /\ u.todo = v.todo /\ u.brokenOff = v.brokenOff
  <2>1. CASE ts = tasks
    BY <1>2, <1>3, <2>1
  <2>2. CASE ts = Cancelled(tasks)
    <3>1. PICK v \in tasks : u = IF v.of = "import" THEN [v EXCEPT !.cancelled = TRUE] ELSE v
      BY <1>3, <2>2 DEF Cancelled
    <3>2. v \in Tasks
      BY <1>2
    <3>3. u \in Tasks /\ u.todo = v.todo /\ u.brokenOff = v.brokenOff
      BY <3>1, <3>2 DEF Tasks
    <3> QED
      BY <3>3
  <2> QED
    BY <2>1, <2>2
<1>4. (ts = {}) <=> (tasks = {})
  BY DEF Cancelled
<1>5. ASSUME NEW u \in tasks'
      PROVE  \/ /\ ~u.alone /\ (u.brokenOff => u.todo = <<>>)
                /\ \E v \in tasks : u.todo = v.todo
             \/ /\ u.todo = t.todo /\ u.of = t.of /\ ~u.brokenOff
                /\ u.alone => tasks = {} /\ tasks' = {u} /\ plan = places
  <2>1. CASE \E x \in ts : u = [x EXCEPT !.alone = FALSE]
    <3>1. PICK x \in ts : u = [x EXCEPT !.alone = FALSE]
      BY <2>1
    <3>2. PICK v \in tasks : x \in Tasks /\ x.todo = v.todo /\ x.brokenOff = v.brokenOff
      BY <1>3, <3>1
    <3>3. u.alone = FALSE /\ u.todo = x.todo /\ u.brokenOff = x.brokenOff
      BY <3>1, <3>2 DEF Tasks
    <3>4. v.brokenOff => v.todo = <<>>
      BY DEF MapInv, TaskInv, ImportProgresses
    <3> QED
      BY <3>2, <3>3, <3>4
  <2>2. CASE u = [t EXCEPT !.alone = ts = {} /\ plan = places]
    <3>1. (ts = {} /\ plan = places) \in BOOLEAN
      OBVIOUS
    <3>2. u.todo = t.todo /\ u.of = t.of /\ u.brokenOff = t.brokenOff /\ u.alone = (ts = {} /\ plan = places)
      BY <2>2, <3>1 DEF Tasks
    <3>3. ts = {} => tasks' = {u}
      BY <2>2 DEF Beside
    <3> QED
      BY <1>4, <3>2, <3>3
  <2> QED
    BY <1>5, <2>1, <2>2 DEF Beside
<1>6. CodesAreKept'
  <2> SUFFICES ASSUME NEW u \in tasks', NEW k \in 1..Len(u.todo) PROVE KeepsCode(u.todo[k])'
    BY DEF CodesAreKept
  <2>1. CASE \E v \in tasks : u.todo = v.todo
    <3>1. KeepsCode(u.todo[k])
      BY <1>2, <2>1 DEF CodesAreKept
    <3> QED
      BY <3>1, SameCodes
  <2>2. CASE u.todo = t.todo
    <3>1. PICK w : w = u.todo[k] /\ w.area = FindBoothArea(w.code, plan)
      BY <2>2
    <3>2. w.area \in AreaIds \cup {0} /\ (w.area # 0 => plan[w.area] # NoArea /\ plan[w.area].code = w.code)
      BY <3>1, FoundHasCode
    <3>3. KeepsCode(w)
      BY <1>2, <3>2 DEF KeepsCode, TellsAreas
    <3> QED
      BY <3>1, <3>3, SameCodes
  <2> QED
    BY <1>5, <2>1, <2>2
<1>7. AloneIsAlone'
  BY <1>5 DEF AloneIsAlone
<1>8. ImportProgresses'
  <2>1. ASSUME NEW u \in tasks', u.brokenOff PROVE u.todo = <<>>
    BY <1>5, <2>1
  <2>2. ASSUME NEW u \in tasks', u.of = "import", u.alone, ~u.brokenOff PROVE Progresses(u.todo)'
    <3>1. u.todo = t.todo /\ t.of = "import" /\ tasks = {} /\ plan = places
      BY <1>5, <2>2
    <3>2. Progresses(u.todo) /\ mapBooths' = mapBooths
      BY <3>1
    <3> QED
      BY <3>2, SameProgress
  <2> QED
    BY <2>1, <2>2 DEF ImportProgresses
<1>9. ImportSettled'
  BY DEF ImportSettled
<1> QED
  BY <1>1, <1>6, <1>7, <1>8, <1>9 DEF AreaInv, TaskInv

LEMMA ImportAreasAreFound ==
    ASSUME mapBooths \in [Booths -> Spots]
    PROVE  /\ ImportWrites \in Seq(Writes)
           /\ \A k \in 1..Len(ImportWrites) : ImportWrites[k].area = FindBoothArea(ImportWrites[k].code, plan)
<1> DEFINE n == Len(BoothMoves)
           p == Len(BoothCreates)
           s == ImportWrites
<1>1. /\ n \in Nat /\ p \in Nat /\ s \in Seq(Writes) /\ Len(s) = n + n + p
      /\ \A k \in 1..n : /\ s[k] = [area |-> FindBoothArea(BoothMoves[k], plan), code |-> BoothMoves[k],
                                    spot |-> ParkedRow + k - 1, fatal |-> TRUE]
                         /\ s[n + k] = [area |-> FindBoothArea(BoothMoves[k], plan), code |-> BoothMoves[k],
                                        spot |-> mapBooths[BoothMoves[k]], fatal |-> FALSE]
      /\ \A k \in 1..p : s[n + n + k] = [area |-> FindBoothArea(BoothCreates[k], plan), code |-> BoothCreates[k],
                                         spot |-> mapBooths[BoothCreates[k]], fatal |-> FALSE]
  <2>1. n \in 0..NumBooths /\ p \in 0..NumBooths /\ NumBooths \in Nat
    BY ImportInThreeParts, HallIsSized
  <2>2. n \in Nat /\ p \in Nat
    <3> HIDE DEF n, p
    <3> QED
      BY <2>1
  <2> QED
    BY <2>2, ImportInThreeParts
<1> HIDE DEF n, p, s
<1>2. /\ \A k \in 1..n : /\ s[k].area = FindBoothArea(s[k].code, plan)
                         /\ s[n + k].area = FindBoothArea(s[n + k].code, plan)
      /\ \A k \in 1..p : s[n + n + k].area = FindBoothArea(s[n + n + k].code, plan)
  <2>2. ASSUME NEW k \in 1..n
        PROVE  /\ s[k].area = FindBoothArea(s[k].code, plan)
               /\ s[n + k].area = FindBoothArea(s[n + k].code, plan)
    <3>1. s[k] = [area |-> FindBoothArea(BoothMoves[k], plan), code |-> BoothMoves[k], spot |-> ParkedRow + k - 1, fatal |-> TRUE]
      BY <1>1
    <3>2. s[n + k] = [area |-> FindBoothArea(BoothMoves[k], plan), code |-> BoothMoves[k],
                      spot |-> mapBooths[BoothMoves[k]], fatal |-> FALSE]
      BY <1>1
    <3> QED
      BY <3>1, <3>2
  <2>3. ASSUME NEW k \in 1..p
        PROVE  s[n + n + k].area = FindBoothArea(s[n + n + k].code, plan)
    <3>1. s[n + n + k] = [area |-> FindBoothArea(BoothCreates[k], plan), code |-> BoothCreates[k],
                          spot |-> mapBooths[BoothCreates[k]], fatal |-> FALSE]
      BY <1>1
    <3> QED
      BY <3>1
  <2> QED
    BY <2>2, <2>3
<1>3. ASSUME NEW m \in 1..Len(s) PROVE s[m].area = FindBoothArea(s[m].code, plan)
  <2>1. CASE m <= n
    BY <1>1, <1>2, <2>1
  <2>2. CASE n < m /\ m <= n + n
    <3>1. m - n \in 1..n /\ m = n + (m - n)
      BY <1>1, <2>2
    <3> QED
      BY <1>2, <3>1
  <2>3. CASE n + n < m
    <3>1. m - n - n \in 1..p /\ m = n + n + (m - n - n)
      BY <1>1, <2>3
    <3> QED
      BY <1>2, <3>1
  <2> QED
    BY <1>1, <2>1, <2>2, <2>3
<1> QED
  BY <1>1, <1>3 DEF s

LEMMA StartingKeeps ==
    ASSUME MapInv, PersistMissingMapBooths \/ HandleSaveLayout \/ \E b \in Booths : HandleSelectBooth(b)
    PROVE  AreaInv' /\ TaskInv'
<1>1. MapTypeOK /\ (plan # NoArea => TellsAreas(plan))
  BY DEF MapInv, AreaInv, AreasAreKnown
<1>2. CASE PersistMissingMapBooths
  <2>1. CASE plan # NoArea /\ mapBooths # NoArea /\ ~imported
    <3>1. mapBooths \in [Booths -> Spots]
      BY <1>1, <2>1 DEF MapTypeOK
    <3>2. ImportWrites \in Seq(Writes) /\ \A k \in 1..Len(ImportWrites) :
                                              ImportWrites[k].area = FindBoothArea(ImportWrites[k].code, plan)
      BY <3>1, ImportAreasAreFound
    <3>3. plan = places => Progresses(ImportWrites)
      BY <1>1, <2>1, ImportBegins
    <3>4. PICK t : t = Task("import", 0, ImportWrites)
      OBVIOUS
    <3>5. t \in Tasks /\ t.of = "import" /\ t.todo = ImportWrites /\ ~t.brokenOff
      <4>1. t \in Tasks
        BY <3>2, <3>4, TaskIsTask
      <4> QED
        BY <3>4, <4>1 DEF Task
    <3>6. tasks' = Beside(tasks, t) /\ outcome' = "none" /\ UNCHANGED <<places, plan, reading, mapBooths>>
      BY <1>2, <2>1, <3>4 DEF PersistMissingMapBooths, Start
    <3> QED
      BY <2>1, <3>2, <3>3, <3>5, <3>6, StartedKeeps
  <2>2. CASE ~(plan # NoArea /\ mapBooths # NoArea /\ ~imported)
    BY <1>2, <2>2, QuietKeeps DEF PersistMissingMapBooths
  <2> QED
    BY <2>1, <2>2
<1>3. CASE HandleSaveLayout
  <2>1. DirtyBooths \in SUBSET Booths
    BY <1>1 DEF DirtyBooths, MapTypeOK
  <2>2. plan # NoArea /\ mapBooths \in [Booths -> Spots]
    BY <1>1, <1>3 DEF HandleSaveLayout, Gesture, MapTypeOK
  <2> DEFINE order == InOrder(DirtyBooths)
             todo == [i \in 1..Len(order) |-> Persist(order[i], mapBooths[order[i]], plan)]
             at == [b \in Booths |-> IF b \in DirtyBooths THEN mapBooths[b] ELSE NoArea]
  <2>3. todo \in Seq(Writes) /\ \A k \in 1..Len(todo) : todo[k].area = FindBoothArea(todo[k].code, plan)
    <3>1. Len(order) \in Nat /\ \A i \in 1..Len(order) : order[i] \in Booths
      BY <2>1, OrderedBooths
    <3>2. \A i \in 1..Len(order) : /\ Persist(order[i], mapBooths[order[i]], plan) \in Writes
                                   /\ Persist(order[i], mapBooths[order[i]], plan).area = FindBoothArea(order[i], plan)
                                   /\ Persist(order[i], mapBooths[order[i]], plan).code = order[i]
      <4> SUFFICES ASSUME NEW i \in 1..Len(order), NEW c, c = order[i], NEW s, s = mapBooths[c]
                   PROVE  /\ Persist(c, s, plan) \in Writes /\ Persist(c, s, plan).area = FindBoothArea(c, plan)
                          /\ Persist(c, s, plan).code = c
        OBVIOUS
      <4>1. c \in Booths /\ s \in Spots
        BY <2>2, <3>1
      <4>2. Persist(c, s, plan) \in Writes
        BY <4>1, PersistIsWrite
      <4> QED
        BY <4>2 DEF Persist
    <3>3. Len(todo) = Len(order) /\ todo \in Seq(Writes)
      BY <3>1, <3>2
    <3> QED
      BY <3>2, <3>3
  <2>4. at \in [Booths -> Spots \cup {NoArea}]
    BY <2>2
  <2>5. PICK t : t = [Task("layout", 0, todo) EXCEPT !.at = at]
    OBVIOUS
  <2>6. tasks' = Beside(tasks, t) /\ outcome' = "none" /\ UNCHANGED <<places, plan, reading, mapBooths>>
    BY <1>3, <2>5 DEF HandleSaveLayout, Start
  <2> HIDE DEF todo, at
  <2>7. t \in Tasks /\ t.of = "layout" /\ t.todo = todo /\ ~t.brokenOff
    <3>1. PICK v : v = Task("layout", 0, todo)
      OBVIOUS
    <3>2. v \in Tasks /\ v.of = "layout" /\ v.todo = todo /\ ~v.brokenOff
      BY <2>3, <3>1, TaskIsTask
    <3> QED
      BY <2>4, <2>5, <3>1, <3>2 DEF Tasks
  <2> QED
    BY <2>2, <2>3, <2>6, <2>7, StartedKeeps
<1>4. ASSUME NEW b \in Booths, HandleSelectBooth(b) PROVE AreaInv' /\ TaskInv'
  <2>1. /\ plan # NoArea /\ mapBooths \in [Booths -> Spots]
        /\ UNCHANGED <<places, plan, reading, mapBooths>>
    BY <1>1, <1>4 DEF HandleSelectBooth, Gesture, MapTypeOK
  <2>2. CASE UNCHANGED <<tasks, outcome>>
    BY <2>1, <2>2, QuietKeeps
  <2>3. CASE outcome' = "none" /\ Start(Task("pick", b, <<Persist(b, mapBooths[b], plan)>>))
    <3>1. PICK w : w = Persist(b, mapBooths[b], plan)
      OBVIOUS
    <3>2. w \in Writes /\ w.area = FindBoothArea(w.code, plan)
      <4>1. w \in Writes
        BY <2>1, <3>1, PersistIsWrite
      <4> QED
        BY <3>1, <4>1 DEF Persist
    <3>3. <<w>> \in Seq(Writes) /\ \A k \in 1..Len(<<w>>) : <<w>>[k] = w
      BY <3>2
    <3>4. PICK t : t = Task("pick", b, <<w>>)
      OBVIOUS
    <3>5. t \in Tasks /\ t.of = "pick" /\ t.todo = <<w>> /\ ~t.brokenOff
      <4>1. t \in Tasks
        BY <3>3, <3>4, TaskIsTask
      <4> QED
        BY <3>4, <4>1 DEF Task
    <3>6. tasks' = Beside(tasks, t)
      BY <2>3, <3>1, <3>4 DEF Start
    <3>7. \A k \in 1..Len(t.todo) : t.todo[k].area = FindBoothArea(t.todo[k].code, plan)
      BY <3>2, <3>3, <3>5
    <3> QED
      BY <2>1, <2>3, <3>5, <3>6, <3>7, StartedKeeps
  <2> QED
    BY <1>4, <2>2, <2>3 DEF HandleSelectBooth
<1> QED
  BY <1>2, <1>3, <1>4

LEMMA DraggingKeeps ==
    ASSUME MapInv, NEW b \in Booths, NEW s \in Spots, HandleBoothMoved(b, s)
    PROVE  AreaInv' /\ TaskInv'
<1>1. PICK w : w = Persist(b, s, plan)
  OBVIOUS
<1>2. w \in Writes /\ w.area = FindBoothArea(w.code, plan)
  <2>1. w \in Writes
    BY <1>1, PersistIsWrite
  <2> QED
    BY <1>1, <2>1 DEF Persist
<1>3. <<w>> \in Seq(Writes) /\ \A k \in 1..Len(<<w>>) : <<w>>[k] = w
  BY <1>2
<1>4. PICK v : v = Task("move", b, <<w>>)
  OBVIOUS
<1>5. v \in Tasks /\ v.of = "move" /\ v.todo = <<w>> /\ ~v.brokenOff
  <2>1. v \in Tasks
    BY <1>3, <1>4, TaskIsTask
  <2> QED
    BY <1>4, <2>1 DEF Task
<1>6. PICK t : t = [v EXCEPT !.at[b] = s]
  OBVIOUS
<1>7. t \in Tasks /\ t.of = "move" /\ t.todo = <<w>> /\ ~t.brokenOff
  BY <1>5, <1>6 DEF Tasks
<1>8. /\ tasks' = Beside(Cancelled(tasks), t) /\ outcome' = "none" /\ plan # NoArea
      /\ UNCHANGED <<places, plan, reading>>
  BY <1>1, <1>4, <1>6 DEF HandleBoothMoved, Gesture
<1>9. \A k \in 1..Len(t.todo) : t.todo[k].area = FindBoothArea(t.todo[k].code, plan)
  BY <1>2, <1>3, <1>7
<1> QED
  BY <1>7, <1>8, <1>9, StartedKeeps

LEMMA TaskStepKeeps ==
    ASSUME MapInv, NEW t \in tasks, TaskStep(t)
    PROVE  AreaInv' /\ TaskInv'
<1>1. /\ MapTypeOK /\ AreasAreKnown /\ CodesAreKept /\ AloneIsAlone /\ ImportProgresses
      /\ outcome = "none" /\ outcome' = outcome /\ UNCHANGED <<plan, reading, mapBooths>>
      /\ t \in Tasks /\ t.todo \in Seq(Writes) /\ t.todo # <<>> /\ ~t.brokenOff
  <2>1. t \in Tasks /\ t.todo \in Seq(Writes)
    BY DEF MapInv, MapTypeOK, Tasks
  <2>2. outcome = "none"
    BY DEF MapInv, MapTypeOK, TaskInv, ImportSettled
  <2> QED
    BY <2>1, <2>2 DEF MapInv, AreaInv, TaskInv, TaskStep, Done, ImportProgresses
<1>2. PICK w : w = Head(t.todo)
  OBVIOUS
<1>3. w \in Writes /\ KeepsCode(w)
  BY <1>1, <1>2, RestOfWrites DEF CodesAreKept
<1>4. PICK u \in Tasks :
          /\ tasks' = (tasks \ {t}) \cup {u}
          /\ u.of = t.of /\ (u.alone => t.alone) /\ (u.brokenOff \/ u.todo = Tail(t.todo))
          /\ u.todo = <<>> \/ u.todo = Tail(t.todo)
          /\ u.brokenOff => u.todo = <<>>
          /\ \/ \E i \in AreaIds : Written(w, i) /\ ~u.brokenOff /\ u.todo = Tail(t.todo)
             \/ UNCHANGED places /\ (~u.brokenOff /\ u.alone => ~FreeFor(w.area, w.spot) /\ ~w.fatal)
             \/ ~u.alone /\ \E i \in AreaIds : Written(w, i)
  BY <1>1, <1>2, TaskSteps
<1>5. UNCHANGED places \/ SameAreas
  BY <1>1, <1>3, <1>4, WrittenKeepsAreas
<1>6. AreasAreKnown'
  BY <1>1, <1>5, QuietKnown, SameAreasAreKnown
<1>7. CodesAreKept'
  <2>1. ASSUME NEW v \in Writes, KeepsCode(v) PROVE KeepsCode(v)'
    BY <1>5, <2>1, SameCodes, SameAreasKeepCodes
  <2>2. ASSUME NEW x \in tasks, NEW k \in 1..Len(x.todo) PROVE KeepsCode(x.todo[k])'
    <3>1. x.todo[k] \in Writes
      BY <1>1, <2>2 DEF MapTypeOK, Tasks
    <3>2. KeepsCode(x.todo[k])
      BY <1>1, <2>2 DEF CodesAreKept
    <3> QED
      BY <2>1, <3>1, <3>2
  <2>3. ASSUME NEW k \in 1..Len(u.todo) PROVE KeepsCode(u.todo[k])'
    <3>1. u.todo = Tail(t.todo)
      BY <1>4, <2>3
    <3>2. k + 1 \in 1..Len(t.todo) /\ u.todo[k] = t.todo[k + 1]
      BY <1>1, <2>3, <3>1, RestOfWrites
    <3> QED
      BY <2>2, <3>2
  <2> SUFFICES ASSUME NEW x \in tasks', NEW k \in 1..Len(x.todo) PROVE KeepsCode(x.todo[k])'
    BY DEF CodesAreKept
  <2>4. CASE x = u
    BY <2>3, <2>4
  <2>5. CASE x \in tasks
    BY <2>2, <2>5
  <2> QED
    BY <1>4, <2>4, <2>5
<1>8. AloneIsAlone'
  BY <1>1, <1>4 DEF AloneIsAlone
<1>9. ImportProgresses'
  <2>1. ASSUME NEW x \in tasks', x.of = "import", x.alone, ~x.brokenOff PROVE Progresses(x.todo)'
    <3>1. CASE x = u
      <4>1. t.of = "import" /\ t.alone /\ u.todo = Tail(t.todo)
        BY <1>4, <2>1, <3>1
      <4>2. Progresses(t.todo)
        BY <1>1, <4>1 DEF ImportProgresses
      <4>3. CASE \E i \in AreaIds : Written(w, i)
        <5>1. PICK s : s = t.todo
          OBVIOUS
        <5>2. Progresses(Tail(s))'
          BY <1>1, <1>2, <1>3, <4>2, <4>3, <5>1, WrittenProgresses
        <5>3. PICK r : r = Tail(s) /\ r = x.todo
          BY <3>1, <4>1, <5>1
        <5>4. Progresses(r)'
          BY <5>2, <5>3
        <5> QED
          BY <5>3, <5>4
      <4>4. CASE UNCHANGED places /\ ~FreeFor(w.area, w.spot) /\ ~w.fatal
        <5>1. Progresses(Tail(t.todo))
          BY <1>1, <1>2, <1>3, <4>2, <4>4, RefusedProgresses
        <5>2. Progresses(x.todo)
          BY <3>1, <4>1, <5>1
        <5> QED
          BY <1>1, <4>4, <5>2, SameProgress
      <4> QED
        BY <1>4, <2>1, <3>1, <4>3, <4>4
    <3>2. CASE x \in tasks \ {t}
      <4>1. tasks' = {x}
        <5>1. tasks = {x}
          BY <1>1, <2>1, <3>2 DEF AloneIsAlone
        <5> QED
          BY <3>2, <5>1
      <4>2. tasks = {x}
        BY <1>1, <2>1, <3>2 DEF AloneIsAlone
      <4> QED
        BY <3>2, <4>2
    <3> QED
      BY <1>4, <3>1, <3>2
  <2>2. ASSUME NEW x \in tasks', x.brokenOff PROVE x.todo = <<>>
    BY <1>1, <1>4, <2>2 DEF ImportProgresses
  <2> QED
    BY <2>1, <2>2 DEF ImportProgresses
<1>10. ImportSettled'
  BY <1>1 DEF ImportSettled
<1> QED
  BY <1>6, <1>7, <1>8, <1>9, <1>10 DEF AreaInv, TaskInv

-----------------------------------------------------------------------------
LEMMA MapInvStep ==
    ASSUME MapInv, [MapNext]_mapVars
    PROVE  MapInv'
<1>1. CASE MapNext
  <2>1. MapTypeOK'
    BY <1>1, MapNextTyped DEF MapInv
  <2>2. AreaInv' /\ TaskInv'
    BY <1>1, LoadingKeeps, EndingKeeps, StartingKeeps, DraggingKeeps, TaskStepKeeps DEF MapNext
  <2> QED
    BY <2>1, <2>2 DEF MapInv
<1>2. CASE UNCHANGED mapVars
  <2>1. MapTypeOK'
    BY <1>2 DEF mapVars, MapInv, MapTypeOK
  <2>2. AreaInv' /\ TaskInv'
    <3>1. /\ UNCHANGED places /\ mapBooths' = mapBooths /\ tasks' = tasks /\ plan' = plan
          /\ reading' = reading /\ outcome' = outcome
      BY <1>2 DEF mapVars
    <3> QED
      BY <3>1, QuietKeeps
  <2> QED
    BY <2>1, <2>2 DEF MapInv
<1> QED
  BY <1>1, <1>2

LEMMA MapInitInv ==
    ASSUME MapInit
    PROVE  MapInv
<1>1. MapTypeOK
  <2>1. places \in Layouts
    <3>1. [code : Booths \cup {Foreign}, spot : Spots] \subseteq Areas
      BY DEF Areas
    <3> QED
      BY <3>1 DEF MapInit, Layouts
  <2>2. /\ NoSelection \in [booth : Booths \cup {NoArea}, area : AreaIds \cup {NoArea}]
        /\ Nowhere \in [Booths -> Spots \cup {NoArea}]
    BY DEF NoSelection, Nowhere
  <2>3. gestures \in 0..MaxMapActions
    BY MapBoundsAreNat DEF MapInit
  <2> QED
    BY <2>1, <2>2, <2>3 DEF MapInit, MapTypeOK
<1>2. AreasAreKnown
  BY DEF MapInit, AreasAreKnown
<1>3. CodesAreKept /\ AloneIsAlone /\ ImportProgresses /\ ImportSettled
  BY DEF MapInit, CodesAreKept, AloneIsAlone, ImportProgresses, ImportSettled
<1> QED
  BY <1>1, <1>2, <1>3 DEF MapInv, AreaInv, TaskInv

\* Everything the map page and the API hold is of its type at every moment.
THEOREM MapTyped == MapSpec => []MapTypeOK
<1>1. MapInv => MapTypeOK
  BY DEF MapInv
<1> QED
  BY <1>1, MapInitInv, MapInvStep, PTL DEF MapSpec

LEMMA SettledImportHasPlaced ==
    ASSUME MapInv
    PROVE  ImportPlacesBooths
<1> SUFFICES ASSUME outcome = "done", plan # NoArea, NEW b \in Booths, Fits(b), ~Blocked(b)
             PROVE  [code |-> b, spot |-> mapBooths[b]] \in {places[i] : i \in AreaIds}
  BY DEF ImportPlacesBooths
<1>1. MapTypeOK /\ TellsAreas(plan) /\ Progresses(<<>>)
  BY DEF MapInv, AreaInv, AreasAreKnown, TaskInv, ImportSettled
<1>2. \A c : Fits(c) <=> FitsNow(c)
  BY <1>1, FitsIsFitsNow
<1>3. ~IsBlocked(b)
  BY <1>2 DEF Blocked, Stays, IsBlocked, StaysNow, Existing, Finds
<1>4. IsPlaced(b)
  <2>1. ~IsDue(<<>>, b)
    BY DEF IsDue
  <2> QED
    BY <1>1, <1>2, <1>3, <2>1 DEF Progresses
<1>5. PICK i \in AreaIds : i = Finds(b) /\ places[i] # NoArea /\ places[i].code = b /\ places[i].spot = mapBooths[b]
  <2>1. FindBoothArea(b, places) # 0
    BY <1>4 DEF IsPlaced, Finds
  <2> QED
    BY <1>4, <2>1, FoundHasCode DEF IsPlaced, Finds
<1>6. places[i] \in Areas
  BY <1>1, <1>5 DEF MapTypeOK, Layouts
<1>7. places[i] = [code |-> b, spot |-> mapBooths[b]]
  BY <1>5, <1>6 DEF Areas
<1> QED
  BY <1>5, <1>7

\* An import that ran to its end, knew the plan, was alone and lost no request has brought
\* every booth that fits and is not blocked to its spot, for any number of booths, spots
\* and areas.
THEOREM ImportPlaces == MapSpec => []ImportPlacesBooths
BY MapInitInv, MapInvStep, SettledImportHasPlaced, PTL DEF MapSpec

-----------------------------------------------------------------------------
\* The parts together (Browser).  The part that is worked takes its own steps from its
\* own start, so what is proved of it alone holds; a closed part keeps its values.

LEMMA PageInBrowser == BrowserSpec => [](PageTypeOK /\ SettledPageAgrees)
<1>1. BrowserInit /\ worked = "page" => PageInit
  BY DEF BrowserInit
<1>2. worked = "page" /\ [BrowserNext]_browserVars => (worked = "page")' /\ [PageNext]_pageVars
  BY DEF BrowserNext, browserVars
<1>3. BrowserInit /\ ~(worked = "page") => NoPage
  BY DEF BrowserInit
<1>4. ~(worked = "page") /\ NoPage /\ [BrowserNext]_browserVars => (~(worked = "page"))' /\ NoPage'
  BY DEF BrowserNext, browserVars, pageVars, NoPage
<1>5. NoPage => PageTypeOK /\ SettledPageAgrees
  <2> SUFFICES ASSUME NoPage PROVE PageTypeOK /\ SettledPageAgrees
    OBVIOUS
  <2>1. view \in Views /\ typed \in Filters
    BY SomeCycle DEF NoPage, Views, Filters
  <2>2. server \in Rows /\ shown \in Contents
    BY DEF NoPage, NoRows, Rows, Loading, Contents
  <2>3. cache \in [Keys -> Contents \cup {None}] /\ actions \in 0..MaxPageActions
    BY PageBoundIsNat DEF NoPage
  <2>4. page \in AllPages /\ ~mounted /\ mounted \in BOOLEAN /\ disturbed \in BOOLEAN
    BY DEF NoPage, AllPages
  <2>5. loads \subseteq Loads /\ moves \subseteq Moves
    BY DEF NoPage
  <2> QED
    BY <2>1, <2>2, <2>3, <2>4, <2>5 DEF PageTypeOK, SettledPageAgrees
<1> QED
  BY <1>1, <1>2, <1>3, <1>4, <1>5, PageTyped, PageAgrees, PTL DEF BrowserSpec, PageSpec

LEMMA SwitcherInBrowser == BrowserSpec => [](CycleTypeOK /\ PickIsKept)
<1>1. BrowserInit /\ worked = "cycle" => CycleInit
  BY DEF BrowserInit
<1>2. worked = "cycle" /\ [BrowserNext]_browserVars => (worked = "cycle")' /\ [CycleNext]_cycleVars
  BY DEF BrowserNext, browserVars
<1>3. BrowserInit /\ ~(worked = "cycle") => NoSwitcher
  BY DEF BrowserInit
<1>4. ~(worked = "cycle") /\ NoSwitcher /\ [BrowserNext]_browserVars => (~(worked = "cycle"))' /\ NoSwitcher'
  BY DEF BrowserNext, browserVars, cycleVars, NoSwitcher
<1>5. NoSwitcher => CycleTypeOK /\ PickIsKept
  <2> SUFFICES ASSUME NoSwitcher PROVE CycleTypeOK /\ PickIsKept
    OBVIOUS
  <2>1. used \in 0..MaxCycleActions
    BY CycleBoundIsNat DEF NoSwitcher
  <2>2. replacing \in Seq(CycleIds)
    BY EmptySeq DEF NoSwitcher
  <2> QED
    BY <2>1, <2>2 DEF NoSwitcher, CycleTypeOK, MaybeCycle, PickIsKept
<1> QED
  BY <1>1, <1>2, <1>3, <1>4, <1>5, CycleTyped, PickKept, PTL DEF BrowserSpec, CycleSpec

LEMMA SheetInBrowser == BrowserSpec => [](SheetTypeOK /\ SettledSheetAgrees /\ DraftIsKept)
<1>1. BrowserInit /\ worked = "sheet" => SheetInit
  BY DEF BrowserInit
<1>2. worked = "sheet" /\ [BrowserNext]_browserVars => (worked = "sheet")' /\ [SheetNext]_sheetVars
  BY DEF BrowserNext, browserVars
<1>3. BrowserInit /\ ~(worked = "sheet") => NoSheet
  BY DEF BrowserInit
<1>4. ~(worked = "sheet") /\ NoSheet /\ [BrowserNext]_browserVars => (~(worked = "sheet"))' /\ NoSheet'
  BY DEF BrowserNext, browserVars, sheetVars, NoSheet
<1>5. NoSheet => SheetTypeOK /\ SettledSheetAgrees /\ DraftIsKept
  <2> SUFFICES ASSUME NoSheet PROVE SheetTypeOK /\ SettledSheetAgrees /\ DraftIsKept
    OBVIOUS
  <2>1. Empty \in [Fields -> Values] /\ Empty \in Drafts
    BY DEF Empty, Values, Drafts, Typed
  <2>2. items \in [Records -> Items \cup {NoRecord}]
    BY DEF NoSheet
  <2>3. pane \in [status : {"loading", "error", "ready"}, item : Items, account : BOOLEAN]
    BY <2>1 DEF NoSheet, SheetLoad, Nothing, Items, DealStages
  <2>4. acts \in 0..MaxSheetActions
    BY SheetBoundIsNat DEF NoSheet
  <2>5. SheetTypeOK
    BY <2>1, <2>2, <2>3, <2>4 DEF NoSheet, SheetTypeOK
  <2> QED
    BY <2>5 DEF NoSheet, SettledSheetAgrees, DraftIsKept
<1> QED
  BY <1>1, <1>2, <1>3, <1>4, <1>5, SheetTyped, SheetAgrees, DraftKept, PTL DEF BrowserSpec, SheetSpec

LEMMA CreateSheetInBrowser == BrowserSpec => [](CreateTypeOK /\ SubmittedIsChosen)
<1>1. BrowserInit /\ worked = "create" => CreateInit
  BY DEF BrowserInit
<1>2. worked = "create" /\ [BrowserNext]_browserVars => (worked = "create")' /\ [CreateNext]_createVars
  BY DEF BrowserNext, browserVars
<1>3. BrowserInit /\ ~(worked = "create") => NoCreateSheet
  BY DEF BrowserInit
<1>4. ~(worked = "create") /\ NoCreateSheet /\ [BrowserNext]_browserVars => (~(worked = "create"))' /\ NoCreateSheet'
  BY DEF BrowserNext, browserVars, createVars, NoCreateSheet
<1>5. NoCreateSheet => CreateTypeOK /\ SubmittedIsChosen
  <2> SUFFICES ASSUME NoCreateSheet PROVE CreateTypeOK /\ SubmittedIsChosen
    OBVIOUS
  <2>1. highlighted \in 0..Cardinality(Offered) /\ steps \in 0..MaxCreateActions
    <3>1. 0 \in 0..Cardinality(Offered) /\ 0 \in 0..MaxCreateActions
      BY OfferedIsFinite, CreateBoundIsNat
    <3>2. highlighted = 0 /\ steps = 0
      BY DEF NoCreateSheet
    <3> QED
      BY <3>1, <3>2
  <2>2. options \in Seq(Offered)
    BY EmptySeq DEF NoCreateSheet
  <2>3. known \subseteq Offered /\ created \subseteq Submissions /\ asking \subseteq Offered
    BY DEF NoCreateSheet
  <2>4. {formOpen, listOpen, orgSheet, creating, late} \subseteq BOOLEAN
    BY DEF NoCreateSheet
  <2>5. {search, query} \subseteq Texts /\ searching \subseteq Texts
    BY DEF NoCreateSheet, Texts
  <2>6. {organization, contacts, contact, chosen} \subseteq MaybeCompany /\ submitted = NoCompany
    BY DEF NoCreateSheet, MaybeCompany
  <2>7. contact = NoCompany /\ organization = chosen
    BY DEF NoCreateSheet
  <2> QED
    BY <2>1, <2>2, <2>3, <2>4, <2>5, <2>6, <2>7 DEF CreateTypeOK, SubmittedIsChosen
<1> QED
  BY <1>1, <1>2, <1>3, <1>4, <1>5, CreationTyped, SubmitsChoice, PTL DEF BrowserSpec, CreateSpec

LEMMA OrganizationSheetInBrowser == BrowserSpec => [](OrganizationTypeOK /\ SettledOrganizationAgrees)
<1>1. BrowserInit /\ worked = "organization" => OrganizationInit
  BY DEF BrowserInit
<1>2. worked = "organization" /\ [BrowserNext]_browserVars => (worked = "organization")' /\ [OrganizationNext]_orgVars
  BY DEF BrowserNext, browserVars
<1>3. BrowserInit /\ ~(worked = "organization") => NoOrganizationSheet
  BY DEF BrowserInit
<1>4. ~(worked = "organization") /\ NoOrganizationSheet /\ [BrowserNext]_browserVars => (~(worked = "organization"))' /\ NoOrganizationSheet'
  BY DEF BrowserNext, browserVars, orgVars, NoOrganizationSheet
<1>5. NoOrganizationSheet => OrganizationTypeOK /\ SettledOrganizationAgrees
  <2> SUFFICES ASSUME NoOrganizationSheet PROVE OrganizationTypeOK /\ SettledOrganizationAgrees
    OBVIOUS
  <2>1. Nobody \in Lists /\ people \in Lists
    BY DEF NoOrganizationSheet, Nobody, Lists
  <2>2. details \in Details /\ details.status = "closed" /\ detailLoad \in DetailLoads
    <3>1. PICK d : d = [Blank EXCEPT !.status = "closed"]
      OBVIOUS
    <3>2. d \in Details /\ d.status = "closed"
      BY <2>1, <3>1 DEF Details, Blank, Names
    <3> QED
      BY <2>1, <3>1, <3>2 DEF NoOrganizationSheet, DetailLoads, Names
  <2>3. deeds \in 0..MaxOrganizationActions
    BY OrganizationBoundIsNat DEF NoOrganizationSheet
  <2> QED
    BY <2>1, <2>2, <2>3 DEF NoOrganizationSheet, OrganizationTypeOK, Names, SettledOrganizationAgrees
<1> QED
  BY <1>1, <1>2, <1>3, <1>4, <1>5, OrganizationTyped, OrganizationAgrees, PTL DEF BrowserSpec, OrganizationSpec

LEMMA SectionInBrowser == BrowserSpec => [](SectionTypeOK /\ SettledSectionAgrees)
<1>1. BrowserInit /\ worked = "section" => SectionInit
  BY DEF BrowserInit
<1>2. worked = "section" /\ [BrowserNext]_browserVars => (worked = "section")' /\ [SectionNext]_sectionVars
  BY DEF BrowserNext, browserVars
<1>3. BrowserInit /\ ~(worked = "section") => NoSection
  BY DEF BrowserInit
<1>4. ~(worked = "section") /\ NoSection /\ [BrowserNext]_browserVars => (~(worked = "section"))' /\ NoSection'
  BY DEF BrowserNext, browserVars, sectionVars, NoSection
<1>5. NoSection => SectionTypeOK /\ SettledSectionAgrees
  <2> SUFFICES ASSUME NoSection PROVE SectionTypeOK /\ SettledSectionAgrees
    OBVIOUS
  <2>1. works \in 0..MaxSectionActions
    BY SectionBoundIsNat DEF NoSection
  <2>2. list \in [status : {"loading", "error", "ready"}, entries : SUBSET Entries] /\ list.status # "ready"
    BY DEF NoSection
  <2> QED
    BY <2>1, <2>2 DEF NoSection, SectionTypeOK, SettledSectionAgrees
<1> QED
  BY <1>1, <1>2, <1>3, <1>4, <1>5, SectionTyped, SectionAgrees, PTL DEF BrowserSpec, SectionSpec

LEMMA MapInBrowser == BrowserSpec => [](MapTypeOK /\ ImportPlacesBooths)
<1>1. BrowserInit /\ worked = "map" => MapInit
  BY DEF BrowserInit
<1>2. worked = "map" /\ [BrowserNext]_browserVars => (worked = "map")' /\ [MapNext]_mapVars
  BY DEF BrowserNext, browserVars
<1>3. BrowserInit /\ ~(worked = "map") => NoMap
  BY DEF BrowserInit
<1>4. ~(worked = "map") /\ NoMap /\ [BrowserNext]_browserVars => (~(worked = "map"))' /\ NoMap'
  BY DEF BrowserNext, browserVars, mapVars, NoMap
<1>5. NoMap => MapTypeOK /\ ImportPlacesBooths
  <2> SUFFICES ASSUME NoMap PROVE MapTypeOK /\ ImportPlacesBooths
    OBVIOUS
  <2>1. places \in Layouts
    BY DEF NoMap, Layouts
  <2>2. /\ NoSelection \in [booth : Booths \cup {NoArea}, area : AreaIds \cup {NoArea}]
        /\ Nowhere \in [Booths -> Spots \cup {NoArea}]
    BY DEF NoSelection, Nowhere
  <2>3. reading \in [step : {"none", "sent", "read"}, layout : Layouts \cup {NoArea}] /\ reading.step = "none"
    BY DEF NoMap, NotReading
  <2>4. gestures \in 0..MaxMapActions
    BY MapBoundsAreNat DEF NoMap
  <2> QED
    BY <2>1, <2>2, <2>3, <2>4 DEF NoMap, MapTypeOK, ImportPlacesBooths
<1> QED
  BY <1>1, <1>2, <1>3, <1>4, <1>5, MapTyped, ImportPlaces, PTL DEF BrowserSpec, MapSpec

\* Whichever part is worked, every part keeps its variables within the values its code
\* gives them.
THEOREM BrowserTyped == BrowserSpec => []BrowserTypeOK
<1>1. BrowserInit => worked \in Parts
  BY DEF BrowserInit
<1>2. worked \in Parts /\ [BrowserNext]_browserVars => (worked \in Parts)'
  BY DEF BrowserNext, browserVars
<1>3. BrowserTypeOK <=> /\ worked \in Parts /\ PageTypeOK /\ CycleTypeOK /\ SheetTypeOK
                        /\ CreateTypeOK /\ OrganizationTypeOK /\ SectionTypeOK /\ MapTypeOK
  BY DEF BrowserTypeOK
<1> QED
  BY <1>1, <1>2, <1>3, PageInBrowser, SwitcherInBrowser, SheetInBrowser, CreateSheetInBrowser,
     OrganizationSheetInBrowser, SectionInBrowser, MapInBrowser, PTL DEF BrowserSpec

\* Whichever part is worked, every page, sheet and section at rest agrees with the API, the
\* choice of a cycle and of an organization and what is typed in a sheet are kept, and a
\* finished import has every booth where the floor plan has it.
THEOREM BrowserAgrees ==
    BrowserSpec => [](/\ SettledPageAgrees /\ PickIsKept /\ SettledSheetAgrees /\ DraftIsKept
                      /\ SubmittedIsChosen /\ SettledOrganizationAgrees /\ SettledSectionAgrees
                      /\ ImportPlacesBooths)
BY PageInBrowser, SwitcherInBrowser, SheetInBrowser, CreateSheetInBrowser,
   OrganizationSheetInBrowser, SectionInBrowser, MapInBrowser, PTL

\* Whichever part is worked, a save changes no field that its form did not touch.
THEOREM BrowserSavesKeep == BrowserSpec => SaveKeepsOtherFields
<1>1. BrowserInit /\ worked = "sheet" => SheetInit
  BY DEF BrowserInit
<1>2. worked = "sheet" /\ [BrowserNext]_browserVars => (worked = "sheet")' /\ [SheetNext]_sheetVars
  BY DEF BrowserNext, browserVars
<1>3. ~(worked = "sheet") /\ [BrowserNext]_browserVars => (~(worked = "sheet"))' /\ UNCHANGED sheetVars
  BY DEF BrowserNext, browserVars
<1> QED
  BY <1>1, <1>2, <1>3, SaveKeeps, PTL DEF BrowserSpec, SheetSpec, SaveKeepsOtherFields
=============================================================================
