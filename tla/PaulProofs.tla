----------------------------- MODULE PaulProofs -----------------------------
(***************************************************************************)
(* PAUL (strategy/paul.c), for any number of descriptors and zones: its    *)
(* lists and counters follow the cache, its cycles end, a batch of dirty   *)
(* victims is the oldest of the open zones, the zones a cycle opens are    *)
(* the coldest that the last one did not have open, and it answers the     *)
(* cache as EvictStrategy demands.                                         *)
(***************************************************************************)
EXTENDS Paul, ListTheorems

\* The order of use, for given stamps.
Sorted(st, list) == \A i, j \in 1 .. Len(list) : i < j => st[list[i]] > st[list[j]]

\* A list in the order of use has no descriptor twice.
LEMMA SortedIsInjective ==
  ASSUME NEW list \in Seq(Desps), NEW st \in [Desps -> Nat], Sorted(st, list)
  PROVE  IsInjective(list) /\ Len(list) \in 0 .. Cardinality(Desps)
  <1>1. IsInjective(list)
    <2> SUFFICES ASSUME NEW i \in 1 .. Len(list), NEW j \in 1 .. Len(list),
                        i < j, list[i] = list[j]
                 PROVE FALSE
      BY DEF IsInjective
    <2>1. st[list[i]] > st[list[j]] /\ st[list[i]] \in Nat
      BY DEF Sorted
    <2> QED
      BY <2>1
  <1>2. Len(list) \in Nat /\ Cardinality(Desps) \in Nat
    BY PaulAssumption, FS_CardinalityType
  <1> QED
    BY <1>1, <1>2, InjectiveLen, PaulAssumption

\* The list without d is in order again, whatever becomes of the stamp of d.
LEMMA SortedWithout ==
  ASSUME NEW list \in Seq(Desps), NEW st \in [Desps -> Nat], Sorted(st, list),
         NEW d \in Desps, NEW st2, \A e \in Desps \ {d} : st2[e] = st[e]
  PROVE  LET rest == RemoveFirst(list, d)
         IN  /\ rest \in Seq(Desps) /\ ToSet(rest) = ToSet(list) \ {d}
             /\ Len(rest) = IF d \in ToSet(list) THEN Len(list) - 1 ELSE Len(list)
             /\ Sorted(st2, rest)
  <1> DEFINE rest == RemoveFirst(list, d)
  <1>i. IsInjective(list)
    BY SortedIsInjective
  <1>1. CASE d \notin ToSet(list)
    <2>1. rest = list
      BY <1>1, RemoveFirstOther
    <2>2. \A i \in 1 .. Len(list) : list[i] \in Desps \ {d}
      BY <1>1, InToSet
    <2> QED
      BY <1>1, <2>1, <2>2 DEF Sorted
  <1>2. CASE d \in ToSet(list)
    <2>1. PICK k \in 1 .. Len(list) : list[k] = d
      BY <1>2 DEF ToSet
    <2>2. /\ rest \in Seq(Desps) /\ Len(rest) = Len(list) - 1
          /\ \A i \in 1 .. Len(rest) : rest[i] = IF i < k THEN list[i] ELSE list[i + 1]
      BY <1>i, <2>1, RemoveFirstIs
    <2> HIDE DEF rest
    <2>3. \A i \in 1 .. Len(list) : i # k => list[i] # d
      BY <1>i, <2>1 DEF IsInjective
    <2>4. ASSUME NEW i \in 1 .. Len(rest), NEW j \in 1 .. Len(rest), i < j
          PROVE  st2[rest[i]] > st2[rest[j]]
      <3> DEFINE x == IF i < k THEN i ELSE i + 1
                 y == IF j < k THEN j ELSE j + 1
      <3>l. Len(list) \in Nat
        OBVIOUS
      <3>1. rest[i] = list[x] /\ rest[j] = list[y]
        BY <2>2
      <3>m. Len(rest) = Len(list) - 1
        BY <2>2
      <3>2. x \in 1 .. Len(list) /\ x # k
        BY <3>l, <3>m
      <3>3. y \in 1 .. Len(list) /\ y # k
        BY <3>l, <3>m
      <3>4. x < y
        BY <2>4, <3>l, <3>m
      <3> HIDE DEF x, y
      <3> QED
        BY <2>3, <3>1, <3>2, <3>3, <3>4, SMTT(20) DEF Sorted
    <2>5. ToSet(rest) \subseteq ToSet(list) \ {d}
      <3> SUFFICES ASSUME NEW i \in 1 .. Len(rest) PROVE rest[i] \in ToSet(list) \ {d}
        BY <2>2 DEF ToSet
      <3> DEFINE x == IF i < k THEN i ELSE i + 1
      <3>1. x \in 1 .. Len(list) /\ x # k /\ rest[i] = list[x]
        BY <2>2, SMTT(20)
      <3> QED
        BY <2>3, <3>1 DEF ToSet
    <2>6. ASSUME NEW e \in ToSet(list) \ {d} PROVE e \in ToSet(rest)
      <3>1. PICK i \in 1 .. Len(list) : list[i] = e /\ i # k
        BY <2>1, <2>6 DEF ToSet
      <3> DEFINE x == IF i < k THEN i ELSE i - 1
      <3>l. Len(list) \in Nat
        OBVIOUS
      <3>2. x \in 1 .. Len(rest)
        BY <3>l, <2>2, <3>1
      <3>3. CASE i < k
        <4>1. rest[x] = list[i]
          BY <2>2, <3>2, <3>3
        <4> QED
          BY <2>2, <3>1, <3>2, <4>1, InToSet
      <3>4. CASE ~(i < k)
        <4>1. ~(x < k) /\ x + 1 = i
          BY <3>1, <3>4
        <4>2. rest[x] = list[x + 1]
          BY <2>2, <3>2, <4>1
        <4> QED
          BY <2>2, <3>1, <3>2, <4>1, <4>2, InToSet, SMTT(20)
      <3> QED
        BY <3>3, <3>4
    <2>7. rest \in Seq(Desps) /\ ToSet(rest) = ToSet(list) \ {d} /\ Len(rest) = Len(list) - 1
      BY <2>2, <2>5, <2>6
    <2> QED
      BY <1>2, <2>4, <2>7 DEF rest, Sorted
  <1> QED
    BY <1>1, <1>2

\* A descriptor is put in front with the newest stamp.
LEMMA SortedCons ==
  ASSUME NEW rest \in Seq(Desps), NEW d \in Desps, d \notin ToSet(rest),
         NEW st2 \in [Desps -> Nat], Sorted(st2, rest),
         \A e \in ToSet(rest) : st2[d] > st2[e]
  PROVE  LET list == <<d>> \o rest
         IN  /\ list \in Seq(Desps) /\ ToSet(list) = ToSet(rest) \cup {d}
             /\ Len(list) = Len(rest) + 1
             /\ Sorted(st2, list)
  <1> DEFINE list == <<d>> \o rest
  <1>1. /\ list \in Seq(Desps) /\ ToSet(list) = ToSet(rest) \cup {d} /\ Len(rest) \in Nat
        /\ Len(list) = Len(rest) + 1 /\ list[1] = d
        /\ \A i \in 2 .. Len(list) : i - 1 \in 1 .. Len(rest) /\ list[i] = rest[i - 1]
    BY ConsIs
  <1> HIDE DEF list
  <1>2. ASSUME NEW i \in 1 .. Len(list), NEW j \in 1 .. Len(list), i < j
        PROVE  st2[list[i]] > st2[list[j]]
    <2>1. j \in 2 .. Len(list)
      BY <1>1, <1>2
    <2>2. CASE i = 1
      <3>0. \A n \in 1 .. Len(rest) : rest[n] \in ToSet(rest)
        BY InToSet
      <3>1. list[j] \in ToSet(rest)
        BY <1>1, <2>1, <3>0
      <3> QED
        BY <1>1, <2>2, <3>1
    <2>3. CASE i \in 2 .. Len(list)
      <3>1. i - 1 < j - 1
        BY <1>2
      <3> QED
        BY <1>1, <2>1, <2>3, <3>1 DEF Sorted
    <2> QED
      BY <1>1, <2>2, <2>3
  <1> QED
    BY <1>1, <1>2 DEF list, Sorted

\* The n oldest of a list leave it.
LEMMA SortedPrefix ==
  ASSUME NEW list \in Seq(Desps), NEW st \in [Desps -> Nat], Sorted(st, list),
         NEW n \in 0 .. Len(list),
         NEW st2, \A e \in Desps \ Oldest(list, n) : st2[e] = st[e]
  PROVE  LET rest == SubSeq(list, 1, Len(list) - n)
         IN  /\ rest \in Seq(Desps) /\ Len(rest) = Len(list) - n
             /\ ToSet(rest) = ToSet(list) \ Oldest(list, n)
             /\ Sorted(st2, rest)
             /\ Oldest(list, n) \subseteq ToSet(list)
             /\ IsFiniteSet(Oldest(list, n)) /\ Cardinality(Oldest(list, n)) <= n
             /\ \A d \in Oldest(list, n), e \in ToSet(rest) : st[d] < st[e]
             /\ n > 0 => list[Len(list)] \in Oldest(list, n)
  <1> DEFINE rest == SubSeq(list, 1, Len(list) - n)
             old == SubSeq(list, Len(list) - n + 1, Len(list))
             m == Len(list) - n
  <1>1. /\ Len(list) \in Nat /\ n \in Nat /\ m \in Nat /\ Len(list) = m + n
        /\ IsInjective(list)
    BY SortedIsInjective
  <1>2. /\ rest \in Seq(Desps) /\ Len(rest) = m
        /\ \A i \in 1 .. m : rest[i] = list[i]
    BY <1>1
  <1>3. /\ old \in Seq(Desps) /\ Len(old) = n
        /\ \A i \in 1 .. n : old[i] = list[m + i]
    BY <1>1
  <1>4. Oldest(list, n) = ToSet(old)
    BY DEF Oldest
  <1> HIDE DEF rest, old, m
  <1>5. \A e \in Oldest(list, n) : \E i \in m + 1 .. Len(list) : list[i] = e
    <2> SUFFICES ASSUME NEW e \in ToSet(old)
                 PROVE \E i \in m + 1 .. Len(list) : list[i] = e
      BY <1>4
    <2>1. PICK i \in 1 .. n : old[i] = e
      BY <1>3, InToSet
    <2>2. m + i \in m + 1 .. Len(list) /\ list[m + i] = e
      BY <1>1, <1>3, <2>1
    <2> QED
      BY <2>2
  <1>6. \A i \in m + 1 .. Len(list) : list[i] \in Oldest(list, n)
    <2> SUFFICES ASSUME NEW i \in m + 1 .. Len(list) PROVE list[i] \in ToSet(old)
      BY <1>4
    <2>1. i - m \in 1 .. n /\ m + (i - m) = i
      BY <1>1
    <2>2. old[i - m] = list[i]
      BY <1>3, <2>1
    <2>3. \A j \in 1 .. n : old[j] \in ToSet(old)
      BY <1>3, InToSet
    <2> QED
      BY <2>1, <2>2, <2>3
  <1>7. \A e \in ToSet(rest) : \E i \in 1 .. m : list[i] = e
    BY <1>2, InToSet, SMTT(20)
  <1>8. \A i \in 1 .. m : list[i] \in ToSet(rest) /\ list[i] \notin Oldest(list, n)
    <2> SUFFICES ASSUME NEW i \in 1 .. m
                 PROVE list[i] \in ToSet(rest) /\ list[i] \notin Oldest(list, n)
      OBVIOUS
    <2>1. i \in 1 .. Len(list) /\ \A j \in m + 1 .. Len(list) : j \in 1 .. Len(list) /\ i # j
      BY <1>1
    <2>2. list[i] \notin Oldest(list, n)
      <3> SUFFICES ASSUME list[i] \in Oldest(list, n) PROVE FALSE
        OBVIOUS
      <3>1. PICK j \in m + 1 .. Len(list) : list[j] = list[i]
        BY <1>5
      <3> QED
        BY <1>1, <2>1, <3>1, SMTT(20) DEF IsInjective
    <2>3. \A j \in 1 .. m : rest[j] \in ToSet(rest)
      BY <1>2, InToSet
    <2> QED
      BY <1>2, <2>2, <2>3
  <1>9. \A i \in 1 .. Len(list) : i \in 1 .. m \/ i \in m + 1 .. Len(list)
    BY <1>1
  <1>10. /\ \A i \in 1 .. m : i \in 1 .. Len(list)
         /\ \A i \in m + 1 .. Len(list) : i \in 1 .. Len(list)
    BY <1>1
  <1>11. Oldest(list, n) \subseteq ToSet(list)
    BY <1>5, <1>10, InToSet
  <1>12. ToSet(rest) = ToSet(list) \ Oldest(list, n)
    <2>1. ToSet(rest) \subseteq ToSet(list) \ Oldest(list, n)
      <3> SUFFICES ASSUME NEW e \in ToSet(rest) PROVE e \in ToSet(list) \ Oldest(list, n)
        OBVIOUS
      <3>1. PICK i \in 1 .. m : list[i] = e
        BY <1>7
      <3> QED
        BY <1>8, <1>10, <3>1, InToSet
    <2>2. ToSet(list) \ Oldest(list, n) \subseteq ToSet(rest)
      <3> SUFFICES ASSUME NEW e \in ToSet(list), e \notin Oldest(list, n)
                   PROVE e \in ToSet(rest)
        OBVIOUS
      <3>1. PICK i \in 1 .. Len(list) : list[i] = e
        BY InToSet
      <3> QED
        BY <1>6, <1>8, <1>9, <3>1
    <2> QED
      BY <2>1, <2>2
  <1>13. Sorted(st2, rest)
    <2> SUFFICES ASSUME NEW i \in 1 .. m, NEW j \in 1 .. m, i < j
                 PROVE st2[rest[i]] > st2[rest[j]]
      BY <1>2 DEF Sorted
    <2>1. st[list[i]] > st[list[j]] /\ list[i] \in Desps /\ list[j] \in Desps
      BY <1>10 DEF Sorted
    <2> QED
      BY <1>2, <1>8, <2>1
  <1>14. ASSUME NEW d \in Oldest(list, n), NEW e \in ToSet(rest) PROVE st[d] < st[e]
    <2>1. PICK i \in 1 .. m : list[i] = e
      BY <1>7
    <2>2. PICK j \in m + 1 .. Len(list) : list[j] = d
      BY <1>5
    <2>3. i < j
      BY <1>1
    <2>4. st[list[i]] > st[list[j]] /\ list[i] \in Desps /\ list[j] \in Desps
      BY <1>10, <2>3 DEF Sorted
    <2> QED
      BY <2>1, <2>2, <2>4
  <1>15. n > 0 => list[Len(list)] \in Oldest(list, n)
    <2>1. n > 0 => Len(list) \in m + 1 .. Len(list)
      BY <1>1
    <2> QED
      BY <1>6, <2>1
  <1>16. IsFiniteSet(Oldest(list, n)) /\ Cardinality(Oldest(list, n)) <= n
    BY <1>1, <1>3, <1>4, ToSetFinite
  <1>17. rest \in Seq(Desps) /\ Len(rest) = Len(list) - n
    BY <1>2 DEF m
  <1> QED
    BY <1>11, <1>12, <1>13, <1>14, <1>15, <1>16, <1>17 DEF rest

-----------------------------------------------------------------------------
\* List holds these descriptors, in the order of the given stamps.
Holds(list, members, st) ==
  list \in Seq(Desps) /\ ToSet(list) = members /\ Sorted(st, list)

InZone(z) == {d \in dirty : zone[d] = z}

ListsInv ==
  /\ Holds(cleanList, valid \ dirty, stamp) /\ pagecnt_clean = Len(cleanList)
  /\ dirtyList \in [Zones -> Seq(Desps)] /\ pagecnt_dirty \in [Zones -> Nat]
  /\ \A z \in Zones : /\ Holds(dirtyList[z], InZone(z), stamp)
                      /\ pagecnt_dirty[z] = Len(dirtyList[z])

DespsInv ==
  /\ zone \in [Desps -> Zones \cup {NoZone}]
  /\ stamp \in [Desps -> 0 .. MaxStamp] /\ StampGlobal \in 0 .. MaxStamp
  /\ flag \in [Desps -> BOOLEAN]
  /\ valid \subseteq Desps /\ dirty \subseteq valid
  /\ \A d \in valid : zone[d] \in Zones /\ stamp[d] < StampGlobal
  /\ \A d, e \in valid : stamp[d] = stamp[e] => d = e
  /\ \A d \in Desps : flag[d] <=> d \in dirty

CycleInv ==
  /\ activate \in [Zones -> 0 .. 2]
  /\ OpenZoneSet \subseteq Zones /\ Cycle_Progress \in Nat /\ CycleEnds
  /\ asked \in VictimTypes /\ alive \in BOOLEAN
  /\ \A z \in Zones : z \in OpenZoneSet <=> activate[z] = 2

PaulInv == ListsInv /\ DespsInv /\ CycleInv

LEMMA InvGivesLists == PaulInv => ListsMatchFlags
  <1> SUFFICES ASSUME PaulInv PROVE ListsMatchFlags
    OBVIOUS
  <1>1. stamp \in [Desps -> Nat]
    BY PaulAssumption DEF PaulInv, DespsInv
  <1>2. pagecnt_clean \in 0 .. Cardinality(Desps) /\ ByUse(cleanList)
    BY <1>1, SortedIsInjective DEF PaulInv, ListsInv, Holds, ByUse, Sorted
  <1>3. ASSUME NEW z \in Zones
        PROVE  /\ pagecnt_dirty[z] \in 0 .. Cardinality(Desps)
               /\ ToSet(dirtyList[z]) = {d \in dirty : zone[d] = z}
               /\ ByUse(dirtyList[z]) /\ pagecnt_dirty[z] = Len(dirtyList[z])
    BY <1>1, SortedIsInjective DEF PaulInv, ListsInv, Holds, ByUse, Sorted, InZone
  <1>4. TypeOK
    <2>1. pagecnt_dirty \in [Zones -> 0 .. Cardinality(Desps)]
      BY <1>3 DEF PaulInv, ListsInv
    <2> QED
      BY <1>2, <2>1 DEF PaulInv, ListsInv, DespsInv, CycleInv, Holds, TypeOK
  <1> QED
    BY <1>2, <1>3, <1>4 DEF ListsMatchFlags, PaulInv, ListsInv, DespsInv, Holds

LEMMA PaulInit == Init => PaulInv
  <1> SUFFICES ASSUME Init PROVE PaulInv
    OBVIOUS
  <1>1. Holds(<< >>, {}, stamp) /\ Len(<< >>) = 0
    BY DEF Holds, Sorted, ToSet
  <1>2. ListsInv
    BY <1>1 DEF Init, ListsInv, InZone
  <1>3. DespsInv
    BY PaulAssumption DEF Init, DespsInv
  <1>4. Max({Cycle_Length, 1}) \in Nat
    BY PaulAssumption DEF Max
  <1>5. CycleInv
    BY <1>4, PaulAssumption DEF Init, CycleInv, CycleEnds, VictimTypes
  <1> QED
    BY <1>2, <1>3, <1>5 DEF PaulInv

-----------------------------------------------------------------------------
(***************************************************************************)
(* LogIn and HitIn: one descriptor gets the newest stamp.                  *)
(***************************************************************************)

\* Nothing is moved: only stamps of other descriptors change.
LEMMA HoldsStill ==
  ASSUME NEW list, NEW M \in SUBSET Desps, NEW st, NEW st2, Holds(list, M, st),
         \A e \in M : st2[e] = st[e]
  PROVE  Holds(list, M, st2)
  <1>1. \A i \in 1 .. Len(list) : list[i] \in M
    BY InToSet DEF Holds
  <1> QED
    BY <1>1 DEF Holds, Sorted

\* The list without d, and the list with d in front, when d gets its stamp.
LEMMA UsedNow ==
  ASSUME DespsInv, NEW list, NEW M \in SUBSET valid, Holds(list, M, stamp),
         NEW d \in Desps, Stamp(d)
  PROVE  /\ Holds(RemoveFirst(list, d), M \ {d}, stamp')
         /\ Len(RemoveFirst(list, d)) = IF d \in M THEN Len(list) - 1 ELSE Len(list)
         /\ Holds(<<d>> \o RemoveFirst(list, d), M \cup {d}, stamp')
         /\ Len(<<d>> \o RemoveFirst(list, d)) = IF d \in M THEN Len(list) ELSE Len(list) + 1
         /\ d \notin M => RemoveFirst(list, d) = list /\ Holds(list, M, stamp')
  <1> DEFINE rest == RemoveFirst(list, d)
  <1>1. list \in Seq(Desps) /\ ToSet(list) = M /\ Sorted(stamp, list) /\ Len(list) \in Nat
    BY DEF Holds
  <1>2. /\ stamp \in [Desps -> Nat] /\ stamp' \in [Desps -> Nat] /\ StampGlobal \in Nat
        /\ stamp'[d] = StampGlobal /\ \A e \in Desps \ {d} : stamp'[e] = stamp[e]
        /\ \A e \in M : stamp[e] < StampGlobal /\ e \in Desps
    BY PaulAssumption DEF DespsInv, Stamp
  <1>3. /\ rest \in Seq(Desps) /\ ToSet(rest) = M \ {d} /\ Sorted(stamp', rest)
        /\ Len(rest) = IF d \in M THEN Len(list) - 1 ELSE Len(list)
    BY <1>1, <1>2, SortedWithout
  <1>4. d \notin M => rest = list
    BY <1>1, RemoveFirstOther
  <1> HIDE DEF rest
  <1>5. d \notin ToSet(rest) /\ \A e \in ToSet(rest) : stamp'[d] > stamp'[e]
    BY <1>2, <1>3
  <1>6. /\ <<d>> \o rest \in Seq(Desps) /\ ToSet(<<d>> \o rest) = ToSet(rest) \cup {d}
        /\ Len(<<d>> \o rest) = Len(rest) + 1 /\ Sorted(stamp', <<d>> \o rest)
    BY <1>2, <1>3, <1>5, SortedCons
  <1>7. ToSet(rest) \cup {d} = M \cup {d}
    BY <1>3
  <1>8. Holds(rest, M \ {d}, stamp') /\ Holds(<<d>> \o rest, M \cup {d}, stamp')
    BY <1>3, <1>6, <1>7 DEF Holds
  <1>9. Len(<<d>> \o rest) = IF d \in M THEN Len(list) ELSE Len(list) + 1
    BY <1>1, <1>3, <1>6
  <1>10. d \notin M => M \ {d} = M
    OBVIOUS
  <1> QED
    BY <1>3, <1>4, <1>8, <1>9, <1>10 DEF rest

\* A descriptor that was not in the list is put in front.
LEMMA FirstNow ==
  ASSUME DespsInv, NEW list, NEW M \in SUBSET valid, Holds(list, M, stamp),
         NEW d \in Desps, d \notin M, Stamp(d)
  PROVE  Holds(<<d>> \o list, M \cup {d}, stamp') /\ Len(<<d>> \o list) = Len(list) + 1
  <1>1. RemoveFirst(list, d) = list
    BY UsedNow
  <1>2. /\ Holds(<<d>> \o RemoveFirst(list, d), M \cup {d}, stamp')
        /\ Len(<<d>> \o RemoveFirst(list, d)) = Len(list) + 1
    BY UsedNow
  <1> QED
    BY <1>1, <1>2

\* The descriptors, when d is used in zone z and is dirty after that or not.
LEMMA DespUsed ==
  ASSUME PaulInv, NEW d \in Desps, NEW z \in Zones, NEW isDirty \in BOOLEAN,
         d \in dirty => isDirty, CacheFlags(d, isDirty), SetFlag(d, isDirty), Stamp(d),
         zone' = [zone EXCEPT ![d] = z], UNCHANGED <<cycle, asked, alive>>
  PROVE  DespsInv' /\ CycleInv'
  <1>1. StampGlobal' \in 0 .. MaxStamp /\ stamp' \in [Desps -> 0 .. MaxStamp]
    BY PaulAssumption DEF PaulInv, DespsInv, Stamp
  <1>2. \A e \in Desps \ {d} : stamp'[e] = stamp[e] /\ zone'[e] = zone[e] /\ flag'[e] = flag[e]
    BY DEF PaulInv, DespsInv, Stamp, SetFlag
  <1>3. stamp'[d] = StampGlobal /\ zone'[d] = z /\ (flag'[d] <=> flag[d] \/ isDirty)
    BY DEF PaulInv, DespsInv, Stamp, SetFlag
  <1>4. valid' = valid \cup {d} /\ dirty' = IF isDirty THEN dirty \cup {d} ELSE dirty
    BY DEF CacheFlags
  <1>5. zone' \in [Desps -> Zones \cup {NoZone}]
    BY DEF PaulInv, DespsInv
  <1>6. flag' \in [Desps -> BOOLEAN]
    BY DEF PaulInv, DespsInv, SetFlag
  <1>7. \A e \in valid' : zone'[e] \in Zones
    BY <1>2, <1>3, <1>4 DEF PaulInv, DespsInv
  <1>8. \A e \in valid \ {d} : stamp'[e] \in Nat /\ stamp'[e] < StampGlobal /\ stamp'[e] = stamp[e]
    BY <1>2, PaulAssumption DEF PaulInv, DespsInv
  <1>9. StampGlobal \in Nat /\ StampGlobal' = StampGlobal + 1
    BY PaulAssumption DEF PaulInv, DespsInv, Stamp
  <1>10. \A e \in valid' : stamp'[e] < StampGlobal'
    BY <1>3, <1>4, <1>8, <1>9
  <1>11. ASSUME NEW e \in valid', NEW f \in valid', stamp'[e] = stamp'[f] PROVE e = f
    BY <1>3, <1>4, <1>8, <1>9, <1>11 DEF PaulInv, DespsInv
  <1>12. \A e \in Desps : flag'[e] <=> e \in dirty'
    BY <1>2, <1>3, <1>4 DEF PaulInv, DespsInv
  <1>13. valid' \subseteq Desps /\ dirty' \subseteq valid'
    BY <1>4 DEF PaulInv, DespsInv
  <1>14. DespsInv'
    BY <1>1, <1>5, <1>6, <1>7, <1>10, <1>11, <1>12, <1>13 DEF DespsInv
  <1> QED
    BY <1>14 DEF PaulInv, CycleInv, CycleEnds, cycle

\* ... and the zone lists that it is not in, before nor after.
LEMMA ZonesStill ==
  ASSUME PaulInv, NEW d \in Desps, NEW y \in Zones, Stamp(d),
         d \notin InZone(y), InZone(y)' = InZone(y)
  PROVE  Holds(dirtyList[y], InZone(y)', stamp')
  <1>1. InZone(y) \in SUBSET Desps /\ stamp \in [Desps -> 0 .. MaxStamp]
    BY DEF PaulInv, DespsInv, InZone
  <1>2. \A e \in InZone(y) : stamp'[e] = stamp[e]
    BY <1>1 DEF Stamp
  <1>3. Holds(dirtyList[y], InZone(y), stamp)
    BY DEF PaulInv, ListsInv
  <1> QED
    BY <1>1, <1>2, <1>3, HoldsStill

LEMMA LogInStep ==
  ASSUME PaulInv, NEW d \in Desps, NEW z \in Zones, NEW isDirty \in BOOLEAN,
         LogIn(d, z, isDirty)
  PROVE  PaulInv'
  <1>1. DespsInv' /\ CycleInv'
    BY DespUsed DEF LogIn, PaulInv, DespsInv
  <1>2. d \notin valid /\ valid' = valid \cup {d} /\ zone' = [zone EXCEPT ![d] = z]
    BY DEF LogIn, CacheFlags
  <1>3. /\ stamp \in [Desps -> Nat] /\ StampGlobal \in Nat
        /\ \A e \in valid : stamp[e] < StampGlobal /\ e \in Desps
        /\ dirty \subseteq valid /\ zone \in [Desps -> Zones \cup {NoZone}]
    BY PaulAssumption DEF PaulInv, DespsInv
  <1>4. Stamp(d) /\ stamp' = [stamp EXCEPT ![d] = StampGlobal]
    BY DEF LogIn, Stamp
  <1>5. Holds(cleanList, valid \ dirty, stamp) /\ Holds(dirtyList[z], InZone(z), stamp)
    BY DEF PaulInv, ListsInv
  <1>6. /\ dirtyList \in [Zones -> Seq(Desps)] /\ pagecnt_dirty \in [Zones -> Nat]
        /\ pagecnt_clean = Len(cleanList)
        /\ \A y \in Zones : pagecnt_dirty[y] = Len(dirtyList[y])
    BY DEF PaulInv, ListsInv
  <1>7. \A y \in Zones : InZone(y) \in SUBSET Desps /\ \A e \in InZone(y) : e \in valid
    BY <1>3 DEF InZone
  <1>8. CASE isDirty
    <2>1. /\ dirtyList' = [dirtyList EXCEPT ![z] = <<d>> \o @]
          /\ pagecnt_dirty' = [pagecnt_dirty EXCEPT ![z] = @ + 1]
          /\ cleanList' = cleanList /\ pagecnt_clean' = pagecnt_clean
          /\ dirty' = dirty \cup {d}
      BY <1>8 DEF LogIn, CacheFlags
    <2>2. valid' \ dirty' = valid \ dirty
      BY <1>2, <1>3, <2>1
    <2>3. Holds(cleanList, valid \ dirty, stamp')
      <3>1. valid \ dirty \in SUBSET valid /\ d \notin valid \ dirty
        BY <1>2, <1>3
      <3> QED
        BY <1>4, <1>5, <3>1, UsedNow DEF PaulInv
    <2>4. InZone(z)' = InZone(z) \cup {d}
      BY <1>2, <1>3, <2>1 DEF InZone
    <2>5. /\ Holds(<<d>> \o dirtyList[z], InZone(z) \cup {d}, stamp')
          /\ Len(<<d>> \o dirtyList[z]) = Len(dirtyList[z]) + 1
      <3>1. InZone(z) \in SUBSET valid /\ d \notin InZone(z)
        BY <1>2, <1>7
      <3> QED
        BY <1>4, <1>5, <3>1, FirstNow DEF PaulInv
    <2>6. ASSUME NEW y \in Zones, y # z
          PROVE  Holds(dirtyList[y], InZone(y)', stamp')
      <3>1. InZone(y)' = InZone(y) /\ d \notin InZone(y)
        BY <1>2, <1>3, <2>1, <2>6 DEF InZone
      <3> QED
        BY <1>4, <3>1, ZonesStill
    <2>7. <<d>> \o dirtyList[z] \in Seq(Desps)
      BY <2>5 DEF Holds
    <2>8. dirtyList' \in [Zones -> Seq(Desps)] /\ pagecnt_dirty' \in [Zones -> Nat]
      BY <1>6, <2>1, <2>7
    <2>9. ASSUME NEW y \in Zones
          PROVE  Holds(dirtyList'[y], InZone(y)', stamp') /\ pagecnt_dirty'[y] = Len(dirtyList'[y])
      <3>1. CASE y = z
        BY <1>6, <2>1, <2>4, <2>5, <3>1
      <3>2. CASE y # z
        BY <1>6, <2>1, <2>6, <3>2
      <3> QED
        BY <3>1, <3>2
    <2> QED
      BY <1>1, <1>6, <2>1, <2>2, <2>3, <2>8, <2>9 DEF PaulInv, ListsInv
  <1>9. CASE ~isDirty
    <2>1. /\ dirtyList' = dirtyList /\ pagecnt_dirty' = pagecnt_dirty
          /\ cleanList' = <<d>> \o cleanList /\ pagecnt_clean' = pagecnt_clean + 1
          /\ dirty' = dirty
      BY <1>9 DEF LogIn, CacheFlags
    <2>2. valid' \ dirty' = (valid \ dirty) \cup {d}
      BY <1>2, <1>3, <2>1
    <2>3. /\ Holds(<<d>> \o cleanList, (valid \ dirty) \cup {d}, stamp')
          /\ Len(<<d>> \o cleanList) = Len(cleanList) + 1
      <3>1. valid \ dirty \in SUBSET valid /\ d \notin valid \ dirty
        BY <1>2, <1>3
      <3> QED
        BY <1>4, <1>5, <3>1, FirstNow DEF PaulInv
    <2>4. ASSUME NEW y \in Zones PROVE Holds(dirtyList[y], InZone(y)', stamp')
      <3>1. InZone(y)' = InZone(y) /\ d \notin InZone(y)
        BY <1>2, <1>3, <2>1 DEF InZone
      <3> QED
        BY <1>4, <3>1, ZonesStill
    <2> QED
      BY <1>1, <1>6, <2>1, <2>2, <2>3, <2>4 DEF PaulInv, ListsInv
  <1> QED
    BY <1>8, <1>9

LEMMA HitInStep ==
  ASSUME PaulInv, NEW d \in Desps, NEW isDirty \in BOOLEAN, HitIn(d, isDirty)
  PROVE  PaulInv'
  <1>0. PICK z \in Zones : z = zone[d]
    BY DEF PaulInv, DespsInv, HitIn
  <1>1. /\ d \in valid /\ z \in Zones /\ valid' = valid /\ zone' = zone
        /\ dirty' = (IF isDirty THEN dirty \cup {d} ELSE dirty) /\ (d \in dirty => isDirty)
        /\ (flag[d] <=> d \in dirty)
    BY DEF PaulInv, DespsInv, HitIn, CacheFlags
  <1>2. zone' = [zone EXCEPT ![d] = z]
    BY <1>0, <1>1 DEF PaulInv, DespsInv
  <1>3. DespsInv' /\ CycleInv'
    BY <1>1, <1>2, DespUsed DEF HitIn
  <1>4. /\ stamp \in [Desps -> Nat] /\ StampGlobal \in Nat
        /\ \A e \in valid : stamp[e] < StampGlobal /\ e \in Desps
        /\ dirty \subseteq valid /\ zone \in [Desps -> Zones \cup {NoZone}]
    BY PaulAssumption DEF PaulInv, DespsInv
  <1>5. Stamp(d) /\ stamp' = [stamp EXCEPT ![d] = StampGlobal]
    BY DEF HitIn, Stamp
  <1>6. Holds(cleanList, valid \ dirty, stamp) /\ Holds(dirtyList[z], InZone(z), stamp)
    BY <1>1 DEF PaulInv, ListsInv
  <1>7. /\ dirtyList \in [Zones -> Seq(Desps)] /\ pagecnt_dirty \in [Zones -> Nat]
        /\ pagecnt_clean = Len(cleanList)
        /\ \A y \in Zones : pagecnt_dirty[y] = Len(dirtyList[y])
    BY DEF PaulInv, ListsInv
  <1>8. \A y \in Zones : InZone(y) \in SUBSET Desps /\ \A e \in InZone(y) : e \in valid
    BY <1>4 DEF InZone
  <1>9. \A y \in Zones \ {z} : d \notin InZone(y) /\ InZone(y)' = InZone(y)
    BY <1>0, <1>1, <1>4 DEF InZone
  <1>10. \A y \in Zones \ {z} : Holds(dirtyList[y], InZone(y)', stamp')
    BY <1>5, <1>9, ZonesStill
  <1>11. InZone(z)' = IF isDirty THEN InZone(z) \cup {d} ELSE InZone(z)
    BY <1>0, <1>1, <1>4 DEF InZone
  <1>12. d \in InZone(z) <=> d \in dirty
    BY <1>0, <1>1, <1>4 DEF InZone
  <1> DEFINE clean == RemoveFirst(cleanList, d)
             inZone == RemoveFirst(dirtyList[z], d)
  <1>13. /\ Holds(clean, (valid \ dirty) \ {d}, stamp')
         /\ Len(clean) = IF d \in valid \ dirty THEN Len(cleanList) - 1 ELSE Len(cleanList)
         /\ Holds(<<d>> \o clean, (valid \ dirty) \cup {d}, stamp')
         /\ Len(<<d>> \o clean) = IF d \in valid \ dirty THEN Len(cleanList) ELSE Len(cleanList) + 1
         /\ d \notin valid \ dirty => clean = cleanList
    <2> DEFINE M == valid \ dirty
    <2>1. M \in SUBSET valid /\ Holds(cleanList, M, stamp)
      BY <1>6
    <2> HIDE DEF M
    <2>2. /\ Holds(clean, M \ {d}, stamp')
          /\ Len(clean) = IF d \in M THEN Len(cleanList) - 1 ELSE Len(cleanList)
          /\ Holds(<<d>> \o clean, M \cup {d}, stamp')
          /\ Len(<<d>> \o clean) = IF d \in M THEN Len(cleanList) ELSE Len(cleanList) + 1
          /\ d \notin M => clean = cleanList
      <3>1. DespsInv /\ Stamp(d)
        BY <1>5 DEF PaulInv
      <3>2. Holds(clean, M \ {d}, stamp') /\ Holds(<<d>> \o clean, M \cup {d}, stamp')
        BY <2>1, <3>1, UsedNow
      <3>3. /\ Len(clean) = IF d \in M THEN Len(cleanList) - 1 ELSE Len(cleanList)
            /\ Len(<<d>> \o clean) = IF d \in M THEN Len(cleanList) ELSE Len(cleanList) + 1
        BY <2>1, <3>1, UsedNow, ZenonT(30)
      <3>4. d \notin M => clean = cleanList
        BY <2>1, <3>1, UsedNow
      <3> QED
        BY <3>2, <3>3, <3>4
    <2> QED
      BY <2>2 DEF M
  <1>14. /\ Holds(<<d>> \o inZone, InZone(z) \cup {d}, stamp')
         /\ Len(<<d>> \o inZone) = IF d \in InZone(z) THEN Len(dirtyList[z]) ELSE Len(dirtyList[z]) + 1
         /\ d \notin InZone(z) => inZone = dirtyList[z] /\ Holds(dirtyList[z], InZone(z), stamp')
    <2> DEFINE M == InZone(z)
    <2>1. M \in SUBSET valid /\ Holds(dirtyList[z], M, stamp)
      BY <1>1, <1>6, <1>8
    <2> HIDE DEF M
    <2>2. /\ Holds(<<d>> \o inZone, M \cup {d}, stamp')
          /\ Len(<<d>> \o inZone) = IF d \in M THEN Len(dirtyList[z]) ELSE Len(dirtyList[z]) + 1
          /\ d \notin M => inZone = dirtyList[z] /\ Holds(dirtyList[z], M, stamp')
      <3>1. DespsInv /\ Stamp(d)
        BY <1>5 DEF PaulInv
      <3>2. Holds(<<d>> \o inZone, M \cup {d}, stamp')
        BY <2>1, <3>1, UsedNow
      <3>3. Len(<<d>> \o inZone) = IF d \in M THEN Len(dirtyList[z]) ELSE Len(dirtyList[z]) + 1
        BY <2>1, <3>1, UsedNow, ZenonT(30)
      <3>4. d \notin M => inZone = dirtyList[z] /\ Holds(dirtyList[z], M, stamp')
        BY <2>1, <3>1, UsedNow
      <3> QED
        BY <3>2, <3>3, <3>4
    <2> QED
      BY <2>2 DEF M
  <1> HIDE DEF clean, inZone
  <1>15. CASE d \notin dirty /\ isDirty
    <2>1. /\ cleanList' = clean /\ pagecnt_clean' = pagecnt_clean - 1
          /\ dirtyList' = [dirtyList EXCEPT ![z] = <<d>> \o inZone]
          /\ pagecnt_dirty' = [pagecnt_dirty EXCEPT ![z] = @ + 1]
      BY <1>0, <1>1, <1>12, <1>14, <1>15 DEF HitIn, ToDirty, clean
    <2>2. valid' \ dirty' = (valid \ dirty) \ {d} /\ InZone(z)' = InZone(z) \cup {d}
      BY <1>1, <1>11, <1>15
    <2>3. <<d>> \o inZone \in Seq(Desps)
      BY <1>14 DEF Holds
    <2>4. dirtyList' \in [Zones -> Seq(Desps)] /\ pagecnt_dirty' \in [Zones -> Nat]
      BY <1>1, <1>7, <2>1, <2>3
    <2>5. ASSUME NEW y \in Zones
          PROVE  Holds(dirtyList'[y], InZone(y)', stamp') /\ pagecnt_dirty'[y] = Len(dirtyList'[y])
      <3>1. CASE y = z
        BY <1>1, <1>7, <1>12, <1>14, <1>15, <2>1, <2>2, <3>1
      <3>2. CASE y # z
        BY <1>7, <1>10, <2>1, <3>2
      <3> QED
        BY <3>1, <3>2
    <2> QED
      BY <1>1, <1>3, <1>7, <1>13, <1>15, <2>1, <2>2, <2>4, <2>5 DEF PaulInv, ListsInv
  <1>16. CASE d \notin dirty /\ ~isDirty
    <2>1. /\ cleanList' = <<d>> \o clean /\ pagecnt_clean' = pagecnt_clean
          /\ dirtyList' = dirtyList /\ pagecnt_dirty' = pagecnt_dirty
      BY <1>1, <1>16 DEF HitIn, CleanAgain, clean
    <2>2. valid' \ dirty' = (valid \ dirty) \cup {d} /\ InZone(z)' = InZone(z)
      BY <1>1, <1>11, <1>16
    <2>3. \A y \in Zones : Holds(dirtyList'[y], InZone(y)', stamp')
      BY <1>1, <1>10, <1>12, <1>14, <1>16, <2>1, <2>2
    <2> QED
      BY <1>1, <1>3, <1>7, <1>13, <1>16, <2>1, <2>2, <2>3 DEF PaulInv, ListsInv
  <1>17. CASE d \in dirty
    <2>1. /\ cleanList' = cleanList /\ pagecnt_clean' = pagecnt_clean
          /\ dirtyList' = [dirtyList EXCEPT ![z] = <<d>> \o inZone]
          /\ pagecnt_dirty' = pagecnt_dirty
      BY <1>0, <1>1, <1>17 DEF HitIn, DirtyAgain, inZone
    <2>2. /\ valid' \ dirty' = (valid \ dirty) \ {d} /\ InZone(z)' = InZone(z) \cup {d}
          /\ clean = cleanList
      BY <1>1, <1>11, <1>13, <1>17
    <2>3. <<d>> \o inZone \in Seq(Desps)
      BY <1>14 DEF Holds
    <2>4. dirtyList' \in [Zones -> Seq(Desps)]
      BY <1>1, <1>7, <2>1, <2>3
    <2>5. ASSUME NEW y \in Zones
          PROVE  Holds(dirtyList'[y], InZone(y)', stamp') /\ pagecnt_dirty'[y] = Len(dirtyList'[y])
      <3>1. CASE y = z
        BY <1>1, <1>7, <1>12, <1>14, <1>17, <2>1, <2>2, <3>1
      <3>2. CASE y # z
        BY <1>7, <1>10, <2>1, <3>2
      <3> QED
        BY <3>1, <3>2
    <2> QED
      BY <1>3, <1>7, <1>13, <2>1, <2>2, <2>4, <2>5 DEF PaulInv, ListsInv
  <1> QED
    BY <1>15, <1>16, <1>17

-----------------------------------------------------------------------------
(***************************************************************************)
(* LogOut: a batch leaves the end of one list.                             *)
(***************************************************************************)

\* The descriptors, when a batch of them is cleared.
LEMMA DespsCleared ==
  ASSUME PaulInv, NEW batch \in SUBSET valid, clearDesp(batch), UNCHANGED StampGlobal
  PROVE  /\ DespsInv' /\ valid' = valid \ batch /\ dirty' = dirty \ batch
         /\ \A e \in Desps \ batch : stamp'[e] = stamp[e]
         /\ \A y \in Zones : InZone(y)' = InZone(y) \ batch
  <1>1. /\ valid' = valid \ batch /\ dirty' = dirty \ batch
        /\ \A e \in Desps \ batch : stamp'[e] = stamp[e] /\ zone'[e] = zone[e]
        /\ \A e \in Desps : flag'[e] = (e \notin batch /\ flag[e])
    BY DEF clearDesp
  <1>2. /\ valid \subseteq Desps /\ dirty \subseteq valid
        /\ \A e \in valid : zone[e] \in Zones /\ stamp[e] < StampGlobal
        /\ \A e \in Desps : flag[e] <=> e \in dirty
    BY DEF PaulInv, DespsInv
  <1>3. stamp' \in [Desps -> 0 .. MaxStamp] /\ StampGlobal' \in 0 .. MaxStamp
    BY PaulAssumption DEF PaulInv, DespsInv, clearDesp
  <1>4. zone' \in [Desps -> Zones \cup {NoZone}] /\ flag' \in [Desps -> BOOLEAN]
    BY DEF PaulInv, DespsInv, clearDesp
  <1>5. \A e \in valid' : zone'[e] \in Zones /\ stamp'[e] < StampGlobal'
    BY <1>1, <1>2
  <1>6. \A d, e \in valid' : stamp'[d] = stamp'[e] => d = e
    BY <1>1, <1>2 DEF PaulInv, DespsInv
  <1>7. \A e \in Desps : flag'[e] <=> e \in dirty'
    BY <1>1, <1>2
  <1>8. valid' \subseteq Desps /\ dirty' \subseteq valid'
    BY <1>1, <1>2
  <1>9. \A y \in Zones : InZone(y)' = InZone(y) \ batch
    BY <1>1, <1>2 DEF InZone
  <1> QED
    BY <1>1, <1>3, <1>4, <1>5, <1>6, <1>7, <1>8, <1>9 DEF DespsInv

\* What is asked of a batch of n victims from a list of these descriptors.
Batch(batch, list, M, n) ==
  /\ batch \subseteq M /\ batch # {} /\ IsFiniteSet(batch) /\ Cardinality(batch) <= n
  /\ \A d \in batch, e \in M \ batch : stamp[d] < stamp[e]
  /\ Last(list) \in batch

LEMMA OldestLeave ==
  ASSUME DespsInv, NEW list, NEW M \in SUBSET valid, Holds(list, M, stamp),
         NEW n \in 1 .. Len(list), clearDesp(Oldest(list, n))
  PROVE  /\ Batch(Oldest(list, n), list, M, n)
         /\ Holds(SubSeq(list, 1, Len(list) - n), M \ Oldest(list, n), stamp')
         /\ Len(SubSeq(list, 1, Len(list) - n)) = Len(list) - n
  <1> DEFINE rest == SubSeq(list, 1, Len(list) - n)
             batch == Oldest(list, n)
  <1>1. list \in Seq(Desps) /\ ToSet(list) = M /\ Sorted(stamp, list) /\ Len(list) \in Nat
    BY DEF Holds
  <1>2. stamp \in [Desps -> Nat] /\ \A e \in Desps \ Oldest(list, n) : stamp'[e] = stamp[e]
    BY PaulAssumption DEF DespsInv, clearDesp
  <1>3. n \in 0 .. Len(list) /\ n > 0
    OBVIOUS
  <1>4. /\ rest \in Seq(Desps) /\ Len(rest) = Len(list) - n
        /\ ToSet(rest) = ToSet(list) \ batch
        /\ Sorted(stamp', rest)
        /\ batch \subseteq ToSet(list)
        /\ IsFiniteSet(batch) /\ Cardinality(batch) <= n
        /\ \A d \in batch, e \in ToSet(rest) : stamp[d] < stamp[e]
        /\ n > 0 => list[Len(list)] \in batch
    BY <1>1, <1>2, <1>3, SortedPrefix
  <1> HIDE DEF rest, batch
  <1>5. Batch(batch, list, M, n)
    BY <1>1, <1>3, <1>4 DEF Batch, Last
  <1>6. Holds(rest, M \ batch, stamp')
    BY <1>1, <1>4 DEF Holds
  <1> QED
    BY <1>4, <1>5, <1>6 DEF rest, batch

LEMMA EvictCleanStep ==
  ASSUME PaulInv, NEW t \in VictimTypes, LogOut(t), EvictClean, valid # dirty
  PROVE  /\ PaulInv'
         /\ \E batch \in SUBSET (valid \ dirty) :
              /\ batch # {} /\ Cardinality(batch) <= Grain
              /\ valid' = valid \ batch /\ dirty' = dirty
  <1> DEFINE n == Min({Grain, pagecnt_clean})
             batch == Oldest(cleanList, n)
  <1>1. /\ Holds(cleanList, valid \ dirty, stamp) /\ pagecnt_clean = Len(cleanList)
        /\ dirtyList \in [Zones -> Seq(Desps)] /\ pagecnt_dirty \in [Zones -> Nat]
        /\ dirty \subseteq valid
    BY DEF PaulInv, ListsInv, DespsInv
  <1>2. Len(cleanList) \in Nat \ {0}
    <2>1. cleanList \in Seq(Desps) /\ ToSet(cleanList) # {}
      BY <1>1 DEF Holds
    <2> QED
      BY <2>1, InToSet
  <1>3. n \in 1 .. Len(cleanList) /\ n <= Grain
    <2>1. Grain \in Nat \ {0} /\ pagecnt_clean \in Nat \ {0}
      BY <1>1, <1>2, PaulAssumption
    <2>2. n = IF Grain <= pagecnt_clean THEN Grain ELSE pagecnt_clean
      BY <2>1, MinOfTwo
    <2> HIDE DEF n
    <2> QED
      BY <1>1, <2>1, <2>2
  <1>4. /\ clearDesp(batch) /\ cleanList' = SubSeq(cleanList, 1, Len(cleanList) - n)
        /\ pagecnt_clean' = pagecnt_clean - n
        /\ UNCHANGED <<dirtyList, pagecnt_dirty, cycle, alive, StampGlobal>> /\ asked' = t
    BY DEF EvictClean, LogOut
  <1> HIDE DEF n
  <1>5. /\ Batch(batch, cleanList, valid \ dirty, n)
        /\ Holds(SubSeq(cleanList, 1, Len(cleanList) - n), (valid \ dirty) \ batch, stamp')
        /\ Len(SubSeq(cleanList, 1, Len(cleanList) - n)) = Len(cleanList) - n
    <2>1. valid \ dirty \in SUBSET valid /\ DespsInv
      BY DEF PaulInv
    <2> QED
      BY <1>1, <1>3, <1>4, <2>1, OldestLeave
  <1> HIDE DEF batch
  <1>6. batch \in SUBSET valid /\ batch \cap dirty = {}
    BY <1>5 DEF Batch
  <1>7. /\ DespsInv' /\ valid' = valid \ batch /\ dirty' = dirty
        /\ \A e \in Desps \ batch : stamp'[e] = stamp[e]
        /\ \A y \in Zones : InZone(y)' = InZone(y)
    <2>1. \A y \in Zones : InZone(y) \ batch = InZone(y)
      BY <1>6 DEF InZone
    <2>2. dirty \ batch = dirty
      BY <1>6
    <2> QED
      BY <1>4, <1>6, <2>1, <2>2, DespsCleared
  <1>8. ASSUME NEW y \in Zones PROVE Holds(dirtyList[y], InZone(y)', stamp')
    <2>1. Holds(dirtyList[y], InZone(y), stamp)
      BY DEF PaulInv, ListsInv
    <2>2. InZone(y) \in SUBSET Desps /\ \A e \in InZone(y) : stamp'[e] = stamp[e]
      BY <1>6, <1>7 DEF InZone, PaulInv, DespsInv
    <2> QED
      BY <1>7, <2>1, <2>2, HoldsStill
  <1>9. valid' \ dirty' = (valid \ dirty) \ batch
    BY <1>7
  <1>10. ListsInv'
    BY <1>1, <1>4, <1>5, <1>8, <1>9 DEF PaulInv, ListsInv
  <1>11. CycleInv'
    BY <1>4 DEF PaulInv, CycleInv, CycleEnds, cycle
  <1>12. batch \in SUBSET (valid \ dirty) /\ batch # {} /\ Cardinality(batch) <= Grain
    <2>1. IsFiniteSet(batch) /\ Cardinality(batch) \in Nat
      BY <1>5, FS_CardinalityType DEF Batch
    <2> QED
      BY <1>3, <1>5, <2>1, PaulAssumption DEF Batch
  <1> QED
    BY <1>7, <1>10, <1>11, <1>12 DEF PaulInv

\* The zones with dirty blocks are those that have a last block.
LEMMA Tails ==
  ASSUME PaulInv, NEW y \in Zones
  PROVE  /\ dirtyList[y] \in Seq(Desps) /\ InZone(y) \in SUBSET dirty
         /\ pagecnt_dirty[y] \in Nat /\ pagecnt_dirty[y] = Len(dirtyList[y])
         /\ InZone(y) # {} <=> pagecnt_dirty[y] > 0
         /\ pagecnt_dirty[y] > 0 =>
              /\ Last(dirtyList[y]) \in InZone(y) /\ TailStamp(y) \in Nat
              /\ \A d \in InZone(y) : TailStamp(y) <= stamp[d]
  <1>1. /\ Holds(dirtyList[y], InZone(y), stamp) /\ pagecnt_dirty[y] = Len(dirtyList[y])
        /\ InZone(y) \in SUBSET dirty /\ stamp \in [Desps -> Nat] /\ dirty \subseteq Desps
    BY PaulAssumption DEF PaulInv, ListsInv, DespsInv, InZone
  <1>2. /\ dirtyList[y] \in Seq(Desps) /\ ToSet(dirtyList[y]) = InZone(y)
        /\ Sorted(stamp, dirtyList[y]) /\ Len(dirtyList[y]) \in Nat
    BY <1>1 DEF Holds
  <1>3. InZone(y) # {} => pagecnt_dirty[y] > 0
    BY <1>1, <1>2, InToSet
  <1>4. ASSUME pagecnt_dirty[y] > 0
        PROVE  /\ Last(dirtyList[y]) \in InZone(y) /\ TailStamp(y) \in Nat
               /\ \A d \in InZone(y) : TailStamp(y) <= stamp[d]
    <2> DEFINE list == dirtyList[y]
    <2>1. Len(list) \in 1 .. Len(list)
      BY <1>1, <1>2, <1>4
    <2>2. Last(list) \in InZone(y)
      BY <1>2, <2>1, InToSet DEF Last
    <2>3. ASSUME NEW d \in InZone(y) PROVE TailStamp(y) <= stamp[d]
      <3>1. PICK i \in 1 .. Len(list) : list[i] = d
        BY <1>2, InToSet
      <3>2. i # Len(list) => stamp[list[i]] > stamp[list[Len(list)]]
        <4>1. i # Len(list) => i < Len(list)
          BY <1>2
        <4> QED
          BY <1>2, <2>1, <4>1 DEF Sorted
      <3>3. stamp[d] \in Nat /\ stamp[list[Len(list)]] \in Nat
        BY <1>1, <2>2 DEF Last
      <3> QED
        BY <3>1, <3>2, <3>3 DEF TailStamp, Last
    <2> QED
      BY <1>1, <2>2, <2>3 DEF TailStamp
  <1> QED
    BY <1>1, <1>2, <1>3, <1>4

\* get_FrozenOpZone_Seq() finds the open zone whose last block is the oldest,
\* when one has a block at all.
LEMMA FrozenZone ==
  ASSUME PaulInv, NEW open \in SUBSET Zones
  PROVE  LET z == get_FrozenOpZone(open)
         IN  \/ z = NoZone
             \/ /\ z \in open /\ pagecnt_dirty[z] > 0
                /\ \A y \in open : pagecnt_dirty[y] > 0 => TailStamp(z) <= TailStamp(y)
  <1> DEFINE some == {z \in open : pagecnt_dirty[z] > 0}
  <1>1. CASE some = {}
    BY <1>1 DEF get_FrozenOpZone
  <1>2. CASE some # {}
    <2> DEFINE T == {TailStamp(z) : z \in some}
    <2>1. \A z \in some : TailStamp(z) \in Nat
      BY Tails
    <2>2. PICK n \in T : \A m \in T : n <= m
      <3>1. T \subseteq Nat /\ T # {}
        BY <1>2, <2>1
      <3> HIDE DEF T
      <3> QED
        BY <3>1, LeastNat
    <2>3. \E z \in some : \A y \in some : TailStamp(z) <= TailStamp(y)
      BY <2>2
    <2> DEFINE z == CHOOSE z \in some : \A y \in some : TailStamp(z) <= TailStamp(y)
    <2>4. get_FrozenOpZone(open) = z
      BY <1>2 DEF get_FrozenOpZone
    <2>5. z \in some /\ \A y \in some : TailStamp(z) <= TailStamp(y)
      BY <2>3
    <2> QED
      BY <2>4, <2>5
  <1> QED
    BY <1>1, <1>2

-----------------------------------------------------------------------------
(***************************************************************************)
(* The zones of a new cycle.                                               *)
(***************************************************************************)

\* pause_and_score() counts the blocks of each zone that are out of date.
LEMMA ScoreIs ==
  ASSUME PaulInv
  PROVE  OOD_num \in [Zones -> Int] /\ \A z \in Zones : OOD_num[z] = ColdBlocks(z)
  <1>1. ASSUME NEW z \in Zones PROVE OOD_num[z] \in Int /\ OOD_num[z] = ColdBlocks(z)
    <2> DEFINE list == dirtyList[z]
               I == {i \in 1 .. Len(list) : stamp[list[i]] < StampGlobal - Window}
    <2>1. /\ list \in Seq(Desps) /\ ToSet(list) = InZone(z) /\ Sorted(stamp, list)
          /\ stamp \in [Desps -> Nat]
      BY PaulAssumption DEF PaulInv, ListsInv, DespsInv, Holds
    <2>2. IsInjective(list)
      BY <2>1, SortedIsInjective
    <2>3. OOD_num[z] = Cardinality(I)
      BY DEF OOD_num
    <2>4. {list[i] : i \in I} = {d \in InZone(z) : stamp[d] < StampGlobal - Window}
      <3>1. \A i \in 1 .. Len(list) : list[i] \in InZone(z)
        BY <2>1, InToSet
      <3>2. \A d \in InZone(z) : \E i \in 1 .. Len(list) : list[i] = d
        BY <2>1, InToSet
      <3> HIDE DEF list
      <3> QED
        BY <3>1, <3>2
    <2>5. {d \in InZone(z) : stamp[d] < StampGlobal - Window}
            = {d \in dirty : zone[d] = z /\ stamp[d] < StampGlobal - Window}
      BY DEF InZone
    <2>6. I \in SUBSET (1 .. Len(list))
      OBVIOUS
    <2> HIDE DEF list, I
    <2>9. list \in Seq(Desps)
      BY <2>1
    <2>7. IsFiniteSet(I) /\ Cardinality({list[i] : i \in I}) = Cardinality(I)
      BY <2>2, <2>6, <2>9, ImageCount
    <2>8. Cardinality(I) \in Nat
      BY <2>7, FS_CardinalityType
    <2> QED
      BY <2>3, <2>4, <2>5, <2>7, <2>8 DEF ColdBlocks
  <1>2. OOD_num = [z \in Zones |-> OOD_num[z]]
    BY DEF OOD_num
  <1> QED
    BY <1>1, <1>2

\* The zones with dirty blocks, by score.
LEMMA OrderIs ==
  ASSUME PaulInv, dirty # {}
  PROVE  /\ ZoneSortArray \in Seq(Zones) /\ IsInjective(ZoneSortArray)
         /\ ToSet(ZoneSortArray) = {zone[d] : d \in dirty}
         /\ \A i, j \in 1 .. Len(ZoneSortArray) :
              i < j => OOD_num[ZoneSortArray[i]] >= OOD_num[ZoneSortArray[j]]
  <1> DEFINE a == NonEmptyZones
  <1>1. NZones \in Nat /\ pagecnt_dirty \in [Zones -> Int] /\ Zones \subseteq Int
    BY PaulAssumption DEF PaulInv, ListsInv, Zones
  <1>2. a \in Seq(Zones) /\ IsInjective(a) /\ ToSet(a) = {z \in Zones : pagecnt_dirty[z] > 0}
    BY <1>1, NonEmptyIs DEF NonEmptyZones, Zones
  <1>3. {z \in Zones : pagecnt_dirty[z] > 0} = {zone[d] : d \in dirty}
    <2>1. \A d \in dirty : zone[d] \in Zones /\ d \in InZone(zone[d])
      BY DEF PaulInv, DespsInv, InZone
    <2>2. \A z \in Zones : pagecnt_dirty[z] > 0 => \E d \in dirty : zone[d] = z
      <3>1. \A z \in Zones : pagecnt_dirty[z] > 0 => InZone(z) # {}
        BY Tails
      <3> QED
        BY <3>1 DEF InZone
    <2>3. \A z \in Zones : InZone(z) # {} => pagecnt_dirty[z] > 0
      BY Tails
    <2> QED
      BY <2>1, <2>2, <2>3
  <1>4. OOD_num \in [Zones -> Int]
    BY ScoreIs
  <1> HIDE DEF a
  <1>5. Len(a) > 0
    <2>1. ToSet(a) # {}
      BY <1>2, <1>3
    <2> QED
      BY <1>2, <2>1, InToSet
  <1> DEFINE r == qsort_zone(a, OOD_num, 1, Len(a))
  <1>6. ZoneSortArray = r
    BY DEF ZoneSortArray, a
  <1>7. /\ r \in Seq(Zones) /\ IsInjective(r) /\ ToSet(r) = ToSet(a)
        /\ \A i, j \in 1 .. Len(r) : i < j => OOD_num[r[i]] >= OOD_num[r[j]]
    <2>1. IsInjective(a) /\ a \in Seq(Zones) /\ Len(a) > 0
      BY <1>2, <1>5
    <2>2. PICK key : key = OOD_num
      OBVIOUS
    <2>3. key \in [Zones -> Int]
      BY <1>4, <2>2
    <2>4. LET q == qsort_zone(a, key, 1, Len(a))
          IN  /\ q \in Seq(Zones) /\ Len(q) = Len(a) /\ IsInjective(q) /\ ToSet(q) = ToSet(a)
              /\ \A i, j \in 1 .. Len(q) : i < j => key[q[i]] >= key[q[j]]
      BY <1>1, <2>1, <2>3, QsortIs, Zenon
    <2> QED
      BY <2>2, <2>4
  <1> HIDE DEF r
  <1> QED
    BY <1>2, <1>3, <1>6, <1>7

\* The zones that may be opened: those with dirty blocks that are not open.
CanOpen == {zone[d] : d \in dirty} \ OpenZoneSet

\* The zones of the cycle that begins, if one does.
ColdestOpen ==
  activate' # activate =>
    /\ OpenZoneSet' \subseteq CanOpen
    /\ Cardinality(OpenZoneSet') = Min({MaxOpen, Cardinality(CanOpen)})
    /\ \A z \in OpenZoneSet', y \in CanOpen \ OpenZoneSet' :
         ColdBlocks(z) >= ColdBlocks(y)

LEMMA ZonesOpened ==
  ASSUME PaulInv, dirty # {}, redefineOpenZones
  PROVE  /\ OpenZoneSet' \in SUBSET Zones /\ activate' \in [Zones -> 0 .. 2]
         /\ \A z \in Zones : z \in OpenZoneSet' <=> activate'[z] = 2
         /\ ColdestOpen
  <1> DEFINE order == ZoneSortArray
             free == {i \in 1 .. Len(order) : Activated[order[i]] = 0}
             first == FirstOnes(free, MaxOpen)
  <1>1. /\ order \in Seq(Zones) /\ IsInjective(order) /\ ToSet(order) = {zone[d] : d \in dirty}
        /\ \A i, j \in 1 .. Len(order) : i < j => OOD_num[order[i]] >= OOD_num[order[j]]
    BY OrderIs
  <1>2. /\ \A i \in 1 .. Len(order) : order[i] \in Zones /\ order[i] \in ToSet(order)
        /\ \A z \in ToSet(order) : \E i \in 1 .. Len(order) : order[i] = z
        /\ Len(order) \in Nat
    BY <1>1, InToSet
  <1>3. OpenZoneSet' = {order[i] : i \in first}
    BY DEF redefineOpenZones, FirstOnes
  <1>4. activate' = [z \in Zones |-> IF z \in OpenZoneSet' THEN 2 ELSE Activated[z]]
    BY DEF redefineOpenZones
  <1>5. \A z \in Zones : Activated[z] \in 0 .. 1 /\ (Activated[z] = 0 <=> z \notin OpenZoneSet)
    <2>1. \A z \in Zones : activate[z] \in 0 .. 2 /\ (z \in OpenZoneSet <=> activate[z] = 2)
      BY DEF PaulInv, CycleInv
    <2> QED
      BY <2>1 DEF Activated
  <1>6. free \in SUBSET (1 .. Len(order)) /\ free \in SUBSET Nat
    BY <1>2
  <1>7. \A i \in 1 .. Len(order) : i \in free <=> order[i] \notin OpenZoneSet
    BY <1>2, <1>5
  <1>m. MaxOpen \in Nat
    BY PaulAssumption DEF MaxOpen
  <1> HIDE DEF order, free
  <1>8. CanOpen = {order[i] : i \in free}
    BY <1>1, <1>2, <1>6, <1>7 DEF CanOpen
  <1>9. IsFiniteSet(free) /\ Cardinality(CanOpen) = Cardinality(free)
    <2>1. order \in Seq(Zones) /\ IsInjective(order)
      BY <1>1
    <2>2. free \in SUBSET (1 .. Len(order))
      BY <1>6
    <2>3. IsFiniteSet(free) /\ Cardinality({order[i] : i \in free}) = Cardinality(free)
      BY <2>1, <2>2, ImageCount
    <2> QED
      BY <1>8, <2>3
  <1>10. /\ first \subseteq free
         /\ \A k \in first, j \in free : j < k => j \in first
         /\ Cardinality(first) = Min({MaxOpen, Cardinality(free)})
    BY <1>6, <1>9, <1>m, FirstOnesAre
  <1> HIDE DEF first
  <1>11. OpenZoneSet' \subseteq CanOpen
    BY <1>3, <1>8, <1>10
  <1>12. Cardinality(OpenZoneSet') = Min({MaxOpen, Cardinality(CanOpen)})
    <2>1. first \in SUBSET (1 .. Len(order))
      BY <1>6, <1>10
    <2>3. order \in Seq(Zones) /\ IsInjective(order)
      BY <1>1
    <2>2. Cardinality({order[i] : i \in first}) = Cardinality(first)
      BY <2>1, <2>3, ImageCount
    <2> QED
      BY <1>3, <1>9, <1>10, <2>2
  <1>13. ASSUME NEW z \in OpenZoneSet', NEW y \in CanOpen \ OpenZoneSet'
         PROVE  ColdBlocks(z) >= ColdBlocks(y)
    <2>1. PICK i \in first : order[i] = z
      BY <1>3
    <2>2. PICK j \in free : order[j] = y /\ j \notin first
      BY <1>3, <1>8
    <2>3. i < j
      <3>1. i \in Nat /\ j \in Nat /\ i # j /\ ~(j < i)
        BY <1>6, <1>10, <2>1, <2>2
      <3> QED
        BY <3>1
    <2>4. i \in 1 .. Len(order) /\ j \in 1 .. Len(order)
      BY <1>6, <1>10, <2>1, <2>2
    <2>5. OOD_num[order[i]] >= OOD_num[order[j]]
      BY <1>1, <2>3, <2>4
    <2>6. z \in Zones /\ y \in Zones
      BY <1>2, <2>1, <2>2, <2>4
    <2> QED
      BY <2>1, <2>2, <2>5, <2>6, ScoreIs
  <1>14. OpenZoneSet' \in SUBSET Zones
    BY <1>2, <1>3, <1>6, <1>10
  <1>15. activate' \in [Zones -> 0 .. 2] /\ \A z \in Zones : z \in OpenZoneSet' <=> activate'[z] = 2
    BY <1>4, <1>5
  <1> QED
    BY <1>11, <1>12, <1>13, <1>14, <1>15 DEF ColdestOpen

LEMMA LimitIs == Max({Cycle_Length, 1}) = IF Cycle_Length = 0 THEN 1 ELSE Cycle_Length
  <1>1. Cycle_Length \in Nat
    BY PaulAssumption
  <1> DEFINE m == IF Cycle_Length = 0 THEN 1 ELSE Cycle_Length
             S == {Cycle_Length, 1}
  <1>2. m \in S /\ \A k \in S : m >= k
    BY <1>1
  <1>3. \A k \in S : (\A j \in S : k >= j) => k = m
    BY <1>1
  <1>4. (CHOOSE k \in S : \A j \in S : k >= j) = m
    <2> HIDE DEF m, S
    <2> QED
      BY <1>2, <1>3
  <1> QED
    BY <1>4 DEF Max

\* The victims are the oldest of the open zones.
OldestOut ==
  LET batch == dirty \ dirty'
  IN  batch # {} =>
        \E z \in OpenZoneSet', oldest \in batch :
          /\ \A d \in batch : zone[d] = z
          /\ \A d \in dirty \ batch :
               /\ zone[d] = z => \A e \in batch : stamp[e] < stamp[d]
               /\ zone[d] \in OpenZoneSet' => stamp[oldest] < stamp[d]

LEMMA EvictDirtyStep ==
  ASSUME PaulInv, NEW t \in VictimTypes, LogOut(t), EvictDirty, dirty # {}
  PROVE  /\ PaulInv' /\ OldestOut /\ ColdestOpen
         /\ \/ valid' = valid /\ dirty' = dirty
            \/ \E batch \in SUBSET dirty :
                 /\ batch # {} /\ Cardinality(batch) <= Grain
                 /\ valid' = valid \ batch /\ dirty' = dirty \ batch
  <1>1. PICK z : z = get_FrozenOpZone(OpenZoneSet')
    OBVIOUS
  <1>2. /\ OpenZoneSet' \in SUBSET Zones /\ activate' \in [Zones -> 0 .. 2]
        /\ \A y \in Zones : y \in OpenZoneSet' <=> activate'[y] = 2
        /\ ColdestOpen
    <2>1. CASE CycleOver
      BY <2>1, ZonesOpened DEF EvictDirty
    <2>2. CASE ~CycleOver
      <3>1. OpenZoneSet' = OpenZoneSet /\ activate' = activate
        BY <2>2 DEF EvictDirty
      <3> QED
        BY <3>1 DEF PaulInv, CycleInv, ColdestOpen
    <2> QED
      BY <2>1, <2>2
  <1>3. asked' = t /\ StampGlobal' = StampGlobal
    BY DEF LogOut
  <1>4. CASE z = NoZone
    <2>1. alive' = FALSE /\ UNCHANGED <<lists, Cycle_Progress, zone, stamp, flag, cache>>
      BY <1>1, <1>4 DEF EvictDirty
    <2>2. ListsInv'
      BY <2>1 DEF PaulInv, ListsInv, lists, cache, InZone
    <2>3. DespsInv'
      BY <1>3, <2>1 DEF PaulInv, DespsInv, cache
    <2>4. CycleInv'
      BY <1>2, <1>3, <2>1 DEF PaulInv, CycleInv, CycleEnds
    <2>5. OldestOut
      BY <2>1 DEF OldestOut, cache
    <2> QED
      BY <1>2, <2>1, <2>2, <2>3, <2>4, <2>5 DEF PaulInv, cache
  <1>5. CASE z # NoZone
    <2>1. /\ z \in OpenZoneSet' /\ z \in Zones /\ pagecnt_dirty[z] > 0
          /\ \A y \in OpenZoneSet' : pagecnt_dirty[y] > 0 => TailStamp(z) <= TailStamp(y)
      BY <1>1, <1>2, <1>5, FrozenZone
    <2>2. PICK n : n = Min({Grain, pagecnt_dirty[z]})
      OBVIOUS
    <2>3. PICK batch : batch = Oldest(dirtyList[z], n)
      OBVIOUS
    <2>4. /\ clearDesp(batch)
          /\ dirtyList' = [dirtyList EXCEPT ![z] = SubSeq(@, 1, Len(@) - n)]
          /\ pagecnt_dirty' = [pagecnt_dirty EXCEPT ![z] = @ - n]
          /\ Cycle_Progress' = n + IF CycleOver THEN 0 ELSE Cycle_Progress
          /\ UNCHANGED <<cleanList, pagecnt_clean, alive>>
      BY <1>1, <1>5, <2>2, <2>3 DEF EvictDirty
    <2>5. n \in 1 .. Len(dirtyList[z]) /\ n \in 1 .. Grain
      <3>1. Grain \in Nat \ {0} /\ pagecnt_dirty[z] \in Nat \ {0}
        BY <2>1, Tails, PaulAssumption
      <3>2. n = IF Grain <= pagecnt_dirty[z] THEN Grain ELSE pagecnt_dirty[z]
        BY <2>2, <3>1, MinOfTwo
      <3>3. pagecnt_dirty[z] = Len(dirtyList[z])
        BY <2>1, Tails
      <3> QED
        BY <3>1, <3>2, <3>3
    <2>6. /\ Batch(batch, dirtyList[z], InZone(z), n)
          /\ Holds(SubSeq(dirtyList[z], 1, Len(dirtyList[z]) - n), InZone(z) \ batch, stamp')
          /\ Len(SubSeq(dirtyList[z], 1, Len(dirtyList[z]) - n)) = Len(dirtyList[z]) - n
      <3>1. /\ InZone(z) \in SUBSET valid /\ DespsInv
            /\ Holds(dirtyList[z], InZone(z), stamp)
        BY <2>1 DEF PaulInv, ListsInv, DespsInv, InZone
      <3> QED
        BY <2>3, <2>4, <2>5, <3>1, OldestLeave
    <2>7. batch \in SUBSET dirty /\ batch \in SUBSET valid /\ \A d \in batch : zone[d] = z
      BY <2>6 DEF Batch, InZone, PaulInv, DespsInv
    <2>8. /\ DespsInv' /\ valid' = valid \ batch /\ dirty' = dirty \ batch
          /\ \A e \in Desps \ batch : stamp'[e] = stamp[e]
          /\ \A y \in Zones : InZone(y)' = InZone(y) \ batch
      BY <1>3, <2>4, <2>7, DespsCleared
    <2>9. ASSUME NEW M, NEW list, M \in SUBSET valid, Holds(list, M, stamp), M \cap batch = {}
          PROVE  Holds(list, M, stamp')
      <3>1. M \in SUBSET Desps /\ \A e \in M : stamp'[e] = stamp[e]
        BY <2>8, <2>9 DEF PaulInv, DespsInv
      <3> QED
        BY <2>9, <3>1, HoldsStill
    <2>10. Holds(cleanList, valid' \ dirty', stamp')
      <3>1. /\ valid' \ dirty' = valid \ dirty /\ valid \ dirty \in SUBSET valid
            /\ (valid \ dirty) \cap batch = {} /\ Holds(cleanList, valid \ dirty, stamp)
        BY <2>7, <2>8 DEF PaulInv, ListsInv
      <3> QED
        BY <2>9, <3>1
    <2>11. ASSUME NEW y \in Zones
           PROVE  Holds(dirtyList'[y], InZone(y)', stamp') /\ pagecnt_dirty'[y] = Len(dirtyList'[y])
      <3>0. dirtyList \in [Zones -> Seq(Desps)] /\ pagecnt_dirty \in [Zones -> Nat]
        BY DEF PaulInv, ListsInv
      <3>1. CASE y = z
        BY <2>1, <2>4, <2>6, <2>8, <3>0, <3>1, Tails
      <3>2. CASE y # z
        <4>1. /\ InZone(y) \in SUBSET valid /\ InZone(y) \cap batch = {}
              /\ Holds(dirtyList[y], InZone(y), stamp) /\ InZone(y) \ batch = InZone(y)
          BY <2>7, <3>2 DEF PaulInv, ListsInv, DespsInv, InZone
        <4>2. Holds(dirtyList[y], InZone(y)', stamp')
          BY <2>8, <2>9, <4>1
        <4> QED
          BY <2>4, <3>0, <3>2, <4>2, Tails
      <3> QED
        BY <3>1, <3>2
    <2>12. dirtyList' \in [Zones -> Seq(Desps)] /\ pagecnt_dirty' \in [Zones -> Nat]
      <3>1. dirtyList \in [Zones -> Seq(Desps)] /\ pagecnt_dirty \in [Zones -> Nat]
        BY DEF PaulInv, ListsInv
      <3>2. SubSeq(dirtyList[z], 1, Len(dirtyList[z]) - n) \in Seq(Desps)
        BY <2>6 DEF Holds
      <3>3. pagecnt_dirty[z] - n \in Nat
        BY <2>1, <2>5, Tails
      <3> QED
        BY <2>1, <2>4, <3>1, <3>2, <3>3
    <2>13. ListsInv'
      BY <2>4, <2>10, <2>11, <2>12 DEF PaulInv, ListsInv
    <2>14. CycleInv'
      <3>1. Cycle_Progress \in Nat /\ Cycle_Length \in Nat /\ Grain \in Nat \ {0} /\ n \in 1 .. Grain
        BY <2>5, PaulAssumption DEF PaulInv, CycleInv
      <3>2. ~CycleOver => Cycle_Progress < Cycle_Length
        BY <3>1 DEF CycleOver
      <3>3. Cycle_Progress' \in Nat /\ Cycle_Progress' < Max({Cycle_Length, 1}) + Grain
        BY <2>4, <3>1, <3>2, LimitIs
      <3> QED
        BY <1>2, <1>3, <2>4, <3>3 DEF PaulInv, CycleInv, CycleEnds
    <2>15. dirty \ dirty' = batch
      BY <2>7, <2>8
    <2>16. OldestOut
      <3> DEFINE oldest == Last(dirtyList[z])
      <3>1. oldest \in batch
        BY <2>6 DEF Batch
      <3>2. ASSUME NEW d \in dirty \ batch, zone[d] = z, NEW e \in batch
            PROVE  stamp[e] < stamp[d]
        BY <2>6, <3>2 DEF Batch, InZone
      <3>3. ASSUME NEW d \in dirty \ batch, zone[d] \in OpenZoneSet'
            PROVE  stamp[oldest] < stamp[d]
        <4>1. PICK y \in Zones : y = zone[d]
          BY <1>2, <3>3
        <4>2. d \in InZone(y)
          BY <4>1 DEF InZone
        <4>3. pagecnt_dirty[y] > 0 /\ TailStamp(y) \in Nat /\ TailStamp(y) <= stamp[d]
          BY <4>2, Tails
        <4>4. TailStamp(z) <= TailStamp(y) /\ TailStamp(z) \in Nat
          BY <2>1, <3>3, <4>1, <4>3, Tails
        <4>5. stamp[oldest] = TailStamp(z)
          BY DEF TailStamp
        <4>6. stamp[d] \in Nat /\ stamp[d] # stamp[oldest]
          BY <2>7, <3>1, PaulAssumption DEF PaulInv, DespsInv
        <4> QED
          BY <4>3, <4>4, <4>5, <4>6
      <3> HIDE DEF oldest
      <3> QED
        BY <2>1, <2>7, <2>15, <3>1, <3>2, <3>3 DEF OldestOut
    <2>17. batch # {} /\ Cardinality(batch) <= Grain
      <3>1. batch # {} /\ IsFiniteSet(batch) /\ Cardinality(batch) <= n
        BY <2>6 DEF Batch
      <3>2. Cardinality(batch) \in Nat
        BY <3>1, FS_CardinalityType
      <3> QED
        BY <2>5, <3>1, <3>2, PaulAssumption
    <2> QED
      BY <1>2, <2>7, <2>8, <2>13, <2>14, <2>16, <2>17 DEF PaulInv
  <1> QED
    BY <1>4, <1>5

-----------------------------------------------------------------------------
(***************************************************************************)
(* The theorems.                                                           *)
(***************************************************************************)
LEMMA PaulStep == PaulInv /\ [Next]_vars => PaulInv'
  <1> SUFFICES ASSUME PaulInv, [Next]_vars PROVE PaulInv'
    OBVIOUS
  <1>1. ASSUME NEW d \in Desps, NEW z \in Zones, NEW b \in BOOLEAN, LogIn(d, z, b)
        PROVE  PaulInv'
    BY <1>1, LogInStep
  <1>2. ASSUME NEW d \in Desps, NEW b \in BOOLEAN, HitIn(d, b) PROVE PaulInv'
    BY <1>2, HitInStep
  <1>3. ASSUME NEW t \in VictimTypes, LogOut(t) PROVE PaulInv'
    BY <1>3, EvictCleanStep, EvictDirtyStep DEF LogOut
  <1>4. CASE UNCHANGED vars
    <2>1. ListsInv'
      BY <1>4 DEF vars, lists, cycle, cache, PaulInv, ListsInv, InZone
    <2>2. DespsInv'
      BY <1>4 DEF vars, lists, cycle, cache, PaulInv, DespsInv
    <2>3. CycleInv'
      BY <1>4 DEF vars, lists, cycle, cache, PaulInv, CycleInv, CycleEnds
    <2> QED
      BY <2>1, <2>2, <2>3 DEF PaulInv
  <1> QED
    BY <1>1, <1>2, <1>3, <1>4 DEF Next

\* The lists are ordered by use, stamps of cached descriptors differ, and the
\* progress of a cycle is bounded, whatever the cache calls.
THEOREM PaulInvariant == Spec => []PaulInv
  BY PaulInit, PaulStep, PTL DEF Spec

\* Each list holds the cached descriptors of its class or zone, each once, the
\* last used first; the counters are the lengths of the lists, and the DIRTY
\* bits of the strategy are those of the cache.
THEOREM PaulLists == Spec => []ListsMatchFlags
  BY PaulInvariant, InvGivesLists, PTL

\* A cycle goes beyond its length by less than one batch.
THEOREM PaulCycles == Spec => []CycleEnds
  <1>1. PaulInv => CycleEnds
    BY DEF PaulInv, CycleInv
  <1> QED
    BY <1>1, PaulInvariant, PTL

\* Dirty blocks leave from the open zone that holds the oldest block of all
\* open zones, the oldest of that zone first.
THEOREM PaulOldest == Spec => OldestOfOpenZones
  <1>1. PaulInv /\ [Next]_vars => [OldestOut]_vars
    <2> SUFFICES ASSUME PaulInv, Next PROVE OldestOut
      OBVIOUS
    <2>1. ASSUME NEW d \in Desps, NEW z \in Zones, NEW b \in BOOLEAN, LogIn(d, z, b)
          PROVE  OldestOut
      BY <2>1 DEF LogIn, CacheFlags, OldestOut
    <2>2. ASSUME NEW d \in Desps, NEW b \in BOOLEAN, HitIn(d, b) PROVE OldestOut
      BY <2>2 DEF HitIn, CacheFlags, OldestOut
    <2>3. ASSUME NEW t \in VictimTypes, LogOut(t) PROVE OldestOut
      <3>1. CASE t \in {"Dirty", "Any"} /\ EvictDirty
        <4>1. dirty # {}
          BY <2>3, <3>1 DEF LogOut
        <4> QED
          BY <2>3, <3>1, <4>1, EvictDirtyStep
      <3>2. CASE t \in {"Clean", "Any"} /\ EvictClean
        <4>1. dirty' = dirty
          BY <2>3, <3>2, EvictCleanStep DEF LogOut
        <4> QED
          BY <4>1 DEF OldestOut
      <3> QED
        BY <2>3, <3>1, <3>2 DEF LogOut
    <2> QED
      BY <2>1, <2>2, <2>3 DEF Next
  <1> QED
    BY <1>1, PaulInvariant, PTL DEF Spec, OldestOfOpenZones, OldestOut

\* A new cycle opens, of the zones with dirty blocks that the last one did not
\* have open, as many as it may, and those with most blocks out of date.
THEOREM PaulColdest == Spec => ColdestZonesOpen
  <1>1. PaulInv /\ [Next]_vars => [ColdestOpen]_vars
    <2> SUFFICES ASSUME PaulInv, Next PROVE ColdestOpen
      OBVIOUS
    <2>1. ASSUME NEW d \in Desps, NEW z \in Zones, NEW b \in BOOLEAN, LogIn(d, z, b)
          PROVE  ColdestOpen
      BY <2>1 DEF LogIn, cycle, ColdestOpen
    <2>2. ASSUME NEW d \in Desps, NEW b \in BOOLEAN, HitIn(d, b) PROVE ColdestOpen
      BY <2>2 DEF HitIn, cycle, ColdestOpen
    <2>3. ASSUME NEW t \in VictimTypes, LogOut(t) PROVE ColdestOpen
      <3>1. CASE t \in {"Dirty", "Any"} /\ EvictDirty
        <4>1. dirty # {}
          BY <2>3, <3>1 DEF LogOut
        <4> QED
          BY <2>3, <3>1, <4>1, EvictDirtyStep
      <3>2. CASE EvictClean
        BY <3>2 DEF EvictClean, cycle, ColdestOpen
      <3> QED
        BY <2>3, <3>1, <3>2 DEF LogOut
    <2> QED
      BY <2>1, <2>2, <2>3 DEF Next
  <1> QED
    BY <1>1, PaulInvariant, PTL DEF Spec, ColdestZonesOpen, ColdestOpen, CanOpen

\* What the strategy holds is what the cache holds.
SameSets ==
  /\ ToSet(cleanList) = valid \ dirty
  /\ UNION {ToSet(dirtyList[z]) : z \in Zones} = dirty
  /\ dirty \subseteq valid /\ valid \subseteq Desps

LEMMA SetsMatch == PaulInv => SameSets
  <1> SUFFICES ASSUME PaulInv PROVE SameSets
    OBVIOUS
  <1>1. \A z \in Zones : ToSet(dirtyList[z]) = InZone(z)
    BY DEF PaulInv, ListsInv, Holds
  <1>2. UNION {ToSet(dirtyList[z]) : z \in Zones} = UNION {InZone(z) : z \in Zones}
    BY <1>1
  <1>3. UNION {InZone(z) : z \in Zones} = dirty
    <2>1. ASSUME NEW d \in dirty PROVE d \in UNION {InZone(z) : z \in Zones}
      <3>1. zone[d] \in Zones /\ d \in InZone(zone[d])
        BY DEF PaulInv, DespsInv, InZone
      <3> QED
        BY <3>1
    <2>2. ASSUME NEW d \in UNION {InZone(z) : z \in Zones} PROVE d \in dirty
      BY DEF InZone
    <2> QED
      BY <2>1, <2>2
  <1> QED
    BY <1>2, <1>3 DEF SameSets, PaulInv, ListsInv, DespsInv, Holds

\* PAUL answers every call as the cache needs it: what it holds follows the
\* calls, and a batch is not empty, not larger than asked for, and of the class
\* asked for.
THEOREM PaulIsEvictStrategy == Spec => IsEvictStrategy
  <1> DEFINE clean == ToSet(cleanList)
             dirties == UNION {ToSet(dirtyList[z]) : z \in Zones}
             Out == valid \ valid' # {} => Calls!LogOut(asked', valid \ valid')
  <1>1. Init => Calls!Init
    <2> SUFFICES ASSUME Init PROVE Calls!Init
      OBVIOUS
    <2>1. ToSet(cleanList) = {} /\ UNION {ToSet(dirtyList[z]) : z \in Zones} = {}
      BY PaulInit, SetsMatch DEF Init, SameSets
    <2> QED
      BY <2>1 DEF Calls!Init
  <1>2. PaulInv /\ SameSets /\ SameSets' /\ [Next]_vars => [Calls!Next]_(Calls!vars) /\ [Out]_vars
    <2> SUFFICES ASSUME PaulInv, SameSets, SameSets', [Next]_vars
                 PROVE  [Calls!Next]_(Calls!vars) /\ [Out]_vars
      OBVIOUS
    <2>1. /\ clean = valid \ dirty /\ dirties = dirty
          /\ clean' = valid' \ dirty' /\ dirties' = dirty'
          /\ dirty \subseteq valid /\ valid \subseteq Desps
      BY DEF SameSets
    <2> HIDE DEF clean, dirties
    <2>2. CASE UNCHANGED vars
      <3>1. clean' = clean /\ dirties' = dirties
        BY <2>1, <2>2 DEF vars, cache
      <3> QED
        BY <2>2, <3>1 DEF Calls!vars, clean, dirties
    <2>3. ASSUME NEW d \in Desps, NEW z \in Zones, NEW b \in BOOLEAN, LogIn(d, z, b)
          PROVE  Calls!Next /\ Out
      <3>1. d \notin clean \cup dirties
        BY <2>1, <2>3 DEF LogIn
      <3>2. /\ clean' = IF b THEN clean \ {d} ELSE clean \cup {d}
            /\ dirties' = IF b THEN dirties \cup {d} ELSE dirties \ {d}
        BY <2>1, <2>3 DEF LogIn, CacheFlags
      <3>3. Calls!LogIn(d, b)
        BY <3>1, <3>2 DEF Calls!LogIn, Calls!Resident, Calls!Classify, clean, dirties
      <3>4. valid \ valid' = {}
        BY <2>3 DEF LogIn, CacheFlags
      <3> QED
        BY <3>3, <3>4 DEF Calls!Next
    <2>4. ASSUME NEW d \in Desps, NEW b \in BOOLEAN, HitIn(d, b)
          PROVE  Calls!Next /\ Out
      <3>1. d \in clean \cup dirties /\ (d \in dirties => b)
        BY <2>1, <2>4 DEF HitIn
      <3>2. /\ clean' = IF b THEN clean \ {d} ELSE clean \cup {d}
            /\ dirties' = IF b THEN dirties \cup {d} ELSE dirties \ {d}
        BY <2>1, <2>4 DEF HitIn, CacheFlags
      <3>3. Calls!HitIn(d, b)
        BY <3>1, <3>2 DEF Calls!HitIn, Calls!Resident, Calls!Classify, clean, dirties
      <3>4. valid \ valid' = {}
        BY <2>4 DEF HitIn, CacheFlags
      <3> QED
        BY <3>3, <3>4 DEF Calls!Next
    <2>5. ASSUME NEW t \in VictimTypes, LogOut(t)
          PROVE  [Calls!Next]_(Calls!vars) /\ Out
      <3>1. /\ asked' = t /\ valid = Desps
            /\ t \in {"Clean", "Any"} => valid # dirty
            /\ t \in {"Dirty", "Any"} => dirty # {}
        BY <2>5 DEF LogOut
      <3>2. clean \cup dirties = Desps
        BY <2>1, <3>1
      <3>3. (t \in {"Clean", "Any"} => clean # {}) /\ (t \in {"Dirty", "Any"} => dirties # {})
        BY <2>1, <3>1
      <3>4. Calls!Answerable(t)
        BY <3>2, <3>3 DEF Calls!Answerable, Calls!Resident, clean, dirties
      <3>5. \/ valid' = valid /\ dirty' = dirty
            \/ \E batch \in SUBSET dirty :
                 /\ t # "Clean" /\ batch # {} /\ Cardinality(batch) <= Grain
                 /\ valid' = valid \ batch /\ dirty' = dirty \ batch
            \/ \E batch \in SUBSET (valid \ dirty) :
                 /\ t # "Dirty" /\ batch # {} /\ Cardinality(batch) <= Grain
                 /\ valid' = valid \ batch /\ dirty' = dirty \ batch
        <4>1. CASE t \in {"Clean", "Any"} /\ EvictClean
          <5>1. PICK batch \in SUBSET (valid \ dirty) :
                  /\ batch # {} /\ Cardinality(batch) <= Grain
                  /\ valid' = valid \ batch /\ dirty' = dirty
            BY <2>5, <3>1, <4>1, EvictCleanStep
          <5>2. dirty' = dirty \ batch /\ t # "Dirty"
            BY <4>1, <5>1
          <5> QED
            BY <5>1, <5>2
        <4>2. CASE t \in {"Dirty", "Any"} /\ EvictDirty
          BY <2>5, <3>1, <4>2, EvictDirtyStep
        <4> QED
          BY <2>5, <4>1, <4>2 DEF LogOut
      <3>6. CASE valid' = valid /\ dirty' = dirty
        <4>1. clean' = clean /\ dirties' = dirties /\ valid \ valid' = {}
          BY <2>1, <3>6
        <4> QED
          BY <4>1 DEF Calls!vars, clean, dirties
      <3>7. ASSUME NEW batch \in SUBSET (clean \cup dirties),
                   batch \subseteq Calls!Candidates(t), batch # {}, Cardinality(batch) <= Grain,
                   clean' = clean \ batch, dirties' = dirties \ batch, valid' = valid \ batch
            PROVE  Calls!Next /\ Out
        <4>1. valid \ valid' = batch
          BY <2>1, <3>7
        <4>2. Calls!Cardinality(batch) = Cardinality(batch)
          BY DEF Calls!Cardinality, Cardinality
        <4>3. Calls!LogOut(t, batch)
          BY <3>4, <3>7, <4>2 DEF Calls!LogOut, Calls!Candidates, Calls!Resident, clean, dirties
        <4> QED
          BY <3>1, <3>7, <4>1, <4>3 DEF Calls!Next, Calls!VictimTypes, VictimTypes
      <3>8. ASSUME NEW batch \in SUBSET dirty, t # "Clean", batch # {}, Cardinality(batch) <= Grain,
                   valid' = valid \ batch, dirty' = dirty \ batch
            PROVE  Calls!Next /\ Out
        <4>1. batch \subseteq Calls!Candidates(t)
          BY <2>1, <3>8 DEF Calls!Candidates, Calls!Resident, clean, dirties
        <4>2. clean' = clean \ batch /\ dirties' = dirties \ batch /\ batch \in SUBSET (clean \cup dirties)
          BY <2>1, <3>8
        <4> QED
          BY <3>7, <3>8, <4>1, <4>2
      <3>9. ASSUME NEW batch \in SUBSET (valid \ dirty), t # "Dirty", batch # {},
                   Cardinality(batch) <= Grain,
                   valid' = valid \ batch, dirty' = dirty \ batch
            PROVE  Calls!Next /\ Out
        <4>1. batch \subseteq Calls!Candidates(t)
          BY <2>1, <3>9 DEF Calls!Candidates, Calls!Resident, clean, dirties
        <4>2. clean' = clean \ batch /\ dirties' = dirties \ batch /\ batch \in SUBSET (clean \cup dirties)
          BY <2>1, <3>9
        <4> QED
          BY <3>7, <3>9, <4>1, <4>2
      <3> QED
        BY <3>5, <3>6, <3>8, <3>9
    <2> QED
      BY <2>2, <2>3, <2>4, <2>5 DEF Next
  <1> QED
    BY <1>1, <1>2, PaulInvariant, SetsMatch, PTL DEF Spec, IsEvictStrategy, Calls!Spec
=============================================================================
