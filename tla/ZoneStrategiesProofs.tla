------------------------ MODULE ZoneStrategiesProofs ------------------------
(***************************************************************************)
(* The strategies by zones, for any number of descriptors and zones and    *)
(* any length of a period: each call is one of those of ZoneListsProofs,   *)
(* and what the static variables of LogOut hold between the calls keeps a  *)
(* period from running out of victims.                                     *)
(***************************************************************************)
EXTENDS ZoneStrategies, ZoneListsProofs

-----------------------------------------------------------------------------
\* LogIn and Hit of each strategy.
LEMMA MostCalls ==
  ASSUME strategy = "MOST", NEW d \in Desps, NEW z \in Zones, NEW isDirty \in BOOLEAN
  PROVE  /\ LogIn_most(d, z, isDirty) => EnterStep(d, z, isDirty)
         /\ HitIn_most(d, isDirty) => HitStep(d, isDirty)
  <1>1. ~Stamps /\ ~Separates
    BY DEF Stamps, Separates
  <1>2. ASSUME LogIn_most(d, z, isDirty) PROVE EnterStep(d, z, isDirty)
    <2>1. Enter(d, z, isDirty)
      BY <1>2 DEF LogIn_most
    <2>2. links' = WithHead(links, d, z)
      BY <1>2 DEF LogIn_most, add2ArrayHead_most
    <2> QED
      BY <1>1, <1>2, <2>1, <2>2 DEF LogIn_most, unused_most, EnterStep, Ticks, Place
  <1>3. ASSUME HitIn_most(d, isDirty) PROVE HitStep(d, isDirty)
    <2>1. Access(d, isDirty)
      BY <1>3 DEF HitIn_most
    <2>2. links' = WithHead(Without(links, d, zone[d]), d, zone[d])
      BY <1>3 DEF HitIn_most, move2ArrayHead_most, ToHead
    <2>3. UNCHANGED <<stamp, heat, zoneheat, StampGlobal>>
          /\ IF ~flag[d] /\ isDirty
               THEN /\ pagecnt_dirty' = [pagecnt_dirty EXCEPT ![zone[d]] = @ + 1]
                    /\ pagecnt_clean' = [pagecnt_clean EXCEPT ![zone[d]] = @ - 1]
               ELSE UNCHANGED counts
      BY <1>3 DEF HitIn_most, unused_most, counts
    <2>4. ~Heats(d, isDirty) /\ Ticks(d)
      BY <1>1, <2>3 DEF Heats, Ticks
    <2>5. /\ Place(zone[d], flag[d]) = zone[d] /\ Place(zone[d], flag[d] \/ isDirty) = zone[d]
          /\ Place(zone[d], FALSE) = zone[d]
      BY <1>1 DEF Place
    <2>6. links' = WithHead(Without(links, d, Place(zone[d], flag[d])), d,
                            Place(zone[d], flag[d] \/ isDirty))
      BY <2>2, <2>5
    <2> QED
      BY <2>1, <2>3, <2>4, <2>5, <2>6 DEF HitStep
  <1> QED
    BY <1>2, <1>3

LEMMA MostRwCalls ==
  ASSUME strategy = "MOST_RW", BaseInv, NEW d \in Desps, NEW z \in Zones, NEW isDirty \in BOOLEAN
  PROVE  /\ LogIn_most_rw(d, z, isDirty) => EnterStep(d, z, isDirty)
         /\ HitIn_most_rw(d, isDirty) => HitStep(d, isDirty)
  <1>1. ~Stamps /\ Separates
    BY DEF Stamps, Separates
  <1>2. ASSUME LogIn_most_rw(d, z, isDirty) PROVE EnterStep(d, z, isDirty)
    <2>1. Enter(d, z, isDirty)
      BY <1>2 DEF LogIn_most_rw
    <2>2. links' = WithHead(links, d, Place(z, isDirty))
      BY <1>1, <1>2
      DEF LogIn_most_rw, add2ArrayHead_most_rw, add2CleanArrayHead_most_rw, Place
    <2>3. Place(z, isDirty) = IF isDirty THEN z ELSE CleanCtrl
      BY <1>1 DEF Place
    <2> QED
      BY <1>1, <1>2, <2>1, <2>2, <2>3 DEF LogIn_most_rw, EnterStep, Ticks
  <1>3. ASSUME HitIn_most_rw(d, isDirty) PROVE HitStep(d, isDirty)
    <2>1. Access(d, isDirty) /\ (flag[d] => isDirty) /\ flag[d] \in BOOLEAN
      <3>1. Access(d, isDirty)
        BY <1>3 DEF HitIn_most_rw
      <3> QED
        BY <3>1 DEF Access, BaseInv, FlagsInv
    <2>2. \A b \in BOOLEAN : Place(zone[d], b) = IF b THEN zone[d] ELSE CleanCtrl
      BY <1>1 DEF Place
    <2>3. CASE ~flag[d] /\ isDirty
      <3>1. links' = WithHead(Without(links, d, CleanCtrl), d, zone[d])
        BY <1>3, <2>3
        DEF HitIn_most_rw, add2ArrayHead_most_rw, unloadfromCleanArray_most_rw
      <3>2. /\ pagecnt_dirty' = [pagecnt_dirty EXCEPT ![zone[d]] = @ + 1]
            /\ pagecnt_clean' = [pagecnt_clean EXCEPT ![CleanCtrl] = @ - 1]
            /\ UNCHANGED <<stamp, heat, zoneheat, StampGlobal>>
        BY <1>3, <2>3 DEF HitIn_most_rw
      <3>3. Place(zone[d], flag[d]) = CleanCtrl /\ Place(zone[d], FALSE) = CleanCtrl
            /\ Place(zone[d], flag[d] \/ isDirty) = zone[d]
        BY <2>1, <2>2, <2>3
      <3> QED
        BY <1>1, <2>1, <2>3, <3>1, <3>2, <3>3 DEF HitStep, Heats, Ticks
    <2>4. CASE ~(~flag[d] /\ isDirty)
      <3>1. links' = IF flag[d] THEN WithHead(Without(links, d, zone[d]), d, zone[d])
                     ELSE WithHead(Without(links, d, CleanCtrl), d, CleanCtrl)
        BY <1>3, <2>4
        DEF HitIn_most_rw, move2ArrayHead_most_rw, move2CleanArrayHead_most_rw, add2ArrayHead_most_rw,
            unloadfromZone_most_rw, add2CleanArrayHead_most_rw, unloadfromCleanArray_most_rw
      <3>2. UNCHANGED counts /\ UNCHANGED <<stamp, heat, zoneheat, StampGlobal>>
        BY <1>3, <2>4 DEF HitIn_most_rw, counts
      <3>3. /\ Place(zone[d], flag[d]) = IF flag[d] THEN zone[d] ELSE CleanCtrl
            /\ Place(zone[d], flag[d] \/ isDirty) = IF flag[d] THEN zone[d] ELSE CleanCtrl
        BY <2>1, <2>2, <2>4
      <3>4. links' = WithHead(Without(links, d, Place(zone[d], flag[d])), d,
                              Place(zone[d], flag[d] \/ isDirty))
        BY <3>1, <3>3
      <3> QED
        BY <1>1, <2>1, <2>4, <3>2, <3>4 DEF HitStep, Heats, Ticks
    <2> QED
      BY <2>3, <2>4
  <1> QED
    BY <1>2, <1>3

LEMMA PorePlusCalls ==
  ASSUME strategy = "PORE_PLUS", BaseInv, NEW d \in Desps, NEW z \in Zones, NEW isDirty \in BOOLEAN
  PROVE  /\ LogIn_plus(d, z, isDirty) => EnterStep(d, z, isDirty)
         /\ HitIn_plus(d, isDirty) => HitStep(d, isDirty)
  <1>1. Stamps /\ Separates
    BY DEF Stamps, Separates
  <1>2. ASSUME LogIn_plus(d, z, isDirty) PROVE EnterStep(d, z, isDirty)
    <2>1. Enter(d, z, isDirty)
      BY <1>2 DEF LogIn_plus
    <2>2. links' = WithHead(links, d, Place(z, isDirty))
      BY <1>1, <1>2
      DEF LogIn_plus, add2ArrayHead_plus, add2CleanArrayHead_plus, Place
    <2>3. Place(z, isDirty) = IF isDirty THEN z ELSE CleanCtrl
      BY <1>1 DEF Place
    <2>4. Ticks(d)
      BY <1>1, <1>2 DEF LogIn_plus, Stamp, Ticks
    <2> QED
      BY <1>2, <2>1, <2>2, <2>3, <2>4 DEF LogIn_plus, EnterStep
  <1>3. ASSUME HitIn_plus(d, isDirty) PROVE HitStep(d, isDirty)
    <2>1. Access(d, isDirty) /\ (flag[d] => isDirty) /\ flag[d] \in BOOLEAN
      <3>1. Access(d, isDirty)
        BY <1>3 DEF HitIn_plus
      <3> QED
        BY <3>1 DEF Access, BaseInv, FlagsInv
    <2>2. \A b \in BOOLEAN : Place(zone[d], b) = IF b THEN zone[d] ELSE CleanCtrl
      BY <1>1 DEF Place
    <2>3. Ticks(d)
      BY <1>1, <1>3 DEF HitIn_plus, Stamp, Ticks
    <2>4. Heats(d, isDirty) <=> flag[d] \/ isDirty
      BY <1>1, <2>1 DEF Heats, Separates
    <2>5. CASE ~flag[d] /\ isDirty
      <3>1. links' = WithHead(Without(links, d, CleanCtrl), d, zone[d])
        BY <1>3, <2>5
        DEF HitIn_plus, add2ArrayHead_plus, unloadfromCleanArray_plus
      <3>2. /\ pagecnt_dirty' = [pagecnt_dirty EXCEPT ![zone[d]] = @ + 1]
            /\ pagecnt_clean' = [pagecnt_clean EXCEPT ![CleanCtrl] = @ - 1]
            /\ Heat(d, zone[d])
        BY <1>3, <2>5 DEF HitIn_plus, Heat
      <3>3. Place(zone[d], flag[d]) = CleanCtrl /\ Place(zone[d], FALSE) = CleanCtrl
            /\ Place(zone[d], flag[d] \/ isDirty) = zone[d]
        BY <2>1, <2>2, <2>5
      <3> QED
        BY <2>1, <2>3, <2>4, <2>5, <3>1, <3>2, <3>3 DEF HitStep
    <2>6. CASE ~flag[d] /\ ~isDirty
      <3>1. links' = WithHead(Without(links, d, CleanCtrl), d, CleanCtrl)
        BY <1>3, <2>6
        DEF HitIn_plus, move2CleanArrayHead_plus, add2CleanArrayHead_plus, unloadfromCleanArray_plus
      <3>2. UNCHANGED counts /\ UNCHANGED <<heat, zoneheat>>
        BY <1>3, <2>6 DEF HitIn_plus, counts
      <3>3. Place(zone[d], flag[d]) = CleanCtrl /\ Place(zone[d], flag[d] \/ isDirty) = CleanCtrl
        BY <2>1, <2>2, <2>6
      <3> QED
        BY <2>1, <2>3, <2>4, <2>6, <3>1, <3>2, <3>3 DEF HitStep
    <2>7. CASE flag[d]
      <3>1. links' = WithHead(Without(links, d, zone[d]), d, zone[d])
        BY <1>3, <2>7
        DEF HitIn_plus, move2ArrayHead_plus, add2ArrayHead_plus, unloadfromZone_plus
      <3>2. UNCHANGED counts /\ Heat(d, zone[d])
        BY <1>3, <2>7 DEF HitIn_plus, counts, Heat
      <3>3. Place(zone[d], flag[d]) = zone[d] /\ Place(zone[d], flag[d] \/ isDirty) = zone[d]
        BY <2>1, <2>2, <2>7
      <3> QED
        BY <2>1, <2>3, <2>4, <2>7, <3>1, <3>2, <3>3 DEF HitStep
    <2> QED
      BY <2>1, <2>5, <2>6, <2>7
  <1> QED
    BY <1>2, <1>3

LEMMA PorePlusV2Calls ==
  ASSUME strategy = "PORE_PLUS_V2", BaseInv, NEW d \in Desps, NEW z \in Zones, NEW isDirty \in BOOLEAN
  PROVE  /\ LogIn_plus_v2(d, z, isDirty) => EnterStep(d, z, isDirty)
         /\ HitIn_plus_v2(d, isDirty) => HitStep(d, isDirty)
  <1>1. Stamps /\ Separates
    BY DEF Stamps, Separates
  <1>2. ASSUME LogIn_plus_v2(d, z, isDirty) PROVE EnterStep(d, z, isDirty)
    <2>1. Enter(d, z, isDirty)
      BY <1>2 DEF LogIn_plus_v2
    <2>2. links' = WithHead(links, d, Place(z, isDirty))
      BY <1>1, <1>2
      DEF LogIn_plus_v2, add2ArrayHead_plus_v2, add2CleanArrayHead_plus_v2, Place
    <2>3. Place(z, isDirty) = IF isDirty THEN z ELSE CleanCtrl
      BY <1>1 DEF Place
    <2>4. Ticks(d)
      BY <1>1, <1>2 DEF LogIn_plus_v2, Stamp, Ticks
    <2> QED
      BY <1>2, <2>1, <2>2, <2>3, <2>4 DEF LogIn_plus_v2, EnterStep
  <1>3. ASSUME HitIn_plus_v2(d, isDirty) PROVE HitStep(d, isDirty)
    <2>1. Access(d, isDirty) /\ (flag[d] => isDirty) /\ flag[d] \in BOOLEAN
      <3>1. Access(d, isDirty)
        BY <1>3 DEF HitIn_plus_v2
      <3> QED
        BY <3>1 DEF Access, BaseInv, FlagsInv
    <2>2. \A b \in BOOLEAN : Place(zone[d], b) = IF b THEN zone[d] ELSE CleanCtrl
      BY <1>1 DEF Place
    <2>3. Ticks(d)
      BY <1>1, <1>3 DEF HitIn_plus_v2, Stamp, Ticks
    <2>4. Heats(d, isDirty) <=> flag[d] \/ isDirty
      BY <1>1, <2>1 DEF Heats, Separates
    <2>5. CASE ~flag[d] /\ isDirty
      <3>1. links' = WithHead(Without(links, d, CleanCtrl), d, zone[d])
        BY <1>3, <2>5
        DEF HitIn_plus_v2, add2ArrayHead_plus_v2, unloadfromCleanArray_plus_v2
      <3>2. /\ pagecnt_dirty' = [pagecnt_dirty EXCEPT ![zone[d]] = @ + 1]
            /\ pagecnt_clean' = [pagecnt_clean EXCEPT ![CleanCtrl] = @ - 1]
            /\ Heat(d, zone[d])
        BY <1>3, <2>5 DEF HitIn_plus_v2, Heat
      <3>3. Place(zone[d], flag[d]) = CleanCtrl /\ Place(zone[d], FALSE) = CleanCtrl
            /\ Place(zone[d], flag[d] \/ isDirty) = zone[d]
        BY <2>1, <2>2, <2>5
      <3> QED
        BY <2>1, <2>3, <2>4, <2>5, <3>1, <3>2, <3>3 DEF HitStep
    <2>6. CASE ~flag[d] /\ ~isDirty
      <3>1. links' = WithHead(Without(links, d, CleanCtrl), d, CleanCtrl)
        BY <1>3, <2>6
        DEF HitIn_plus_v2, move2CleanArrayHead_plus_v2, add2CleanArrayHead_plus_v2, unloadfromCleanArray_plus_v2
      <3>2. UNCHANGED counts /\ UNCHANGED <<heat, zoneheat>>
        BY <1>3, <2>6 DEF HitIn_plus_v2, counts
      <3>3. Place(zone[d], flag[d]) = CleanCtrl /\ Place(zone[d], flag[d] \/ isDirty) = CleanCtrl
        BY <2>1, <2>2, <2>6
      <3> QED
        BY <2>1, <2>3, <2>4, <2>6, <3>1, <3>2, <3>3 DEF HitStep
    <2>7. CASE flag[d]
      <3>1. links' = WithHead(Without(links, d, zone[d]), d, zone[d])
        BY <1>3, <2>7
        DEF HitIn_plus_v2, move2ArrayHead_plus_v2, add2ArrayHead_plus_v2, unloadfromZone_plus_v2
      <3>2. UNCHANGED counts /\ Heat(d, zone[d])
        BY <1>3, <2>7 DEF HitIn_plus_v2, counts, Heat
      <3>3. Place(zone[d], flag[d]) = zone[d] /\ Place(zone[d], flag[d] \/ isDirty) = zone[d]
        BY <2>1, <2>2, <2>7
      <3> QED
        BY <2>1, <2>3, <2>4, <2>7, <3>1, <3>2, <3>3 DEF HitStep
    <2> QED
      BY <2>1, <2>5, <2>6, <2>7
  <1> QED
    BY <1>2, <1>3

LEMMA PoreCalls ==
  ASSUME strategy = "PORE", NEW d \in Desps, NEW z \in Zones, NEW isDirty \in BOOLEAN
  PROVE  /\ LogIn_pore(d, z, isDirty) => EnterStep(d, z, isDirty)
         /\ HitIn_pore(d, isDirty) => HitStep(d, isDirty)
  <1>1. Stamps /\ ~Separates
    BY DEF Stamps, Separates
  <1>2. ASSUME LogIn_pore(d, z, isDirty) PROVE EnterStep(d, z, isDirty)
    <2>1. Enter(d, z, isDirty)
      BY <1>2 DEF LogIn_pore
    <2>2. links' = WithHead(links, d, z)
      BY <1>2 DEF LogIn_pore, add2ArrayHead_pore
    <2>3. Ticks(d)
      BY <1>1, <1>2 DEF LogIn_pore, Stamp, Ticks
    <2> QED
      BY <1>1, <1>2, <2>1, <2>2, <2>3 DEF LogIn_pore, EnterStep, Place
  <1>3. ASSUME HitIn_pore(d, isDirty) PROVE HitStep(d, isDirty)
    <2>1. Access(d, isDirty)
      BY <1>3 DEF HitIn_pore
    <2>2. links' = WithHead(Without(links, d, zone[d]), d, zone[d])
      BY <1>3 DEF HitIn_pore, move2ArrayHead_pore, ToHead
    <2>3. /\ Heat(d, zone[d])
          /\ IF ~flag[d] /\ isDirty
               THEN /\ pagecnt_dirty' = [pagecnt_dirty EXCEPT ![zone[d]] = @ + 1]
                    /\ pagecnt_clean' = [pagecnt_clean EXCEPT ![zone[d]] = @ - 1]
               ELSE UNCHANGED counts
      BY <1>3 DEF HitIn_pore, Heat, counts
    <2>4. Ticks(d)
      BY <1>1, <1>3 DEF HitIn_pore, Stamp, Ticks
    <2>5. /\ Place(zone[d], flag[d]) = zone[d] /\ Place(zone[d], flag[d] \/ isDirty) = zone[d]
          /\ Place(zone[d], FALSE) = zone[d] /\ Heats(d, isDirty)
      BY <1>1 DEF Place, Heats
    <2>6. links' = WithHead(Without(links, d, Place(zone[d], flag[d])), d,
                            Place(zone[d], flag[d] \/ isDirty))
      BY <2>2, <2>5
    <2> QED
      BY <2>1, <2>3, <2>4, <2>5, <2>6 DEF HitStep
  <1> QED
    BY <1>2, <1>3

-----------------------------------------------------------------------------
\* What MOST keeps between the calls: before the first period there is no zone.
MostPeriod ==
  /\ alive
  /\ period = [progress |-> period.progress, chosen |-> period.chosen]
  /\ period.progress \in Nat /\ period.chosen \in Zones \cup {NoZone}
  /\ period.chosen = NoZone => period.progress = 0

\* The victims are of a zone z, which a new period has chosen as a fullest one.
Begins ==
  \/ period'.chosen # period.chosen
  \/ PeriodVictims' # PeriodVictims + Cardinality(valid \ valid')

FromFullest(class) ==
  Begins => IF class = {} THEN period'.chosen = NoZone
            ELSE \A y \in Zones : Cardinality(Of(y, class)) <= Cardinality(Of(period'.chosen, class))

MostOut ==
  /\ \E c \in Names : \E n : OutStep(c, n, valid \ valid')
  /\ MostPeriod' /\ FromFullest(valid)

LEMMA MostTakesFullest ==
  ASSUME strategy = "MOST", BaseInv, valid # {}
  PROVE  LET z == getEvictZone_most
         IN  /\ z \in Zones /\ Len(Lists[z]) > 0
             /\ \A y \in Zones : Cardinality(Of(y, valid)) <= Cardinality(Of(z, valid))
  <1> DEFINE score == [y \in Zones |-> pagecnt_dirty[y] + pagecnt_clean[y]]
             s == SortedZones(score, score)
  <1>1. getEvictZone_most = Head(s)
    BY DEF getEvictZone_most, ZoneSortArray_most, score_most
  <1>2. \A y \in Zones : score[y] = Len(Lists[y]) /\ score[y] = Cardinality(Of(y, valid))
    <2>1. Zoned = valid
      BY DEF Zoned, Separates
    <2> QED
      BY <2>1, CountedOnes, Populated
  <1>3. score \in [Zones -> Int]
    <2>1. \A y \in Zones : Len(Lists[y]) \in Nat
      BY ListedOnes, NamesAre DEF BaseInv
    <2>2. \A y \in Zones : score[y] \in Int
      BY <1>2, <2>1
    <2> QED
      BY <2>2
  <1>4. \E y \in Zones : score[y] > 0
    <2>1. PICK d \in valid : TRUE
      OBVIOUS
    <2>2. d \in Zoned
      BY DEF Zoned, Separates
    <2>3. zone[d] \in Zones /\ Len(Lists[zone[d]]) > 0
      BY <2>2, Populated
    <2> QED
      BY <1>2, <2>3
  <1> HIDE DEF score, s
  <1>5. Sorted(s, score, score)
    BY <1>3, SortedIs DEF s
  <1>6. s # << >> /\ Head(s) \in Zones /\ score[Head(s)] > 0
        /\ \A y \in Zones : score[y] > 0 => score[y] <= score[Head(s)]
    BY <1>3, <1>4, <1>5, FirstOfSorted
  <1>7. \A y \in Zones : score[y] <= score[Head(s)]
    BY <1>3, <1>6
  <1> QED
    BY <1>1, <1>2, <1>6, <1>7

LEMMA MostEvicts ==
  ASSUME strategy = "MOST", BaseInv, MostPeriod, NEW t \in VictimTypes, LogOut_most(t)
  PROVE  MostOut
  <1> DEFINE z == IF PeriodOver_most THEN getEvictZone_most ELSE period.chosen
             start == IF PeriodOver_most THEN 0 ELSE period.progress
             taken == TakeTails(links, z, Grain)
             batch == ToSet(taken.batch)
             n == UpTo(Lists, z, Grain)
  <1>1. /\ MayAsk(t) /\ asked' = t /\ links' = taken.links /\ clearDesp(batch)
        /\ pagecnt_dirty' = [pagecnt_dirty EXCEPT ![z] = @ - Cardinality(batch \cap {d \in Desps : flag[d]})]
        /\ pagecnt_clean' = [pagecnt_clean EXCEPT ![z] = @ - Cardinality({d \in batch : ~flag[d]})]
        /\ period' = [progress |-> start + Len(taken.batch), chosen |-> z]
        /\ UNCHANGED <<strategy, zoneheat, StampGlobal, alive>>
    BY DEF LogOut_most
  <1>2. /\ FlagsInv /\ ListsInv /\ ~Stamps /\ Zoned = valid /\ Grain \in 1 .. Grain
    BY ZoneStrategyAssumption DEF BaseInv, Stamps, Zoned, Separates
  <1>3. valid = Desps /\ valid # {} /\ alive
    BY <1>1, <1>2, AskedFor
  <1>4. ASSUME PeriodOver_most
        PROVE  /\ z \in Zones /\ Len(Lists[z]) > 0 /\ start = 0
               /\ \A y \in Zones : Cardinality(Of(y, valid)) <= Cardinality(Of(z, valid))
    BY <1>3, <1>4, MostTakesFullest
  <1>5. ASSUME ~PeriodOver_most
        PROVE  z \in Zones /\ Len(Lists[z]) > 0 /\ start = period.progress /\ z = period.chosen
    <2>1. period.progress % Cycle_Length # 0 /\ links.tail[period.chosen] # Nil
      BY <1>5 DEF PeriodOver_most
    <2>2. 0 % Cycle_Length = 0
      BY ZoneStrategyAssumption
    <2>3. period.chosen \in Zones
      BY <2>1, <2>2 DEF MostPeriod
    <2>4. Len(Lists[period.chosen]) \in Nat /\ Len(Lists[period.chosen]) # 0
      BY <1>2, <2>1, <2>3, CountedOnes, ListedOnes, NamesAre
    <2> QED
      BY <1>5, <2>3, <2>4
  <1>6. z \in Zones /\ z \in Names /\ Len(Lists[z]) > 0 /\ start \in Nat
    BY <1>4, <1>5, NamesAre DEF MostPeriod
  <1> HIDE DEF z, start
  <1>7. Len(taken.batch) = n /\ Leaves(z, n, taken.links, batch)
    BY <1>2, <1>6, TailsLeave
  <1> HIDE DEF taken, n
  <1>8. /\ n <= Len(Lists[z]) /\ n \in 1 .. Grain
        /\ Chained(links', WithList(Lists, z, Kept(Lists, z, n)))
        /\ batch = ToSet(Lists[z]) \ ToSet(Kept(Lists, z, n))
    BY <1>1, <1>7 DEF Leaves
  <1>9. batch \subseteq valid /\ batch \subseteq Desps /\ valid \ valid' = batch
    <2>1. batch \subseteq valid
      BY <1>2, <1>6, <1>8, ListedOnes
    <2> HIDE DEF batch
    <2> QED
      BY <1>1, <1>3, <2>1 DEF clearDesp
  <1>10. batch \cap {d \in Desps : flag[d]} = batch \cap dirty /\ {d \in batch : ~flag[d]} = batch \ dirty
    <2> HIDE DEF batch
    <2> QED
      BY <1>2, <1>9 DEF FlagsInv
  <1> HIDE DEF batch
  <1>11. zoneheat' = [zoneheat EXCEPT ![z] = @ - HeatSum(heat, batch)]
    BY <1>1, <1>2, <1>6, <1>9, NoHeat
  <1>12. OutStep(z, n, batch)
    <2>1. pagecnt_dirty' = [pagecnt_dirty EXCEPT ![z] = @ - Cardinality(batch \cap dirty)]
          /\ pagecnt_clean' = [pagecnt_clean EXCEPT ![z] = @ - Cardinality(batch \ dirty)]
      BY <1>1, <1>10
    <2>2. z # CleanCtrl /\ strategy # "PORE_PLUS_V2" /\ MayAsk(asked') /\ asked' \in VictimTypes
      BY <1>1, <1>6, NamesAre
    <2> QED
      BY <1>1, <1>6, <1>8, <1>11, <2>1, <2>2 DEF OutStep
  <1>13. period'.progress = start + n /\ period'.chosen = z
         /\ period' = [progress |-> period'.progress, chosen |-> period'.chosen]
    BY <1>1, <1>7
  <1>14. MostPeriod'
    <2>1. start + n \in Nat /\ z # NoZone
      BY <1>6, <1>8, NamesAre, ZoneStrategyAssumption
    <2> QED
      BY <1>1, <1>3, <1>6, <1>13, <2>1 DEF MostPeriod
  <1>15. FromFullest(valid)
    <2>1. CASE PeriodOver_most
      BY <1>3, <1>4, <1>13, <2>1 DEF FromFullest
    <2>2. CASE ~PeriodOver_most
      <3>1. start = period.progress /\ z = period.chosen
        BY <1>5, <2>2 DEF z, start
      <3>2. Cardinality(valid \ valid') = n
        <4>1. OutResult(z, n, batch)
          BY <1>12, OutBase
        <4> QED
          BY <1>9, <4>1 DEF OutResult, OutSets
      <3>3. PeriodVictims = period.progress /\ PeriodVictims' = period'.progress
        BY <1>1 DEF PeriodVictims
      <3>4. ~Begins
        BY <1>13, <3>1, <3>2, <3>3 DEF Begins
      <3> QED
        BY <3>4 DEF FromFullest
    <2> QED
      BY <2>1, <2>2
  <1> QED
    BY <1>6, <1>9, <1>12, <1>14, <1>15 DEF MostOut

-----------------------------------------------------------------------------
\* What MOST_RW keeps between the calls.  Without a zone it may be lost.
MostRwPeriod ==
  /\ alive \/ period.chosen = NoZone
  /\ period = [progress |-> period.progress, clean |-> period.clean, chosen |-> period.chosen]
  /\ period.progress \in Nat /\ period.clean \in Nat /\ period.chosen \in Zones \cup {NoZone}

\* Either it follows the zone it does not have, or victims leave: dirty ones only
\* when they were asked for.
Astray == alive' = FALSE /\ UNCHANGED <<strategy, links, counts, desps, period, valid, dirty>> /\ asked' \in VictimTypes

MostRwOut ==
  /\ \/ Astray
     \/ \E c \in Names : \E n : /\ OutStep(c, n, valid \ valid')
                                /\ IF asked' = "Dirty" THEN c # CleanCtrl
                                   ELSE c = CleanCtrl
  /\ MostRwPeriod' /\ FromFullest(dirty)

LEMMA MostRwTakesFullest ==
  ASSUME strategy = "MOST_RW", BaseInv
  PROVE  LET z == getEvictZone_most_rw
         IN  IF dirty = {} THEN z = NoZone
             ELSE /\ z \in Zones /\ Len(Lists[z]) > 0
                  /\ \A y \in Zones : Cardinality(Of(y, dirty)) <= Cardinality(Of(z, dirty))
  <1> DEFINE score == [y \in Zones |-> pagecnt_dirty[y] + pagecnt_clean[y]]
             s == SortedZones(pagecnt_dirty, score)
  <1>1. getEvictZone_most_rw = IF s = << >> THEN NoZone ELSE Head(s)
    BY DEF getEvictZone_most_rw, ZoneSortArray_most_rw, score_most_rw
  <1>2. /\ pagecnt_dirty \in [Zones -> Int] /\ Separates
        /\ \A y \in Zones : /\ score[y] = pagecnt_dirty[y] /\ pagecnt_dirty[y] = Cardinality(Of(y, dirty))
                            /\ pagecnt_dirty[y] = Len(Lists[y])
    <2>1. Separates
      BY DEF Separates
    <2>2. /\ pagecnt_dirty \in [Zones -> Nat]
          /\ \A y \in Zones : /\ pagecnt_dirty[y] = Len(Lists[y]) /\ pagecnt_clean[y] = 0
                              /\ pagecnt_dirty[y] = Cardinality(Of(y, dirty))
      BY <2>1, CountedOnes, Populated
    <2> QED
      BY <2>1, <2>2
  <1>3. score \in [Zones -> Int]
    BY <1>2
  <1> HIDE DEF score, s
  <1>4. Sorted(s, pagecnt_dirty, score)
    BY <1>2, <1>3, SortedIs DEF s
  <1>5. /\ s = << >> <=> \A y \in Zones : ~(pagecnt_dirty[y] > 0)
        /\ s # << >> => /\ Head(s) \in Zones /\ pagecnt_dirty[Head(s)] > 0
                        /\ \A y \in Zones : pagecnt_dirty[y] > 0 => score[y] <= score[Head(s)]
    BY <1>2, <1>3, <1>4, FirstOfSorted
  <1>6. dirty = {} <=> s = << >>
    <2>1. dirty # {} => \E y \in Zones : pagecnt_dirty[y] > 0
      <3>1. \A d \in dirty : zone[d] \in Zones /\ pagecnt_dirty[zone[d]] > 0
        BY Populated DEF BaseInv, FlagsInv
      <3> QED
        BY <3>1
    <2>2. dirty = {} => \A y \in Zones : Of(y, dirty) = {}
      BY DEF Of
    <2>3. dirty = {} => \A y \in Zones : ~(pagecnt_dirty[y] > 0)
      BY <2>2, Populated
    <2> QED
      BY <1>5, <2>1, <2>3
  <1>7. s # << >> => \A y \in Zones : score[y] <= score[Head(s)]
    BY <1>2, <1>3, <1>5
  <1> QED
    BY <1>1, <1>2, <1>5, <1>6, <1>7

LEMMA MostRwEvicts ==
  ASSUME strategy = "MOST_RW", BaseInv, MostRwPeriod, NEW t \in VictimTypes, LogOut_most_rw(t)
  PROVE  MostRwOut
  <1> DEFINE over == PeriodOver_most_rw
             now == IF over THEN [period EXCEPT !.progress = 0, !.clean = 0] ELSE period
             z == IF over THEN getEvictZone_most_rw ELSE period.chosen
             any == stamp[links.tail[CleanCtrl]] <= stamp[links.tail[z]]
             ofClean == t = "Clean" \/ (t = "Any" /\ any)
  <1>1. MayAsk(t) /\ asked' = t /\ UNCHANGED <<strategy, zoneheat, StampGlobal>>
    BY DEF LogOut_most_rw
  <1>2. /\ FlagsInv /\ ListsInv /\ StampInv /\ ~Stamps /\ Zoned = dirty /\ Separates /\ Grain \in 1 .. Grain
    BY ZoneStrategyAssumption DEF BaseInv, Stamps, Zoned, Separates
  <1>3. /\ valid = Desps /\ valid # {} /\ alive
        /\ t \in {"Clean", "Any"} => valid # dirty
        /\ t \in {"Dirty", "Any"} => dirty # {}
    BY <1>1, <1>2, AskedFor
  <1>4. ASSUME ~PeriodFull_most_rw, period.chosen = NoZone PROVE MostRwOut
    <2>1. alive' = FALSE /\ UNCHANGED <<links, counts, zone, flag, stamp, heat, period, valid, dirty>>
      BY <1>4 DEF LogOut_most_rw, Crash_most_rw, counts
    <2>2. Astray
      BY <1>1, <2>1 DEF Astray, counts, desps
    <2>3. MostRwPeriod'
      BY <1>4, <2>1 DEF MostRwPeriod
    <2>4. ~Begins
      <3>1. valid \ valid' = {} /\ Cardinality({}) = 0
        BY <2>1, FS_EmptySet
      <3>2. PeriodVictims' = PeriodVictims /\ PeriodVictims \in Nat
        BY <1>1, <2>1 DEF PeriodVictims, MostRwPeriod
      <3> QED
        BY <2>1, <3>1, <3>2 DEF Begins
    <2> QED
      BY <2>2, <2>3, <2>4 DEF MostRwOut, FromFullest
  <1>5. SUFFICES ASSUME ~(~PeriodFull_most_rw /\ period.chosen = NoZone) PROVE MostRwOut
    BY <1>4
  <1>6. /\ IF ofClean THEN EvictClean_most_rw(now, z) ELSE EvictDirty_most_rw(now, z)
        /\ UNCHANGED alive
    BY <1>5 DEF LogOut_most_rw, choose_colder_most_rw
  <1>7. ASSUME over
        PROVE  IF dirty = {} THEN z = NoZone
               ELSE /\ z \in Zones /\ Len(Lists[z]) > 0
                    /\ \A y \in Zones : Cardinality(Of(y, dirty)) <= Cardinality(Of(z, dirty))
    BY <1>7, MostRwTakesFullest
  <1>8. ASSUME ~over PROVE z \in Zones /\ Len(Lists[z]) > 0 /\ z = period.chosen
    <2>1. ~PeriodFull_most_rw /\ links.tail[period.chosen] # Nil
      BY <1>8 DEF PeriodOver_most_rw
    <2>2. period.chosen \in Zones
      BY <1>5, <2>1 DEF MostRwPeriod
    <2>3. Len(Lists[period.chosen]) \in Nat /\ Len(Lists[period.chosen]) # 0
      BY <1>2, <2>1, <2>2, CountedOnes, ListedOnes, NamesAre
    <2> QED
      BY <1>8, <2>2, <2>3
  <1>9. /\ z \in Zones \cup {NoZone}
        /\ dirty # {} => z \in Zones /\ Len(Lists[z]) > 0
        /\ NoZone \notin Zones
    <2> HIDE DEF z
    <2> QED
      BY <1>7, <1>8, NamesAre
  <1>10. /\ now = [progress |-> now.progress, clean |-> now.clean, chosen |-> now.chosen]
         /\ now.progress \in Nat /\ now.clean \in Nat
         /\ now.progress = IF over THEN 0 ELSE period.progress
         /\ ~over => now.clean = period.clean
    <2>1. /\ period = [progress |-> period.progress, clean |-> period.clean, chosen |-> period.chosen]
          /\ period.progress \in Nat /\ period.clean \in Nat
      BY DEF MostRwPeriod
    <2>2. CASE over
      <3>1. now = [progress |-> 0, clean |-> 0, chosen |-> period.chosen]
        BY <2>1, <2>2
      <3> QED
        BY <2>2, <3>1
    <2>3. CASE ~over
      BY <2>1, <2>3
    <2> QED
      BY <2>2, <2>3
  <1> HIDE DEF now
  <1>11. ofClean <=> t \in {"Clean", "Any"}
    <2>1. ASSUME t = "Any" PROVE any
      <3>1. valid # Zoned /\ dirty # {}
        BY <1>2, <1>3, <2>1
      <3> HIDE DEF z
      <3>2. Len(Lists[CleanCtrl]) > 0 /\ z \in Zones /\ Len(Lists[z]) > 0
        BY <1>9, <3>1, Populated
      <3>3. links.tail[CleanCtrl] \in Desps /\ links.tail[z] \in Desps
        BY <3>2, TailLeaves, NamesAre
      <3>4. \A d \in Desps : stamp[d] = 0
        BY <1>2 DEF StampInv
      <3> QED
        BY <3>3, <3>4 DEF z
    <2> HIDE DEF any
    <2> QED
      BY <2>1 DEF VictimTypes
  <1> HIDE DEF ofClean, any, z, over
  <1>c. PICK c : c = IF t = "Dirty" THEN z ELSE CleanCtrl
    OBVIOUS
  <1>12. /\ c \in Names /\ Len(Lists[c]) > 0
         /\ t = "Dirty" => c \in Zones /\ c = z
         /\ c = CleanCtrl <=> t # "Dirty"
    <2>1. CASE t = "Dirty"
      BY <1>3, <1>9, <1>c, <2>1, NamesAre
    <2>2. CASE t # "Dirty"
      <3>1. valid # Zoned
        BY <1>2, <1>3, <2>2 DEF VictimTypes
      <3>2. Len(Lists[CleanCtrl]) > 0
        BY <3>1, Populated
      <3> QED
        BY <1>c, <2>2, <3>2, NamesAre
    <2> QED
      BY <2>1, <2>2
  <1>d. PICK k : k = IF t = "Dirty" THEN Grain ELSE UpTo(Lists, c, Grain)
    OBVIOUS
  <1>e. PICK n : n = UpTo(Lists, c, k)
    OBVIOUS
  <1>k. /\ k \in 1 .. Grain
        /\ t # "Dirty" => n = k /\ k = UpTo(Lists, c, Grain)
    <2>1. Len(Lists[c]) \in Nat /\ Grain \in Nat /\ Len(Lists[c]) > 0
      BY <1>2, <1>12, ListedOnes, ZoneStrategyAssumption
    <2>2. UpTo(Lists, c, Grain) \in 1 .. Grain /\ UpTo(Lists, c, Grain) <= Len(Lists[c])
      BY <1>2, <2>1 DEF UpTo
    <2>3. k \in 1 .. Grain
      BY <1>2, <1>d, <2>2
    <2>4. t # "Dirty" => UpTo(Lists, c, k) = k
      BY <1>d, <2>2 DEF UpTo
    <2> QED
      BY <1>d, <1>e, <2>3, <2>4
  <1>f. PICK taken : taken = TakeTails(links, c, k)
    OBVIOUS
  <1>g. PICK batch : batch = ToSet(taken.batch)
    OBVIOUS
  <1>13. Len(taken.batch) = n /\ Leaves(c, n, taken.links, batch)
    BY <1>e, <1>f, <1>g, <1>12, <1>k, TailsLeave
  <1>14. /\ links' = taken.links /\ clearDesp(batch)
         /\ pagecnt_dirty' = IF t = "Dirty" THEN [pagecnt_dirty EXCEPT ![z] = @ - n] ELSE pagecnt_dirty
         /\ pagecnt_clean' = IF t = "Dirty" THEN pagecnt_clean ELSE [pagecnt_clean EXCEPT ![CleanCtrl] = @ - n]
         /\ period'.chosen = z
         /\ period' = [progress |-> period'.progress, clean |-> period'.clean, chosen |-> period'.chosen]
         /\ period'.progress = IF t = "Dirty" THEN now.progress + n ELSE now.progress
         /\ period'.clean = IF t = "Dirty" THEN now.clean ELSE now.clean + n
    <2>3. CASE t = "Dirty"
      <3>1. c = z /\ k = Grain /\ taken = TakeTails(links, z, Grain)
        BY <1>12, <1>d, <1>f, <2>3
      <3>2. EvictDirty_most_rw(now, z)
        BY <1>6, <1>11, <2>3
      <3>3. /\ links' = taken.links /\ clearDesp(batch) /\ pagecnt_clean' = pagecnt_clean
            /\ pagecnt_dirty' = [pagecnt_dirty EXCEPT ![z] = @ - Len(taken.batch)]
            /\ period' = [now EXCEPT !.progress = @ + Len(taken.batch), !.chosen = z]
        BY <1>g, <3>1, <3>2 DEF EvictDirty_most_rw
      <3>4. period' = [progress |-> now.progress + n, clean |-> now.clean, chosen |-> z]
        BY <1>10, <1>13, <3>3
      <3> QED
        BY <1>13, <2>3, <3>3, <3>4
    <2>4. CASE t # "Dirty"
      <3>1. c = CleanCtrl /\ n = k
        BY <1>12, <1>k, <2>4
      <3>2. EvictClean_most_rw(now, z)
        BY <1>6, <1>11, <2>4 DEF VictimTypes
      <3>3. Min({Grain, pagecnt_clean[CleanCtrl]}) = n
        <4>1. pagecnt_clean[CleanCtrl] = Len(Lists[CleanCtrl]) /\ Len(Lists[CleanCtrl]) \in Nat /\ Grain \in Nat
          BY <1>2, CountedOnes, ListedOnes, NamesAre, ZoneStrategyAssumption
        <4>2. Min({Grain, pagecnt_clean[CleanCtrl]}) = IF Grain <= Len(Lists[CleanCtrl]) THEN Grain
                                                       ELSE Len(Lists[CleanCtrl])
          BY <4>1, MinOfTwo
        <4> QED
          BY <1>k, <2>4, <3>1, <4>2 DEF UpTo
      <3>4. TakeTails(links, CleanCtrl, n) = taken
        BY <1>f, <3>1
      <3>5. /\ links' = taken.links /\ clearDesp(batch) /\ pagecnt_dirty' = pagecnt_dirty
            /\ pagecnt_clean' = [pagecnt_clean EXCEPT ![CleanCtrl] = @ - n]
            /\ period' = [now EXCEPT !.clean = @ + n, !.chosen = z]
        BY <1>g, <3>2, <3>3, <3>4 DEF EvictClean_most_rw
      <3>6. period' = [progress |-> now.progress, clean |-> now.clean + n, chosen |-> z]
        BY <1>10, <3>5
      <3> QED
        BY <2>4, <3>5, <3>6
    <2> QED
      BY <2>3, <2>4
  <1>15. n \in Nat /\ SeparateStep(c, n, batch)
    <2>1. n \in 1 .. Grain /\ Leaves(c, n, links', batch)
      BY <1>13, <1>14 DEF Leaves
    <2>2. /\ pagecnt_dirty' = IF c = CleanCtrl THEN pagecnt_dirty ELSE [pagecnt_dirty EXCEPT ![c] = @ - n]
          /\ pagecnt_clean' = IF c = CleanCtrl THEN [pagecnt_clean EXCEPT ![c] = @ - n] ELSE pagecnt_clean
      BY <1>12, <1>14
    <2>3. MayAsk(asked') /\ asked' \in VictimTypes /\ strategy # "PORE_PLUS"
      BY <1>1
    <2>4. /\ zoneheat' = IF c = CleanCtrl \/ strategy # "PORE_PLUS" THEN zoneheat
                         ELSE [zoneheat EXCEPT ![c] = @ - HeatSum(heat, batch)]
          /\ UNCHANGED <<strategy, StampGlobal, alive>>
      BY <1>1, <1>6, <2>3
    <2>5. n \in Nat /\ clearDesp(batch)
      BY <1>14, <2>1, ZoneStrategyAssumption
    <2> QED
      BY <2>1, <2>2, <2>3, <2>4, <2>5 DEF SeparateStep
  <1>16. OutStep(c, n, batch) /\ valid \ valid' = batch
    BY <1>2, <1>12, <1>15, SeparateOut
  <1>19. MostRwPeriod'
    <2>1. now.progress + n \in Nat /\ now.clean + n \in Nat
      BY <1>10, <1>15, ZoneStrategyAssumption
    <2> QED
      BY <1>3, <1>6, <1>9, <1>10, <1>14, <2>1 DEF MostRwPeriod
  <1>20. FromFullest(dirty)
    <2>1. CASE over
      <3>1. dirty = {} => z = NoZone
        BY <1>7, <2>1
      <3>2. dirty # {} => \A y \in Zones : Cardinality(Of(y, dirty)) <= Cardinality(Of(z, dirty))
        BY <1>7, <2>1
      <3> QED
        BY <1>14, <3>1, <3>2 DEF FromFullest
    <2>2. CASE ~over
      <3>1. /\ z = period.chosen
            /\ now.progress = period.progress /\ now.clean = period.clean
        BY <1>8, <1>10, <2>2
      <3>2. Cardinality(valid \ valid') = n
        <4>1. OutResult(c, n, batch)
          BY <1>16, OutBase
        <4> QED
          BY <1>16, <4>1 DEF OutResult, OutSets
      <3>3. /\ PeriodVictims = period.progress + period.clean
            /\ PeriodVictims' = period'.progress + period'.clean
        BY <1>1 DEF PeriodVictims
      <3>4. period.progress \in Nat /\ period.clean \in Nat /\ n \in Nat
        BY <1>10, <1>15, <3>1
      <3>5. PeriodVictims' = PeriodVictims + n
        BY <1>14, <3>1, <3>3, <3>4
      <3>6. ~Begins
        BY <1>14, <3>1, <3>2, <3>5 DEF Begins
      <3> QED
        BY <3>6 DEF FromFullest
    <2> QED
      BY <2>1, <2>2
  <1> QED
    BY <1>1, <1>12, <1>16, <1>19, <1>20 DEF MostRwOut

-----------------------------------------------------------------------------
\* What PORE_PLUS keeps between the calls: unless it is over, a period that is
\* not of clean blocks alone has a zone whose turn it is, and each zone from that
\* one on has dirty blocks left.
PorePlusPeriods ==
  [progress : Nat, open : Seq(Zones), CurEvictZoneSeq : Nat,
   CurEvictModel : {"CLEAN_ONLY", "HYBRID_OpZone", "HYBRID_ALL"}, isWholeZone : BOOLEAN]

HasVictims(p, cnt) ==
  p.CurEvictModel # "CLEAN_ONLY" =>
    /\ p.CurEvictZoneSeq \in 1 .. Len(p.open)
    /\ \A i \in p.CurEvictZoneSeq .. Len(p.open) : cnt[p.open[i]] > 0

PorePlusPeriod ==
  /\ alive /\ period \in PorePlusPeriods /\ IsInjective(period.open)
  /\ period.isWholeZone => period.CurEvictModel # "CLEAN_ONLY"
  /\ period.progress < Cycle_Length \/ period.isWholeZone => HasVictims(period, pagecnt_dirty)

\* The period a call for a victim takes it from.
Takes(p) ==
  /\ p \in PorePlusPeriods /\ IsInjective(p.open)
  /\ p.isWholeZone => p.CurEvictModel # "CLEAN_ONLY"
  /\ HasVictims(p, pagecnt_dirty)
  /\ p.CurEvictModel = "CLEAN_ONLY" => Len(Lists[CleanCtrl]) > 0
  /\ period.isWholeZone => p = period

LEMMA PorePlusOrder ==
  ASSUME strategy = "PORE_PLUS", BaseInv
  PROVE  \E score \in [Zones -> Int] : Sorted(ZoneSortArray_plus, pagecnt_dirty, score)
  <1> DEFINE score == [z \in Zones |-> (pagecnt_dirty[z] * pagecnt_dirty[z] * 1000000)
                                          \div (zoneheat[z] + 1)]
  <1>1. ZoneSortArray_plus = SortedZones(pagecnt_dirty, score)
    BY DEF ZoneSortArray_plus, score_plus
  <1>2. pagecnt_dirty \in [Zones -> Nat] /\ zoneheat \in [Zones -> Nat]
    BY CountedOnes
  <1>3. score \in [Zones -> Int] /\ pagecnt_dirty \in [Zones -> Int]
    <2>1. \A a, b \in Nat : (a * a * 1000000) \div (b + 1) \in Int
      <3> TAKE a, b \in Nat
      <3>1. PICK x : x = a * a * 1000000
        OBVIOUS
      <3>2. x \in Int /\ b + 1 \in Int /\ b + 1 > 0
        BY <3>1
      <3>3. x \div (b + 1) \in Int
        BY <3>2
      <3> QED
        BY <3>1, <3>3
    <2>2. \A z \in Zones : pagecnt_dirty[z] \in Nat /\ zoneheat[z] \in Nat
      BY <1>2
    <2> QED
      BY <1>2, <2>1, <2>2
  <1> HIDE DEF score
  <1>4. Sorted(SortedZones(pagecnt_dirty, score), pagecnt_dirty, score)
    BY <1>3, SortedIs
  <1> QED
    BY <1>1, <1>3, <1>4

\* A new period has what it takes.
LEMMA PorePlusBegins ==
  ASSUME strategy = "PORE_PLUS", BaseInv, valid = Desps, ~period.isWholeZone
  PROVE  Takes(NewPeriod_plus(ZoneSortArray_plus))
  <1>1. PICK order : order = ZoneSortArray_plus
    OBVIOUS
  <1>2. PICK score \in [Zones -> Int] : Sorted(order, pagecnt_dirty, score)
    BY <1>1, PorePlusOrder
  <1>3. pagecnt_dirty \in [Zones -> Nat] /\ pagecnt_dirty \in [Zones -> Int]
    BY CountedOnes
  <1>4. /\ order \in Seq(Zones) /\ IsInjective(order)
        /\ order = << >> <=> \A z \in Zones : ~(pagecnt_dirty[z] > 0)
        /\ \A i \in 1 .. Len(order) : pagecnt_dirty[order[i]] > 0
    <2>1. order = << >> <=> \A z \in Zones : ~(pagecnt_dirty[z] > 0)
      BY <1>2, <1>3, FirstOfSorted
    <2>2. \A i \in 1 .. Len(order) : order[i] \in ToSet(order)
      BY DEF ToSet
    <2> QED
      BY <1>2, <2>1, <2>2 DEF Sorted
  <1>5. PICK covered : covered = OpenZoneSet_plus(order)
    OBVIOUS
  <1>6. covered = Covered(order, pagecnt_dirty, Cycle_Length, plus_Dirty_Threshold)
    BY <1>5 DEF OpenZoneSet_plus, Covered
  <1>7. /\ covered \in Seq(Zones) /\ IsInjective(covered)
        /\ \A i \in 1 .. Len(covered) : pagecnt_dirty[covered[i]] > 0
    <2>1. /\ Cycle_Length \in Nat /\ plus_Dirty_Threshold \in Nat /\ plus_Dirty_Threshold > 0
      BY ZoneStrategyAssumption, PorePlusAssumption
    <2>2. /\ covered \in Seq(Zones) /\ IsInjective(covered)
          /\ \A i \in 1 .. Len(covered) : pagecnt_dirty[covered[i]] >= plus_Dirty_Threshold
      BY <1>3, <1>4, <1>6, <2>1, CoveredIs
    <2>3. \A i \in 1 .. Len(covered) : pagecnt_dirty[covered[i]] \in Nat
      BY <1>3, <2>2
    <2> QED
      BY <2>1, <2>2, <2>3
  <1>8. PICK clean : clean = pagecnt_clean[CleanCtrl]
    OBVIOUS
  <1>9. /\ clean \in Nat /\ clean = Len(Lists[CleanCtrl])
        /\ clean < plus_Clean_LowBound => order # << >>
        /\ plus_Clean_LowBound \in Nat /\ plus_Clean_LowBound > 0 /\ plus_Clean_UpBound \in Nat
    <2>1. clean \in Nat /\ clean = Len(Lists[CleanCtrl])
      BY <1>8, CountedOnes, NamesAre
    <2>2. /\ plus_Clean_LowBound \in Nat /\ plus_Clean_LowBound > 0 /\ plus_Clean_UpBound \in Nat
          /\ plus_Clean_LowBound <= Cardinality(Desps) /\ Cardinality(Desps) \in Nat
      BY PorePlusAssumption, DespsFinite
    <2>3. clean < plus_Clean_LowBound => dirty # {}
      <3>1. Zoned = dirty
        BY DEF Zoned, Separates
      <3>2. clean = Cardinality(valid \ Zoned)
        BY <1>8, NamesAre DEF BaseInv, CountsInv
      <3>3. dirty = {} => clean = Cardinality(Desps)
        BY <3>1, <3>2
      <3> QED
        BY <2>1, <2>2, <3>3
    <2>4. dirty # {} => \E z \in Zones : pagecnt_dirty[z] > 0
      <3>1. \A d \in dirty : zone[d] \in Zones /\ pagecnt_dirty[zone[d]] > 0
        BY Populated DEF BaseInv, FlagsInv
      <3> QED
        BY <3>1
    <2> QED
      BY <1>4, <2>1, <2>2, <2>3, <2>4
  <1>10. PICK p : p = NewPeriod_plus(order)
    OBVIOUS
  <1>11. /\ p.progress = 1 /\ p.CurEvictZoneSeq = 1 /\ p.isWholeZone = FALSE
         /\ p.CurEvictModel = IF clean < plus_Clean_LowBound
                                THEN IF covered = << >> THEN "HYBRID_ALL" ELSE "HYBRID_OpZone"
                              ELSE IF clean > plus_Clean_UpBound \/ covered = << >>
                                THEN "CLEAN_ONLY" ELSE "HYBRID_OpZone"
         /\ p.open = IF p.CurEvictModel = "HYBRID_ALL" THEN order ELSE covered
         /\ p = [progress |-> p.progress, open |-> p.open, CurEvictZoneSeq |-> p.CurEvictZoneSeq,
                 CurEvictModel |-> p.CurEvictModel, isWholeZone |-> p.isWholeZone]
    <2>1. p = Period_plus(order, covered, clean)
      BY <1>5, <1>8, <1>10 DEF NewPeriod_plus
    <2> QED
      BY <2>1 DEF Period_plus
  <1>12. /\ p.open \in Seq(Zones) /\ IsInjective(p.open)
         /\ \A i \in 1 .. Len(p.open) : pagecnt_dirty[p.open[i]] > 0
         /\ p.CurEvictModel \in {"CLEAN_ONLY", "HYBRID_OpZone", "HYBRID_ALL"}
    BY <1>4, <1>7, <1>11
  <1>13. p \in PorePlusPeriods
    <2>1. /\ p.progress \in Nat /\ p.CurEvictZoneSeq \in Nat
          /\ p.CurEvictModel \in {"CLEAN_ONLY", "HYBRID_OpZone", "HYBRID_ALL"}
          /\ p.open \in Seq(Zones)
      BY <1>11, <1>12
    <2>3. p.isWholeZone \in BOOLEAN
      BY <1>11, Zenon
    <2>2. p = [progress |-> p.progress, open |-> p.open, CurEvictZoneSeq |-> p.CurEvictZoneSeq,
               CurEvictModel |-> p.CurEvictModel, isWholeZone |-> p.isWholeZone]
      BY <1>11
    <2> QED
      BY <2>1, <2>2, <2>3 DEF PorePlusPeriods
  <1>14. p.CurEvictModel # "CLEAN_ONLY" => p.open # << >>
    BY <1>9, <1>11
  <1>15. HasVictims(p, pagecnt_dirty)
    <2>1. p.open # << >> => 1 \in 1 .. Len(p.open)
      BY <1>12
    <2> QED
      BY <1>11, <1>12, <1>14, <2>1 DEF HasVictims
  <1>16. p.CurEvictModel = "CLEAN_ONLY" => Len(Lists[CleanCtrl]) > 0
    BY <1>9, <1>11
  <1>17. Takes(p)
    BY <1>11, <1>12, <1>13, <1>15, <1>16 DEF Takes
  <1> QED
    BY <1>1, <1>10, <1>17

LEMMA PorePlusTakes ==
  ASSUME strategy = "PORE_PLUS", BaseInv, PorePlusPeriod, valid = Desps
  PROVE  Takes(PeriodNow_plus)
  <1> DEFINE over == \/ period.progress >= Cycle_Length /\ ~period.isWholeZone
                     \/ period.CurEvictModel = "CLEAN_ONLY" /\ pagecnt_clean[CleanCtrl] = 0
  <1>1. PeriodNow_plus = IF over THEN NewPeriod_plus(ZoneSortArray_plus) ELSE period
    BY DEF PeriodNow_plus
  <1>2. /\ period \in PorePlusPeriods /\ IsInjective(period.open)
        /\ period.isWholeZone => period.CurEvictModel # "CLEAN_ONLY"
        /\ period.progress < Cycle_Length \/ period.isWholeZone => HasVictims(period, pagecnt_dirty)
        /\ period.progress \in Nat /\ Cycle_Length \in Nat /\ period.isWholeZone \in BOOLEAN
    BY ZoneStrategyAssumption DEF PorePlusPeriod, PorePlusPeriods
  <1>3. CASE over
    <2>1. ~period.isWholeZone
      BY <1>2, <1>3
    <2> QED
      BY <1>1, <1>3, <2>1, PorePlusBegins
  <1>4. CASE ~over
    <2>1. HasVictims(period, pagecnt_dirty)
      BY <1>2, <1>4
    <2>2. pagecnt_clean[CleanCtrl] = Len(Lists[CleanCtrl]) /\ pagecnt_clean[CleanCtrl] \in Nat
      BY CountedOnes, NamesAre
    <2>3. period.CurEvictModel = "CLEAN_ONLY" => Len(Lists[CleanCtrl]) > 0
      BY <1>4, <2>2
    <2> QED
      BY <1>1, <1>2, <1>4, <2>1, <2>3 DEF Takes
  <1> QED
    BY <1>3, <1>4

-----------------------------------------------------------------------------
\* What PORE_PLUS does for a victim; within a zone begun it takes a dirty block
\* of that zone.
PorePlusOut ==
  /\ \E c \in Names : \E n : OutStep(c, n, valid \ valid')
  /\ PorePlusPeriod'
  /\ period.isWholeZone => \A d \in valid \ valid' :
       d \in dirty /\ zone[d] = period.open[period.CurEvictZoneSeq]

\* What a period has to be when a victim has left.
Lasts(q, cnt) ==
  /\ q \in PorePlusPeriods /\ IsInjective(q.open)
  /\ q.isWholeZone => q.CurEvictModel # "CLEAN_ONLY"
  /\ q.progress < Cycle_Length \/ q.isWholeZone => HasVictims(q, cnt)

\* A zone is left before it runs out of dirty blocks.
LEMMA PorePlusAfterDirty ==
  ASSUME NEW p, Takes(p), p.CurEvictModel # "CLEAN_ONLY", pagecnt_dirty \in [Zones -> Nat],
         NEW z, z = p.open[p.CurEvictZoneSeq],
         NEW cnt, cnt = [pagecnt_dirty EXCEPT ![z] = @ - 1]
  PROVE  z \in Zones /\ pagecnt_dirty[z] > 0 /\ Lasts(AfterDirty_plus(p, z), cnt)
  <1>1. /\ p \in PorePlusPeriods /\ IsInjective(p.open)
        /\ p.CurEvictZoneSeq \in 1 .. Len(p.open)
        /\ \A i \in p.CurEvictZoneSeq .. Len(p.open) : pagecnt_dirty[p.open[i]] > 0
    BY DEF Takes, HasVictims
  <1>2. /\ p.progress \in Nat /\ p.open \in Seq(Zones) /\ p.CurEvictZoneSeq \in Nat
        /\ p.CurEvictModel \in {"CLEAN_ONLY", "HYBRID_OpZone", "HYBRID_ALL"}
        /\ p = [progress |-> p.progress, open |-> p.open, CurEvictZoneSeq |-> p.CurEvictZoneSeq,
                CurEvictModel |-> p.CurEvictModel, isWholeZone |-> p.isWholeZone]
        /\ Len(p.open) \in Nat /\ Cycle_Length \in Nat
    BY <1>1, ZoneStrategyAssumption DEF PorePlusPeriods
  <1>s. PICK seq : seq = p.CurEvictZoneSeq
    OBVIOUS
  <1>o. PICK open : open = p.open
    OBVIOUS
  <1>3. /\ open \in Seq(Zones) /\ IsInjective(open) /\ seq \in 1 .. Len(open) /\ seq \in Nat
        /\ Len(open) \in Nat
        /\ \A i \in seq .. Len(open) : pagecnt_dirty[open[i]] > 0
        /\ z = open[seq] /\ z \in Zones
    BY <1>1, <1>2, <1>s, <1>o
  <1>4. pagecnt_dirty[z] > 0 /\ pagecnt_dirty[z] \in Nat
    <2>1. seq \in seq .. Len(open)
      BY <1>3
    <2> QED
      BY <1>3, <2>1
  <1>5. \A i \in seq + 1 .. Len(open) : cnt[open[i]] > 0
    <2> TAKE i \in seq + 1 .. Len(open)
    <2>1. i \in 1 .. Len(open) /\ i # seq /\ i \in seq .. Len(open)
      BY <1>3
    <2>2. open[i] # z
      BY <1>3, <2>1 DEF IsInjective
    <2>3. open[i] \in Zones
      BY <1>3, <2>1
    <2> QED
      BY <1>3, <2>1, <2>2, <2>3
  <1>6. cnt[z] = pagecnt_dirty[z] - 1
    BY <1>3
  <1>q. PICK q : q = AfterDirty_plus(p, z)
    OBVIOUS
  <1>7. CASE pagecnt_dirty[z] > 1
    <2>1. q = [progress |-> p.progress + 1, open |-> open, CurEvictZoneSeq |-> seq,
               CurEvictModel |-> p.CurEvictModel, isWholeZone |-> TRUE]
      BY <1>2, <1>7, <1>q, <1>s, <1>o DEF AfterDirty_plus
    <2>2. /\ q.progress = p.progress + 1 /\ q.open = open /\ q.CurEvictZoneSeq = seq
          /\ q.CurEvictModel = p.CurEvictModel
      BY <2>1
    <2>3. q \in PorePlusPeriods
      BY <1>2, <1>3, <2>1 DEF PorePlusPeriods
    <2>4. \A i \in seq .. Len(open) : cnt[open[i]] > 0
      <3> TAKE i \in seq .. Len(open)
      <3>1. CASE i = seq
        BY <1>3, <1>4, <1>6, <1>7, <3>1
      <3>2. CASE i # seq
        <4>1. i \in seq + 1 .. Len(open)
          BY <1>3, <3>2
        <4> QED
          BY <1>5, <4>1
      <3> QED
        BY <3>1, <3>2
    <2>5. HasVictims(q, cnt)
      BY <1>3, <2>2, <2>4 DEF HasVictims
    <2> QED
      BY <1>3, <1>4, <1>q, <2>2, <2>3, <2>5 DEF Lasts
  <1>8. CASE ~(pagecnt_dirty[z] > 1) /\ seq < Len(open)
    <2>1. q = [progress |-> p.progress + 1, open |-> open, CurEvictZoneSeq |-> seq + 1,
               CurEvictModel |-> p.CurEvictModel, isWholeZone |-> FALSE]
      BY <1>2, <1>8, <1>q, <1>s, <1>o DEF AfterDirty_plus
    <2>2. /\ q.progress = p.progress + 1 /\ q.open = open /\ q.CurEvictZoneSeq = seq + 1
          /\ q.CurEvictModel = p.CurEvictModel /\ ~q.isWholeZone
      BY <2>1
    <2>3. q \in PorePlusPeriods
      BY <1>2, <1>3, <2>1 DEF PorePlusPeriods
    <2>5. HasVictims(q, cnt)
      BY <1>3, <1>5, <1>8, <2>2 DEF HasVictims
    <2> QED
      BY <1>3, <1>4, <1>q, <2>2, <2>3, <2>5 DEF Lasts
  <1>9. CASE ~(pagecnt_dirty[z] > 1) /\ ~(seq < Len(open))
    <2>1. q = [progress |-> Cycle_Length + 2, open |-> open, CurEvictZoneSeq |-> seq,
               CurEvictModel |-> p.CurEvictModel, isWholeZone |-> FALSE]
      BY <1>2, <1>9, <1>q, <1>s, <1>o DEF AfterDirty_plus
    <2>2. /\ q.progress = Cycle_Length + 2 /\ q.open = open /\ ~q.isWholeZone
      BY <2>1
    <2>3. q \in PorePlusPeriods
      BY <1>2, <1>3, <2>1 DEF PorePlusPeriods
    <2>4. ~(q.progress < Cycle_Length)
      BY <1>2, <2>2
    <2> QED
      BY <1>3, <1>4, <1>q, <2>2, <2>3, <2>4 DEF Lasts
  <1> QED
    BY <1>7, <1>8, <1>9

LEMMA PorePlusEvicts ==
  ASSUME strategy = "PORE_PLUS", BaseInv, PorePlusPeriod, NEW t \in VictimTypes, LogOut_plus(t)
  PROVE  PorePlusOut
  <1>1. MayAsk(t) /\ asked' = t /\ UNCHANGED <<strategy, StampGlobal>>
    BY DEF LogOut_plus
  <1>2. /\ FlagsInv /\ Separates /\ Zoned = dirty /\ 1 \in 1 .. Grain
    BY ZoneStrategyAssumption DEF BaseInv, Zoned, Separates
  <1>3. valid = Desps /\ alive
    BY <1>1, <1>2, AskedFor
  <1>p. PICK p : p = PeriodNow_plus
    OBVIOUS
  <1>4. Takes(p)
    BY <1>3, <1>p, PorePlusTakes
  <1>5. /\ p \in PorePlusPeriods /\ IsInjective(p.open) /\ p.progress \in Nat
        /\ p.isWholeZone => p.CurEvictModel # "CLEAN_ONLY"
        /\ HasVictims(p, pagecnt_dirty)
        /\ p.CurEvictModel = "CLEAN_ONLY" => Len(Lists[CleanCtrl]) > 0
        /\ period.isWholeZone => p = period
    BY <1>4 DEF Takes, PorePlusPeriods
  <1>z. PICK z : z = p.open[p.CurEvictZoneSeq]
    OBVIOUS
  <1>6. IF p.CurEvictModel = "CLEAN_ONLY" THEN EvictClean_plus(p) /\ UNCHANGED alive
        ELSE EvictHybrid_plus(p, z)
    BY <1>p, <1>z DEF LogOut_plus
  <1>7. /\ pagecnt_dirty \in [Zones -> Nat] /\ pagecnt_clean[CleanCtrl] = Len(Lists[CleanCtrl])
        /\ \A y \in Zones : pagecnt_dirty[y] = Len(Lists[y])
        /\ \A c \in Names : links.tail[c] = Nil <=> Len(Lists[c]) = 0
    BY <1>2, CountedOnes
  <1>8. p.CurEvictModel # "CLEAN_ONLY" => /\ z \in Zones /\ Len(Lists[z]) > 0 /\ links.tail[z] # Nil
                                          /\ ~p.isWholeZone \/ p.isWholeZone
    <2>1. ASSUME p.CurEvictModel # "CLEAN_ONLY"
          PROVE  z \in Zones /\ pagecnt_dirty[z] > 0
      BY <1>4, <1>7, <1>z, <2>1, PorePlusAfterDirty
    <2> QED
      BY <1>7, <2>1, NamesAre
  <1>c. PICK clean : clean = (p.CurEvictModel = "CLEAN_ONLY" \/ PrefersClean_plus(p, z))
    OBVIOUS
  <1>9. /\ IF clean THEN EvictClean_plus(p) ELSE EvictDirty_plus(p, z)
        /\ UNCHANGED alive
    BY <1>6, <1>8, <1>c DEF EvictHybrid_plus
  <1>10. clean => ~p.isWholeZone /\ Len(Lists[CleanCtrl]) > 0
    BY <1>5, <1>7, <1>c DEF PrefersClean_plus
  <1>11. CASE clean
    <2>d. PICK d : d = links.tail[CleanCtrl]
      OBVIOUS
    <2>1. Leaves(CleanCtrl, 1, Without(links, d, CleanCtrl), {d})
      BY <1>10, <1>11, <2>d, TailLeaves, NamesAre
    <2>2. /\ links' = Without(links, d, CleanCtrl) /\ clearDesp({d})
          /\ pagecnt_clean' = [pagecnt_clean EXCEPT ![CleanCtrl] = @ - 1]
          /\ pagecnt_dirty' = pagecnt_dirty /\ zoneheat' = zoneheat
          /\ period' = [p EXCEPT !.progress = @ + 1]
      BY <1>9, <1>11, <2>d DEF EvictClean_plus, unloadfromCleanArray_plus
    <2>3. SeparateStep(CleanCtrl, 1, {d})
      BY <1>1, <1>9, <2>1, <2>2 DEF SeparateStep
    <2>4. OutStep(CleanCtrl, 1, {d}) /\ valid \ valid' = {d}
      BY <1>2, <2>3, SeparateOut, NamesAre
    <2>5. /\ period'.progress = p.progress + 1 /\ period'.open = p.open
          /\ period'.CurEvictZoneSeq = p.CurEvictZoneSeq /\ period'.CurEvictModel = p.CurEvictModel
          /\ period'.isWholeZone = p.isWholeZone
          /\ period' \in PorePlusPeriods
      BY <1>5, <2>2 DEF PorePlusPeriods
    <2>6. HasVictims(period, pagecnt_dirty)'
      BY <1>5, <2>2, <2>5 DEF HasVictims
    <2>7. PorePlusPeriod'
      BY <1>3, <1>5, <1>9, <2>5, <2>6 DEF PorePlusPeriod
    <2>8. ~period.isWholeZone
      BY <1>5, <1>10, <1>11
    <2> QED
      BY <2>4, <2>7, <2>8, NamesAre DEF PorePlusOut
  <1>12. CASE ~clean
    <2>d. PICK d : d = links.tail[z]
      OBVIOUS
    <2>0. p.CurEvictModel # "CLEAN_ONLY"
      BY <1>c, <1>12
    <2>1. Leaves(z, 1, Without(links, d, z), {d}) /\ d \in Desps
      BY <1>8, <2>0, <2>d, TailLeaves, NamesAre
    <2>2. /\ links' = Without(links, d, z) /\ clearDesp({d})
          /\ pagecnt_dirty' = [pagecnt_dirty EXCEPT ![z] = @ - 1]
          /\ zoneheat' = [zoneheat EXCEPT ![z] = @ - heat[d]]
          /\ period' = AfterDirty_plus(p, z) /\ pagecnt_clean' = pagecnt_clean
      BY <1>9, <1>12, <2>d DEF EvictDirty_plus, unloadfromZone_plus
    <2>3. HeatSum(heat, {d}) = heat[d]
      BY <2>1, HeatOne DEF BaseInv, HeatInv
    <2>4. SeparateStep(z, 1, {d})
      <3>1. z # CleanCtrl
        BY <1>8, <2>0, NamesAre
      <3> QED
        BY <1>1, <1>9, <2>1, <2>2, <2>3, <3>1 DEF SeparateStep
    <2>5. z \in Zones /\ z \in Names
      BY <1>8, <2>0, NamesAre
    <2>6. OutStep(z, 1, {d}) /\ valid \ valid' = {d} /\ {d} \subseteq Of(z, dirty)
      BY <1>2, <2>4, <2>5, SeparateOut
    <2>7. Lasts(period, pagecnt_dirty)'
      BY <1>4, <1>7, <1>z, <2>0, <2>2, PorePlusAfterDirty
    <2>8. PorePlusPeriod'
      BY <1>3, <1>9, <2>7 DEF Lasts, PorePlusPeriod
    <2>9. period.isWholeZone => \A e \in valid \ valid' :
            e \in dirty /\ zone[e] = period.open[period.CurEvictZoneSeq]
      BY <1>5, <1>z, <2>6 DEF Of
    <2> QED
      BY <2>5, <2>6, <2>8, <2>9 DEF PorePlusOut
  <1> QED
    BY <1>11, <1>12

\* Uses only add dirty blocks to the zones of a period.
LEMMA PorePlusKeeps ==
  ASSUME PorePlusPeriod, pagecnt_dirty \in [Zones -> Nat], UNCHANGED <<period, alive>>,
         pagecnt_dirty' \in [Zones -> Nat], \A z \in Zones : pagecnt_dirty'[z] >= pagecnt_dirty[z]
  PROVE  PorePlusPeriod'
  <1>1. period.open \in Seq(Zones)
    BY DEF PorePlusPeriod, PorePlusPeriods
  <1>2. HasVictims(period, pagecnt_dirty) => HasVictims(period, pagecnt_dirty)'
    <2>1. \A i \in 1 .. Len(period.open) : pagecnt_dirty[period.open[i]] > 0 => pagecnt_dirty'[period.open[i]] > 0
      BY <1>1
    <2> QED
      BY <1>1, <2>1 DEF HasVictims
  <1> QED
    BY <1>2 DEF PorePlusPeriod

-----------------------------------------------------------------------------
\* What PORE_PLUS_V2 keeps between the calls.  It may have no zone to take from.
PorePlusV2Periods ==
  [open : Seq(Zones), Progress_Clean : Nat, Progress_Dirty : Nat,
   Evicted_Blk_Cnt : Nat, plus_Dirty_Threshold : Thresholds]

PorePlusV2Period ==
  /\ alive \/ FindsNoZone_plus_v2
  /\ period \in PorePlusV2Periods

\* Either it looks for a zone for ever, or a block leaves.
PorePlusV2Out ==
  /\ Astray \/ \E c \in Names : \E n : OutStep(c, n, valid \ valid')
  /\ PorePlusV2Period'
  /\ EvictsOldestOpen_plus_v2

LEMMA PorePlusV2Order ==
  ASSUME strategy = "PORE_PLUS_V2", BaseInv
  PROVE  \E score \in [Zones -> Int] : Sorted(ZoneSortArray_plus_v2, pagecnt_dirty, score)
  <1> DEFINE score == [z \in Zones |-> (pagecnt_dirty[z] * pagecnt_dirty[z] * 1000000)
                                          \div (zoneheat[z] + 1)]
  <1>1. ZoneSortArray_plus_v2 = SortedZones(pagecnt_dirty, score)
    BY DEF ZoneSortArray_plus_v2, score_plus_v2
  <1>2. pagecnt_dirty \in [Zones -> Nat] /\ zoneheat \in [Zones -> Nat]
    BY CountedOnes
  <1>3. score \in [Zones -> Int] /\ pagecnt_dirty \in [Zones -> Int]
    <2>1. \A a, b \in Nat : (a * a * 1000000) \div (b + 1) \in Int
      <3> TAKE a, b \in Nat
      <3>1. PICK x : x = a * a * 1000000
        OBVIOUS
      <3>2. x \in Int /\ b + 1 \in Int /\ b + 1 > 0
        BY <3>1
      <3>3. x \div (b + 1) \in Int
        BY <3>2
      <3> QED
        BY <3>1, <3>3
    <2>2. \A z \in Zones : pagecnt_dirty[z] \in Nat /\ zoneheat[z] \in Nat
      BY <1>2
    <2> QED
      BY <1>2, <2>1, <2>2
  <1> HIDE DEF score
  <1>4. Sorted(SortedZones(pagecnt_dirty, score), pagecnt_dirty, score)
    BY <1>3, SortedIs
  <1> QED
    BY <1>1, <1>3, <1>4

\* The open zones of a new period have dirty blocks, and there is one if there
\* are dirty blocks.
LEMMA PorePlusV2Begins ==
  ASSUME strategy = "PORE_PLUS_V2", BaseInv, period \in PorePlusV2Periods
  PROVE  LET q == NewPeriod_plus_v2(ZoneSortArray_plus_v2)
         IN  /\ q \in PorePlusV2Periods
             /\ \A i \in 1 .. Len(q.open) : pagecnt_dirty[q.open[i]] > 0
             /\ dirty # {} => q.open # << >>
  <1>1. PICK order : order = ZoneSortArray_plus_v2
    OBVIOUS
  <1>2. PICK score \in [Zones -> Int] : Sorted(order, pagecnt_dirty, score)
    BY <1>1, PorePlusV2Order
  <1>3. pagecnt_dirty \in [Zones -> Nat] /\ pagecnt_dirty \in [Zones -> Int]
    BY CountedOnes
  <1>4. /\ order \in Seq(Zones) /\ IsInjective(order)
        /\ order = << >> <=> \A z \in Zones : ~(pagecnt_dirty[z] > 0)
        /\ order # << >> => 1 \in 1 .. Len(order) /\ pagecnt_dirty[order[1]] > 0
    <2>1. /\ order = << >> <=> \A z \in Zones : ~(pagecnt_dirty[z] > 0)
          /\ order # << >> => /\ pagecnt_dirty[Head(order)] > 0 /\ 1 \in 1 .. Len(order)
                              /\ Head(order) = order[1]
      BY <1>2, <1>3, FirstOfSorted
    <2> QED
      BY <1>2, <2>1 DEF Sorted
  <1>5. PICK covered : covered = OpenZoneSet_plus_v2(order)
    OBVIOUS
  <1>6. /\ period.open \in Seq(Zones) /\ period.Evicted_Blk_Cnt \in Nat
        /\ period.plus_Dirty_Threshold \in Thresholds /\ period.plus_Dirty_Threshold \in Nat
        /\ period.plus_Dirty_Threshold > 0 /\ Cycle_Length \in Nat
        /\ period = [open |-> period.open, Progress_Clean |-> period.Progress_Clean,
                     Progress_Dirty |-> period.Progress_Dirty, Evicted_Blk_Cnt |-> period.Evicted_Blk_Cnt,
                     plus_Dirty_Threshold |-> period.plus_Dirty_Threshold]
    <2>1. /\ period.open \in Seq(Zones) /\ period.Evicted_Blk_Cnt \in Nat
          /\ period.plus_Dirty_Threshold \in Thresholds
          /\ period = [open |-> period.open, Progress_Clean |-> period.Progress_Clean,
                       Progress_Dirty |-> period.Progress_Dirty, Evicted_Blk_Cnt |-> period.Evicted_Blk_Cnt,
                       plus_Dirty_Threshold |-> period.plus_Dirty_Threshold]
      BY DEF PorePlusV2Periods
    <2>2. Thresholds \subseteq 1 .. ZoneBlks /\ ZoneBlks \in Nat /\ Cycle_Length \in Nat
      BY ZoneStrategyAssumption, PorePlusAssumption
    <2>3. period.plus_Dirty_Threshold \in Nat /\ period.plus_Dirty_Threshold > 0
      <3>1. period.plus_Dirty_Threshold \in 1 .. ZoneBlks
        BY <2>1, <2>2
      <3> QED
        BY <2>2, <3>1
    <2> QED
      BY <2>1, <2>2, <2>3
  <1>t. PICK thr : thr = period.plus_Dirty_Threshold
    OBVIOUS
  <1>7. covered = Covered(order, pagecnt_dirty, Cycle_Length, thr)
    BY <1>5, <1>t, ZenonT(30) DEF OpenZoneSet_plus_v2, Covered
  <1>8. /\ covered \in Seq(Zones)
        /\ \A i \in 1 .. Len(covered) : pagecnt_dirty[covered[i]] > 0
    <2>1. thr \in Nat /\ thr > 0
      BY <1>6, <1>t
    <2>2. /\ covered \in Seq(Zones)
          /\ \A i \in 1 .. Len(covered) : pagecnt_dirty[covered[i]] >= thr
      BY <1>3, <1>4, <1>6, <1>7, <2>1, CoveredIs
    <2>3. \A i \in 1 .. Len(covered) : pagecnt_dirty[covered[i]] \in Nat
      BY <1>3, <2>2
    <2> QED
      BY <2>1, <2>2, <2>3
  <1>f. PICK front : front = SubSeq(order, 1, Min({1, Len(order)}))
    OBVIOUS
  <1>9. /\ front \in Seq(Zones)
        /\ \A i \in 1 .. Len(front) : pagecnt_dirty[front[i]] > 0
        /\ order # << >> => front # << >>
    <2>2. Len(order) \in Nat /\ 1 \in Nat
      BY <1>4
    <2>3. Min({1, Len(order)}) = IF 1 <= Len(order) THEN 1 ELSE Len(order)
      BY <2>2, MinOfTwo
    <2>4. CASE order = << >>
      <3>1. front = SubSeq(order, 1, 0)
        BY <1>f, <2>3, <2>4
      <3>2. front \in Seq(Zones) /\ Len(front) = 0
        BY <1>4, <3>1
      <3> QED
        BY <2>4, <3>2
    <2>5. CASE order # << >>
      <3>0. 1 \in 1 .. Len(order) /\ 1 <= Len(order)
        BY <1>4, <2>2, <2>5
      <3>1. front = SubSeq(order, 1, 1) /\ 1 \in 1 .. Len(order)
        <4>1. Min({1, Len(order)}) = 1
          BY <2>3, <3>0
        <4>2. Min({1, Len(order)}) = 1
          BY <4>1
        <4> QED
          BY <1>f, <3>0, <4>2
      <3>2. front \in Seq(Zones) /\ Len(front) = 1 /\ front[1] = order[1]
        BY <1>4, <3>1
      <3>3. pagecnt_dirty[order[1]] > 0
        BY <1>4, <2>5
      <3>4. \A i \in 1 .. Len(front) : i = 1
        BY <3>2
      <3>5. \A i \in 1 .. Len(front) : pagecnt_dirty[front[i]] > 0
        BY <3>2, <3>3, <3>4
      <3>6. front # << >>
        BY <3>2, SMTT(30)
      <3> QED
        BY <3>2, <3>5, <3>6
    <2> QED
      BY <2>4, <2>5
  <1>10. dirty # {} => order # << >>
    <2>1. \A d \in dirty : zone[d] \in Zones /\ pagecnt_dirty[zone[d]] > 0
      BY Populated DEF BaseInv, FlagsInv
    <2> QED
      BY <1>4, <2>1
  <1>o. PICK open : open = IF covered # << >> THEN covered ELSE front
    OBVIOUS
  <1>q. PICK q : q = NewPeriod_plus_v2(order)
    OBVIOUS
  <1>11. q = [open |-> open, Progress_Clean |-> 0, Progress_Dirty |-> 0,
              Evicted_Blk_Cnt |-> period.Evicted_Blk_Cnt,
              plus_Dirty_Threshold |-> period.plus_Dirty_Threshold]
    <2>1. q = [period EXCEPT !.Progress_Clean = 0, !.Progress_Dirty = 0, !.open = open]
      BY <1>5, <1>f, <1>o, <1>q DEF NewPeriod_plus_v2
    <2> QED
      BY <1>6, <2>1
  <1>12. /\ open \in Seq(Zones)
         /\ \A i \in 1 .. Len(open) : pagecnt_dirty[open[i]] > 0
         /\ dirty # {} => open # << >>
    BY <1>8, <1>9, <1>10, <1>o
  <1>13. q \in PorePlusV2Periods
    BY <1>6, <1>11, <1>12 DEF PorePlusV2Periods
  <1>14. q.open = open
    BY <1>11
  <1> QED
    BY <1>1, <1>q, <1>12, <1>13, <1>14

\* How long ago an open zone was used, as get_FrozenOpZone_Seq() has it.
Older(z) == IF pagecnt_dirty[z] = 0 THEN StampGlobal ELSE stamp[links.tail[z]]

LEMMA OlderIs ==
  ASSUME strategy = "PORE_PLUS_V2", BaseInv, NEW z \in Zones
  PROVE  /\ Older(z) \in 0 .. StampGlobal /\ StampGlobal \in Nat
         /\ Older(z) < StampGlobal => pagecnt_dirty[z] > 0
         /\ pagecnt_dirty[z] > 0 => /\ Len(Lists[z]) > 0 /\ links.tail[z] \in Of(z, dirty)
                                    /\ Older(z) = stamp[links.tail[z]]
                                    /\ \A e \in Of(z, dirty) \ {links.tail[z]} : Older(z) < stamp[e]
         /\ \A e \in Of(z, dirty) : Older(z) <= stamp[e] /\ stamp[e] \in 0 .. StampGlobal
  <1>1. Stamps /\ Separates /\ Zoned = dirty /\ z \in Names
    BY NamesAre DEF Stamps, Separates, Zoned
  <1>2. pagecnt_dirty[z] = Len(Lists[z]) /\ pagecnt_dirty[z] \in Nat
    BY <1>1, CountedOnes
  <1>3. Of(z, dirty) = {} <=> ~(pagecnt_dirty[z] > 0)
    BY Populated
  <1>4. StampGlobal \in Nat
    BY ZoneStrategyAssumption DEF BaseInv, StampInv
  <1>5. CASE pagecnt_dirty[z] = 0
    BY <1>3, <1>4, <1>5 DEF Older
  <1>6. CASE pagecnt_dirty[z] > 0
    <2>d. PICK d : d = links.tail[z]
      OBVIOUS
    <2>1. /\ d \in Of(z, dirty)
          /\ stamp[d] \in 0 .. StampGlobal
          /\ \A e \in Of(z, dirty) : stamp[e] \in 0 .. StampGlobal
          /\ \A e \in Of(z, dirty) \ {d} : stamp[d] < stamp[e]
      BY <1>1, <1>2, <1>6, <2>d, OldestLast
    <2>2. Older(z) = stamp[d]
      BY <1>6, <2>d DEF Older
    <2>3. \A e \in Of(z, dirty) : stamp[d] <= stamp[e]
      BY <2>1
    <2> QED
      BY <1>2, <1>4, <1>6, <2>d, <2>1, <2>2, <2>3
  <1> QED
    BY <1>2, <1>5, <1>6

\* The search finds an open zone used before the last call, if there is one.
LEMMA FrozenIs ==
  ASSUME strategy = "PORE_PLUS_V2", BaseInv, NEW p, p.open \in Seq(Zones)
  PROVE  LET found == get_FrozenOpZone_Seq_plus_v2(p)
         IN  /\ \A s \in found : /\ s \in 1 .. Len(p.open) /\ Older(p.open[s]) < StampGlobal
                                 /\ \A i \in 1 .. Len(p.open) : Older(p.open[s]) <= Older(p.open[i])
             /\ found = {} => \A i \in 1 .. Len(p.open) : Older(p.open[i]) = StampGlobal
  <1> DEFINE open == p.open
             old == {Older(open[i]) : i \in 1 .. Len(open)}
  <1>f. PICK found : found = get_FrozenOpZone_Seq_plus_v2(p)
    OBVIOUS
  <1>1. found = {s \in 1 .. Len(open) : /\ Older(open[s]) < StampGlobal
                                        /\ \A i \in 1 .. Len(open) : Older(open[s]) <= Older(open[i])}
    <2>1. DOMAIN open = 1 .. Len(open)
      OBVIOUS
    <2> QED
      BY <1>f, <2>1 DEF get_FrozenOpZone_Seq_plus_v2, Older
  <1>2. \A i \in 1 .. Len(open) : Older(open[i]) \in 0 .. StampGlobal /\ StampGlobal \in Nat
    BY OlderIs
  <1> HIDE DEF open
  <1>3. ASSUME NEW i \in 1 .. Len(open), Older(open[i]) # StampGlobal
        PROVE  found # {}
    <2>1. old \subseteq Nat /\ old # {}
      BY <1>2, <1>3
    <2>2. PICK m \in old : \A a \in old : m <= a
      BY <2>1, LeastNat
    <2>3. PICK s \in 1 .. Len(open) : m = Older(open[s])
      BY <2>2
    <2>4. \A j \in 1 .. Len(open) : Older(open[s]) <= Older(open[j])
      BY <2>2, <2>3
    <2>5. Older(open[s]) < StampGlobal
      BY <1>2, <1>3, <2>4
    <2> QED
      BY <1>1, <2>4, <2>5
  <1> QED
    BY <1>f, <1>1, <1>3 DEF open

LEMMA PorePlusV2Evicts ==
  ASSUME strategy = "PORE_PLUS_V2", BaseInv, PorePlusV2Period, NEW t \in VictimTypes,
         LogOut_plus_v2(t)
  PROVE  PorePlusV2Out
  <1>1. MayAsk(t) /\ asked' = t /\ UNCHANGED <<strategy, StampGlobal>>
    BY DEF LogOut_plus_v2
  <1>2. /\ FlagsInv /\ Separates /\ Stamps /\ Zoned = dirty /\ 1 \in 1 .. Grain /\ valid \subseteq Desps
        /\ dirty \subseteq valid
    BY ZoneStrategyAssumption DEF BaseInv, Zoned, Separates, Stamps, FlagsInv
  <1>3. valid = Desps /\ alive /\ period \in PorePlusV2Periods
    BY <1>1, <1>2, AskedFor DEF PorePlusV2Period
  <1>n. PICK new : new = NewPeriod_plus_v2(ZoneSortArray_plus_v2)
    OBVIOUS
  <1>4. /\ new \in PorePlusV2Periods
        /\ \A i \in 1 .. Len(new.open) : pagecnt_dirty[new.open[i]] > 0
        /\ dirty # {} => new.open # << >>
    BY <1>3, <1>n, PorePlusV2Begins
  <1>p. PICK p : p = IF PeriodOver_plus_v2 THEN new ELSE period
    OBVIOUS
  <1>q. PICK q : q = IF get_FrozenOpZone_Seq_plus_v2(p) = {} THEN new ELSE p
    OBVIOUS
  <1>f. PICK found : found = get_FrozenOpZone_Seq_plus_v2(q)
    OBVIOUS
  <1>5. (found = {} /\ Stuck_plus_v2) \/ \E s \in found : Evict_plus_v2(q, q.open[s])
    BY <1>n, <1>p, <1>q, <1>f DEF LogOut_plus_v2
  <1>6. q \in PorePlusV2Periods /\ q.open \in Seq(Zones)
    BY <1>3, <1>4, <1>p, <1>q DEF PorePlusV2Periods
  <1>7. /\ \A s \in found : /\ s \in 1 .. Len(q.open) /\ Older(q.open[s]) < StampGlobal
                            /\ \A i \in 1 .. Len(q.open) : Older(q.open[s]) <= Older(q.open[i])
        /\ found = {} => \A i \in 1 .. Len(q.open) : Older(q.open[i]) = StampGlobal
    BY <1>6, <1>f, FrozenIs
  <1>8. ASSUME found = {}, Stuck_plus_v2 PROVE PorePlusV2Out
    <2>1. alive' = FALSE /\ UNCHANGED <<links, counts, zone, flag, stamp, heat, zoneheat, period, valid, dirty>>
      BY <1>8 DEF Stuck_plus_v2, counts
    <2>2. Astray
      BY <1>1, <2>1 DEF Astray, counts, desps
    <2>3. FindsNoZone_plus_v2
      <3>1. q = new
        BY <1>8, <1>q, <1>f
      <3>2. ASSUME dirty # {}
            PROVE  \E d \in dirty : stamp[d] = StampGlobal /\ Of(zone[d], dirty) = {d}
        <4>z. PICK z : z = new.open[1]
          OBVIOUS
        <4>1. new.open \in Seq(Zones) /\ Len(new.open) \in Nat /\ new.open # << >>
          BY <1>4, <1>6, <3>1, <3>2
        <4>2. 1 \in 1 .. Len(new.open)
          BY <4>1
        <4>3. z \in Zones /\ pagecnt_dirty[z] > 0 /\ Older(z) = StampGlobal
          BY <1>4, <1>7, <1>8, <3>1, <4>1, <4>2, <4>z
        <4>d. PICK d : d = links.tail[z]
          OBVIOUS
        <4>4. /\ d \in Of(z, dirty) /\ stamp[d] = StampGlobal /\ StampGlobal \in Nat
              /\ \A e \in Of(z, dirty) \ {d} : StampGlobal < stamp[e]
              /\ \A e \in Of(z, dirty) : stamp[e] \in 0 .. StampGlobal
          BY <4>3, <4>d, OlderIs
        <4>5. Of(z, dirty) = {d}
          BY <4>4
        <4>6. d \in dirty /\ zone[d] = z
          BY <4>4 DEF Of
        <4> QED
          BY <4>4, <4>5, <4>6
      <3> QED
        BY <3>2 DEF FindsNoZone_plus_v2, Of
    <2>4. FindsNoZone_plus_v2'
      BY <1>1, <2>1, <2>3 DEF FindsNoZone_plus_v2, Of
    <2>5. PorePlusV2Period'
      BY <1>3, <2>1, <2>4 DEF PorePlusV2Period
    <2>6. EvictsOldestOpen_plus_v2
      BY <1>2, <2>1 DEF EvictsOldestOpen_plus_v2
    <2> QED
      BY <2>2, <2>5, <2>6 DEF PorePlusV2Out
  <1>9. ASSUME NEW s \in found, Evict_plus_v2(q, q.open[s]) PROVE PorePlusV2Out
    <2>z. PICK z : z = q.open[s]
      OBVIOUS
    <2>1. z \in Zones /\ z \in Names /\ Older(z) < StampGlobal
      BY <1>6, <1>7, <1>9, <2>z, NamesAre
    <2>2. /\ Older(z) \in 0 .. StampGlobal /\ StampGlobal \in Nat
          /\ Len(Lists[z]) > 0 /\ links.tail[z] \in Of(z, dirty) /\ Older(z) = stamp[links.tail[z]]
      BY <2>1, OlderIs
    <2>3. /\ UNCHANGED alive
          /\ \/ pagecnt_clean[CleanCtrl] # 0 /\ EvictClean_plus_v2(q)
             \/ EvictDirty_plus_v2(q, z)
      <3>1. "Clean" \in Eligible_plus_v2(z) => pagecnt_clean[CleanCtrl] # 0
        BY DEF Eligible_plus_v2
      <3> QED
        BY <1>9, <2>z, <3>1 DEF Evict_plus_v2
    <2>c. PICK k : k = Counted_plus_v2(q)
      OBVIOUS
    <2>4. /\ k \in PorePlusV2Periods /\ k.open = q.open
      <3>m. PICK m : m = Min({q.Evicted_Blk_Cnt + 1, Cardinality(Desps)})
        OBVIOUS
      <3>1. m \in Nat
        <4>1. Cardinality(Desps) \in Nat
          BY DespsFinite
        <4>2. q.Evicted_Blk_Cnt + 1 \in Nat
          BY <1>6 DEF PorePlusV2Periods
        <4> QED
          BY <3>m, <4>1, <4>2, MinOfTwo
      <3>2. k = [q EXCEPT !.Evicted_Blk_Cnt = m]
        BY <2>c, <3>m DEF Counted_plus_v2
      <3> QED
        BY <1>6, <3>1, <3>2 DEF PorePlusV2Periods
    <2>5. ASSUME pagecnt_clean[CleanCtrl] # 0, EvictClean_plus_v2(q) PROVE PorePlusV2Out
      <3>d. PICK d : d = links.tail[CleanCtrl]
        OBVIOUS
      <3>1. Len(Lists[CleanCtrl]) > 0
        <4>1. pagecnt_clean[CleanCtrl] = Len(Lists[CleanCtrl]) /\ Lists[CleanCtrl] \in Seq(Desps)
          BY <1>2, CountedOnes, ListedOnes, NamesAre DEF BaseInv
        <4> QED
          BY <2>5, <4>1
      <3>2. Leaves(CleanCtrl, 1, Without(links, d, CleanCtrl), {d})
        BY <3>1, <3>d, TailLeaves, NamesAre
      <3>m. PICK m : m = Min({k.Progress_Clean + 1, Cycle_Length})
        OBVIOUS
      <3>3. /\ links' = Without(links, d, CleanCtrl) /\ clearDesp({d})
            /\ pagecnt_clean' = [pagecnt_clean EXCEPT ![CleanCtrl] = @ - 1]
            /\ pagecnt_dirty' = pagecnt_dirty /\ zoneheat' = zoneheat
            /\ period' = [k EXCEPT !.Progress_Clean = m]
        BY <2>5, <2>c, <3>d, <3>m DEF EvictClean_plus_v2, unloadfromCleanArray_plus_v2
      <3>4. SeparateStep(CleanCtrl, 1, {d})
        BY <1>1, <2>3, <3>2, <3>3 DEF SeparateStep
      <3>5. OutStep(CleanCtrl, 1, {d}) /\ valid \ valid' = {d} /\ {d} \subseteq valid \ dirty
        BY <1>2, <3>4, SeparateOut, NamesAre
      <3>6. m \in Nat
        <4>1. k.Progress_Clean + 1 \in Nat /\ Cycle_Length \in Nat
          BY <2>4, ZoneStrategyAssumption DEF PorePlusV2Periods
        <4> QED
          BY <3>m, <4>1, MinOfTwo
      <3>7. period' \in PorePlusV2Periods
        BY <2>4, <3>3, <3>6 DEF PorePlusV2Periods
      <3>8. dirty \ valid' = {}
        BY <1>2, <3>5
      <3> QED
        BY <1>3, <2>3, <3>5, <3>7, <3>8, NamesAre
        DEF PorePlusV2Out, PorePlusV2Period, EvictsOldestOpen_plus_v2
    <2>6. ASSUME EvictDirty_plus_v2(q, z) PROVE PorePlusV2Out
      <3>d. PICK d : d = links.tail[z]
        OBVIOUS
      <3>2. Leaves(z, 1, Without(links, d, z), {d})
        BY <2>1, <2>2, <3>d, TailLeaves
      <3>3. /\ links' = Without(links, d, z) /\ clearDesp({d})
            /\ pagecnt_dirty' = [pagecnt_dirty EXCEPT ![z] = @ - 1]
            /\ pagecnt_clean' = pagecnt_clean /\ zoneheat' = zoneheat
            /\ period' = [k EXCEPT !.Progress_Dirty = @ + 1]
        BY <2>6, <2>c, <3>d DEF EvictDirty_plus_v2, unloadfromZone_plus_v2
      <3>4. SeparateStep(z, 1, {d})
        <4>1. z # CleanCtrl
          BY <2>1, NamesAre
        <4> QED
          BY <1>1, <2>3, <3>2, <3>3, <4>1 DEF SeparateStep
      <3>5. OutStep(z, 1, {d}) /\ valid \ valid' = {d}
        BY <1>2, <2>1, <3>4, SeparateOut
      <3>7. period' \in PorePlusV2Periods /\ period'.open = q.open
        <4>1. k.Progress_Dirty + 1 \in Nat
          BY <2>4 DEF PorePlusV2Periods
        <4> QED
          BY <2>4, <3>3, <4>1 DEF PorePlusV2Periods
      <3>8. ASSUME NEW i \in DOMAIN period'.open, NEW e \in Of(period'.open[i], dirty)
            PROVE  stamp[d] <= stamp[e]
        <4>y. PICK y : y = q.open[i]
          OBVIOUS
        <4>1. i \in 1 .. Len(q.open) /\ y \in Zones
          BY <1>6, <3>7, <3>8, <4>y
        <4>2. Older(z) <= Older(y)
          BY <1>7, <1>9, <2>z, <4>1, <4>y
        <4>3. Older(y) <= stamp[e] /\ Older(y) \in 0 .. StampGlobal /\ stamp[e] \in 0 .. StampGlobal
          BY <3>7, <3>8, <4>1, <4>y, OlderIs
        <4> QED
          BY <2>2, <3>d, <4>2, <4>3
      <3>9. \A e \in dirty \ valid' : e = d
        BY <1>2, <3>5
      <3>10. EvictsOldestOpen_plus_v2
        BY <3>8, <3>9 DEF EvictsOldestOpen_plus_v2, Of
      <3> QED
        BY <1>3, <2>1, <2>3, <3>5, <3>7, <3>10 DEF PorePlusV2Out, PorePlusV2Period
    <2> QED
      BY <2>3, <2>5, <2>6
  <1> QED
    BY <1>5, <1>8, <1>9

-----------------------------------------------------------------------------
\* A period whose tree is in use.
PeriodWith(p, t, w) ==
  [progress |-> p.progress, IsNewPeriod |-> FALSE, open |-> p.open, passport |-> t, winner |-> w]

Good(o, p, m, n, nl, W) ==
  /\ o = [period |-> o.period, found |-> o.found, zone |-> o.zone]
  /\ o.period = PeriodWith(p, o.period.passport, nl[0].pathId)
  /\ Merges(o.period.passport, p.open, m, n, nl, W)
  /\ o.found \in BOOLEAN /\ o.found = ~Losers!NoWinner(o.period.passport)
  /\ o.zone \in Zones \cup {NoZone}

\* One turn of the loop of getEvictZone().
Again(o) ==
  LET q == o.period
      z == q.open[q.winner + 1]
  IN  Outcome_pore(q, IF links.tail[z] = Nil
                        THEN Losers!LoserTree_PathEnds(q.passport)
                        ELSE Losers!LoserTree_GetWinner(q.passport, TailOf_pore(z)))

OutcomeFacts(r, p, m, n, nl, W) ==
  /\ Good(r, p, m, n, nl, W)
  /\ r.found => r.zone = p.open[nl[0].pathId + 1]

LEMMA OutcomeIs ==
  ASSUME NEW q, NEW p, NEW m, NEW n, NEW nl, NEW W, NEW t, Merges(t, p.open, m, n, nl, W),
         StampGlobal \in 0 .. MaxStamp,
         q = [progress |-> p.progress, IsNewPeriod |-> q.IsNewPeriod, open |-> p.open,
              passport |-> q.passport, winner |-> q.winner]
  PROVE  OutcomeFacts(Outcome_pore(q, t), p, m, n, nl, W)
  <1>r. PICK r : r = Outcome_pore(q, t)
    OBVIOUS
  <1>1. WinnerFacts(t, p.open, m, n, nl, W)
    BY WinnerIs
  <1>2. /\ Losers!Winner(t) = nl[0]
        /\ ~Losers!NoWinner(t) => nl[0].pathId \in 0 .. n - 1 /\ nl[0].pathId < Len(p.open)
    BY <1>1 DEF WinnerFacts
  <1>3. /\ r.period = [q EXCEPT !.passport = t, !.winner = nl[0].pathId, !.IsNewPeriod = FALSE]
        /\ r.found = ~Losers!NoWinner(t)
        /\ r.zone = IF Losers!NoWinner(t) THEN NoZone ELSE r.period.open[r.period.winner + 1]
        /\ r = [period |-> r.period, found |-> r.found, zone |-> r.zone]
    <2>x. PICK x : x = [q EXCEPT !.passport = t, !.winner = Losers!Winner(t).pathId, !.IsNewPeriod = FALSE]
      OBVIOUS
    <2>1. r = [period |-> x, found |-> ~Losers!NoWinner(t),
               zone |-> IF Losers!NoWinner(t) THEN NoZone ELSE x.open[x.winner + 1]]
      BY <1>r, <2>x DEF Outcome_pore
    <2>2. r.period = x /\ r = [period |-> r.period, found |-> r.found, zone |-> r.zone]
      BY <2>1
    <2>3. r.found = ~Losers!NoWinner(t)
      BY <2>1
    <2>4. r.zone = IF Losers!NoWinner(t) THEN NoZone ELSE x.open[x.winner + 1]
      BY <2>1
    <2> QED
      BY <1>2, <2>x, <2>2, <2>3, <2>4
  <1>4. r.period = PeriodWith(p, t, nl[0].pathId)
    <2>x. PICK x : x = [progress |-> p.progress, IsNewPeriod |-> q.IsNewPeriod, open |-> p.open,
                        passport |-> q.passport, winner |-> q.winner]
      OBVIOUS
    <2>1. q = x
      BY <2>x
    <2>2. r.period = [x EXCEPT !.passport = t, !.winner = nl[0].pathId, !.IsNewPeriod = FALSE]
      BY <1>3, <2>1
    <2> QED
      BY <2>2, <2>x DEF PeriodWith
  <1>5. r.period.passport = t /\ r.period.open = p.open /\ r.period.winner = nl[0].pathId
    BY <1>4 DEF PeriodWith
  <1>6. r.zone \in Zones \cup {NoZone} /\ (~Losers!NoWinner(t) => r.zone = p.open[nl[0].pathId + 1])
    <2>1. CASE Losers!NoWinner(t)
      BY <1>3, <2>1
    <2>2. CASE ~Losers!NoWinner(t)
      <3>w. PICK w : w = nl[0].pathId
        OBVIOUS
      <3>1. p.open \in Seq(Zones) /\ n \in Nat
        BY PowerOfTwo DEF Merges
      <3>2. w \in 0 .. n - 1 /\ w < Len(p.open)
        BY <1>2, <2>2, <3>w
      <3>3. w + 1 \in 1 .. Len(p.open)
        BY <3>1, <3>2
      <3>4. r.zone = p.open[w + 1]
        BY <1>3, <1>5, <2>2, <3>w
      <3> QED
        BY <3>1, <3>3, <3>4, <3>w
    <2> QED
      BY <2>1, <2>2
  <1>7. r.found \in BOOLEAN
    BY <1>3
  <1>8. Good(r, p, m, n, nl, W)
    BY <1>3, <1>4, <1>5, <1>6, <1>7 DEF Good
  <1>9. OutcomeFacts(r, p, m, n, nl, W)
    BY <1>3, <1>6, <1>8 DEF OutcomeFacts
  <1> QED
    BY <1>9, <1>r

LEMMA AgainIs ==
  ASSUME BaseInv, strategy = "PORE", NEW o, NEW p, NEW m, NEW n, NEW nl, NEW W, Good(o, p, m, n, nl, W), o.found
  PROVE  \E nl2, V : /\ OutcomeFacts(Again(o), p, m, n, nl2, V)
                     /\ ToldPaths(p.open, n, V) = ToldPaths(p.open, n, W) \cup {nl[0].pathId}
  <1>q. PICK q : q = o.period
    OBVIOUS
  <1>t. PICK t : t = q.passport
    OBVIOUS
  <1>1. /\ q = PeriodWith(p, t, nl[0].pathId) /\ Merges(t, p.open, m, n, nl, W) /\ ~Losers!NoWinner(t)
    BY <1>q, <1>t DEF Good
  <1>2. q.open = p.open /\ q.winner = nl[0].pathId
        /\ q = [progress |-> p.progress, IsNewPeriod |-> q.IsNewPeriod, open |-> p.open,
                passport |-> q.passport, winner |-> q.winner]
    BY <1>1, <1>t DEF PeriodWith
  <1>3. StampGlobal \in 0 .. MaxStamp
    BY DEF BaseInv, StampInv
  <1>4. t.winnerPathId = nl[0].pathId
    <2>1. WinnerFacts(t, p.open, m, n, nl, W)
      BY <1>1, <1>3, WinnerIs
    <2> QED
      BY <2>1 DEF WinnerFacts
  <1>s. PICK t2 : t2 = Losers!adjust(t, TailLeaf(p.open, nl[0].pathId))
    OBVIOUS
  <1>5. t2 = IF links.tail[q.open[q.winner + 1]] = Nil
             THEN Losers!LoserTree_PathEnds(t)
             ELSE Losers!LoserTree_GetWinner(t, TailOf_pore(q.open[q.winner + 1]))
    <2>z. PICK z : z = p.open[nl[0].pathId + 1]
      OBVIOUS
    <2>0. q.open[q.winner + 1] = z
      BY <1>2, <2>z
    <2>1. CASE links.tail[z] = Nil
      <3>1. TailLeaf(p.open, nl[0].pathId) = Losers!Exhausted
        BY <2>1, <2>z DEF TailLeaf
      <3>2. Losers!LoserTree_PathEnds(t) = Losers!adjust(t, Losers!Exhausted)
        BY DEF Losers!LoserTree_PathEnds
      <3> QED
        BY <1>s, <2>0, <2>1, <3>1, <3>2
    <2>2. CASE links.tail[z] # Nil
      <3>1. TailLeaf(p.open, nl[0].pathId) = Losers!Entry(stamp[links.tail[z]], nl[0].pathId, links.tail[z])
        BY <2>2, <2>z DEF TailLeaf
      <3>2. TailOf_pore(z).value = stamp[links.tail[z]] /\ TailOf_pore(z).desp = links.tail[z]
        BY DEF TailOf_pore
      <3>3. Losers!LoserTree_GetWinner(t, TailOf_pore(z))
              = Losers!adjust(t, Losers!Entry(TailOf_pore(z).value, t.winnerPathId, TailOf_pore(z).desp))
        BY DEF Losers!LoserTree_GetWinner
      <3>4. Losers!LoserTree_GetWinner(t, TailOf_pore(z))
              = Losers!adjust(t, Losers!Entry(stamp[links.tail[z]], nl[0].pathId, links.tail[z]))
        BY <1>4, <3>2, <3>3
      <3> QED
        BY <1>s, <2>0, <2>2, <3>1, <3>4
    <2> QED
      BY <2>1, <2>2
  <1>6. Again(o) = Outcome_pore(q, t2)
    BY <1>5, <1>q, <1>t DEF Again
  <1>7. PICK nl2, V : TellsOf(t2, p.open, m, n, nl2, V, W, nl[0].pathId)
    BY <1>1, <1>s, Tell
  <1>8. Merges(t2, p.open, m, n, nl2, V)
        /\ ToldPaths(p.open, n, V) = ToldPaths(p.open, n, W) \cup {nl[0].pathId}
    BY <1>7 DEF TellsOf
  <1>9. OutcomeFacts(Outcome_pore(q, t2), p, m, n, nl2, V)
    BY <1>2, <1>3, <1>8, OutcomeIs
  <1> QED
    BY <1>6, <1>8, <1>9

\* The loop has come to its end.
Done(o) == ~o.found \/ links.tail[o.zone] = Losers!Winner(o.period.passport).despId

Turns(f, p) ==
  /\ f[0] = [period |-> p, found |-> TRUE, zone |-> NoZone]
  /\ \A k \in 1 .. NZones + 1 : f[k] = IF k > 1 /\ Done(f[k - 1]) THEN f[k - 1] ELSE Again(f[k - 1])

LEMMA GoodTyped ==
  ASSUME NEW o, NEW p, NEW m, NEW n, NEW nl, NEW W, Good(o, p, m, n, nl, W)
  PROVE  o \in [period : [progress : {p.progress}, IsNewPeriod : {FALSE}, open : {p.open},
                          passport : [n : {n}, winnerPathId : Int, non_leafs : [0 .. n - 1 -> Entries]],
                          winner : Int],
                found : BOOLEAN, zone : Zones \cup {NoZone}]
  <1>t. PICK t : t = o.period.passport
    OBVIOUS
  <1>1. Merges(t, p.open, m, n, nl, W)
    BY <1>t DEF Good
  <1>2. nl \in [0 .. n - 1 -> Entries] /\ n \in Nat /\ n > 0 /\ t = TreeOf(n, nl[0].pathId, nl)
    BY <1>1, PowerOfTwo DEF Merges, Played
  <1>3. nl[0].pathId \in Int
    BY <1>2 DEF Entries
  <1>4. t \in [n : {n}, winnerPathId : Int, non_leafs : [0 .. n - 1 -> Entries]]
    BY <1>2, <1>3 DEF TreeOf
  <1>q. PICK q : q = o.period
    OBVIOUS
  <1>5. q = [progress |-> p.progress, IsNewPeriod |-> FALSE, open |-> p.open, passport |-> t,
             winner |-> nl[0].pathId]
    BY <1>q, <1>t DEF Good, PeriodWith
  <1>6. q \in [progress : {p.progress}, IsNewPeriod : {FALSE}, open : {p.open},
               passport : [n : {n}, winnerPathId : Int, non_leafs : [0 .. n - 1 -> Entries]],
               winner : Int]
    <2>a. PICK U : U = [n : {n}, winnerPathId : Int, non_leafs : [0 .. n - 1 -> Entries]]
      OBVIOUS
    <2> QED
      BY <1>3, <1>4, <1>5, <2>a
  <1>7. o = [period |-> q, found |-> o.found, zone |-> o.zone] /\ o.found \in BOOLEAN
        /\ o.zone \in Zones \cup {NoZone}
    BY <1>q DEF Good
  <1>u. PICK U : U = [progress : {p.progress}, IsNewPeriod : {FALSE}, open : {p.open},
               passport : [n : {n}, winnerPathId : Int, non_leafs : [0 .. n - 1 -> Entries]],
               winner : Int]
    OBVIOUS
  <1>8. q \in U
    BY <1>6, <1>u
  <1>z. PICK Z : Z = Zones \cup {NoZone}
    OBVIOUS
  <1>f. PICK found : found = o.found
    OBVIOUS
  <1>g. PICK zo : zo = o.zone
    OBVIOUS
  <1>9. o = [period |-> q, found |-> found, zone |-> zo] /\ found \in BOOLEAN /\ zo \in Z
    BY <1>7, <1>z, <1>f, <1>g
  <1>10. o \in [period : U, found : BOOLEAN, zone : Z]
    BY <1>8, <1>9
  <1> QED
    BY <1>10, <1>u, <1>z

LEMMA FirstGood ==
  ASSUME NEW p, p = PeriodWith(p, p.passport, p.winner), NEW m, NEW n, NEW nl, NEW W,
         Merges(p.passport, p.open, m, n, nl, W), ~Losers!NoWinner(p.passport), p.winner = nl[0].pathId
  PROVE  Good([period |-> p, found |-> TRUE, zone |-> NoZone], p, m, n, nl, W)
  BY DEF Good

\* The recursion of getEvictZone() is well founded.
LEMMA TurnsExist ==
  ASSUME BaseInv, strategy = "PORE", NEW p, p = PeriodWith(p, p.passport, p.winner),
         NEW m, NEW n, NEW nl, NEW W,
         Merges(p.passport, p.open, m, n, nl, W), ~Losers!NoWinner(p.passport), p.winner = nl[0].pathId
  PROVE  \E h : /\ h = [k \in 0 .. NZones + 1 |->
                          IF k = 0 THEN [period |-> p, found |-> TRUE, zone |-> NoZone]
                          ELSE IF k > 1 /\ Done(h[k - 1]) THEN h[k - 1] ELSE Again(h[k - 1])]
  <1> DEFINE Big == [period : [progress : {p.progress}, IsNewPeriod : {FALSE}, open : {p.open},
                               passport : [n : {n}, winnerPathId : Int, non_leafs : [0 .. n - 1 -> Entries]],
                               winner : Int],
                     found : BOOLEAN, zone : Zones \cup {NoZone}]
             S == {o \in Big : \E nl2, V : Good(o, p, m, n, nl2, V)}
             base == [period |-> p, found |-> TRUE, zone |-> NoZone]
             step == [k \in Nat |-> [o \in S |-> IF o.found /\ ~(k > 0 /\ Done(o)) THEN Again(o) ELSE o]]
  <1>1. \A o : o \in S <=> \E nl2, V : Good(o, p, m, n, nl2, V)
    <2> SUFFICES ASSUME NEW o, NEW nl2, NEW V, Good(o, p, m, n, nl2, V) PROVE o \in Big
      OBVIOUS
    <2> QED
      BY GoodTyped
  <1> HIDE DEF S, Big
  <1>2. base \in S
    BY <1>1, FirstGood
  <1>3. ASSUME NEW o \in S, o.found PROVE Again(o) \in S
    <2>1. PICK nl2, V : Good(o, p, m, n, nl2, V)
      BY <1>1
    <2>2. PICK nl3, V2 : OutcomeFacts(Again(o), p, m, n, nl3, V2)
      BY <1>3, <2>1, AgainIs
    <2>3. Good(Again(o), p, m, n, nl3, V2)
      BY <2>2 DEF OutcomeFacts
    <2> QED
      BY <1>1, <2>3
  <1>4. step \in [Nat -> [S -> S]]
    <2>1. \A k \in Nat : \A o \in S : (IF o.found /\ ~(k > 0 /\ Done(o)) THEN Again(o) ELSE o) \in S
      BY <1>3
    <2> QED
      BY <2>1
  <1>5. \A k \in Nat : \A o \in S : o.found \/ k > 0 =>
          step[k][o] = IF k > 0 /\ Done(o) THEN o ELSE Again(o)
    <2> TAKE k \in Nat
    <2> TAKE o \in S
    <2>1. step[k][o] = IF o.found /\ ~(k > 0 /\ Done(o)) THEN Again(o) ELSE o
      OBVIOUS
    <2> HIDE DEF step
    <2>2. ~o.found => Done(o)
      BY DEF Done
    <2> QED
      BY <2>1, <2>2
  <1>6. base.found
    OBVIOUS
  <1> HIDE DEF step, base
  <1>7. NZones + 1 \in Nat
    BY ZoneStrategyAssumption
  <1>8. PICK h \in [0 .. NZones + 1 -> S] :
          h = [k \in 0 .. NZones + 1 |-> IF k = 0 THEN base ELSE step[k - 1][h[k - 1]]]
    <2>1. PICK h : IteratesTo(h, base, step, S, NZones + 1)
      BY <1>2, <1>4, <1>7, BoundedIteration
    <2> QED
      BY <2>1 DEF IteratesTo
  <1>9. ASSUME NEW k \in 0 .. NZones + 1
        PROVE  h[k] = IF k = 0 THEN base ELSE IF k > 1 /\ Done(h[k - 1]) THEN h[k - 1] ELSE Again(h[k - 1])
    <2>1. CASE k = 0
      BY <1>8, <2>1
    <2>2. CASE k # 0
      <3>1. k - 1 \in Nat /\ k - 1 \in 0 .. NZones + 1 /\ (k > 1 <=> k - 1 > 0)
        BY <1>7, <2>2
      <3>2. h[k - 1] \in S /\ h[k] = step[k - 1][h[k - 1]]
        BY <1>8, <2>2, <3>1
      <3>3. h[k - 1].found \/ k - 1 > 0
        <4>1. k = 1 => h[k - 1] = base
          <5>1. 0 \in 0 .. NZones + 1
            BY <1>7
          <5> QED
            BY <1>8, <5>1
        <4> QED
          BY <1>6, <3>1, <4>1
      <3> QED
        BY <1>5, <2>2, <3>1, <3>2, <3>3
    <2> QED
      BY <2>1, <2>2
  <1>10. h = [k \in 0 .. NZones + 1 |->
                IF k = 0 THEN base ELSE IF k > 1 /\ Done(h[k - 1]) THEN h[k - 1] ELSE Again(h[k - 1])]
    BY <1>8, <1>9
  <1> QED
    BY <1>10 DEF base

TellsAll(f, p) == Turns(f, p) /\ getEvictZone_pore(p) = f[NZones + 1]

LEMMA TurnsAre ==
  ASSUME BaseInv, strategy = "PORE", NEW p, p = PeriodWith(p, p.passport, p.winner),
         NEW m, NEW n, NEW nl, NEW W,
         Merges(p.passport, p.open, m, n, nl, W), ~Losers!NoWinner(p.passport), p.winner = nl[0].pathId
  PROVE  \E f : TellsAll(f, p)
  <1> DEFINE P(told) == told = [k \in 0 .. NZones + 1 |->
               IF k = 0 THEN [period |-> p, found |-> TRUE, zone |-> NoZone]
               ELSE LET o == told[k - 1]
                        q == o.period
                        z == q.open[q.winner + 1]
                    IN  IF k > 1 /\ (~o.found
                                     \/ links.tail[o.zone] = Losers!Winner(q.passport).despId)
                          THEN o
                        ELSE Outcome_pore(q, IF links.tail[z] = Nil
                                          THEN Losers!LoserTree_PathEnds(q.passport)
                                          ELSE Losers!LoserTree_GetWinner(q.passport, TailOf_pore(z)))]
             f == CHOOSE told : P(told)
  <1>1. p.IsNewPeriod = FALSE
    BY DEF PeriodWith
  <1>2. getEvictZone_pore(p) = f[NZones + 1]
    BY <1>1, Zenon DEF getEvictZone_pore
  <1>3. \A told : P(told) <=>
          told = [k \in 0 .. NZones + 1 |->
                    IF k = 0 THEN [period |-> p, found |-> TRUE, zone |-> NoZone]
                    ELSE IF k > 1 /\ Done(told[k - 1]) THEN told[k - 1] ELSE Again(told[k - 1])]
    BY DEF Done, Again
  <1> HIDE DEF P
  <1>4. \E told : P(told)
    <2>1. PICK h : h = [k \in 0 .. NZones + 1 |->
                          IF k = 0 THEN [period |-> p, found |-> TRUE, zone |-> NoZone]
                          ELSE IF k > 1 /\ Done(h[k - 1]) THEN h[k - 1] ELSE Again(h[k - 1])]
      BY TurnsExist, ZenonT(30)
    <2>2. P(h)
      BY <1>3, <2>1, Zenon
    <2> QED
      BY <2>2
  <1>5. P(f)
    BY <1>4
  <1>f. PICK g : g = f
    OBVIOUS
  <1>6. g = [k \in 0 .. NZones + 1 |->
                    IF k = 0 THEN [period |-> p, found |-> TRUE, zone |-> NoZone]
                    ELSE IF k > 1 /\ Done(g[k - 1]) THEN g[k - 1] ELSE Again(g[k - 1])]
    BY <1>3, <1>5, <1>f
  <1> HIDE DEF f
  <1>7. NZones \in Nat
    BY ZoneStrategyAssumption
  <1>8. g[0] = [period |-> p, found |-> TRUE, zone |-> NoZone]
    <2>1. 0 \in 0 .. NZones + 1
      BY <1>7
    <2> QED
      BY <1>6, <2>1
  <1>9. \A k \in 1 .. NZones + 1 : g[k] = IF k > 1 /\ Done(g[k - 1]) THEN g[k - 1] ELSE Again(g[k - 1])
    <2> TAKE k \in 1 .. NZones + 1
    <2>1. k \in 0 .. NZones + 1 /\ k # 0
      BY <1>7
    <2> QED
      BY <1>6, <2>1
  <1>10. TellsAll(g, p)
    BY <1>2, <1>8, <1>9, <1>f DEF TellsAll, Turns
  <1> QED
    BY <1>10

\* After k turns either the loop is over or k paths are told.
AfterTurns(o, k, p, m, n, nl, W) ==
  /\ OutcomeFacts(o, p, m, n, nl, W)
  /\ Done(o) \/ (IsFiniteSet(ToldPaths(p.open, n, W)) /\ Cardinality(ToldPaths(p.open, n, W)) >= k)

LEMMA NextTurn ==
  ASSUME BaseInv, strategy = "PORE", NEW o, NEW p, NEW m, NEW n, NEW nl, NEW W, NEW k \in Nat,
         Good(o, p, m, n, nl, W), o.found,
         IsFiniteSet(ToldPaths(p.open, n, W)), Cardinality(ToldPaths(p.open, n, W)) >= k,
         nl[0].pathId \notin ToldPaths(p.open, n, W) \/ k = 0
  PROVE  \E nl2, V : AfterTurns(Again(o), k + 1, p, m, n, nl2, V)
  <1>1. PICK nl2, V : /\ OutcomeFacts(Again(o), p, m, n, nl2, V)
                      /\ ToldPaths(p.open, n, V) = ToldPaths(p.open, n, W) \cup {nl[0].pathId}
    BY AgainIs
  <1>a. PICK A : A = ToldPaths(p.open, n, W)
    OBVIOUS
  <1>w. PICK w : w = nl[0].pathId
    OBVIOUS
  <1>2. IsFiniteSet(A \cup {w}) /\ Cardinality(A \cup {w}) = IF w \in A THEN Cardinality(A) ELSE Cardinality(A) + 1
    BY <1>a, FS_AddElement
  <1>3. Cardinality(A \cup {w}) >= k + 1
    <2>1. Cardinality(A) \in Nat /\ Cardinality(A) >= k
      BY <1>a, FS_CardinalityType
    <2>2. w \in A => Cardinality(A) # 0
      BY <1>a, FS_EmptySet
    <2> QED
      BY <1>2, <1>a, <1>w, <2>1, <2>2
  <1>4. AfterTurns(Again(o), k + 1, p, m, n, nl2, V)
    BY <1>1, <1>2, <1>3, <1>a, <1>w DEF AfterTurns
  <1> QED
    BY <1>4

\* What the loop ends with.
Answers(o, p, m, n, nl, W) ==
  /\ OutcomeFacts(o, p, m, n, nl, W)
  /\ o.found => nl[0].despId = links.tail[o.zone]

LEMMA PoreTold ==
  ASSUME BaseInv, strategy = "PORE", NEW p, p = PeriodWith(p, p.passport, p.winner),
         Len(p.open) <= NZones, NEW m, NEW n, NEW nl, NEW W,
         Merges(p.passport, p.open, m, n, nl, W), ~Losers!NoWinner(p.passport), p.winner = nl[0].pathId
  PROVE  \E nl2, V : Answers(getEvictZone_pore(p), p, m, n, nl2, V)
  <1>1. PICK h : TellsAll(h, p)
    BY TurnsAre
  <1>2. /\ h[0] = [period |-> p, found |-> TRUE, zone |-> NoZone]
        /\ \A k \in 1 .. NZones + 1 : h[k] = IF k > 1 /\ Done(h[k - 1]) THEN h[k - 1] ELSE Again(h[k - 1])
    BY <1>1 DEF TellsAll, Turns
  <1>3. NZones \in Nat /\ Len(p.open) \in Nat /\ StampGlobal \in 0 .. MaxStamp
    BY ZoneStrategyAssumption DEF Merges, BaseInv, StampInv
  <1>4. \A V : IsFiniteSet(ToldPaths(p.open, n, V)) /\ Cardinality(ToldPaths(p.open, n, V)) <= Len(p.open)
    <2> TAKE V
    <2>1. ToldPaths(p.open, n, V) \subseteq 0 .. Len(p.open) - 1
      BY DEF ToldPaths
    <2>2. IsFiniteSet(0 .. Len(p.open) - 1) /\ Cardinality(0 .. Len(p.open) - 1) = Len(p.open)
      <3>1. 0 \in Int /\ Len(p.open) - 1 \in Int
        BY <1>3
      <3>2. IsFiniteSet(0 .. Len(p.open) - 1)
            /\ Cardinality(0 .. Len(p.open) - 1) = IF 0 > Len(p.open) - 1 THEN 0 ELSE Len(p.open) - 1 - 0 + 1
        BY <3>1, FS_Interval
      <3> QED
        BY <1>3, <3>2
    <2> QED
      BY <2>1, <2>2, FS_Subset
  <1> DEFINE T == {k \in Nat : k <= NZones => \E nl2, V : AfterTurns(h[k + 1], k + 1, p, m, n, nl2, V)}
  <1>5. 0 \in T
    <2>1. h[1] = Again(h[0])
      BY <1>2, <1>3
    <2>2. Good(h[0], p, m, n, nl, W) /\ h[0].found
      BY <1>2, FirstGood
    <2>3. Cardinality(ToldPaths(p.open, n, W)) >= 0
      BY <1>4, FS_CardinalityType
    <2>4. \E nl2, V : AfterTurns(Again(h[0]), 0 + 1, p, m, n, nl2, V)
      BY <1>4, <2>2, <2>3, NextTurn
    <2> QED
      BY <2>1, <2>4
  <1>6. ASSUME NEW k \in T PROVE k + 1 \in T
    <2>0. k \in Nat
      OBVIOUS
    <2> SUFFICES ASSUME k + 1 <= NZones PROVE \E nl2, V : AfterTurns(h[k + 2], k + 2, p, m, n, nl2, V)
      <3>1. k + 1 + 1 = k + 2 /\ k + 1 \in Nat
        BY <2>0
      <3> QED
        BY <3>1
    <2>1. k + 1 \in Nat /\ k + 2 \in 1 .. NZones + 1 /\ k + 2 > 1 /\ (k + 2) - 1 = k + 1 /\ k <= NZones
      BY <1>3, <2>0
    <2>2. PICK nl2, V : AfterTurns(h[k + 1], k + 1, p, m, n, nl2, V)
      BY <2>1
    <2>3. OutcomeFacts(h[k + 1], p, m, n, nl2, V)
      BY <2>2 DEF AfterTurns
    <2>4. CASE Done(h[k + 1])
      <3>1. h[k + 2] = h[k + 1]
        BY <1>2, <2>1, <2>4
      <3>2. AfterTurns(h[k + 2], k + 2, p, m, n, nl2, V)
        BY <2>3, <2>4, <3>1 DEF AfterTurns
      <3> QED
        BY <3>2
    <2>5. CASE ~Done(h[k + 1])
      <3>1. h[k + 2] = Again(h[k + 1])
        BY <1>2, <2>1, <2>5
      <3>2. Good(h[k + 1], p, m, n, nl2, V) /\ h[k + 1].found
            /\ h[k + 1].zone = p.open[nl2[0].pathId + 1]
        BY <2>3, <2>5 DEF OutcomeFacts, Done
      <3>t. PICK t : t = h[k + 1].period.passport
        OBVIOUS
      <3>3. Merges(t, p.open, m, n, nl2, V) /\ ~Losers!NoWinner(t)
        BY <3>2, <3>t DEF Good
      <3>4. Losers!Winner(t) = nl2[0]
        <4>1. WinnerFacts(t, p.open, m, n, nl2, V)
          BY <1>3, <3>3, WinnerIs
        <4> QED
          BY <4>1 DEF WinnerFacts
      <3>5. links.tail[h[k + 1].zone] # nl2[0].despId
        BY <2>5, <3>4, <3>t DEF Done
      <3>6. nl2[0].pathId \notin ToldPaths(p.open, n, V)
        BY <1>3, <3>2, <3>3, <3>5, WinnerTold
      <3>7. Cardinality(ToldPaths(p.open, n, V)) >= k + 1
        BY <2>2, <2>5 DEF AfterTurns
      <3>8. \E nl3, V2 : AfterTurns(Again(h[k + 1]), k + 1 + 1, p, m, n, nl3, V2)
        BY <1>4, <2>1, <3>2, <3>6, <3>7, NextTurn
      <3>9. k + 1 + 1 = k + 2
        BY <2>0
      <3> QED
        BY <3>1, <3>8, <3>9
    <2> QED
      BY <2>4, <2>5
  <1>7. \A k \in Nat : k \in T
    <2>1. 0 \in T
      BY <1>5
    <2>2. \A k \in T : k + 1 \in T
      BY <1>6
    <2>3. T \subseteq Nat
      OBVIOUS
    <2> HIDE DEF T
    <2> QED
      BY <2>1, <2>2, <2>3, NatInduct
  <1>8. PICK nl2, V : AfterTurns(h[NZones + 1], NZones + 1, p, m, n, nl2, V)
    BY <1>3, <1>7
  <1>9. Done(h[NZones + 1]) /\ OutcomeFacts(h[NZones + 1], p, m, n, nl2, V)
    <2>1. ~(Cardinality(ToldPaths(p.open, n, V)) >= NZones + 1)
      <3>1. Cardinality(ToldPaths(p.open, n, V)) <= Len(p.open) /\ Cardinality(ToldPaths(p.open, n, V)) \in Nat
        BY <1>4, FS_CardinalityType
      <3> QED
        BY <1>3, <3>1
    <2> QED
      BY <1>8, <2>1 DEF AfterTurns
  <1>o. PICK o : o = h[NZones + 1]
    OBVIOUS
  <1>10. o.found => nl2[0].despId = links.tail[o.zone]
    <2> SUFFICES ASSUME o.found PROVE nl2[0].despId = links.tail[o.zone]
      OBVIOUS
    <2>1. links.tail[o.zone] = Losers!Winner(o.period.passport).despId
      BY <1>9, <1>o DEF Done
    <2>2. Merges(o.period.passport, p.open, m, n, nl2, V)
      BY <1>9, <1>o DEF OutcomeFacts, Good
    <2>3. WinnerFacts(o.period.passport, p.open, m, n, nl2, V)
      BY <1>3, <2>2, WinnerIs
    <2> QED
      BY <2>1, <2>3 DEF WinnerFacts
  <1>11. Answers(o, p, m, n, nl2, V)
    BY <1>9, <1>10, <1>o DEF Answers
  <1> QED
    BY <1>1, <1>11, <1>o DEF TellsAll

-----------------------------------------------------------------------------
\* A period of PORE that begins: zones that all have a tail.
Opens(r, p) ==
  /\ r = [progress |-> 1, IsNewPeriod |-> TRUE, open |-> r.open, passport |-> p.passport, winner |-> p.winner]
  /\ r.open \in Seq(Zones) /\ Len(r.open) > 0 /\ Len(r.open) <= NZones
  /\ \A i \in 1 .. Len(r.open) : Len(Lists[r.open[i]]) > 0

LEMMA PoreOrder ==
  ASSUME strategy = "PORE", BaseInv, valid # {}
  PROVE  /\ ZoneSortArray_pore \in Seq(Zones) /\ ZoneSortArray_pore # << >>
         /\ Len(ZoneSortArray_pore) <= NZones
         /\ \A i \in 1 .. Len(ZoneSortArray_pore) : Len(Lists[ZoneSortArray_pore[i]]) > 0
  <1> DEFINE size == [z \in Zones |-> pagecnt_dirty[z] + pagecnt_clean[z]]
             score == [z \in Zones |-> ((pagecnt_dirty[z] + pagecnt_clean[z]) * (pagecnt_dirty[z] + pagecnt_clean[z])
                                          * 1000000) \div (zoneheat[z] + 1)]
  <1>1. ZoneSortArray_pore = SortedZones(size, score)
    BY DEF ZoneSortArray_pore, score_pore, Blocks_pore
  <1>2. /\ zoneheat \in [Zones -> Nat]
        /\ \A z \in Zones : pagecnt_dirty[z] + pagecnt_clean[z] = Len(Lists[z]) /\ Len(Lists[z]) \in Nat
    <2>1. \A z \in Zones : Len(Lists[z]) \in Nat
      BY ListedOnes, NamesAre DEF BaseInv
    <2> QED
      BY <2>1, CountedOnes
  <1>3. size \in [Zones -> Int] /\ \A z \in Zones : size[z] = Len(Lists[z])
    BY <1>2
  <1>4. score \in [Zones -> Int]
    <2>1. \A a, b \in Nat : (a * a * 1000000) \div (b + 1) \in Int
      <3> TAKE a, b \in Nat
      <3>1. PICK x : x = a * a * 1000000
        OBVIOUS
      <3>2. x \in Int /\ b + 1 \in Int /\ b + 1 > 0
        BY <3>1
      <3>3. x \div (b + 1) \in Int
        BY <3>2
      <3> QED
        BY <3>1, <3>3
    <2>2. \A z \in Zones : pagecnt_dirty[z] + pagecnt_clean[z] \in Nat /\ zoneheat[z] \in Nat
      BY <1>2
    <2>3. \A z \in Zones : ((pagecnt_dirty[z] + pagecnt_clean[z]) * (pagecnt_dirty[z] + pagecnt_clean[z])
                                          * 1000000) \div (zoneheat[z] + 1) \in Int
      BY <2>1, <2>2
    <2> QED
      BY <2>3
  <1> HIDE DEF size, score
  <1>o. PICK order : order = SortedZones(size, score)
    OBVIOUS
  <1>5. Sorted(order, size, score)
    BY <1>3, <1>4, <1>o, SortedIs
  <1>6. order \in Seq(Zones) /\ IsInjective(order) /\ ToSet(order) = {z \in Zones : size[z] > 0}
    BY <1>5 DEF Sorted
  <1>7. order # << >>
    <2>1. PICK d \in valid : TRUE
      OBVIOUS
    <2>2. d \in Zoned
      BY DEF Zoned, Separates
    <2>3. zone[d] \in Zones /\ Len(Lists[zone[d]]) > 0
      BY <2>1, <2>2, Populated
    <2>4. size[zone[d]] > 0
      BY <1>3, <2>3
    <2> QED
      BY <1>3, <1>4, <1>5, <2>3, <2>4, FirstOfSorted
  <1>8. Len(order) <= NZones
    <2>1. NZones \in Nat
      BY ZoneStrategyAssumption
    <2>2. IsFiniteSet(Zones) /\ Cardinality(Zones) = NZones
      <3>1. 0 \in Int /\ NZones - 1 \in Int
        BY <2>1
      <3>2. IsFiniteSet(0 .. NZones - 1)
            /\ Cardinality(0 .. NZones - 1) = IF 0 > NZones - 1 THEN 0 ELSE NZones - 1 - 0 + 1
        BY <3>1, FS_Interval
      <3> QED
        BY <2>1, <3>2 DEF Zones
    <2> QED
      BY <1>6, <2>2, InjectiveLen
  <1>9. \A i \in 1 .. Len(order) : Len(Lists[order[i]]) > 0
    <2> TAKE i \in 1 .. Len(order)
    <2>1. order[i] \in ToSet(order)
      BY DEF ToSet
    <2>2. order[i] \in Zones /\ size[order[i]] > 0
      BY <1>6, <2>1
    <2> QED
      BY <1>3, <2>2
  <1> QED
    BY <1>1, <1>6, <1>7, <1>8, <1>9, <1>o

\* The front of an order: not empty where the order is not.
LEMMA FrontOpened ==
  ASSUME BaseInv, NEW order \in Seq(Zones), order # << >>, NEW cnt,
         cnt = LET chosen[n \in 0 .. Len(order)] ==
                     IF n = 0 THEN 0 ELSE chosen[n - 1] + pagecnt_dirty[order[n]]
               IN  Min({n \in 0 .. Len(order) : n = Len(order) \/ chosen[n] >= Cycle_Length})
  PROVE  cnt \in 1 .. Len(order)
  <1>1. Len(order) \in Nat /\ Len(order) > 0 /\ Cycle_Length \in Nat /\ Cycle_Length > 0
    BY ZoneStrategyAssumption
  <1>2. pagecnt_dirty \in [Zones -> Nat]
    BY CountedOnes
  <1> DEFINE P(chosen) == chosen = [n \in 0 .. Len(order) |->
                                     IF n = 0 THEN 0 ELSE chosen[n - 1] + pagecnt_dirty[order[n]]]
             g == CHOOSE chosen : P(chosen)
             step == [k \in Nat |-> [v \in Nat |-> IF k + 1 \in 1 .. Len(order)
                                                   THEN v + pagecnt_dirty[order[k + 1]] ELSE v]]
  <1>3. step \in [Nat -> [Nat -> Nat]]
    <2>1. \A k, v \in Nat : (IF k + 1 \in 1 .. Len(order) THEN v + pagecnt_dirty[order[k + 1]] ELSE v) \in Nat
      <3> TAKE k, v \in Nat
      <3>1. ASSUME k + 1 \in 1 .. Len(order) PROVE v + pagecnt_dirty[order[k + 1]] \in Nat
        <4>1. order[k + 1] \in Zones
          BY <3>1
        <4>2. pagecnt_dirty[order[k + 1]] \in Nat
          BY <1>2, <4>1
        <4> QED
          BY <4>2
      <3> QED
        BY <3>1
    <2> QED
      BY <2>1
  <1>4. \A k, v \in Nat : k + 1 \in 1 .. Len(order) => step[k][v] = v + pagecnt_dirty[order[k + 1]]
    OBVIOUS
  <1> HIDE DEF step
  <1>5. PICK h \in [0 .. Len(order) -> Nat] :
          h = [n \in 0 .. Len(order) |-> IF n = 0 THEN 0 ELSE step[n - 1][h[n - 1]]]
    <2>1. PICK h : IteratesTo(h, 0, step, Nat, Len(order))
      BY <1>1, <1>3, BoundedIteration
    <2> QED
      BY <2>1 DEF IteratesTo
  <1>6. \A n \in 0 .. Len(order) : h[n] = IF n = 0 THEN 0 ELSE h[n - 1] + pagecnt_dirty[order[n]]
    <2> TAKE n \in 0 .. Len(order)
    <2>1. CASE n = 0
      BY <1>5, <2>1
    <2>2. CASE n # 0
      <3>1. n - 1 \in Nat /\ n - 1 \in 0 .. Len(order) /\ (n - 1) + 1 = n /\ n \in 1 .. Len(order)
        BY <1>1, <2>2
      <3>2. h[n] = step[n - 1][h[n - 1]] /\ h[n - 1] \in Nat
        BY <1>5, <2>2, <3>1
      <3> QED
        BY <1>4, <2>2, <3>1, <3>2
    <2> QED
      BY <2>1, <2>2
  <1>7. P(h)
    BY <1>5, <1>6
  <1>8. P(g)
    BY <1>7
  <1>9. cnt = Min({n \in 0 .. Len(order) : n = Len(order) \/ g[n] >= Cycle_Length})
    BY Zenon
  <1> HIDE DEF g
  <1>10. g[0] = 0
    <2>1. 0 \in 0 .. Len(order)
      BY <1>1
    <2> QED
      BY <1>8, <2>1
  <1>s. PICK S : S = {n \in 0 .. Len(order) : n = Len(order) \/ g[n] >= Cycle_Length}
    OBVIOUS
  <1>11. S \subseteq Nat /\ S # {} /\ 0 \notin S /\ S \subseteq 0 .. Len(order)
    <2>1. Len(order) \in S
      BY <1>1, <1>s
    <2>2. 0 \notin S
      BY <1>1, <1>10, <1>s
    <2> QED
      BY <1>s, <2>1, <2>2
  <1>12. cnt \in S
    BY <1>9, <1>11, <1>s, MinIs
  <1> QED
    BY <1>11, <1>12

LEMMA PoreOpened ==
  ASSUME strategy = "PORE", BaseInv, valid # {}, NEW p,
         p = [progress |-> p.progress, IsNewPeriod |-> p.IsNewPeriod, open |-> p.open,
              passport |-> p.passport, winner |-> p.winner]
  PROVE  Opens(redefineOpenZones_pore(p), p)
  <1>o. PICK order : order = ZoneSortArray_pore
    OBVIOUS
  <1>1. /\ order \in Seq(Zones) /\ order # << >> /\ Len(order) <= NZones
        /\ \A i \in 1 .. Len(order) : Len(Lists[order[i]]) > 0
    BY <1>o, PoreOrder
  <1>c. PICK cnt : cnt = LET chosen[n \in 0 .. Len(order)] ==
                     IF n = 0 THEN 0 ELSE chosen[n - 1] + pagecnt_dirty[order[n]]
               IN  Min({n \in 0 .. Len(order) : n = Len(order) \/ chosen[n] >= Cycle_Length})
    OBVIOUS
  <1>2. cnt \in 1 .. Len(order)
    BY <1>1, <1>c, FrontOpened
  <1>r. PICK r : r = redefineOpenZones_pore(p)
    OBVIOUS
  <1>3. r = [p EXCEPT !.open = SubSeq(order, 1, cnt), !.progress = 1, !.IsNewPeriod = TRUE]
    BY <1>o, <1>c, <1>r DEF redefineOpenZones_pore, Opened_pore, Min
  <1>s. PICK s : s = SubSeq(order, 1, cnt)
    OBVIOUS
  <1>4. r = [progress |-> 1, IsNewPeriod |-> TRUE, open |-> s, passport |-> p.passport, winner |-> p.winner]
    <2>x. PICK a, b, c, d, e : a = p.progress /\ b = p.IsNewPeriod /\ c = p.open /\ d = p.passport /\ e = p.winner
      OBVIOUS
    <2>1. p = [progress |-> a, IsNewPeriod |-> b, open |-> c, passport |-> d, winner |-> e]
      BY <2>x
    <2> QED
      BY <1>3, <1>s, <2>1
  <1>5. s \in Seq(Zones) /\ Len(s) = cnt /\ \A i \in 1 .. cnt : s[i] = order[i]
    BY <1>1, <1>2, <1>s
  <1>6. r.open = s
    BY <1>4
  <1>8. r.open \in Seq(Zones) /\ Len(r.open) > 0 /\ Len(r.open) <= NZones
    <2>1. Len(order) \in Nat /\ NZones \in Nat
      BY <1>1, ZoneStrategyAssumption
    <2> QED
      BY <1>1, <1>2, <1>5, <1>6, <2>1
  <1>9. \A i \in 1 .. Len(r.open) : Len(Lists[r.open[i]]) > 0
    <2> TAKE i \in 1 .. Len(r.open)
    <2>1. i \in 1 .. cnt /\ i \in 1 .. Len(order)
      BY <1>1, <1>2, <1>5, <1>6
    <2>2. r.open[i] = order[i]
      BY <1>5, <1>6, <2>1
    <2> QED
      BY <1>1, <2>1, <2>2
  <1>7. Opens(r, p)
    BY <1>4, <1>6, <1>8, <1>9 DEF Opens
  <1> QED
    BY <1>7, <1>r

\* The first zone of a period.
LEMMA PoreCreated ==
  ASSUME BaseInv, strategy = "PORE", NEW p, NEW q, Opens(p, q)
  PROVE  \E m, n, nl, W : Answers(getEvictZone_pore(p), p, m, n, nl, W) /\ getEvictZone_pore(p).found
  <1>1. /\ p = [progress |-> 1, IsNewPeriod |-> TRUE, open |-> p.open, passport |-> q.passport, winner |-> q.winner]
        /\ p.open \in Seq(Zones) /\ Len(p.open) > 0
        /\ \A i \in 1 .. Len(p.open) : Len(Lists[p.open[i]]) > 0
    BY DEF Opens
  <1>l. PICK leaf : leaf = [i \in 1 .. Len(p.open) |->
                              [value |-> stamp[links.tail[p.open[i]]], desp |-> links.tail[p.open[i]]]]
    OBVIOUS
  <1>o. PICK open : open = p.open
    OBVIOUS
  <1>t. PICK t : t = Losers!LoserTree_Create(leaf)
    OBVIOUS
  <1>2. PICK m, n, nl, W : NewTree(t, open, m, n, nl, W)
    <2>1. open \in Seq(Zones)
      BY <1>1, <1>o
    <2>2. Len(open) > 0
      BY <1>1, <1>o
    <2>3. \A i \in 1 .. Len(open) : Len(Lists[open[i]]) > 0
      BY <1>1, <1>o
    <2>4. leaf = [i \in 1 .. Len(open) |->
                              [value |-> stamp[links.tail[open[i]]], desp |-> links.tail[open[i]]]]
      BY <1>l, <1>o
    <2>5. \E m, n, nl, W : NewTree(Losers!LoserTree_Create(leaf), open, m, n, nl, W)
      BY <2>1, <2>2, <2>3, <2>4, NewTreeIs
    <2> QED
      BY <2>5, <1>t
  <1>3. /\ Merges(t, p.open, m, n, nl, W) /\ ~Losers!NoWinner(t)
        /\ ToldPaths(p.open, n, W) = 0 .. Len(p.open) - 1
    BY <1>2, <1>o DEF NewTree
  <1>4. StampGlobal \in 0 .. MaxStamp
    BY DEF BaseInv, StampInv
  <1>g. PICK o : o = getEvictZone_pore(p)
    OBVIOUS
  <1>5. o = Outcome_pore(p, t)
    <2>1. p.IsNewPeriod
      BY <1>1
    <2>2. o = Outcome_pore(p, Losers!LoserTree_Create([i \in 1 .. Len(p.open) |-> TailOf_pore(p.open[i])]))
      BY <1>g, <2>1, Zenon DEF getEvictZone_pore
    <2>3. [i \in 1 .. Len(p.open) |-> TailOf_pore(p.open[i])] = leaf
      BY <1>l DEF TailOf_pore
    <2> QED
      BY <1>t, <2>2, <2>3
  <1>6. OutcomeFacts(o, p, m, n, nl, W)
    <2>1. p = [progress |-> p.progress, IsNewPeriod |-> p.IsNewPeriod, open |-> p.open,
               passport |-> p.passport, winner |-> p.winner]
      <3>a. PICK a, b, c : a = p.open /\ b = q.passport /\ c = q.winner
        OBVIOUS
      <3>1. p = [progress |-> 1, IsNewPeriod |-> TRUE, open |-> a, passport |-> b, winner |-> c]
        BY <1>1, <3>a
      <3> QED
        BY <3>1
    <2> QED
      BY <1>3, <1>4, <1>5, <2>1, OutcomeIs
  <1>7. o.found
    <2>1. o.period.passport = t
      <3>r. PICK r : r = [p EXCEPT !.passport = t, !.winner = Losers!Winner(t).pathId, !.IsNewPeriod = FALSE]
        OBVIOUS
      <3>1. o.period = r
        BY <1>5, <3>r DEF Outcome_pore
      <3>a. PICK a, b, c : a = p.open /\ b = q.passport /\ c = q.winner
        OBVIOUS
      <3>2. p = [progress |-> 1, IsNewPeriod |-> TRUE, open |-> a, passport |-> b, winner |-> c]
        BY <1>1, <3>a
      <3> QED
        BY <3>1, <3>r, <3>2
    <2>2. o.found = ~Losers!NoWinner(o.period.passport)
      BY <1>6 DEF OutcomeFacts, Good
    <2> QED
      BY <1>3, <2>1, <2>2
  <1>8. o.found => nl[0].despId = links.tail[o.zone]
    <2>1. WinnerFacts(t, p.open, m, n, nl, W)
      BY <1>3, <1>4, WinnerIs
    <2>2. nl[0].pathId \in ToldPaths(p.open, n, W)
      <3>1. nl[0].pathId \in 0 .. n - 1 /\ nl[0].pathId < Len(p.open) /\ n \in Nat /\ Len(p.open) \in Nat
        BY <1>1, <1>3, <2>1, PowerOfTwo DEF WinnerFacts, Merges
      <3> QED
        BY <1>3, <3>1
    <2>3. nl[0].despId = links.tail[p.open[nl[0].pathId + 1]]
      BY <1>3, <1>4, <2>2, WinnerTold
    <2> QED
      BY <1>6, <2>3 DEF OutcomeFacts
  <1>9. Answers(o, p, m, n, nl, W)
    BY <1>6, <1>8 DEF Answers
  <1> QED
    BY <1>7, <1>9, <1>g

\* What PORE keeps between the calls: a period that is not over has a tree whose
\* winner has a path.
InUse(p) ==
  /\ p.IsNewPeriod = FALSE /\ Len(p.open) <= NZones
  /\ \E m, n, nl, W : /\ Merges(p.passport, p.open, m, n, nl, W)
                      /\ ~Losers!NoWinner(p.passport) /\ p.winner = nl[0].pathId

FiveFields(p) ==
  p = [progress |-> p.progress, IsNewPeriod |-> p.IsNewPeriod, open |-> p.open,
       passport |-> p.passport, winner |-> p.winner]

PorePeriod ==
  /\ alive /\ FiveFields(period) /\ period.progress \in Nat
  /\ period.progress # 0 => InUse(period)

\* The zone a call for a victim takes it from.
Chosen(got) ==
  \E p \in {IF period.progress % Cycle_Length = 0 THEN redefineOpenZones_pore(period) ELSE period} :
    \E first \in {getEvictZone_pore(p)} :
      got = IF first.found THEN first ELSE getEvictZone_pore(redefineOpenZones_pore(first.period))

Serves(got, p, m, n, nl, W) ==
  /\ Answers(got, p, m, n, nl, W) /\ got.found
  /\ p.progress \in Nat /\ p.progress # 0 /\ Len(p.open) <= NZones

LEMMA PoreChooses ==
  ASSUME strategy = "PORE", BaseInv, PorePeriod, valid # {}, NEW got, Chosen(got)
  PROVE  \E p, m, n, nl, W : Serves(got, p, m, n, nl, W)
  <1>0. FiveFields(period) /\ period.progress \in Nat /\ (period.progress # 0 => InUse(period))
    BY DEF PorePeriod
  <1>1. \A q : FiveFields(q) => Opens(redefineOpenZones_pore(q), q)
    BY PoreOpened DEF FiveFields
  <1>2. ASSUME NEW r, NEW q, Opens(r, q)
        PROVE  /\ \E m, n, nl, W : Serves(getEvictZone_pore(r), r, m, n, nl, W)
               /\ getEvictZone_pore(r).found
    <2>1. PICK m, n, nl, W : Answers(getEvictZone_pore(r), r, m, n, nl, W) /\ getEvictZone_pore(r).found
      BY <1>2, PoreCreated
    <2>2. r.progress = 1 /\ Len(r.open) <= NZones
      BY <1>2 DEF Opens
    <2>3. Serves(getEvictZone_pore(r), r, m, n, nl, W)
      BY <2>1, <2>2 DEF Serves
    <2> QED
      BY <2>1, <2>3
  <1>p. PICK p : /\ p = IF period.progress % Cycle_Length = 0 THEN redefineOpenZones_pore(period) ELSE period
                 /\ got = IF getEvictZone_pore(p).found THEN getEvictZone_pore(p)
                          ELSE getEvictZone_pore(redefineOpenZones_pore(getEvictZone_pore(p).period))
    BY DEF Chosen
  <1>3. CASE period.progress % Cycle_Length = 0
    <2>1. Opens(p, period)
      BY <1>0, <1>1, <1>3, <1>p
    <2>2. getEvictZone_pore(p).found /\ \E m, n, nl, W : Serves(getEvictZone_pore(p), p, m, n, nl, W)
      BY <1>2, <2>1
    <2>3. got = getEvictZone_pore(p)
      BY <1>p, <2>2
    <2> QED
      BY <2>2, <2>3
  <1>4. CASE period.progress % Cycle_Length # 0
    <2>1. period.progress # 0 /\ p = period
      <3>1. 0 % Cycle_Length = 0
        BY ZoneStrategyAssumption
      <3> QED
        BY <1>4, <1>p, <3>1
    <2>2. p.IsNewPeriod = FALSE /\ Len(p.open) <= NZones /\ FiveFields(p)
      BY <1>0, <2>1 DEF InUse
    <2>3. PICK m, n, nl, W : /\ Merges(p.passport, p.open, m, n, nl, W)
                             /\ ~Losers!NoWinner(p.passport) /\ p.winner = nl[0].pathId
      BY <1>0, <2>1 DEF InUse
    <2>4. p = PeriodWith(p, p.passport, p.winner)
      BY <2>2 DEF FiveFields, PeriodWith
    <2>5. PICK nl2, V : Answers(getEvictZone_pore(p), p, m, n, nl2, V)
      BY <2>2, <2>3, <2>4, PoreTold
    <2>6. CASE getEvictZone_pore(p).found
      <3>1. got = getEvictZone_pore(p)
        BY <1>p, <2>6
      <3>2. Serves(got, p, m, n, nl2, V)
        BY <1>0, <2>1, <2>2, <2>5, <2>6, <3>1 DEF Serves
      <3> QED
        BY <3>2
    <2>7. CASE ~getEvictZone_pore(p).found
      <3>f. PICK q : q = getEvictZone_pore(p).period
        OBVIOUS
      <3>1. got = getEvictZone_pore(redefineOpenZones_pore(q))
        BY <1>p, <2>7, <3>f
      <3>2. q = PeriodWith(p, q.passport, nl2[0].pathId)
        BY <2>5, <3>f DEF Answers, OutcomeFacts, Good
      <3>3. FiveFields(q)
        <4>a. PICK a, b, c, d : a = p.progress /\ b = p.open /\ c = q.passport /\ d = nl2[0].pathId
          OBVIOUS
        <4>1. q = [progress |-> a, IsNewPeriod |-> FALSE, open |-> b, passport |-> c, winner |-> d]
          BY <3>2, <4>a DEF PeriodWith
        <4> QED
          BY <4>1 DEF FiveFields
      <3>4. Opens(redefineOpenZones_pore(q), q)
        BY <1>1, <3>3
      <3> QED
        BY <1>2, <3>1, <3>4
    <2> QED
      BY <2>6, <2>7
  <1> QED
    BY <1>3, <1>4

PoreOut ==
  /\ \E c \in Names : \E n : OutStep(c, n, valid \ valid')
  /\ PorePeriod' /\ EvictsOldestKnown_pore

\* A block that leaves takes nothing from what the tree knows.
LEMMA OutKeepsUses ==
  ASSUME StampInv, NEW batch, clearDesp(batch), StampGlobal' = StampGlobal, FlagsInv
  PROVE  LaterUses
  <1>1. StampGlobal \in 0 .. MaxStamp /\ MaxStamp \in Nat /\ valid \subseteq Desps
    BY ZoneStrategyAssumption DEF StampInv, FlagsInv
  <1>2. ASSUME NEW d \in valid' PROVE d \in valid /\ zone'[d] = zone[d] /\ stamp'[d] = stamp[d]
    <2>1. d \in valid /\ d \notin batch /\ d \in Desps
      BY <1>1 DEF clearDesp
    <2> QED
      BY <2>1 DEF clearDesp
  <1>3. StampGlobal' \in Nat /\ StampGlobal <= StampGlobal'
    BY <1>1
  <1> QED
    BY <1>2, <1>3 DEF LaterUses

LEMMA PoreEvicts ==
  ASSUME strategy = "PORE", BaseInv, PorePeriod, NEW t \in VictimTypes, LogOut_pore(t)
  PROVE  PoreOut
  <1>1. /\ FlagsInv /\ ListsInv /\ StampInv /\ HeatInv /\ Stamps /\ Zoned = valid
    BY DEF BaseInv, Stamps, Zoned, Separates
  <1>2. MayAsk(t) /\ asked' = t /\ strategy' = strategy /\ StampGlobal' = StampGlobal /\ alive' = alive
    BY DEF LogOut_pore
  <1>3. valid = Desps /\ valid # {} /\ alive
    BY <1>1, <1>2, AskedFor
  <1>g. PICK got : Chosen(got) /\ EvictTail_pore(got.period, got.zone, links.tail[got.zone])
    <2>1. \E p \in {IF period.progress % Cycle_Length = 0 THEN redefineOpenZones_pore(period) ELSE period} :
            \E first \in {getEvictZone_pore(p)} :
              \E got \in {IF first.found THEN first ELSE getEvictZone_pore(redefineOpenZones_pore(first.period))} :
                EvictTail_pore(got.period, got.zone, links.tail[got.zone])
      BY DEF LogOut_pore
    <2> QED
      BY <2>1 DEF Chosen
  <1>4. PICK p, m, n, nl, W : Serves(got, p, m, n, nl, W)
    BY <1>3, <1>g, PoreChooses
  <1>5. /\ Good(got, p, m, n, nl, W) /\ got.found /\ got.zone = p.open[nl[0].pathId + 1]
        /\ nl[0].despId = links.tail[got.zone]
        /\ p.progress \in Nat /\ p.progress # 0 /\ Len(p.open) <= NZones
    BY <1>4 DEF Serves, Answers, OutcomeFacts
  <1>q. PICK q : q = got.period
    OBVIOUS
  <1>6. /\ q = PeriodWith(p, q.passport, nl[0].pathId) /\ Merges(q.passport, p.open, m, n, nl, W)
        /\ ~Losers!NoWinner(q.passport)
    BY <1>5, <1>q DEF Good
  <1>7. WinnerFacts(q.passport, p.open, m, n, nl, W) /\ p.open \in Seq(Zones) /\ n \in Nat
        /\ StampGlobal \in 0 .. MaxStamp
    <2>1. StampGlobal \in 0 .. MaxStamp
      BY <1>1 DEF StampInv
    <2>2. WinnerFacts(q.passport, p.open, m, n, nl, W)
      BY <1>6, <2>1, WinnerIs
    <2> QED
      BY <1>6, <2>1, <2>2, PowerOfTwo DEF Merges
  <1>z. PICK z : z = got.zone
    OBVIOUS
  <1>d. PICK d : d = links.tail[z]
    OBVIOUS
  <1>8. z \in Zones /\ z \in Names /\ d \in Desps /\ d = nl[0].despId /\ z # CleanCtrl
    <2>w. PICK w : w = nl[0].pathId
      OBVIOUS
    <2>1. w \in 0 .. n - 1 /\ w < Len(p.open) /\ Known(nl[0], p.open[w + 1], w)
      BY <1>6, <1>7, <2>w DEF WinnerFacts
    <2>2. w + 1 \in 1 .. Len(p.open) /\ z = p.open[w + 1]
      BY <1>5, <1>7, <1>z, <2>1, <2>w
    <2> QED
      BY <1>5, <1>7, <1>z, <1>d, <2>1, <2>2, NamesAre DEF Known
  <1>9. Len(Lists[z]) > 0
    <2>1. d # Nil
      BY <1>8, NilIsNone
    <2>2. links.tail[z] = Nil <=> Len(Lists[z]) = 0
      BY <1>8, CountedOnes
    <2>3. Len(Lists[z]) \in Nat
      BY <1>1, <1>8, ListedOnes
    <2> QED
      BY <1>d, <2>1, <2>2, <2>3
  <1>10. Leaves(z, 1, Without(links, d, z), {d})
    BY <1>8, <1>9, <1>d, TailLeaves
  <1>11. /\ links' = Without(links, d, z) /\ clearDesp({d})
         /\ zoneheat' = [zoneheat EXCEPT ![z] = @ - heat[d]]
         /\ IF flag[d]
              THEN /\ period' = [q EXCEPT !.progress = @ + 1]
                   /\ pagecnt_dirty' = [pagecnt_dirty EXCEPT ![z] = @ - 1]
                   /\ UNCHANGED pagecnt_clean
              ELSE /\ period' = q
                   /\ pagecnt_clean' = [pagecnt_clean EXCEPT ![z] = @ - 1]
                   /\ UNCHANGED pagecnt_dirty
    BY <1>g, <1>q, <1>z, <1>d DEF EvictTail_pore, unloadfromZone_pore
  <1>12. {d} \subseteq valid /\ valid \ valid' = {d}
    BY <1>3, <1>8, <1>11 DEF clearDesp
  <1>13. OutStep(z, 1, {d})
    <2>1. zoneheat' = [zoneheat EXCEPT ![z] = @ - HeatSum(heat, {d})]
      BY <1>1, <1>8, <1>11, HeatOne DEF HeatInv
    <2>2. flag[d] <=> d \in dirty
      BY <1>1, <1>8 DEF FlagsInv
    <2>3. Cardinality({d}) = 1 /\ Cardinality({}) = 0
      BY FS_Singleton, FS_EmptySet
    <2>0. pagecnt_dirty \in [Zones -> Nat] /\ pagecnt_clean \in [Names -> Nat]
      BY CountedOnes
    <2>4. pagecnt_dirty' = [pagecnt_dirty EXCEPT ![z] = @ - Cardinality({d} \cap dirty)]
          /\ pagecnt_clean' = [pagecnt_clean EXCEPT ![z] = @ - Cardinality({d} \ dirty)]
      <3>1. CASE flag[d]
        <4>1. {d} \cap dirty = {d} /\ {d} \ dirty = {}
          BY <2>2, <3>1
        <4>2. Cardinality({d} \cap dirty) = 1 /\ Cardinality({d} \ dirty) = 0
          BY <2>3, <4>1
        <4> QED
          BY <1>8, <1>11, <2>0, <3>1, <4>2
      <3>2. CASE ~flag[d]
        <4>1. {d} \cap dirty = {} /\ {d} \ dirty = {d}
          BY <2>2, <3>2
        <4>2. Cardinality({d} \cap dirty) = 0 /\ Cardinality({d} \ dirty) = 1
          BY <2>3, <4>1
        <4> QED
          BY <1>8, <1>11, <2>0, <3>2, <4>2
      <3> QED
        BY <3>1, <3>2
    <2>5. /\ 1 \in 1 .. Grain /\ 1 <= Len(Lists[z]) /\ {d} = ToSet(Lists[z]) \ ToSet(Kept(Lists, z, 1))
          /\ Chained(links', WithList(Lists, z, Kept(Lists, z, 1)))
      BY <1>10, <1>11 DEF Leaves
    <2>6. MayAsk(asked') /\ asked' \in VictimTypes
      BY <1>2
    <2> QED
      BY <1>2, <1>8, <1>11, <2>1, <2>4, <2>5, <2>6 DEF OutStep
  <1>14. /\ period'.IsNewPeriod = FALSE /\ period'.open = p.open /\ period'.passport = q.passport
         /\ period'.winner = nl[0].pathId /\ period'.progress \in Nat
         /\ period' = [progress |-> period'.progress, IsNewPeriod |-> period'.IsNewPeriod,
                       open |-> period'.open, passport |-> period'.passport, winner |-> period'.winner]
    <2>a. PICK a, b, c, e : a = p.progress /\ b = p.open /\ c = q.passport /\ e = nl[0].pathId
      OBVIOUS
    <2>1. q = [progress |-> a, IsNewPeriod |-> FALSE, open |-> b, passport |-> c, winner |-> e]
      BY <1>6, <2>a DEF PeriodWith
    <2>2. period' = q \/ period' = [q EXCEPT !.progress = @ + 1]
      BY <1>11
    <2>3. \/ period' = [progress |-> a, IsNewPeriod |-> FALSE, open |-> b, passport |-> c, winner |-> e]
          \/ period' = [progress |-> a + 1, IsNewPeriod |-> FALSE, open |-> b, passport |-> c, winner |-> e]
      BY <2>1, <2>2
    <2>4. a \in Nat /\ a + 1 \in Nat
      BY <1>5, <2>a
    <2>5. CASE period' = [progress |-> a, IsNewPeriod |-> FALSE, open |-> b, passport |-> c, winner |-> e]
      BY <2>4, <2>5, <2>a
    <2>6. CASE period' = [progress |-> a + 1, IsNewPeriod |-> FALSE, open |-> b, passport |-> c, winner |-> e]
      BY <2>4, <2>6, <2>a
    <2> QED
      BY <2>3, <2>5, <2>6
  <1>15. PorePeriod'
    <2>1. LaterUses
      BY <1>1, <1>2, <1>11, OutKeepsUses
    <2>s. PICK tree : tree = q.passport
      OBVIOUS
    <2>o. PICK open : open = p.open
      OBVIOUS
    <2>2. Merges(tree, open, m, n, nl, W)'
      <3>1. StampGlobal \in Nat
        BY <1>7
      <3>2. Merges(tree, open, m, n, nl, W)
        BY <1>6, <2>s, <2>o
      <3> QED
        BY <2>1, <3>1, <3>2, MergesKept
    <2>3. Losers!NoWinner(tree)' = Losers!NoWinner(tree)
      BY DEF Losers!NoWinner, Losers!Winner, Losers!OVERFLOW_LEAF_VALUE
    <2>4. period'.passport = tree /\ period'.open = open
      BY <1>14, <2>s, <2>o
    <2>5. /\ Merges(period.passport, period.open, m, n, nl, W)'
          /\ ~Losers!NoWinner(period.passport)' /\ period'.winner = nl[0].pathId
      BY <1>6, <1>14, <2>2, <2>3, <2>4, <2>s
    <2>6. InUse(period)'
      BY <1>5, <1>14, <2>5 DEF InUse
    <2> QED
      BY <1>2, <1>3, <1>14, <2>6 DEF PorePeriod, FiveFields
  <1>16. EvictsOldestKnown_pore
    <2>1. Losers!Winner(period'.passport) = nl[0] /\ nl[0].despId = d
      BY <1>7, <1>8, <1>14 DEF WinnerFacts
    <2>2. q.passport.non_leafs = nl /\ nl \in [0 .. n - 1 -> Entries]
      BY <1>6 DEF Merges, TreeOf, Played
    <2>3. ASSUME NEW i \in LivePaths_pore(period'), NEW e \in Of(period'.open[i], valid)
          PROVE  nl[0].value <= stamp[e]
      <3>1. i \in 1 .. Len(p.open) /\ e \in Of(p.open[i], valid)
        BY <1>14, <2>3 DEF LivePaths_pore, Of
      <3>2. PICK x \in 0 .. n - 1 : nl[x].pathId = i - 1 /\ nl[x].value # MaxStamp + 1
        <4>1. PICK f \in Range(nl) : f.pathId = i - 1 /\ f.value # Losers!OVERFLOW_LEAF_VALUE
          BY <1>14, <2>2 DEF LivePaths_pore
        <4>2. PICK x \in 0 .. n - 1 : f = nl[x]
          BY <2>2, <4>1 DEF Range
        <4> QED
          BY <4>1, <4>2 DEF Losers!OVERFLOW_LEAF_VALUE
      <3>3. \A g \in valid : stamp[g] \in Nat
        BY <1>1, <1>3 DEF StampInv
      <3> QED
        BY <1>6, <1>7, <3>1, <3>2, <3>3, OldestOfKnown
    <2> QED
      BY <1>12, <2>1, <2>3 DEF EvictsOldestKnown_pore
  <1> QED
    BY <1>8, <1>12, <1>13, <1>15, <1>16 DEF PoreOut

-----------------------------------------------------------------------------
\* A call of LogIn or Hit: no block leaves, and the period goes on as it was.
Quiet ==
  /\ UNCHANGED <<strategy, period, alive, asked>> /\ alive
  /\ valid \ valid' = {} /\ dirty \ valid' = {} /\ dirty \ dirty' = {}
  /\ pagecnt_dirty \in [Zones -> Nat] /\ pagecnt_dirty' \in [Zones -> Nat]
  /\ \A z \in Zones : pagecnt_dirty'[z] >= pagecnt_dirty[z]
  /\ strategy = "PORE" => LaterUses

LEMMA TicksAreLater ==
  ASSUME StampInv, FlagsInv, Stamps, NEW d \in Desps, Ticks(d), valid' = valid \cup {d},
         \A e \in valid \ {d} : zone'[e] = zone[e]
  PROVE  LaterUses
  <1>1. /\ StampGlobal \in Nat /\ StampGlobal' = StampGlobal + 1
        /\ stamp \in [Desps -> 0 .. MaxStamp] /\ stamp' = [stamp EXCEPT ![d] = StampGlobal']
        /\ valid \subseteq Desps
    BY ZoneStrategyAssumption DEF StampInv, FlagsInv, Ticks, Stamp
  <1>2. StampGlobal' \in Nat /\ StampGlobal <= StampGlobal'
    BY <1>1
  <1>3. ASSUME NEW e \in valid'
        PROVE  \/ e \in valid /\ zone'[e] = zone[e] /\ stamp'[e] = stamp[e]
               \/ stamp'[e] = StampGlobal'
    <2>1. CASE e = d
      BY <1>1, <2>1
    <2>2. CASE e # d
      <3>1. e \in valid /\ zone'[e] = zone[e] /\ e \in Desps
        BY <1>1, <2>2
      <3> QED
        BY <1>1, <2>2, <3>1
    <2> QED
      BY <2>1, <2>2
  <1> QED
    BY <1>2, <1>3 DEF LaterUses

LEMMA EntersQuietly ==
  ASSUME BaseInv, NEW d \in Desps, NEW z \in Zones, NEW isDirty \in BOOLEAN, EnterStep(d, z, isDirty)
  PROVE  Quiet
  <1>1. FlagsInv /\ StampInv /\ pagecnt_dirty \in [Zones -> Nat]
    BY CountedOnes DEF BaseInv
  <1>2. /\ UNCHANGED <<strategy, period, alive, asked>> /\ alive
        /\ valid' = valid \cup {d} /\ dirty' = (IF isDirty THEN dirty \cup {d} ELSE dirty)
        /\ zone' = [zone EXCEPT ![d] = z] /\ Ticks(d)
        /\ pagecnt_dirty' = IF isDirty THEN [pagecnt_dirty EXCEPT ![z] = @ + 1] ELSE pagecnt_dirty
    BY DEF EnterStep, Enter
  <1>3. valid \ valid' = {} /\ dirty \ valid' = {} /\ dirty \ dirty' = {}
    BY <1>1, <1>2 DEF FlagsInv
  <1>4. pagecnt_dirty' \in [Zones -> Nat] /\ \A y \in Zones : pagecnt_dirty'[y] >= pagecnt_dirty[y]
    BY <1>1, <1>2
  <1>5. strategy = "PORE" => LaterUses
    <2>1. \A e \in valid \ {d} : zone'[e] = zone[e]
      BY <1>1, <1>2 DEF FlagsInv
    <2>2. strategy = "PORE" => Stamps
      BY DEF Stamps
    <2> QED
      BY <1>1, <1>2, <2>1, <2>2, TicksAreLater
  <1> QED
    BY <1>1, <1>2, <1>3, <1>4, <1>5 DEF Quiet

LEMMA HitsQuietly ==
  ASSUME BaseInv, NEW d \in Desps, NEW isDirty \in BOOLEAN, HitStep(d, isDirty)
  PROVE  Quiet
  <1>1. FlagsInv /\ StampInv /\ pagecnt_dirty \in [Zones -> Nat]
    BY CountedOnes DEF BaseInv
  <1>2. /\ UNCHANGED <<strategy, period, alive, asked, valid, zone>> /\ alive /\ d \in valid
        /\ dirty' = (IF isDirty THEN dirty \cup {d} ELSE dirty) /\ Ticks(d)
    BY DEF HitStep, Access
  <1>3. valid \ valid' = {} /\ dirty \ valid' = {} /\ dirty \ dirty' = {} /\ valid' = valid \cup {d}
    BY <1>1, <1>2 DEF FlagsInv
  <1>4. pagecnt_dirty' \in [Zones -> Nat] /\ \A y \in Zones : pagecnt_dirty'[y] >= pagecnt_dirty[y]
    <2>1. \/ pagecnt_dirty' = [pagecnt_dirty EXCEPT ![zone[d]] = @ + 1]
          \/ pagecnt_dirty' = pagecnt_dirty
      BY DEF HitStep, counts
    <2>2. zone[d] \in Zones
      BY <1>1, <1>2 DEF FlagsInv
    <2> QED
      BY <1>1, <2>1, <2>2
  <1>5. strategy = "PORE" => LaterUses
    <2>1. \A e \in valid \ {d} : zone'[e] = zone[e]
      BY <1>2
    <2>2. strategy = "PORE" => Stamps
      BY DEF Stamps
    <2> QED
      BY <1>1, <1>2, <1>3, <2>1, <2>2, TicksAreLater
  <1> QED
    BY <1>1, <1>2, <1>3, <1>4, <1>5 DEF Quiet

\* What each strategy keeps between the calls, and all of them.
PeriodInv ==
  /\ strategy = "MOST" => MostPeriod
  /\ strategy = "MOST_RW" => MostRwPeriod
  /\ strategy = "PORE" => PorePeriod
  /\ strategy = "PORE_PLUS" => PorePlusPeriod
  /\ strategy = "PORE_PLUS_V2" => PorePlusV2Period

ZoneInv == BaseInv /\ PeriodInv

\* The calls as the lists see them.
Calls ==
  \/ \E d \in Desps, z \in Zones, isDirty \in BOOLEAN : EnterStep(d, z, isDirty)
  \/ \E d \in Desps, isDirty \in BOOLEAN : HitStep(d, isDirty)
  \/ strategy \in {"MOST_RW", "PORE_PLUS_V2"} /\ Astray
  \/ \E c \in Names : \E n :
       /\ OutStep(c, n, valid \ valid')
       /\ strategy = "MOST_RW" => IF asked' = "Dirty" THEN c # CleanCtrl ELSE c = CleanCtrl

\* What is true of the victims of each strategy.
Victims ==
  /\ strategy = "MOST" => valid \ valid' = {} \/ FromFullest(valid)
  /\ strategy = "MOST_RW" => valid \ valid' = {} \/ FromFullest(dirty)
  /\ strategy = "PORE_PLUS" /\ period.isWholeZone => \A d \in valid \ valid' :
       d \in dirty /\ zone[d] = period.open[period.CurEvictZoneSeq]
  /\ EvictsOldestKnown_pore /\ EvictsOldestOpen_plus_v2

Step == Calls /\ PeriodInv' /\ Victims

LEMMA PoreKeeps ==
  ASSUME PorePeriod, StampInv, LaterUses, UNCHANGED <<period, alive>>
  PROVE  PorePeriod'
  <1>1. StampGlobal \in Nat
    BY ZoneStrategyAssumption DEF StampInv
  <1>2. ASSUME InUse(period) PROVE InUse(period)'
    <2>1. PICK m, n, nl, W : /\ Merges(period.passport, period.open, m, n, nl, W)
                             /\ ~Losers!NoWinner(period.passport) /\ period.winner = nl[0].pathId
      BY <1>2 DEF InUse
    <2>s. PICK tree : tree = period.passport
      OBVIOUS
    <2>o. PICK open : open = period.open
      OBVIOUS
    <2>2. Merges(tree, open, m, n, nl, W)
      BY <2>1, <2>s, <2>o
    <2>3. Merges(tree, open, m, n, nl, W)'
      BY <1>1, <2>2, MergesKept
    <2>4. Losers!NoWinner(tree)' = Losers!NoWinner(tree)
      BY DEF Losers!NoWinner, Losers!Winner, Losers!OVERFLOW_LEAF_VALUE
    <2>5. period'.passport = tree /\ period'.open = open /\ period' = period
      BY <2>s, <2>o
    <2>6. /\ Merges(period.passport, period.open, m, n, nl, W)'
          /\ ~Losers!NoWinner(period.passport)' /\ period'.winner = nl[0].pathId
      BY <2>1, <2>3, <2>4, <2>5, <2>s
    <2> QED
      BY <1>2, <2>5, <2>6 DEF InUse
  <1> QED
    BY <1>2 DEF PorePeriod, FiveFields

LEMMA QuietKeeps ==
  ASSUME ZoneInv, Quiet
  PROVE  PeriodInv' /\ Victims
  <1>0. StampInv /\ alive /\ alive' = alive /\ period' = period /\ strategy' = strategy
    BY DEF ZoneInv, BaseInv, Quiet
  <1>1. strategy = "MOST" => MostPeriod'
    BY <1>0 DEF ZoneInv, PeriodInv, MostPeriod
  <1>2. strategy = "MOST_RW" => MostRwPeriod'
    BY <1>0 DEF ZoneInv, PeriodInv, MostRwPeriod
  <1>3. strategy = "PORE" => PorePeriod'
    BY <1>0, PoreKeeps DEF ZoneInv, PeriodInv, Quiet
  <1>4. strategy = "PORE_PLUS" => PorePlusPeriod'
    BY <1>0, PorePlusKeeps DEF ZoneInv, PeriodInv, Quiet
  <1>5. strategy = "PORE_PLUS_V2" => PorePlusV2Period'
    BY <1>0 DEF ZoneInv, PeriodInv, PorePlusV2Period, PorePlusV2Periods
  <1>6. PeriodInv'
    BY <1>0, <1>1, <1>2, <1>3, <1>4, <1>5 DEF PeriodInv
  <1>7. Victims
    BY DEF Quiet, Victims, EvictsOldestKnown_pore, EvictsOldestOpen_plus_v2
  <1> QED
    BY <1>6, <1>7

LEMMA CallsQuietly ==
  ASSUME ZoneInv,
         \/ \E d \in Desps, z \in Zones, isDirty \in BOOLEAN : EnterStep(d, z, isDirty)
         \/ \E d \in Desps, isDirty \in BOOLEAN : HitStep(d, isDirty)
  PROVE  Step
  <1>1. Quiet
    BY EntersQuietly, HitsQuietly DEF ZoneInv
  <1>2. Calls
    BY DEF Calls
  <1> QED
    BY <1>1, <1>2, QuietKeeps DEF Step

-----------------------------------------------------------------------------
\* Each step of a strategy is such a call.
LEMMA MostSteps ==
  ASSUME strategy = "MOST", ZoneInv, Next_most
  PROVE  Step
  <1>2. BaseInv
    BY DEF ZoneInv
  <1>3. ASSUME NEW d \in Desps, NEW z \in Zones, NEW isDirty \in BOOLEAN, LogIn_most(d, z, isDirty) PROVE Step
    <2>1. EnterStep(d, z, isDirty)
      BY <1>2, <1>3, MostCalls
    <2> QED
      BY <2>1, CallsQuietly
  <1>4. ASSUME NEW d \in Desps, NEW isDirty \in BOOLEAN, HitIn_most(d, isDirty) PROVE Step
    <2>1. \E z \in Zones : TRUE
      BY ZoneStrategyAssumption DEF Zones
    <2>2. HitStep(d, isDirty)
      BY <1>2, <1>4, <2>1, MostCalls
    <2> QED
      BY <2>2, CallsQuietly
  <1>5. ASSUME NEW t \in VictimTypes, LogOut_most(t) PROVE Step
    <2>3. LogOut_most(t) /\ t \in VictimTypes
      BY <1>5
    <2>4. Step
      <3>1. MostOut
        BY <2>3, MostEvicts DEF ZoneInv, PeriodInv
      <3>2. PICK c, n : c \in Names /\ OutStep(c, n, valid \ valid')
        BY <3>1 DEF MostOut
      <3>3. strategy' = strategy
        BY <3>2 DEF OutStep
      <3>4. Calls
        BY <3>2 DEF Calls
      <3>5. PeriodInv'
        BY <3>1, <3>3 DEF MostOut, PeriodInv
      <3>6. Victims
        BY <3>1 DEF MostOut, Victims, EvictsOldestKnown_pore, EvictsOldestOpen_plus_v2
      <3> QED
        BY <3>4, <3>5, <3>6 DEF Step
    <2> QED
      BY <2>4
  <1> QED
    BY <1>3, <1>4, <1>5 DEF Next_most

LEMMA MostRwSteps ==
  ASSUME strategy = "MOST_RW", ZoneInv, Next_most_rw
  PROVE  Step
  <1>2. BaseInv
    BY DEF ZoneInv
  <1>3. ASSUME NEW d \in Desps, NEW z \in Zones, NEW isDirty \in BOOLEAN, LogIn_most_rw(d, z, isDirty) PROVE Step
    <2>1. EnterStep(d, z, isDirty)
      BY <1>2, <1>3, MostRwCalls
    <2> QED
      BY <2>1, CallsQuietly
  <1>4. ASSUME NEW d \in Desps, NEW isDirty \in BOOLEAN, HitIn_most_rw(d, isDirty) PROVE Step
    <2>1. \E z \in Zones : TRUE
      BY ZoneStrategyAssumption DEF Zones
    <2>2. HitStep(d, isDirty)
      BY <1>2, <1>4, <2>1, MostRwCalls
    <2> QED
      BY <2>2, CallsQuietly
  <1>5. ASSUME NEW t \in VictimTypes, LogOut_most_rw(t) PROVE Step
    <2>3. LogOut_most_rw(t) /\ t \in VictimTypes
      BY <1>5
    <2>4. Step
      <3>1. MostRwOut
        BY <2>3, MostRwEvicts DEF ZoneInv, PeriodInv
      <3>2. CASE Astray
        <4>1. strategy' = strategy /\ Calls
          BY <3>2 DEF Astray, Calls
        <4>2. PeriodInv'
          BY <3>1, <4>1 DEF MostRwOut, PeriodInv
        <4>3. Victims
          BY <3>1 DEF MostRwOut, Victims, EvictsOldestKnown_pore, EvictsOldestOpen_plus_v2
        <4> QED
          BY <4>1, <4>2, <4>3 DEF Step
      <3>3. ASSUME NEW c \in Names, NEW n, OutStep(c, n, valid \ valid'),
                   IF asked' = "Dirty" THEN c # CleanCtrl ELSE c = CleanCtrl
            PROVE  Step
        <4>1. strategy' = strategy /\ Calls
          BY <3>3 DEF OutStep, Calls
        <4>2. PeriodInv'
          BY <3>1, <4>1 DEF MostRwOut, PeriodInv
        <4>3. Victims
          BY <3>1 DEF MostRwOut, Victims, EvictsOldestKnown_pore, EvictsOldestOpen_plus_v2
        <4> QED
          BY <4>1, <4>2, <4>3 DEF Step
      <3> QED
        BY <3>1, <3>2, <3>3 DEF MostRwOut
    <2> QED
      BY <2>4
  <1> QED
    BY <1>3, <1>4, <1>5 DEF Next_most_rw

LEMMA PoreSteps ==
  ASSUME strategy = "PORE", ZoneInv, Next_pore
  PROVE  Step
  <1>2. BaseInv
    BY DEF ZoneInv
  <1>3. ASSUME NEW d \in Desps, NEW z \in Zones, NEW isDirty \in BOOLEAN, LogIn_pore(d, z, isDirty) PROVE Step
    <2>1. EnterStep(d, z, isDirty)
      BY <1>2, <1>3, PoreCalls
    <2> QED
      BY <2>1, CallsQuietly
  <1>4. ASSUME NEW d \in Desps, NEW isDirty \in BOOLEAN, HitIn_pore(d, isDirty) PROVE Step
    <2>1. \E z \in Zones : TRUE
      BY ZoneStrategyAssumption DEF Zones
    <2>2. HitStep(d, isDirty)
      BY <1>2, <1>4, <2>1, PoreCalls
    <2> QED
      BY <2>2, CallsQuietly
  <1>5. ASSUME NEW t \in VictimTypes, LogOut_pore(t) PROVE Step
    <2>3. LogOut_pore(t) /\ t \in VictimTypes
      BY <1>5
    <2>4. Step
      <3>1. PoreOut
        BY <2>3, PoreEvicts DEF ZoneInv, PeriodInv
      <3>2. PICK c, n : c \in Names /\ OutStep(c, n, valid \ valid')
        BY <3>1 DEF PoreOut
      <3>3. strategy' = strategy
        BY <3>2 DEF OutStep
      <3>4. Calls
        BY <3>2 DEF Calls
      <3>5. PeriodInv'
        BY <3>1, <3>3 DEF PoreOut, PeriodInv
      <3>6. Victims
        BY <3>1 DEF PoreOut, Victims, EvictsOldestOpen_plus_v2
      <3> QED
        BY <3>4, <3>5, <3>6 DEF Step
    <2> QED
      BY <2>4
  <1> QED
    BY <1>3, <1>4, <1>5 DEF Next_pore

LEMMA PorePlusSteps ==
  ASSUME strategy = "PORE_PLUS", ZoneInv, Next_plus
  PROVE  Step
  <1>2. BaseInv
    BY DEF ZoneInv
  <1>3. ASSUME NEW d \in Desps, NEW z \in Zones, NEW isDirty \in BOOLEAN, LogIn_plus(d, z, isDirty) PROVE Step
    <2>1. EnterStep(d, z, isDirty)
      BY <1>2, <1>3, PorePlusCalls
    <2> QED
      BY <2>1, CallsQuietly
  <1>4. ASSUME NEW d \in Desps, NEW isDirty \in BOOLEAN, HitIn_plus(d, isDirty) PROVE Step
    <2>1. \E z \in Zones : TRUE
      BY ZoneStrategyAssumption DEF Zones
    <2>2. HitStep(d, isDirty)
      BY <1>2, <1>4, <2>1, PorePlusCalls
    <2> QED
      BY <2>2, CallsQuietly
  <1>5. ASSUME NEW t \in VictimTypes, LogOut_plus(t) PROVE Step
    <2>3. LogOut_plus(t) /\ t \in VictimTypes
      BY <1>5
    <2>4. Step
      <3>1. PorePlusOut
        BY <2>3, PorePlusEvicts DEF ZoneInv, PeriodInv
      <3>2. PICK c, n : c \in Names /\ OutStep(c, n, valid \ valid')
        BY <3>1 DEF PorePlusOut
      <3>3. strategy' = strategy
        BY <3>2 DEF OutStep
      <3>4. Calls
        BY <3>2 DEF Calls
      <3>5. PeriodInv'
        BY <3>1, <3>3 DEF PorePlusOut, PeriodInv
      <3>6. Victims
        BY <3>1 DEF PorePlusOut, Victims, EvictsOldestKnown_pore, EvictsOldestOpen_plus_v2
      <3> QED
        BY <3>4, <3>5, <3>6 DEF Step
    <2> QED
      BY <2>4
  <1> QED
    BY <1>3, <1>4, <1>5 DEF Next_plus

LEMMA PorePlusV2Steps ==
  ASSUME strategy = "PORE_PLUS_V2", ZoneInv, Next_plus_v2
  PROVE  Step
  <1>2. BaseInv
    BY DEF ZoneInv
  <1>3. ASSUME NEW d \in Desps, NEW z \in Zones, NEW isDirty \in BOOLEAN, LogIn_plus_v2(d, z, isDirty) PROVE Step
    <2>1. EnterStep(d, z, isDirty)
      BY <1>2, <1>3, PorePlusV2Calls
    <2> QED
      BY <2>1, CallsQuietly
  <1>4. ASSUME NEW d \in Desps, NEW isDirty \in BOOLEAN, HitIn_plus_v2(d, isDirty) PROVE Step
    <2>1. \E z \in Zones : TRUE
      BY ZoneStrategyAssumption DEF Zones
    <2>2. HitStep(d, isDirty)
      BY <1>2, <1>4, <2>1, PorePlusV2Calls
    <2> QED
      BY <2>2, CallsQuietly
  <1>5. ASSUME NEW t \in VictimTypes, LogOut_plus_v2(t) PROVE Step
    <2>3. LogOut_plus_v2(t) /\ t \in VictimTypes
      BY <1>5
    <2>4. Step
      <3>1. PorePlusV2Out
        BY <2>3, PorePlusV2Evicts DEF ZoneInv, PeriodInv
      <3>2. strategy' = strategy /\ Calls
        <4>1. CASE Astray
          BY <4>1 DEF Astray, Calls
        <4>2. CASE \E c \in Names : \E n : OutStep(c, n, valid \ valid')
          BY <4>2 DEF OutStep, Calls
        <4> QED
          BY <3>1, <4>1, <4>2 DEF PorePlusV2Out
      <3>5. PeriodInv'
        BY <3>1, <3>2 DEF PorePlusV2Out, PeriodInv
      <3>6. Victims
        BY <3>1 DEF PorePlusV2Out, Victims, EvictsOldestKnown_pore
      <3> QED
        BY <3>2, <3>5, <3>6 DEF Step
    <2> QED
      BY <2>4
  <1> QED
    BY <1>3, <1>4, <1>5 DEF Next_plus_v2

LEMMA StepIs ==
  ASSUME ZoneInv, Next
  PROVE  Step
  BY MostSteps, MostRwSteps, PoreSteps, PorePlusSteps, PorePlusV2Steps DEF Next


-----------------------------------------------------------------------------
\* All that hangs on the links and the flags is kept where they are.
LEMMA BaseStays ==
  ASSUME BaseInv, asked' \in VictimTypes, alive' \in BOOLEAN,
         UNCHANGED <<strategy, links, pagecnt_dirty, pagecnt_clean, zone, flag, stamp, heat, zoneheat,
                     StampGlobal, period, valid, dirty>>
  PROVE  BaseInv' /\ Lists' = Lists
  <1>1. /\ UNCHANGED <<strategy, links, pagecnt_dirty, pagecnt_clean, zone, flag, stamp, heat, zoneheat,
                      StampGlobal, period, valid, dirty>>
        /\ asked' \in VictimTypes /\ alive' \in BOOLEAN
    OBVIOUS
  <1>2. /\ TypesInv /\ FlagsInv /\ ListsInv /\ CountsInv /\ HeatInv /\ StampInv
    BY DEF BaseInv
  <1>3. /\ Lists' = Lists /\ Zoned' = Zoned /\ (Separates' <=> Separates) /\ (Stamps' <=> Stamps)
    BY <1>1 DEF Lists, List, Zoned, Separates, Stamps
  <1>4. TypesInv'
    BY <1>1, <1>2 DEF TypesInv
  <1>5. FlagsInv'
    BY <1>1, <1>2 DEF FlagsInv
  <1>6. ListsInv'
    BY <1>1, <1>2, <1>3 DEF ListsInv, Of
  <1>7. CountsInv'
    BY <1>1, <1>2, <1>3 DEF CountsInv, Of
  <1>8. HeatInv'
    BY <1>1, <1>2, <1>3 DEF HeatInv, HeldHeat, Of
  <1>9. StampInv'
    BY <1>1, <1>2, <1>3 DEF StampInv
  <1> QED
    BY <1>3, <1>4, <1>5, <1>6, <1>7, <1>8, <1>9 DEF BaseInv

LEMMA AstrayKeeps ==
  ASSUME BaseInv, Astray
  PROVE  BaseInv' /\ Lists' = Lists
  <1>1. /\ UNCHANGED <<strategy, links, pagecnt_dirty, pagecnt_clean, zone, flag, stamp, heat, zoneheat,
                      StampGlobal, period, valid, dirty>>
    BY DEF Astray, counts, desps
  <1>2. asked' \in VictimTypes /\ alive' \in BOOLEAN
    BY DEF Astray
  <1> QED
    BY <1>1, <1>2, BaseStays

\* What a step does to the lists and to the classes.
Enters(d, z, isDirty) ==
  /\ Lists' = Pushed(Lists, d, Place(z, isDirty)) /\ \A c \in Names : d \notin ToSet(Lists[c])
  /\ Place(z, isDirty) \in Names
  /\ d \notin valid /\ valid' = valid \cup {d} /\ dirty' = IF isDirty THEN dirty \cup {d} ELSE dirty

Hits(d, isDirty) ==
  /\ \E n, c \in Names : d \in ToSet(Lists[n]) /\ Lists' = Moved(Lists, d, c)
  /\ d \in valid /\ (d \in dirty => isDirty)
  /\ valid' = valid /\ dirty' = IF isDirty THEN dirty \cup {d} ELSE dirty

Leaving(c, n, batch) ==
  /\ n \in 1 .. Grain /\ n <= Len(Lists[c]) /\ Lists' = WithList(Lists, c, Kept(Lists, c, n))
  /\ MayAsk(asked') /\ asked' \in VictimTypes
  /\ batch # {} /\ batch \subseteq valid /\ Cardinality(batch) = n /\ batch = valid \ valid'
  /\ valid' = valid \ batch /\ dirty' = dirty \ batch
  /\ strategy = "MOST_RW" => IF asked' = "Dirty" THEN batch \subseteq dirty ELSE batch \cap dirty = {}

Effect ==
  \/ \E d \in Desps, z \in Zones, isDirty \in BOOLEAN : Enters(d, z, isDirty)
  \/ \E d \in Desps, isDirty \in BOOLEAN : Hits(d, isDirty)
  \/ Lists' = Lists /\ valid' = valid /\ dirty' = dirty
  \/ \E c \in Names : \E n, batch : Leaving(c, n, batch)

LEMMA CallsKeep ==
  ASSUME BaseInv, Calls
  PROVE  BaseInv' /\ Effect
  <1>1. ASSUME NEW d \in Desps, NEW z \in Zones, NEW isDirty \in BOOLEAN, EnterStep(d, z, isDirty)
        PROVE  BaseInv' /\ Effect
    <2>1. EnterResult(d, z, isDirty)
      BY <1>1, EnterBase
    <2>2. Place(z, isDirty) \in Names
      BY NamesAre DEF Place
    <2>3. Enters(d, z, isDirty)
      BY <1>1, <2>1, <2>2 DEF EnterResult, EnterStep, Enter, Enters
    <2> QED
      BY <2>1, <2>3 DEF EnterResult, Effect
  <1>2. ASSUME NEW d \in Desps, NEW isDirty \in BOOLEAN, HitStep(d, isDirty)
        PROVE  BaseInv' /\ Effect
    <2>1. HitResult(d, isDirty)
      BY <1>2, HitBase
    <2>2. d \in valid /\ (d \in dirty => isDirty) /\ valid' = valid
          /\ dirty' = (IF isDirty THEN dirty \cup {d} ELSE dirty)
      BY <1>2 DEF HitStep, Access
    <2>3. Place(zone[d], flag[d]) \in Names /\ Place(zone[d], flag[d] \/ isDirty) \in Names
      BY <2>2, NamesAre DEF Place, BaseInv, FlagsInv
    <2>4. Hits(d, isDirty)
      BY <2>1, <2>2, <2>3 DEF HitResult, Hits
    <2> QED
      BY <2>1, <2>4 DEF HitResult, Effect
  <1>3. ASSUME Astray PROVE BaseInv' /\ Effect
    <2>1. BaseInv' /\ Lists' = Lists
      BY <1>3, AstrayKeeps
    <2>2. valid' = valid /\ dirty' = dirty
      BY <1>3 DEF Astray
    <2> QED
      BY <2>1, <2>2 DEF Effect
  <1>4. ASSUME NEW c \in Names, NEW n, NEW batch, batch = valid \ valid', OutStep(c, n, batch),
               strategy = "MOST_RW" => IF asked' = "Dirty" THEN c # CleanCtrl ELSE c = CleanCtrl
        PROVE  BaseInv' /\ Effect
    <2>1. OutResult(c, n, batch)
      BY <1>4, OutBase
    <2>2. OutSets(c, n, batch)
      BY <2>1 DEF OutResult
    <2>3. strategy = "MOST_RW" => IF asked' = "Dirty" THEN batch \subseteq dirty ELSE batch \cap dirty = {}
      <3>1. strategy = "MOST_RW" => Zoned = dirty
        BY DEF Zoned, Separates
      <3>2. c = CleanCtrl => batch \subseteq valid \ Zoned
        BY <2>2 DEF OutSets
      <3>3. c # CleanCtrl => batch \subseteq Zoned
        BY <2>2 DEF OutSets, Of
      <3> QED
        BY <1>4, <3>1, <3>2, <3>3
    <2>4. Leaving(c, n, batch)
      BY <1>4, <2>1, <2>2, <2>3 DEF OutResult, OutSets, OutStep, Leaving
    <2> QED
      BY <2>1, <2>4 DEF OutResult, Effect
  <1> QED
    BY <1>1, <1>2, <1>3, <1>4 DEF Calls

\* Each strategy is initialised alike.
LEMMA ZoneInit ==
  ASSUME Init
  PROVE  ZoneInv /\ InitDesps
  <1>1. CASE Init_most
    <2>1. strategy = "MOST" /\ InitDesps /\ period = [progress |-> 0, chosen |-> NoZone]
      BY <1>1 DEF Init_most
    <2>2. BaseInv /\ alive
      BY <2>1, InitBase DEF Strategies, InitDesps
    <2> QED
      BY <2>1, <2>2 DEF ZoneInv, PeriodInv, MostPeriod
  <1>2. CASE Init_most_rw
    <2>1. strategy = "MOST_RW" /\ InitDesps /\ period = [progress |-> 0, clean |-> 0, chosen |-> NoZone]
      BY <1>2 DEF Init_most_rw
    <2>2. BaseInv /\ alive
      BY <2>1, InitBase DEF Strategies, InitDesps
    <2> QED
      BY <2>1, <2>2 DEF ZoneInv, PeriodInv, MostRwPeriod
  <1>3. CASE Init_pore
    <2>1. strategy = "PORE" /\ InitDesps
          /\ period = [progress |-> 0, IsNewPeriod |-> FALSE, open |-> << >>, passport |-> NoTree_pore, winner |-> 0]
      BY <1>3 DEF Init_pore
    <2>2. BaseInv /\ alive
      BY <2>1, InitBase DEF Strategies, InitDesps
    <2>3. FiveFields(period) /\ period.progress = 0
      BY <2>1 DEF FiveFields
    <2> QED
      BY <2>1, <2>2, <2>3 DEF ZoneInv, PeriodInv, PorePeriod
  <1>4. CASE Init_plus
    <2>1. strategy = "PORE_PLUS" /\ InitDesps
      BY <1>4 DEF Init_plus
    <2>2. BaseInv /\ alive
      BY <2>1, InitBase DEF Strategies, InitDesps
    <2>3. PorePlusPeriod
      BY <1>4, <2>2, ZoneStrategyAssumption
      DEF Init_plus, PorePlusPeriod, PorePlusPeriods, HasVictims, IsInjective
    <2> QED
      BY <2>1, <2>2, <2>3 DEF ZoneInv, PeriodInv
  <1>5. CASE Init_plus_v2
    <2>1. strategy = "PORE_PLUS_V2" /\ InitDesps
      BY <1>5 DEF Init_plus_v2
    <2>2. BaseInv /\ alive
      BY <2>1, InitBase DEF Strategies, InitDesps
    <2>3. PorePlusV2Period
      BY <1>5, <2>2, ZoneStrategyAssumption DEF Init_plus_v2, PorePlusV2Period, PorePlusV2Periods
    <2> QED
      BY <2>1, <2>2, <2>3 DEF ZoneInv, PeriodInv
  <1> QED
    BY <1>1, <1>2, <1>3, <1>4, <1>5 DEF Init

-----------------------------------------------------------------------------
LEMMA ZoneStep == ZoneInv /\ [Next]_vars => ZoneInv'
  <1> SUFFICES ASSUME ZoneInv, [Next]_vars PROVE ZoneInv'
    OBVIOUS
  <1>1. CASE Next
    <2>1. Calls /\ PeriodInv'
      BY <1>1, StepIs DEF Step
    <2>2. BaseInv'
      BY <2>1, CallsKeep DEF ZoneInv
    <2> QED
      BY <2>1, <2>2 DEF ZoneInv
  <1>2. CASE UNCHANGED vars
    <2>1. Quiet \/ ~alive
      <3>1. UNCHANGED <<strategy, period, alive, asked, valid, dirty, pagecnt_dirty, zone, stamp, StampGlobal>>
        BY <1>2 DEF vars, counts, desps
      <3>2. pagecnt_dirty \in [Zones -> Nat] /\ dirty \subseteq valid /\ valid \subseteq Desps
        BY CountedOnes DEF ZoneInv, BaseInv, FlagsInv
      <3>3. StampGlobal \in Nat
        BY ZoneStrategyAssumption DEF ZoneInv, BaseInv, StampInv
      <3>4. LaterUses
        BY <3>1, <3>3 DEF LaterUses
      <3>5. \A z \in Zones : pagecnt_dirty'[z] >= pagecnt_dirty[z]
        BY <3>1, <3>2
      <3>6. valid \ valid' = {} /\ dirty \ valid' = {} /\ dirty \ dirty' = {}
        BY <3>1, <3>2
      <3> QED
        BY <3>1, <3>2, <3>4, <3>5, <3>6 DEF Quiet
    <2>2. BaseInv'
      <3>1. /\ UNCHANGED <<strategy, links, pagecnt_dirty, pagecnt_clean, zone, flag, stamp, heat, zoneheat,
                            StampGlobal, period, valid, dirty, asked, alive>>
        BY <1>2 DEF vars, counts, desps
      <3> QED
        BY <3>1, BaseStays DEF ZoneInv, BaseInv, TypesInv
    <2>3. PeriodInv'
      <3>1. CASE alive
        BY <2>1, <3>1, QuietKeeps
      <3>2. CASE ~alive
        <4>1. UNCHANGED <<strategy, period, alive, dirty, zone, stamp, StampGlobal>>
          BY <1>2 DEF vars, counts, desps
        <4>2. strategy \in {"MOST_RW", "PORE_PLUS_V2"}
          BY <3>2 DEF ZoneInv, BaseInv, TypesInv, Strategies, PeriodInv, MostPeriod, PorePeriod, PorePlusPeriod
        <4>3. strategy = "MOST_RW" => MostRwPeriod'
          BY <4>1 DEF ZoneInv, PeriodInv, MostRwPeriod
        <4>4. strategy = "PORE_PLUS_V2" => PorePlusV2Period'
          <5>1. FindsNoZone_plus_v2' <=> FindsNoZone_plus_v2
            BY <4>1 DEF FindsNoZone_plus_v2, Of
          <5> QED
            BY <4>1, <5>1 DEF ZoneInv, PeriodInv, PorePlusV2Period, PorePlusV2Periods
        <4> QED
          BY <4>1, <4>2, <4>3, <4>4 DEF PeriodInv
      <3> QED
        BY <3>1, <3>2
    <2> QED
      BY <2>2, <2>3 DEF ZoneInv
  <1> QED
    BY <1>1, <1>2

\* The lists, flags, counters, heat and stamps of the strategies by zones stay as
\* BaseInv says, and what each keeps from call to call as PeriodInv says.
THEOREM ZoneInvariant == Spec => []ZoneInv
  BY ZoneInit, ZoneStep, PTL DEF Spec

\* The strategies by zones never break their linked lists: each shows the same
\* blocks from both ends, those of its zone or class, and the counters of a zone
\* and its heat are those of its blocks (most.c, most_rw.c, pore.c, pore_plus.c,
\* pore_plus_v2.c).
THEOREM ZoneListsSound == Spec => []ListsSound
  <1>1. ZoneInv => ListsSound
    BY BaseSound DEF ZoneInv
  <1> QED
    BY <1>1, ZoneInvariant, PTL

\* The search for a victim of MOST, PORE and PORE_PLUS always comes to a block;
\* that of MOST_RW fails in a period that has no zone, that of PORE_PLUS_V2 where
\* it passes over the block used last (getEvictZone(), LogOut).
THEOREM ZonesNeverLost == Spec => []NeverLost
  <1>1. ZoneInv => NeverLost
    BY DEF ZoneInv, BaseInv, TypesInv, Strategies, PeriodInv, NeverLost, MostPeriod, MostRwPeriod, PorePeriod,
       PorePlusPeriod, PorePlusV2Period
  <1> QED
    BY <1>1, ZoneInvariant, PTL

\* What victims a period of MOST and MOST_RW begins with: those of a fullest zone
\* (redefineOpenZones(), getEvictZone()).
THEOREM ZonesTakeFullest == Spec => NewPeriodTakesFullest
  <1> DEFINE Fullest ==
        LET batch == valid \ valid'
            begins == \/ period'.chosen # period.chosen
                      \/ PeriodVictims' # PeriodVictims + Cardinality(batch)
            z == period'.chosen
        IN  strategy \in {"MOST", "MOST_RW"} /\ batch # {} /\ begins =>
              IF Counted = {} THEN z = NoZone
              ELSE \A y \in Zones : Cardinality(Of(y, Counted)) <= Cardinality(Of(z, Counted))
  <1>1. ZoneInv /\ [Next]_vars => [Fullest]_vars
    <2> SUFFICES ASSUME ZoneInv, Next PROVE Fullest
      OBVIOUS
    <2>1. Victims
      BY StepIs DEF Step
    <2> QED
      BY <2>1 DEF Victims, FromFullest, Begins, Counted
  <1> QED
    BY <1>1, ZoneInvariant, PTL DEF Spec, NewPeriodTakesFullest

\* LogOut of MOST_RW takes a dirty block only if it is called with ENUM_B_Dirty.
THEOREM ZonesDirtyOnlyByName == Spec => DirtyOnlyByName
  <1> DEFINE ByName == strategy = "MOST_RW" /\ dirty \ dirty' # {} => asked' = "Dirty"
  <1>1. ZoneInv /\ [Next]_vars => [ByName]_vars
    <2> SUFFICES ASSUME ZoneInv, Next PROVE ByName
      OBVIOUS
    <2>1. Effect
      BY StepIs, CallsKeep DEF Step, ZoneInv
    <2> QED
      BY <2>1 DEF Effect, Enters, Hits, Leaving
  <1> QED
    BY <1>1, ZoneInvariant, PTL DEF Spec, DirtyOnlyByName

\* The victim of PORE is the one its loser tree names, no later used than any
\* block of the open zones the tree still has a path for; that of PORE_PLUS_V2 is
\* the dirty block of the open zones used first (getEvictZone(), LogOut).
THEOREM ZonesEvictOldestKnown == Spec => EvictsOldestKnown
  <1>1. ZoneInv /\ [Next]_vars => [EvictsOldestKnown_pore /\ EvictsOldestOpen_plus_v2]_vars
    BY StepIs DEF Step, Victims
  <1> QED
    BY <1>1, ZoneInvariant, PTL DEF Spec, EvictsOldestKnown

\* While PORE_PLUS empties a zone its victims are dirty blocks of this zone alone
\* (getEvictZone(), isWholeZone).
THEOREM ZonesLeaveWhole == Spec => WholeZoneLeaves
  <1> DEFINE Whole == strategy = "PORE_PLUS" /\ period.isWholeZone /\ valid \ valid' # {} =>
                        \A d \in valid \ valid' :
                          d \in dirty /\ zone[d] = period.open[period.CurEvictZoneSeq]
  <1>1. ZoneInv /\ [Next]_vars => [Whole]_vars
    BY StepIs DEF Step, Victims
  <1> QED
    BY <1>1, ZoneInvariant, PTL DEF Spec, WholeZoneLeaves

-----------------------------------------------------------------------------
\* The lists as ListOrder sees them.
LEMMA OrderShares ==
  /\ \A s : Order!ToSet(s) = ToSet(s)
  /\ \A s, d : Order!RemoveFirst(s, d) = RemoveFirst(s, d)
  <1>1. \A s : Order!ToSet(s) = ToSet(s)
    BY DEF Order!ToSet, ToSet
  <1>2. ASSUME NEW s, NEW d PROVE Order!RemoveFirst(s, d) = RemoveFirst(s, d)
    <2>1. Order!SelectInSeq(s, LAMBDA v : v = d) = SelectInSeq(s, LAMBDA v : v = d)
      BY DEF Order!SelectInSeq, SelectInSeq, Order!Min, Min
    <2> QED
      BY <2>1 DEF Order!RemoveFirst, RemoveFirst, Order!RemoveAt, RemoveAt
  <1> QED
    BY <1>1, <1>2

LEMMA EffectOrders ==
  ASSUME Effect, Lists \in [Names -> Seq(Desps)]
  PROVE  [Order!Next]_Lists
  <1>0. /\ \A s : Order!ToSet(s) = ToSet(s)
        /\ \A s, d : Order!RemoveFirst(s, d) = RemoveFirst(s, d)
        /\ \A c : Order!Members(c) = ToSet(Lists[c])
    BY OrderShares DEF Order!Members
  <1>1. ASSUME NEW d \in Desps, NEW z \in Zones, NEW isDirty \in BOOLEAN, Enters(d, z, isDirty)
        PROVE  Order!Next
    <2>1. PICK c \in Names : c = Place(z, isDirty)
      BY <1>1 DEF Enters
    <2>2. Lists' = [Lists EXCEPT ![c] = <<d>> \o @] /\ \A n \in Names : d \notin Order!Members(n)
      BY <1>0, <1>1, <2>1 DEF Enters, Pushed
    <2>3. Order!LogIn(d, c)
      BY <2>2 DEF Order!LogIn
    <2> QED
      BY <2>3 DEF Order!Next
  <1>2. ASSUME NEW d \in Desps, NEW isDirty \in BOOLEAN, Hits(d, isDirty)
        PROVE  Order!Next
    <2>1. PICK n, c \in Names : d \in ToSet(Lists[n]) /\ Lists' = Moved(Lists, d, c)
      BY <1>2 DEF Hits
    <2>2. \E e \in Names : d \in Order!Members(e)
      BY <1>0, <2>1
    <2>3. Lists' = [e \in Names |-> LET rest == Order!RemoveFirst(Lists[e], d)
                                   IN  IF e = c THEN <<d>> \o rest ELSE rest]
      BY <1>0, <2>1 DEF Moved
    <2>4. Order!HitIn(d, c)
      BY <2>2, <2>3 DEF Order!HitIn
    <2> QED
      BY <2>4 DEF Order!Next
  <1>3. ASSUME NEW c \in Names, NEW n, NEW batch, Leaving(c, n, batch)
        PROVE  Order!Next
    <2>1. n \in 1 .. Grain /\ n <= Len(Lists[c])
          /\ Lists' = [Lists EXCEPT ![c] = SubSeq(@, 1, Len(@) - n)]
      BY <1>3 DEF Leaving, WithList, Kept
    <2>2. Order!LogOut(c, n)
      BY <2>1 DEF Order!LogOut
    <2> QED
      BY <2>1, <2>2 DEF Order!Next
  <1> QED
    BY <1>1, <1>2, <1>3 DEF Effect

\* The linked lists of the strategies by zones are sequences ordered by the last
\* use: a used block comes to the front of one list, and victims leave from the
\* old end of one (add2ArrayHead(), move2ArrayHead(), unloadfromZone()).
THEOREM ZonesImplementListOrder == Spec => ImplementsListOrder
  <1>1. Init => Order!Init
    <2> SUFFICES ASSUME Init PROVE Order!Init
      OBVIOUS
    <2>1. InitDesps /\ strategy \in Strategies
      BY ZoneInit DEF ZoneInv, BaseInv, TypesInv
    <2> QED
      BY <2>1, InitBase DEF Order!Init
  <1>2. ZoneInv /\ [Next]_vars => [Order!Next]_Lists
    <2> SUFFICES ASSUME ZoneInv, [Next]_vars PROVE [Order!Next]_Lists
      OBVIOUS
    <2>1. CASE UNCHANGED vars
      BY <2>1 DEF vars, Lists, List
    <2>2. CASE Next
      <3>1. Effect
        BY <2>2, StepIs, CallsKeep DEF Step, ZoneInv
      <3>2. Lists \in [Names -> Seq(Desps)]
        BY DEF ZoneInv, BaseInv, ListsInv, Chained
      <3> QED
        BY <3>1, <3>2, EffectOrders
    <2> QED
      BY <2>1, <2>2
  <1> QED
    BY <1>1, <1>2, ZoneInvariant, PTL DEF Spec, ImplementsListOrder, Order!Spec

-----------------------------------------------------------------------------
\* What a strategy takes for dirty and for clean is so in the cache.
Held == HeldDirty = dirty /\ HeldClean = valid \ dirty /\ dirty \subseteq valid /\ valid \subseteq Desps

LEMMA HeldIs == BaseInv => Held
  <1> SUFFICES ASSUME BaseInv PROVE Held
    OBVIOUS
  <1>1. /\ dirty \subseteq valid /\ valid \subseteq Desps
        /\ \A d \in Desps : flag[d] <=> d \in dirty
        /\ \A d \in valid : zone[d] \in Zones
    BY DEF BaseInv, FlagsInv
  <1>2. CASE ~Separates
    BY <1>1, <1>2 DEF Held, HeldDirty, HeldClean
  <1>3. CASE Separates
    <2>1. /\ ToSet(List(CleanCtrl)) = valid \ Zoned
          /\ \A z \in Zones : ToSet(List(z)) = Of(z, Zoned)
      BY BaseSound DEF ListsSound
    <2>2. Zoned = dirty
      BY <1>3 DEF Zoned
    <2>3. HeldClean = valid \ dirty
      BY <1>3, <2>1, <2>2 DEF HeldClean
    <2>4. HeldDirty = dirty
      <3>1. HeldDirty = UNION {Of(z, dirty) : z \in Zones}
        BY <1>3, <2>1, <2>2 DEF HeldDirty
      <3>2. ASSUME NEW d \in dirty PROVE d \in UNION {Of(z, dirty) : z \in Zones}
        BY <1>1 DEF Of
      <3>3. ASSUME NEW d \in UNION {Of(z, dirty) : z \in Zones} PROVE d \in dirty
        BY DEF Of
      <3> QED
        BY <3>1, <3>2, <3>3
    <2> QED
      BY <1>1, <2>3, <2>4 DEF Held
  <1> QED
    BY <1>2, <1>3

\* A call as EvictStrategy allows it.
Allowed ==
  LET batch == valid \ valid'
  IN  IF batch = {} THEN Honours!Next \/ UNCHANGED <<HeldClean, HeldDirty>>
      ELSE IF strategy = "MOST_RW" THEN Honours!LogOut(asked', batch)
      ELSE Ignores!LogOut(asked', batch)

LEMMA EffectAllowed ==
  ASSUME Effect, Held, Held'
  PROVE  Allowed
  <1>1. /\ HeldDirty = dirty /\ HeldClean = valid \ dirty
        /\ HeldDirty' = dirty' /\ HeldClean' = valid' \ dirty'
        /\ dirty \subseteq valid /\ valid \subseteq Desps
    BY DEF Held
  <1>2. ASSUME NEW d \in Desps, NEW z \in Zones, NEW isDirty \in BOOLEAN, Enters(d, z, isDirty)
        PROVE  Allowed
    <2>1. d \notin valid /\ valid' = valid \cup {d} /\ dirty' = IF isDirty THEN dirty \cup {d} ELSE dirty
      BY <1>2 DEF Enters
    <2>2. /\ HeldClean' = IF isDirty THEN HeldClean \ {d} ELSE HeldClean \cup {d}
          /\ HeldDirty' = IF isDirty THEN HeldDirty \cup {d} ELSE HeldDirty \ {d}
      BY <1>1, <2>1
    <2>3. Honours!LogIn(d, isDirty)
      BY <1>1, <2>1, <2>2 DEF Honours!LogIn, Honours!Resident, Honours!Classify
    <2>4. valid \ valid' = {}
      BY <2>1
    <2> QED
      BY <2>3, <2>4 DEF Allowed, Honours!Next
  <1>3. ASSUME NEW d \in Desps, NEW isDirty \in BOOLEAN, Hits(d, isDirty)
        PROVE  Allowed
    <2>1. /\ d \in valid /\ (d \in dirty => isDirty) /\ valid' = valid
          /\ dirty' = IF isDirty THEN dirty \cup {d} ELSE dirty
      BY <1>3 DEF Hits
    <2>2. /\ HeldClean' = IF isDirty THEN HeldClean \ {d} ELSE HeldClean \cup {d}
          /\ HeldDirty' = IF isDirty THEN HeldDirty \cup {d} ELSE HeldDirty \ {d}
      BY <1>1, <2>1
    <2>3. Honours!HitIn(d, isDirty)
      BY <1>1, <2>1, <2>2 DEF Honours!HitIn, Honours!Resident, Honours!Classify
    <2>4. valid \ valid' = {}
      BY <2>1
    <2> QED
      BY <2>3, <2>4 DEF Allowed, Honours!Next
  <1>4. CASE Lists' = Lists /\ valid' = valid /\ dirty' = dirty
    BY <1>1, <1>4 DEF Allowed
  <1>5. ASSUME NEW c \in Names, NEW n, NEW batch, Leaving(c, n, batch)
        PROVE  Allowed
    <2>1. /\ batch # {} /\ batch = valid \ valid' /\ batch \subseteq valid
          /\ valid' = valid \ batch /\ dirty' = dirty \ batch
          /\ n \in 1 .. Grain /\ Cardinality(batch) = n
          /\ strategy = "MOST_RW" => IF asked' = "Dirty" THEN batch \subseteq dirty ELSE batch \cap dirty = {}
      BY <1>5 DEF Leaving
    <2>2. /\ valid = Desps /\ asked' \in {"Clean", "Dirty", "Any"}
          /\ asked' \in {"Clean", "Any"} => valid # dirty
          /\ asked' \in {"Dirty", "Any"} => dirty # {}
      BY <1>5 DEF Leaving, MayAsk, VictimTypes
    <2>3. HeldClean' = HeldClean \ batch /\ HeldDirty' = HeldDirty \ batch
      BY <1>1, <2>1
    <2>4. HeldClean \cup HeldDirty = Desps
      BY <1>1, <2>2
    <2>5. (asked' \in {"Clean", "Any"} => HeldClean # {}) /\ (asked' \in {"Dirty", "Any"} => HeldDirty # {})
      BY <1>1, <2>2
    <2>6. n <= Grain /\ Honours!Cardinality(batch) = n /\ Ignores!Cardinality(batch) = n
      <3>1. Honours!Cardinality(batch) = Cardinality(batch) /\ Ignores!Cardinality(batch) = Cardinality(batch)
        BY DEF Honours!Cardinality, Ignores!Cardinality, Cardinality
      <3> QED
        BY <2>1, <3>1
    <2>7. CASE strategy = "MOST_RW"
      <3>1. Honours!Answerable(asked')
        BY <2>4, <2>5 DEF Honours!Answerable, Honours!Resident
      <3>2. batch \subseteq Honours!Candidates(asked')
        BY <1>1, <2>1, <2>2, <2>4, <2>7 DEF Honours!Candidates, Honours!Resident
      <3>3. Honours!LogOut(asked', batch)
        BY <2>1, <2>3, <2>6, <3>1, <3>2 DEF Honours!LogOut
      <3> QED
        BY <2>1, <2>7, <3>3 DEF Allowed
    <2>8. CASE strategy # "MOST_RW"
      <3>1. Ignores!Answerable(asked')
        BY <2>4, <2>5 DEF Ignores!Answerable, Ignores!Resident
      <3>2. batch \subseteq Ignores!Candidates(asked')
        BY <2>1, <2>2, <2>4 DEF Ignores!Candidates, Ignores!Resident
      <3>3. Ignores!LogOut(asked', batch)
        BY <2>1, <2>3, <2>6, <3>1, <3>2 DEF Ignores!LogOut
      <3> QED
        BY <2>1, <2>8, <3>3 DEF Allowed
    <2> QED
      BY <2>7, <2>8
  <1> QED
    BY <1>2, <1>3, <1>4, <1>5 DEF Effect

\* Each call of a strategy by zones is one the cache may rely on: what it holds
\* as dirty and clean follows the calls, and what leaves is cached, no more than
\* asked for and, for MOST_RW, of the class asked for.
THEOREM ZonesAreEvictStrategies == Spec => IsEvictStrategy
  <1>1. Init => Honours!Init
    <2> SUFFICES ASSUME Init PROVE Honours!Init
      OBVIOUS
    <2>1. valid = {} /\ dirty = {} /\ Held
      BY ZoneInit, HeldIs DEF ZoneInv, InitDesps
    <2> QED
      BY <2>1 DEF Held, Honours!Init
  <1>2. ZoneInv /\ ZoneInv' /\ [Next]_vars => [Allowed]_vars
    <2> SUFFICES ASSUME ZoneInv, ZoneInv', Next PROVE Allowed
      OBVIOUS
    <2>1. Effect
      BY StepIs, CallsKeep DEF Step, ZoneInv
    <2>2. Held
      BY HeldIs DEF ZoneInv
    <2>3. BaseInv' => Held'
      BY HeldIs, PTL
    <2> QED
      BY <2>1, <2>2, <2>3, EffectAllowed DEF ZoneInv
  <1> QED
    BY <1>1, <1>2, ZoneInvariant, PTL DEF Spec, IsEvictStrategy, Allowed
=============================================================================
