-------------------------------- MODULE Paul --------------------------------
(***************************************************************************)
(* strategy/paul.c.  Clean blocks are ranked in one list, dirty blocks in  *)
(* one list for each zone of the SMR disk.  Evictions of dirty blocks come *)
(* in cycles: at the start of a cycle the zones with most blocks out of    *)
(* date are opened, and until the cycle ends dirty blocks leave only from  *)
(* these, so that the disk has few zones to rewrite.                       *)
(*                                                                         *)
(* The lists are sequences, head first (ZoneStrategies shows that linked   *)
(* lists behave so).  OpenZoneSet is a set: the order of the array is only *)
(* visible between zones whose tails have equal stamps, and no two         *)
(* descriptors have equal stamps.                                          *)
(***************************************************************************)
EXTENDS ZoneSort

CONSTANTS
  Desps,          \* serial numbers of the descriptors
  NZones,         \* NZONES
  ZoneBlks,       \* ZONESZ / BLKSZ: blocks of a zone
  Cycle_Length,
  Grain,          \* EVICT_DITRY_GRAIN
  MaxStamp        \* bound: calls of LogIn and HitIn

ASSUME PaulAssumption ==
  /\ IsFiniteSet(Desps) /\ NZones \in Nat \ {0} /\ ZoneBlks \in Nat \ {0}
  /\ Cycle_Length \in Nat /\ Grain \in Nat \ {0} /\ MaxStamp \in Nat

Zones == 0 .. NZones - 1
NoZone == -1
VictimTypes == {"Clean", "Dirty", "Any"}

\* The history window: a block not used for this many accesses is out of date.
Window == (8 * Cardinality(Desps)) \div 10

VARIABLES
  dirtyList, pagecnt_dirty,   \* of each ZoneCtrl_pual
  cleanList, pagecnt_clean,   \* of CleanCtrl
  activate,                   \* activate_after_n_cycles of each zone
  zone, stamp, flag,          \* of each descriptor; flag: its DIRTY bit
  StampGlobal,
  OpenZoneSet, Cycle_Progress,
  valid, dirty,   \* the flags of the cache, whose calls drive the strategy
  asked,          \* the victim type of the last call for a batch
  alive           \* usr_error() has not ended the process

lists == <<dirtyList, pagecnt_dirty, cleanList, pagecnt_clean>>
cycle == <<activate, OpenZoneSet, Cycle_Progress>>
cache == <<valid, dirty>>
vars == <<lists, cycle, zone, stamp, flag, StampGlobal, cache, asked, alive>>

TypeOK ==
  /\ dirtyList \in [Zones -> Seq(Desps)] /\ cleanList \in Seq(Desps)
  /\ pagecnt_dirty \in [Zones -> 0 .. Cardinality(Desps)]
  /\ pagecnt_clean \in 0 .. Cardinality(Desps)
  /\ activate \in [Zones -> 0 .. 2]
  /\ zone \in [Desps -> Zones \cup {NoZone}]
  /\ stamp \in [Desps -> 0 .. MaxStamp] /\ StampGlobal \in 0 .. MaxStamp
  /\ flag \in [Desps -> BOOLEAN]
  /\ OpenZoneSet \subseteq Zones /\ Cycle_Progress \in Nat
  /\ valid \subseteq Desps /\ dirty \subseteq valid
  /\ asked \in VictimTypes /\ alive \in BOOLEAN

\* Init_PUAL().  It leaves activate_after_n_cycles alone: the array is so large
\* that malloc() takes it from the system, filled with zeros.
Init ==
  /\ dirtyList = [z \in Zones |-> << >>] /\ pagecnt_dirty = [z \in Zones |-> 0]
  /\ cleanList = << >> /\ pagecnt_clean = 0
  /\ activate = [z \in Zones |-> 0]
  /\ zone = [d \in Desps |-> NoZone]
  /\ stamp = [d \in Desps |-> 0] /\ StampGlobal = 0
  /\ flag = [d \in Desps |-> FALSE]
  /\ OpenZoneSet = {} /\ Cycle_Progress = 0
  /\ valid = {} /\ dirty = {} /\ asked = "Any" /\ alive = TRUE

\* The calls of the cache: no two descriptors hold the same block, so a zone
\* has at most ZoneBlks of them.
RoomInZone(z) == Cardinality({d \in valid : zone[d] = z}) < ZoneBlks

CacheFlags(d, isDirty) ==
  /\ valid' = valid \cup {d}
  /\ dirty' = IF isDirty THEN dirty \cup {d} ELSE dirty

Stamp(d) ==
  /\ StampGlobal < MaxStamp
  /\ stamp' = [stamp EXCEPT ![d] = StampGlobal]
  /\ StampGlobal' = StampGlobal + 1

SetFlag(d, isDirty) == flag' = [flag EXCEPT ![d] = flag[d] \/ isDirty]

\* LogIn_PAUL(), for a block of zone z
LogIn(d, z, isDirty) ==
  /\ alive /\ d \notin valid /\ RoomInZone(z)
  /\ CacheFlags(d, isDirty)
  /\ zone' = [zone EXCEPT ![d] = z]
  /\ SetFlag(d, isDirty)
  /\ Stamp(d)
  /\ IF isDirty
       THEN /\ dirtyList' = [dirtyList EXCEPT ![z] = <<d>> \o @]
            /\ pagecnt_dirty' = [pagecnt_dirty EXCEPT ![z] = @ + 1]
            /\ UNCHANGED <<cleanList, pagecnt_clean>>
       ELSE /\ cleanList' = <<d>> \o cleanList
            /\ pagecnt_clean' = pagecnt_clean + 1
            /\ UNCHANGED <<dirtyList, pagecnt_dirty>>
  /\ UNCHANGED <<cycle, asked, alive>>

\* The three branches of Hit_PAUL(); z is the zone of the block.
ToDirty(d, z) ==
  /\ cleanList' = RemoveFirst(cleanList, d)
  /\ dirtyList' = [dirtyList EXCEPT ![z] = <<d>> \o @]
  /\ pagecnt_dirty' = [pagecnt_dirty EXCEPT ![z] = @ + 1]
  /\ pagecnt_clean' = pagecnt_clean - 1

CleanAgain(d) ==
  /\ cleanList' = <<d>> \o RemoveFirst(cleanList, d)
  /\ UNCHANGED <<dirtyList, pagecnt_dirty, pagecnt_clean>>

DirtyAgain(d, z) ==
  /\ dirtyList' = [dirtyList EXCEPT ![z] = <<d>> \o RemoveFirst(@, d)]
  /\ UNCHANGED <<pagecnt_dirty, cleanList, pagecnt_clean>>

\* Faulty variant: the flag is set before it is compared.
HitIn_FlagFirst(d, isDirty) ==
  /\ alive /\ d \in valid /\ (d \in dirty => isDirty)
  /\ CacheFlags(d, isDirty)
  /\ IF isDirty THEN DirtyAgain(d, zone[d]) ELSE CleanAgain(d)
  /\ Stamp(d)
  /\ SetFlag(d, isDirty)
  /\ UNCHANGED <<cycle, zone, asked, alive>>

\* Hit_PAUL(), called with the flag after the access
HitIn(d, isDirty) ==
  /\ alive /\ d \in valid /\ (d \in dirty => isDirty)
  /\ CacheFlags(d, isDirty)
  /\ IF ~flag[d] /\ isDirty THEN ToDirty(d, zone[d])
     ELSE IF ~flag[d] THEN CleanAgain(d)
     ELSE DirtyAgain(d, zone[d])
  /\ Stamp(d)
  /\ SetFlag(d, isDirty)
  /\ UNCHANGED <<cycle, zone, asked, alive>>
-----------------------------------------------------------------------------
(***************************************************************************)
(* A new cycle.                                                            *)
(***************************************************************************)

\* The zones with dirty blocks, by number.
NonEmptyZones == NonEmptyZoneIds(pagecnt_dirty, NZones)

\* All zones come one cycle closer to being opened again.
Activated == [z \in Zones |-> IF activate[z] > 0 THEN activate[z] - 1 ELSE 0]

\* pause_and_score(): the blocks of a zone that are out of date.
OOD_num ==
  [z \in Zones |->
     Cardinality({i \in 1 .. Len(dirtyList[z]) :
                    stamp[dirtyList[z][i]] < StampGlobal - Window})]

MaxOpen == IF Cycle_Length < ZoneBlks THEN 1 ELSE Cycle_Length \div ZoneBlks

\* The zones by score.
ZoneSortArray == qsort_zone(NonEmptyZones, OOD_num, 1, Len(NonEmptyZones))

\* Faulty variant: zones that were open in the last cycle are not left out.
redefineOpenZones_AnyZone ==
  LET order == ZoneSortArray
  IN  /\ OpenZoneSet' = {order[i] : i \in 1 .. Min({MaxOpen, Len(order)})}
      /\ activate' = [z \in Zones |-> IF z \in OpenZoneSet' THEN 2 ELSE Activated[z]]

\* The first zones of the order by score that were not open in the last
\* cycle, as many as fit the length of a cycle.
redefineOpenZones ==
  LET order == ZoneSortArray
      free == {i \in 1 .. Len(order) : Activated[order[i]] = 0}
  IN  /\ OpenZoneSet' =
           {order[i] : i \in {k \in free : Cardinality({j \in free : j < k}) < MaxOpen}}
      /\ activate' = [z \in Zones |-> IF z \in OpenZoneSet' THEN 2 ELSE Activated[z]]

TailStamp(z) == stamp[Last(dirtyList[z])]

\* Faulty variant: the open zone whose last block is the newest.
get_FrozenOpZone_Newest(open) ==
  LET some == {z \in open : pagecnt_dirty[z] > 0}
  IN  IF some = {} THEN NoZone
      ELSE CHOOSE z \in some : \A y \in some : TailStamp(y) <= TailStamp(z)

\* get_FrozenOpZone_Seq(): the open zone with the block unused for longest.
get_FrozenOpZone(open) ==
  LET some == {z \in open : pagecnt_dirty[z] > 0}
  IN  IF some = {} THEN NoZone
      ELSE CHOOSE z \in some : \A y \in some : TailStamp(z) <= TailStamp(y)

\* Faulty variant: the DIRTY bit of the strategy is not cleared.
clearDesp_KeepsFlag(batch) ==
  /\ zone'  = [d \in Desps |-> IF d \in batch THEN NoZone ELSE zone[d]]
  /\ stamp' = [d \in Desps |-> IF d \in batch THEN 0 ELSE stamp[d]]
  /\ UNCHANGED flag
  /\ valid' = valid \ batch
  /\ dirty' = dirty \ batch

\* clearDesp() for the descriptors of a batch, and their flags in the cache.
clearDesp(batch) ==
  /\ zone'  = [d \in Desps |-> IF d \in batch THEN NoZone ELSE zone[d]]
  /\ stamp' = [d \in Desps |-> IF d \in batch THEN 0 ELSE stamp[d]]
  /\ flag'  = [d \in Desps |-> d \notin batch /\ flag[d]]
  /\ valid' = valid \ batch
  /\ dirty' = dirty \ batch

Oldest(list, n) == ToSet(SubSeq(list, Len(list) - n + 1, Len(list)))

\* LogOut_PAUL() from FLAG_EVICT_CLEAN on
EvictClean ==
  LET n == Min({Grain, pagecnt_clean})
  IN  /\ clearDesp(Oldest(cleanList, n))
      /\ cleanList' = SubSeq(cleanList, 1, Len(cleanList) - n)
      /\ pagecnt_clean' = pagecnt_clean - n
      /\ UNCHANGED <<dirtyList, pagecnt_dirty, cycle, alive>>

\* Faulty variant: only an open zone without blocks ends the cycle.
CycleOver_Unlimited == get_FrozenOpZone(OpenZoneSet) = NoZone

CycleOver ==
  \/ get_FrozenOpZone(OpenZoneSet) = NoZone
  \/ Cycle_Progress >= Cycle_Length
  \/ Cycle_Progress = 0

\* From FLAG_EVICT_DIRTYZONE on.  When no zone could be opened, usr_error()
\* ends the process.
EvictDirty ==
  /\ IF CycleOver THEN redefineOpenZones ELSE UNCHANGED <<OpenZoneSet, activate>>
  /\ LET z == get_FrozenOpZone(OpenZoneSet')
         n == Min({Grain, pagecnt_dirty[z]})
     IN  IF z = NoZone
         THEN /\ alive' = FALSE
              /\ UNCHANGED <<lists, Cycle_Progress, zone, stamp, flag, cache>>
         ELSE /\ clearDesp(Oldest(dirtyList[z], n))
              /\ dirtyList' = [dirtyList EXCEPT ![z] = SubSeq(@, 1, Len(@) - n)]
              /\ pagecnt_dirty' = [pagecnt_dirty EXCEPT ![z] = @ - n]
              /\ Cycle_Progress' = n + IF CycleOver THEN 0 ELSE Cycle_Progress
              /\ UNCHANGED <<cleanList, pagecnt_clean, alive>>

\* LogOut_PAUL(), called as EvictStrategy!Answerable says: its checks that the
\* class asked for is not empty do not fail then.  For "Any" random_pick()
\* may name either class.
LogOut(t) ==
  /\ alive /\ valid = Desps
  /\ t \in {"Clean", "Any"} => valid # dirty
  /\ t \in {"Dirty", "Any"} => dirty # {}
  /\ asked' = t
  /\ \/ t \in {"Clean", "Any"} /\ EvictClean
     \/ t \in {"Dirty", "Any"} /\ EvictDirty
  /\ UNCHANGED StampGlobal

Next ==
  \/ \E d \in Desps, z \in Zones, isDirty \in BOOLEAN : LogIn(d, z, isDirty)
  \/ \E d \in Desps, isDirty \in BOOLEAN : HitIn(d, isDirty)
  \/ \E t \in VictimTypes : LogOut(t)

Spec == Init /\ [][Next]_vars

-----------------------------------------------------------------------------
\* Each list holds the cached descriptors of its class or zone, each once, the
\* last used first, and the counters that stop the eviction loops are the
\* lengths of the lists; the flag of the strategy, which it changes by itself,
\* is the one of the cache.
ByUse(list) == \A i, j \in 1 .. Len(list) : i < j => stamp[list[i]] > stamp[list[j]]

ListsMatchFlags ==
  /\ TypeOK
  /\ ToSet(cleanList) = valid \ dirty /\ ByUse(cleanList)
  /\ pagecnt_clean = Len(cleanList)
  /\ \A z \in Zones :
       /\ ToSet(dirtyList[z]) = {d \in dirty : zone[d] = z} /\ ByUse(dirtyList[z])
       /\ pagecnt_dirty[z] = Len(dirtyList[z])
  /\ \A d \in valid : zone[d] \in Zones /\ stamp[d] < StampGlobal
  /\ \A d \in Desps : flag[d] <=> d \in dirty

\* A cycle ends soon after its length: only the batch that reaches it may go
\* beyond it (LogOut_PAUL() looks at Cycle_Progress before a batch).  With a
\* length of 0, which main.c also takes, every batch is a cycle.
CycleEnds == Cycle_Progress < Max({Cycle_Length, 1}) + Grain

\* A new cycle opens, among the zones with dirty blocks that the last one did
\* not have open, those with most blocks out of date, as many as it may:
\* collecting, scoring, sorting and filtering come to that (redefineOpenZones()).
ColdBlocks(z) ==
  Cardinality({d \in dirty : zone[d] = z /\ stamp[d] < StampGlobal - Window})

ColdestZonesOpen ==
  [][LET can == {zone[d] : d \in dirty} \ OpenZoneSet
     IN  activate' # activate =>
           /\ OpenZoneSet' \subseteq can
           /\ Cardinality(OpenZoneSet') = Min({MaxOpen, Cardinality(can)})
           /\ \A z \in OpenZoneSet', y \in can \ OpenZoneSet' :
                ColdBlocks(z) >= ColdBlocks(y)]_vars

\* Dirty blocks leave from one open zone at a time, the one that holds the
\* oldest block of all open zones, and of that zone the oldest go.
OldestOfOpenZones ==
  [][LET batch == dirty \ dirty'
     IN  batch # {} =>
           \E z \in OpenZoneSet', oldest \in batch :
             /\ \A d \in batch : zone[d] = z
             /\ \A d \in dirty \ batch :
                  /\ zone[d] = z => \A e \in batch : stamp[e] < stamp[d]
                  /\ zone[d] \in OpenZoneSet' => stamp[oldest] < stamp[d]]_vars

\* PAUL is a replacement strategy as the cache needs one, as long as it does
\* not give up.
Calls == INSTANCE EvictStrategy WITH
           Typed <- TRUE,
           cleanSet <- ToSet(cleanList),
           dirtySet <- UNION {ToSet(dirtyList[z]) : z \in Zones}
IsEvictStrategy ==
  /\ Calls!Spec
  /\ [][valid \ valid' # {} => Calls!LogOut(asked', valid \ valid')]_vars

\* "FLAG_EVICT_DIRTYZONE error": a new cycle always has an open zone with a
\* dirty block (LogOut_PAUL(), which ends the process otherwise).
NewCycleHasVictims == alive
=============================================================================
