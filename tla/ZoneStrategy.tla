---------------------------- MODULE ZoneStrategy ----------------------------
(***************************************************************************)
(* What the strategies by zones have in common (strategy/pore.h, and the   *)
(* parts most.c, most_rw.c, pore.c, pore_plus.c and pore_plus_v2.c         *)
(* repeat): descriptors linked in lists, counters per zone, and the calls  *)
(* of the cache.  Each strategy is a module of its own over these          *)
(* variables; what it defines ends in its name, as the C functions do.     *)
(***************************************************************************)
EXTENDS ZoneSort, DespLists

CONSTANTS
  NZones,         \* NZONES
  ZoneBlks,       \* ZONESZ / BLKSZ: blocks of a zone
  Cycle_Length,
  Grain,          \* EVICT_DITRY_GRAIN: the largest batch
  MaxStamp,       \* bound: calls of LogIn and Hit where they are counted
  MaxProgress     \* bound: evictions in one period of MOST and MOST_RW

ASSUME ZoneStrategyAssumption ==
  /\ IsFiniteSet(Desps) /\ NZones \in Nat \ {0} /\ ZoneBlks \in Nat \ {0}
  /\ Cycle_Length \in Nat \ {0} /\ Grain \in Nat \ {0}
  /\ MaxStamp \in Nat /\ MaxProgress \in Nat

Zones == 0 .. NZones - 1
NoZone == -1
CleanCtrl == NZones            \* names the list of clean descriptors
Names == Zones \cup {CleanCtrl}
VictimTypes == {"Clean", "Dirty", "Any"}
Strategies == {"MOST", "MOST_RW", "PORE", "PORE_PLUS", "PORE_PLUS_V2"}

VARIABLES
  strategy,        \* EvictStrategy: the one the program was started with
  links,           \* Dscptr.pre and .next; head and tail of the control blocks
  pagecnt_dirty,   \* of each ZoneCtrl
  pagecnt_clean,   \* of each ZoneCtrl and of CleanCtrl
  zone,            \* of each descriptor: getZoneNum() of its tag
  flag,            \* of each descriptor: its DIRTY bit
  stamp, heat, zoneheat, StampGlobal,
  period,          \* the static variables of LogOut
  valid, dirty,    \* the flags of the cache, whose calls drive the strategy
  asked,           \* the victim type of the last call for victims
  alive            \* no pointer to nowhere has been followed

counts == <<pagecnt_dirty, pagecnt_clean>>
desps == <<zone, flag, stamp, heat, zoneheat, StampGlobal>>
vars == <<strategy, links, counts, desps, period, valid, dirty, asked, alive>>

TypeOK ==
  /\ strategy \in Strategies
  /\ pagecnt_dirty \in [Zones -> 0 .. Cardinality(Desps)]
  /\ pagecnt_clean \in [Names -> 0 .. Cardinality(Desps)]
  /\ zone \in [Desps -> Zones \cup {NoZone}] /\ flag \in [Desps -> BOOLEAN]
  /\ stamp \in [Desps -> 0 .. MaxStamp] /\ StampGlobal \in 0 .. MaxStamp
  /\ valid \subseteq Desps /\ dirty \subseteq valid
  /\ asked \in VictimTypes /\ alive \in BOOLEAN

\* Init_most(), Init_most_rw(), InitPORE(), InitPORE_plus(), Init_poreplus_v2()
\* alike.
InitDesps ==
  /\ links = NoLinks(Names)
  /\ pagecnt_dirty = [z \in Zones |-> 0] /\ pagecnt_clean = [c \in Names |-> 0]
  /\ zone = [d \in Desps |-> NoZone] /\ flag = [d \in Desps |-> FALSE]
  /\ stamp = [d \in Desps |-> 0] /\ heat = stamp /\ StampGlobal = 0
  /\ zoneheat = [z \in Zones |-> 0]
  /\ valid = {} /\ dirty = {} /\ asked = "Any" /\ alive = TRUE

\* LogIn is called for a free descriptor; no two descriptors hold the same
\* block, so a zone has at most ZoneBlks of them.
Enter(d, z, isDirty) ==
  /\ alive /\ d \notin valid
  /\ Cardinality({e \in valid : zone[e] = z}) < ZoneBlks
  /\ valid' = valid \cup {d}
  /\ dirty' = IF isDirty THEN dirty \cup {d} ELSE dirty
  /\ zone' = [zone EXCEPT ![d] = z]
  /\ flag' = [flag EXCEPT ![d] = @ \/ isDirty]
  /\ UNCHANGED <<strategy, period, asked, alive>>

\* Hit is called for a cached descriptor, with its flag after the access.
Access(d, isDirty) ==
  /\ alive /\ d \in valid /\ (d \in dirty => isDirty)
  /\ dirty' = IF isDirty THEN dirty \cup {d} ELSE dirty
  /\ flag' = [flag EXCEPT ![d] = @ \/ isDirty]
  /\ UNCHANGED <<strategy, valid, zone, period, asked, alive>>

Stamp(d) ==
  /\ StampGlobal < MaxStamp
  /\ StampGlobal' = StampGlobal + 1
  /\ stamp' = [stamp EXCEPT ![d] = StampGlobal']

Heat(d, z) ==
  /\ heat' = [heat EXCEPT ![d] = @ + 1]
  /\ zoneheat' = [zoneheat EXCEPT ![z] = @ + 1]

\* As EvictStrategy!Answerable says: on a full cache, and for a class that has
\* a member.
MayAsk(t) ==
  /\ alive /\ valid = Desps
  /\ t \in {"Clean", "Any"} => valid # dirty
  /\ t \in {"Dirty", "Any"} => dirty # {}

WithoutTail(t, c) ==
  LET d == t.links.tail[c]
  IN  IF d = Nil THEN t
      ELSE [links |-> Without(t.links, d, c), batch |-> Append(t.batch, d)]

\* Faulty variant: one descriptor too many.
TakeTails_OneMore(l, c, n) ==
  LET taken[k \in 0 .. n + 1] ==
        IF k = 0 THEN [links |-> l, batch |-> << >>] ELSE WithoutTail(taken[k - 1], c)
  IN  taken[n + 1]

\* Up to n descriptors from the tail of list c: the links without them, and
\* the descriptors in the order they leave.
TakeTails(l, c, n) ==
  LET taken[k \in 0 .. n] ==
        IF k = 0 THEN [links |-> l, batch |-> << >>] ELSE WithoutTail(taken[k - 1], c)
  IN  taken[n]

\* clearDesp() for the descriptors of a batch, and their flags in the cache.
clearDesp(batch) ==
  /\ zone'  = [d \in Desps |-> IF d \in batch THEN NoZone ELSE zone[d]]
  /\ stamp' = [d \in Desps |-> IF d \in batch THEN 0 ELSE stamp[d]]
  /\ heat'  = [d \in Desps |-> IF d \in batch THEN 0 ELSE heat[d]]
  /\ flag'  = [d \in Desps |-> d \notin batch /\ flag[d]]
  /\ valid' = valid \ batch
  /\ dirty' = dirty \ batch

\* extractNonEmptyZoneId() and qsort_zone(): the zones for which size is not
\* zero, by descending score.
SortedZones(size, score) ==
  LET some == NonEmptyZoneIds(size, NZones)
  IN  IF some = << >> THEN << >> ELSE qsort_zone(some, score, 1, Len(some))

\* The loser tree PORE merges its open zones with; a value is a stamp.
Losers == INSTANCE LoserTree WITH MaxValue <- MaxStamp

-----------------------------------------------------------------------------
\* MOST_RW and both PORE_PLUS keep clean blocks in a list of their own.
Separates == strategy \in {"MOST_RW", "PORE_PLUS", "PORE_PLUS_V2"}

\* The descriptors that are in the list of their zone.
Zoned == IF Separates THEN dirty ELSE valid

Of(z, class) == {d \in class : zone[d] = z}

\* The heat of these descriptors together: one for each use of each.
HeatOf(class) == Cardinality(UNION {{d} \X (1 .. heat[d]) : d \in class})

List(c) == Listed(links, c)
Lists == [c \in Names |-> List(c)]

\* Each list holds the cached descriptors of its class or zone, the same ones
\* from both ends, and the counters the loops and the scores rely on say how
\* many.  A descriptor in no list has no links: add2ArrayHead() sets neither
\* when the list is empty.  The strategy's own DIRTY bit is that of the cache,
\* and the heat of a zone, which its score is divided by, is that of its blocks;
\* PORE_PLUS_V2 leaves the heat of blocks that are gone in it.
ListsSound ==
  /\ TypeOK
  /\ \A c \in Names : WalksAgree(links, c)
  /\ \A d \in Desps \ valid : links.pre[d] = Nil /\ links.next[d] = Nil
  /\ \A d \in Desps : flag[d] <=> d \in dirty
  /\ ToSet(List(CleanCtrl)) = valid \ Zoned
  /\ pagecnt_clean[CleanCtrl] = Cardinality(valid \ Zoned)
  /\ \A z \in Zones :
       LET held == HeatOf(Of(z, Zoned))
       IN  /\ ToSet(List(z)) = Of(z, Zoned)
           /\ pagecnt_dirty[z] = Cardinality(Of(z, dirty))
           /\ pagecnt_clean[z] = Cardinality(Of(z, Zoned \ dirty))
           /\ zoneheat[z] = held \/ (strategy = "PORE_PLUS_V2" /\ zoneheat[z] > held)

\* What the strategy takes for clean and for dirty.
HeldDirty ==
  IF Separates THEN UNION {ToSet(List(z)) : z \in Zones}
  ELSE {d \in valid : flag[d]}
HeldClean ==
  IF Separates THEN ToSet(List(CleanCtrl)) ELSE {d \in valid : ~flag[d]}
=============================================================================
