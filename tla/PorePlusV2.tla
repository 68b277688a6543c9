----------------------------- MODULE PorePlusV2 -----------------------------
(***************************************************************************)
(* strategy/pore_plus_v2.c.  Lists and scores are those of pore_plus.c,    *)
(* but a period always has open zones, the covered ones or else the first  *)
(* of the order.  Each victim is the oldest clean block or the oldest      *)
(* dirty block of the open zones; which one of the two is a matter of age  *)
(* until the cache was evicted once, and of the cost model afterwards.     *)
(* EVICT_DITRY_GRAIN is 1 here, and the victim type is not looked at.      *)
(***************************************************************************)
EXTENDS ZoneStrategy

CONSTANT Thresholds   \* what plus_Dirty_Threshold, ZONEBLKSZ * 0.8, may be

\* Init_poreplus_v2().  Progress_Clean counts up to Cycle_Length here, and
\* Evicted_Blk_Cnt up to the size of the cache: more is only compared with them.
Init_plus_v2 ==
  /\ strategy = "PORE_PLUS_V2" /\ InitDesps
  /\ \E t \in Thresholds :
       period = [open |-> << >>, Progress_Clean |-> 0, Progress_Dirty |-> 0,
                 Evicted_Blk_Cnt |-> 0, plus_Dirty_Threshold |-> t]

add2ArrayHead_plus_v2(l, d, z)  == WithHead(l, d, z)
unloadfromZone_plus_v2(l, d, z) == Without(l, d, z)
move2ArrayHead_plus_v2(l, d, z) == add2ArrayHead_plus_v2(unloadfromZone_plus_v2(l, d, z), d, z)
add2CleanArrayHead_plus_v2(l, d)   == WithHead(l, d, CleanCtrl)
unloadfromCleanArray_plus_v2(l, d) == Without(l, d, CleanCtrl)
move2CleanArrayHead_plus_v2(l, d)  == add2CleanArrayHead_plus_v2(unloadfromCleanArray_plus_v2(l, d), d)

\* LogIn_poreplus_v2(), for a block of zone z
LogIn_plus_v2(d, z, isDirty) ==
  /\ Enter(d, z, isDirty)
  /\ Stamp(d)
  /\ IF isDirty
       THEN /\ links' = add2ArrayHead_plus_v2(links, d, z)
            /\ pagecnt_dirty' = [pagecnt_dirty EXCEPT ![z] = @ + 1]
            /\ UNCHANGED pagecnt_clean
       ELSE /\ links' = add2CleanArrayHead_plus_v2(links, d)
            /\ pagecnt_clean' = [pagecnt_clean EXCEPT ![CleanCtrl] = @ + 1]
            /\ UNCHANGED pagecnt_dirty
  /\ UNCHANGED <<heat, zoneheat>>

\* Hit_poreplus_v2()
HitIn_plus_v2(d, isDirty) ==
  /\ Access(d, isDirty)
  /\ Stamp(d)
  /\ IF ~flag[d] /\ isDirty
       THEN /\ links' = add2ArrayHead_plus_v2(unloadfromCleanArray_plus_v2(links, d), d, zone[d])
            /\ pagecnt_dirty' = [pagecnt_dirty EXCEPT ![zone[d]] = @ + 1]
            /\ pagecnt_clean' = [pagecnt_clean EXCEPT ![CleanCtrl] = @ - 1]
            /\ Heat(d, zone[d])
     ELSE IF ~flag[d]
       THEN links' = move2CleanArrayHead_plus_v2(links, d) /\ UNCHANGED <<counts, heat, zoneheat>>
     ELSE /\ links' = move2ArrayHead_plus_v2(links, d, zone[d])
          /\ Heat(d, zone[d])
          /\ UNCHANGED counts

\* pause_and_caculate_weight_sizedivhot()
score_plus_v2 ==
  [z \in Zones |-> (pagecnt_dirty[z] * pagecnt_dirty[z] * 1000000) \div (zoneheat[z] + 1)]

ZoneSortArray_plus_v2 == SortedZones(pagecnt_dirty, score_plus_v2)

\* redefineOpenZones(): down an order the zones that are covered, up to the
\* first zone that is too large for what is left of the period's length.
OpenZoneSet_plus_v2(order) ==
  LET walk[n \in 0 .. Len(order)] ==
        IF n = 0 THEN [open |-> << >>, blks |-> 0, stop |-> FALSE]
        ELSE LET w == walk[n - 1]
                 z == order[n]
             IN  IF w.stop \/ pagecnt_dirty[z] + w.blks > Cycle_Length
                   THEN [w EXCEPT !.stop = TRUE]
                 ELSE IF pagecnt_dirty[z] >= period.plus_Dirty_Threshold
                   THEN [w EXCEPT !.open = Append(@, z), !.blks = @ + pagecnt_dirty[z]]
                 ELSE w
  IN  walk[Len(order)].open

\* From FLAG_NEWPERIOD on: HYBRID_OpZone, or HYBRID_ALL with a single zone.
\* That zone is not one of the order if no zone has dirty blocks, but then it
\* has none either and is never evicted from.
NewPeriod_plus_v2(order) ==
  LET covered == OpenZoneSet_plus_v2(order)
  IN  [period EXCEPT !.Progress_Clean = 0, !.Progress_Dirty = 0,
         !.open = IF covered # << >> THEN covered ELSE SubSeq(order, 1, Min({1, Len(order)}))]

\* Enough clean blocks before the first dirty one, or enough dirty ones.
PeriodOver_plus_v2 ==
  \/ period.Progress_Clean >= Cycle_Length /\ period.Progress_Dirty = 0
  \/ period.Progress_Dirty >= Cycle_Length
  \/ period.Progress_Clean + period.Progress_Dirty = 0

\* The open zone whose tail was used first, as a set with at most one member:
\* a tail with the stamp of the last call is passed over.
get_FrozenOpZone_Seq_plus_v2(p) ==
  LET older(seq) == IF pagecnt_dirty[p.open[seq]] = 0 THEN StampGlobal
                    ELSE stamp[links.tail[p.open[seq]]]
  IN  {seq \in DOMAIN p.open :
         /\ older(seq) < StampGlobal
         /\ \A s \in DOMAIN p.open : older(seq) <= older(s)}

random_choose_plus_v2(stampA, stampB) == stampA <= stampB

\* The classes a victim may be of, if z is the zone for dirty ones: CM_CHOOSE() is
\* free to name either.
Eligible_plus_v2(z) ==
  IF pagecnt_clean[CleanCtrl] = 0 THEN {"Dirty"}
  ELSE IF period.Evicted_Blk_Cnt = Cardinality(Desps) THEN {"Clean", "Dirty"}
  ELSE IF random_choose_plus_v2(stamp[links.tail[CleanCtrl]], stamp[links.tail[z]]) THEN {"Clean"}
  ELSE {"Dirty"}

Counted_plus_v2(p) == [p EXCEPT !.Evicted_Blk_Cnt = Min({@ + 1, Cardinality(Desps)})]

\* From FLAG_EVICT_CLEAN on
EvictClean_plus_v2(p) ==
  LET d == links.tail[CleanCtrl]
  IN  /\ links' = unloadfromCleanArray_plus_v2(links, d)
      /\ pagecnt_clean' = [pagecnt_clean EXCEPT ![CleanCtrl] = @ - 1]
      /\ period' = [Counted_plus_v2(p) EXCEPT !.Progress_Clean = Min({@ + 1, Cycle_Length})]
      /\ clearDesp({d})
      /\ UNCHANGED <<pagecnt_dirty, zoneheat>>

\* From FLAG_EVICT_DIRTYZONE on.  The heat of the zone stays as it is: clearDesp()
\* comes first, and what is taken off after it is 0.
EvictDirty_plus_v2(p, z) ==
  LET d == links.tail[z]
  IN  /\ links' = unloadfromZone_plus_v2(links, d, z)
      /\ pagecnt_dirty' = [pagecnt_dirty EXCEPT ![z] = @ - 1]
      /\ period' = [Counted_plus_v2(p) EXCEPT !.Progress_Dirty = @ + 1]
      /\ clearDesp({d})
      /\ UNCHANGED <<pagecnt_clean, zoneheat>>

Evict_plus_v2(p, z) ==
  /\ \/ "Clean" \in Eligible_plus_v2(z) /\ EvictClean_plus_v2(p)
     \/ "Dirty" \in Eligible_plus_v2(z) /\ EvictDirty_plus_v2(p, z)
  /\ UNCHANGED alive

\* goto FLAG_NEWPERIOD, for ever: the next period has no zone to take from either.
Stuck_plus_v2 ==
  /\ alive' = FALSE
  /\ UNCHANGED <<links, counts, zone, flag, stamp, heat, zoneheat, period, valid, dirty>>

\* LogOut_poreplus_v2()
LogOut_plus_v2(t) ==
  /\ MayAsk(t) /\ asked' = t
  /\ \E p \in {IF PeriodOver_plus_v2 THEN NewPeriod_plus_v2(ZoneSortArray_plus_v2) ELSE period} :
       \E q \in {IF get_FrozenOpZone_Seq_plus_v2(p) = {} THEN NewPeriod_plus_v2(ZoneSortArray_plus_v2) ELSE p} :
         \/ get_FrozenOpZone_Seq_plus_v2(q) = {} /\ Stuck_plus_v2
         \/ \E seq \in get_FrozenOpZone_Seq_plus_v2(q) : Evict_plus_v2(q, q.open[seq])
  /\ UNCHANGED <<strategy, StampGlobal>>

Next_plus_v2 ==
  \/ \E d \in Desps, z \in Zones, isDirty \in BOOLEAN : LogIn_plus_v2(d, z, isDirty)
  \/ \E d \in Desps, isDirty \in BOOLEAN : HitIn_plus_v2(d, isDirty)
  \/ \E t \in VictimTypes : LogOut_plus_v2(t)

-----------------------------------------------------------------------------
\* A dirty block leaves only if no older one is in an open zone
\* (get_FrozenOpZone_Seq()).
EvictsOldestOpen_plus_v2 ==
  strategy = "PORE_PLUS_V2" =>
    \A d \in dirty \ valid', i \in DOMAIN period'.open :
      \A e \in Of(period'.open[i], dirty) : stamp[d] <= stamp[e]

\* It does not come to a victim: no block is dirty, or one that is used last of
\* all and the only dirty one of its zone.
FindsNoZone_plus_v2 ==
  \/ dirty = {}
  \/ \E d \in dirty : stamp[d] = StampGlobal /\ Of(zone[d], dirty) = {d}
=============================================================================
