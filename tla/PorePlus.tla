------------------------------ MODULE PorePlus ------------------------------
(***************************************************************************)
(* strategy/pore_plus.c.  Clean blocks in one list, dirty blocks in one    *)
(* list for each zone.  A period is of one of three kinds: it evicts clean *)
(* blocks only, or also dirty blocks of the open zones, which are those    *)
(* mostly covered by dirty blocks or, when clean blocks run short, all     *)
(* zones.  A zone whose first block has left is evicted whole.  Victims    *)
(* leave one by one; the victim type is not looked at.                     *)
(***************************************************************************)
EXTENDS ZoneStrategy

CONSTANTS
  plus_Dirty_Threshold,   \* ZONEBLKSZ * 0.8
  plus_Clean_LowBound,    \* NBLOCK_SSD_CACHE * 0.2
  plus_Clean_UpBound      \* NBLOCK_SSD_CACHE * 0.8

\* InitPORE_plus().  OpenZoneSet is not filled, and CurEvictModel is the first
\* of EnumEvictModel, until the first period starts.
Init_plus ==
  /\ strategy = "PORE_PLUS" /\ InitDesps
  /\ period = [progress |-> 0, open |-> << >>, CurEvictZoneSeq |-> 1,
               CurEvictModel |-> "CLEAN_ONLY", isWholeZone |-> FALSE]

add2ArrayHead_plus(l, d, z)  == WithHead(l, d, z)
unloadfromZone_plus(l, d, z) == Without(l, d, z)
move2ArrayHead_plus(l, d, z) == add2ArrayHead_plus(unloadfromZone_plus(l, d, z), d, z)
add2CleanArrayHead_plus(l, d)   == WithHead(l, d, CleanCtrl)
unloadfromCleanArray_plus(l, d) == Without(l, d, CleanCtrl)
move2CleanArrayHead_plus(l, d)  == add2CleanArrayHead_plus(unloadfromCleanArray_plus(l, d), d)

\* LogInPoreBuffer_plus(), for a block of zone z
LogIn_plus(d, z, isDirty) ==
  /\ Enter(d, z, isDirty)
  /\ Stamp(d)
  /\ IF isDirty
       THEN /\ links' = add2ArrayHead_plus(links, d, z)
            /\ pagecnt_dirty' = [pagecnt_dirty EXCEPT ![z] = @ + 1]
            /\ UNCHANGED pagecnt_clean
       ELSE /\ links' = add2CleanArrayHead_plus(links, d)
            /\ pagecnt_clean' = [pagecnt_clean EXCEPT ![CleanCtrl] = @ + 1]
            /\ UNCHANGED pagecnt_dirty
  /\ UNCHANGED <<heat, zoneheat>>

\* HitPoreBuffer_plus()
HitIn_plus(d, isDirty) ==
  /\ Access(d, isDirty)
  /\ Stamp(d)
  /\ IF ~flag[d] /\ isDirty
       THEN /\ links' = add2ArrayHead_plus(unloadfromCleanArray_plus(links, d), d, zone[d])
            /\ pagecnt_dirty' = [pagecnt_dirty EXCEPT ![zone[d]] = @ + 1]
            /\ pagecnt_clean' = [pagecnt_clean EXCEPT ![CleanCtrl] = @ - 1]
            /\ Heat(d, zone[d])
     ELSE IF ~flag[d]
       THEN links' = move2CleanArrayHead_plus(links, d) /\ UNCHANGED <<counts, heat, zoneheat>>
     ELSE /\ links' = move2ArrayHead_plus(links, d, zone[d])
          /\ Heat(d, zone[d])
          /\ UNCHANGED counts

\* pause_and_caculate_weight_sizedivhot()
score_plus ==
  [z \in Zones |-> (pagecnt_dirty[z] * pagecnt_dirty[z] * 1000000) \div (zoneheat[z] + 1)]

ZoneSortArray_plus == SortedZones(pagecnt_dirty, score_plus)

\* redefineOpenZones(): down an order the zones that are covered, up to the
\* first zone that is too large for what is left of the period's length.
OpenZoneSet_plus(order) ==
  LET walk[n \in 0 .. Len(order)] ==
        IF n = 0 THEN [open |-> << >>, blks |-> 0, stop |-> FALSE]
        ELSE LET w == walk[n - 1]
                 z == order[n]
             IN  IF w.stop \/ pagecnt_dirty[z] + w.blks > Cycle_Length
                   THEN [w EXCEPT !.stop = TRUE]
                 ELSE IF pagecnt_dirty[z] >= plus_Dirty_Threshold
                   THEN [w EXCEPT !.open = Append(@, z), !.blks = @ + pagecnt_dirty[z]]
                 ELSE w
  IN  walk[Len(order)].open

\* From NEWPERIOD on: the kind of the period, and its open zones, which are
\* those of the order when clean blocks run short and no zone is covered.
Period_plus(order, covered, clean) ==
  LET model == IF clean < plus_Clean_LowBound
                 THEN IF covered = << >> THEN "HYBRID_ALL" ELSE "HYBRID_OpZone"
               ELSE IF clean > plus_Clean_UpBound \/ covered = << >>
                 THEN "CLEAN_ONLY" ELSE "HYBRID_OpZone"
  IN  [progress |-> 1, CurEvictZoneSeq |-> 1, isWholeZone |-> FALSE,
       CurEvictModel |-> model,
       open |-> IF model = "HYBRID_ALL" THEN order ELSE covered]

NewPeriod_plus(order) == Period_plus(order, OpenZoneSet_plus(order), pagecnt_clean[CleanCtrl])

\* Faulty variant: the length of a period is looked at within a zone, too.
PeriodNow_CutsZone_plus ==
  IF \/ period.progress >= Cycle_Length
     \/ period.CurEvictModel = "CLEAN_ONLY" /\ pagecnt_clean[CleanCtrl] = 0
  THEN NewPeriod_plus(ZoneSortArray_plus) ELSE period

\* A period that only evicts clean blocks also ends when there are none.
PeriodNow_plus ==
  IF \/ period.progress >= Cycle_Length /\ ~period.isWholeZone
     \/ period.CurEvictModel = "CLEAN_ONLY" /\ pagecnt_clean[CleanCtrl] = 0
  THEN NewPeriod_plus(ZoneSortArray_plus) ELSE period

random_choose_plus(stampA, stampB) == stampA <= stampB

EvictClean_plus(p) ==
  LET d == links.tail[CleanCtrl]
  IN  /\ links' = unloadfromCleanArray_plus(links, d)
      /\ pagecnt_clean' = [pagecnt_clean EXCEPT ![CleanCtrl] = @ - 1]
      /\ period' = [p EXCEPT !.progress = @ + 1]
      /\ clearDesp({d})
      /\ UNCHANGED <<pagecnt_dirty, zoneheat>>

\* Faulty variant: the open zone is kept when its last block has left.
AfterDirty_SameZone_plus(p, z) ==
  IF pagecnt_dirty[z] > 1
  THEN [p EXCEPT !.isWholeZone = TRUE, !.progress = @ + 1]
  ELSE [p EXCEPT !.isWholeZone = FALSE, !.progress = @ + 1]

\* A zone that is out of dirty blocks is followed by the next, the last one by
\* a new period.
AfterDirty_plus(p, z) ==
  IF pagecnt_dirty[z] > 1
  THEN [p EXCEPT !.isWholeZone = TRUE, !.progress = @ + 1]
  ELSE IF p.CurEvictZoneSeq < Len(p.open)
  THEN [p EXCEPT !.CurEvictZoneSeq = @ + 1, !.isWholeZone = FALSE, !.progress = @ + 1]
  ELSE [p EXCEPT !.isWholeZone = FALSE, !.progress = Cycle_Length + 2]

EvictDirty_plus(p, z) ==
  LET d == links.tail[z]
  IN  /\ links' = unloadfromZone_plus(links, d, z)
      /\ pagecnt_dirty' = [pagecnt_dirty EXCEPT ![z] = @ - 1]
      /\ zoneheat' = [zoneheat EXCEPT ![z] = @ - heat[d]]
      /\ period' = AfterDirty_plus(p, z)
      /\ clearDesp({d})
      /\ UNCHANGED pagecnt_clean

\* The open zone has no dirty block, and GlobalDespArray[-1] is its victim.
Lost_plus ==
  /\ alive' = FALSE
  /\ UNCHANGED <<links, counts, zone, flag, stamp, heat, zoneheat, period, valid, dirty>>

PrefersClean_plus(p, z) ==
  /\ ~p.isWholeZone /\ pagecnt_clean[CleanCtrl] > 0
  /\ random_choose_plus(stamp[links.tail[CleanCtrl]], stamp[links.tail[z]])

EvictHybrid_plus(p, z) ==
  IF links.tail[z] = Nil THEN Lost_plus
  ELSE IF PrefersClean_plus(p, z) THEN EvictClean_plus(p) /\ UNCHANGED alive
  ELSE EvictDirty_plus(p, z) /\ UNCHANGED alive

\* LogOutDesp_pore_plus()
LogOut_plus(t) ==
  /\ MayAsk(t) /\ asked' = t
  /\ \E p \in {PeriodNow_plus} :
       IF p.CurEvictModel = "CLEAN_ONLY" THEN EvictClean_plus(p) /\ UNCHANGED alive
       ELSE EvictHybrid_plus(p, p.open[p.CurEvictZoneSeq])
  /\ UNCHANGED <<strategy, StampGlobal>>

Next_plus ==
  \/ \E d \in Desps, z \in Zones, isDirty \in BOOLEAN : LogIn_plus(d, z, isDirty)
  \/ \E d \in Desps, isDirty \in BOOLEAN : HitIn_plus(d, isDirty)
  \/ \E t \in VictimTypes : LogOut_plus(t)
=============================================================================
