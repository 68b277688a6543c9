-------------------------------- MODULE Most --------------------------------
(***************************************************************************)
(* strategy/most.c.  One list for each zone, of clean and dirty blocks.    *)
(* Evictions come in periods; in a period all victims are of the zone that *)
(* had most cached blocks when it began.  The victim type is not looked    *)
(* at.  Heat and stamps are kept but never used, and are left out.         *)
(***************************************************************************)
EXTENDS ZoneStrategy

unused_most == <<stamp, heat, zoneheat, StampGlobal>>

\* Init_most()
Init_most ==
  /\ strategy = "MOST" /\ InitDesps
  /\ period = [progress |-> 0, chosen |-> NoZone]

add2ArrayHead_most(d, z)  == links' = WithHead(links, d, z)

move2ArrayHead_most(d, z) == links' = ToHead(links, d, z)

\* LogIn_most(), for a block of zone z
LogIn_most(d, z, isDirty) ==
  /\ Enter(d, z, isDirty)
  /\ add2ArrayHead_most(d, z)
  /\ IF isDirty
       THEN /\ pagecnt_dirty' = [pagecnt_dirty EXCEPT ![z] = @ + 1]
            /\ UNCHANGED pagecnt_clean
       ELSE /\ pagecnt_clean' = [pagecnt_clean EXCEPT ![z] = @ + 1]
            /\ UNCHANGED pagecnt_dirty
  /\ UNCHANGED unused_most

\* Hit_most()
HitIn_most(d, isDirty) ==
  /\ Access(d, isDirty)
  /\ move2ArrayHead_most(d, zone[d])
  /\ IF ~flag[d] /\ isDirty
       THEN /\ pagecnt_dirty' = [pagecnt_dirty EXCEPT ![zone[d]] = @ + 1]
            /\ pagecnt_clean' = [pagecnt_clean EXCEPT ![zone[d]] = @ - 1]
       ELSE UNCHANGED counts
  /\ UNCHANGED unused_most

\* pause_and_caculate_weight_sizedivhot()
score_most == [z \in Zones |-> pagecnt_dirty[z] + pagecnt_clean[z]]

\* Faulty variant: the scores are those of dirty blocks alone.
ZoneSortArray_Dirty_most == SortedZones(score_most, pagecnt_dirty)

ZoneSortArray_most == SortedZones(score_most, score_most)

\* The zone a new period takes: redefineOpenZones() opens one.
getEvictZone_most == Head(ZoneSortArray_most)

PeriodOver_most ==
  \/ period.progress % Cycle_Length = 0
  \/ links.tail[period.chosen] = Nil

\* LogOut_most(); t is what the cache has in mind and does not pass on.
LogOut_most(t) ==
  LET z == IF PeriodOver_most THEN getEvictZone_most ELSE period.chosen
      start == IF PeriodOver_most THEN 0 ELSE period.progress
      taken == TakeTails(links, z, Grain)
      batch == ToSet(taken.batch)
  IN  /\ MayAsk(t) /\ asked' = t
      /\ start + Grain <= MaxProgress
      /\ links' = taken.links
      /\ pagecnt_dirty' = [pagecnt_dirty EXCEPT ![z] = @ - Cardinality(batch \cap {d \in Desps : flag[d]})]
      /\ pagecnt_clean' = [pagecnt_clean EXCEPT ![z] = @ - Cardinality({d \in batch : ~flag[d]})]
      /\ clearDesp(batch)
      /\ period' = [progress |-> start + Len(taken.batch), chosen |-> z]
      /\ UNCHANGED <<strategy, zoneheat, StampGlobal, alive>>

Next_most ==
  \/ \E d \in Desps, z \in Zones, isDirty \in BOOLEAN : LogIn_most(d, z, isDirty)
  \/ \E d \in Desps, isDirty \in BOOLEAN : HitIn_most(d, isDirty)
  \/ \E t \in VictimTypes : LogOut_most(t)
=============================================================================
