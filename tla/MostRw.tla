------------------------------- MODULE MostRw -------------------------------
(***************************************************************************)
(* strategy/most_rw.c.  As MOST, with the clean blocks of all zones in a   *)
(* list of their own, and zones chosen by their dirty blocks.  The stamps  *)
(* that choose between the two classes are read, but never set: stamp() is *)
(* declared and not defined.  Heat is kept and never read, and left out.   *)
(***************************************************************************)
EXTENDS ZoneStrategy

\* Init_most_rw()
Init_most_rw ==
  /\ strategy = "MOST_RW" /\ InitDesps
  /\ period = [progress |-> 0, clean |-> 0, chosen |-> NoZone]

add2ArrayHead_most_rw(l, d, z)  == WithHead(l, d, z)
unloadfromZone_most_rw(l, d, z) == Without(l, d, z)
move2ArrayHead_most_rw(l, d, z) == add2ArrayHead_most_rw(unloadfromZone_most_rw(l, d, z), d, z)
add2CleanArrayHead_most_rw(l, d)   == WithHead(l, d, CleanCtrl)
unloadfromCleanArray_most_rw(l, d) == Without(l, d, CleanCtrl)
move2CleanArrayHead_most_rw(l, d)  == add2CleanArrayHead_most_rw(unloadfromCleanArray_most_rw(l, d), d)

\* Faulty variant: a block that enters is stamped.
LogIn_Stamped_most_rw(d, z, isDirty) ==
  /\ Enter(d, z, isDirty)
  /\ IF isDirty
       THEN /\ links' = add2ArrayHead_most_rw(links, d, z)
            /\ pagecnt_dirty' = [pagecnt_dirty EXCEPT ![z] = @ + 1]
            /\ UNCHANGED pagecnt_clean
       ELSE /\ links' = add2CleanArrayHead_most_rw(links, d)
            /\ pagecnt_clean' = [pagecnt_clean EXCEPT ![CleanCtrl] = @ + 1]
            /\ UNCHANGED pagecnt_dirty
  /\ Stamp(d)
  /\ UNCHANGED <<heat, zoneheat>>

\* LogIn_most_rw(), for a block of zone z
LogIn_most_rw(d, z, isDirty) ==
  /\ Enter(d, z, isDirty)
  /\ IF isDirty
       THEN /\ links' = add2ArrayHead_most_rw(links, d, z)
            /\ pagecnt_dirty' = [pagecnt_dirty EXCEPT ![z] = @ + 1]
            /\ UNCHANGED pagecnt_clean
       ELSE /\ links' = add2CleanArrayHead_most_rw(links, d)
            /\ pagecnt_clean' = [pagecnt_clean EXCEPT ![CleanCtrl] = @ + 1]
            /\ UNCHANGED pagecnt_dirty
  /\ UNCHANGED <<stamp, heat, zoneheat, StampGlobal>>

\* Hit_most_rw()
HitIn_most_rw(d, isDirty) ==
  /\ Access(d, isDirty)
  /\ IF ~flag[d] /\ isDirty
       THEN /\ links' = add2ArrayHead_most_rw(unloadfromCleanArray_most_rw(links, d), d, zone[d])
            /\ pagecnt_dirty' = [pagecnt_dirty EXCEPT ![zone[d]] = @ + 1]
            /\ pagecnt_clean' = [pagecnt_clean EXCEPT ![CleanCtrl] = @ - 1]
       ELSE /\ links' = IF flag[d] THEN move2ArrayHead_most_rw(links, d, zone[d])
                                   ELSE move2CleanArrayHead_most_rw(links, d)
            /\ UNCHANGED counts
  /\ UNCHANGED <<stamp, heat, zoneheat, StampGlobal>>

\* The dirty blocks of each zone: no clean block is counted in a zone.
score_most_rw == [z \in Zones |-> pagecnt_dirty[z] + pagecnt_clean[z]]

ZoneSortArray_most_rw == SortedZones(pagecnt_dirty, score_most_rw)

\* redefineOpenZones(), getEvictZone(): NULL when no zone has a dirty block.
getEvictZone_most_rw == IF ZoneSortArray_most_rw = << >> THEN NoZone ELSE Head(ZoneSortArray_most_rw)

\* A new period by the counts; otherwise the tail of the chosen zone decides.
PeriodFull_most_rw ==
  \/ period.progress # 0 /\ period.progress % Cycle_Length = 0
  \/ period.progress = 0 /\ period.clean % Cycle_Length = 0

PeriodOver_most_rw == PeriodFull_most_rw \/ links.tail[period.chosen] = Nil

choose_colder_most_rw(stampA, stampB) == stampA <= stampB

EvictClean_most_rw(now, z) ==
  LET n == Min({Grain, pagecnt_clean[CleanCtrl]})
      taken == TakeTails(links, CleanCtrl, n)
  IN  /\ links' = taken.links
      /\ clearDesp(ToSet(taken.batch))
      /\ pagecnt_clean' = [pagecnt_clean EXCEPT ![CleanCtrl] = @ - n]
      /\ period' = [now EXCEPT !.clean = @ + n, !.chosen = z]
      /\ UNCHANGED pagecnt_dirty

EvictDirty_most_rw(now, z) ==
  LET taken == TakeTails(links, z, Grain)
      n == Len(taken.batch)
  IN  /\ links' = taken.links
      /\ clearDesp(ToSet(taken.batch))
      /\ pagecnt_dirty' = [pagecnt_dirty EXCEPT ![z] = @ - n]
      /\ period' = [now EXCEPT !.progress = @ + n, !.chosen = z]
      /\ UNCHANGED pagecnt_clean

\* chosenOpZone is NULL and is followed.
Crash_most_rw ==
  /\ alive' = FALSE
  /\ UNCHANGED <<links, counts, zone, flag, stamp, heat, period, valid, dirty>>

\* LogOut_most_rw()
LogOut_most_rw(t) ==
  /\ MayAsk(t) /\ asked' = t
  /\ UNCHANGED <<strategy, zoneheat, StampGlobal>>
  /\ IF ~PeriodFull_most_rw /\ period.chosen = NoZone THEN Crash_most_rw
     ELSE LET now == IF PeriodOver_most_rw THEN [period EXCEPT !.progress = 0, !.clean = 0]
                                           ELSE period
              z == IF PeriodOver_most_rw THEN getEvictZone_most_rw ELSE period.chosen
              any == choose_colder_most_rw(stamp[links.tail[CleanCtrl]], stamp[links.tail[z]])
          IN  /\ now.progress + now.clean + Grain <= MaxProgress
              /\ IF t = "Clean" \/ (t = "Any" /\ any) THEN EvictClean_most_rw(now, z)
                                                      ELSE EvictDirty_most_rw(now, z)
              /\ UNCHANGED alive

Next_most_rw ==
  \/ \E d \in Desps, z \in Zones, isDirty \in BOOLEAN : LogIn_most_rw(d, z, isDirty)
  \/ \E d \in Desps, isDirty \in BOOLEAN : HitIn_most_rw(d, isDirty)
  \/ \E t \in VictimTypes : LogOut_most_rw(t)
=============================================================================
