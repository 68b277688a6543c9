-------------------------------- MODULE Pore --------------------------------
(***************************************************************************)
(* strategy/pore.c.  One list for each zone, as MOST.  A period opens      *)
(* zones by blocks and heat, and victims leave one by one, the block at    *)
(* the tail of an open zone that was used least recently: a loser tree     *)
(* keeps the tails in order.  It is told of the new tail of a zone only    *)
(* when the zone was the last to win, so what it holds may be out of date. *)
(***************************************************************************)
EXTENDS ZoneStrategy

NoTree_pore == << >>

\* InitPORE()
Init_pore ==
  /\ strategy = "PORE" /\ InitDesps
  /\ period = [progress |-> 0, IsNewPeriod |-> FALSE, open |-> << >>,
               passport |-> NoTree_pore, winner |-> 0]

add2ArrayHead_pore(d, z)  == links' = WithHead(links, d, z)
unloadfromZone_pore(d, z) == links' = Without(links, d, z)
move2ArrayHead_pore(d, z) == links' = ToHead(links, d, z)

\* LogInPoreBuffer(), for a block of zone z
LogIn_pore(d, z, isDirty) ==
  /\ Enter(d, z, isDirty)
  /\ Stamp(d)
  /\ add2ArrayHead_pore(d, z)
  /\ IF isDirty
       THEN /\ pagecnt_dirty' = [pagecnt_dirty EXCEPT ![z] = @ + 1]
            /\ UNCHANGED pagecnt_clean
       ELSE /\ pagecnt_clean' = [pagecnt_clean EXCEPT ![z] = @ + 1]
            /\ UNCHANGED pagecnt_dirty
  /\ UNCHANGED <<heat, zoneheat>>

\* HitPoreBuffer()
HitIn_pore(d, isDirty) ==
  /\ Access(d, isDirty)
  /\ move2ArrayHead_pore(d, zone[d])
  /\ Heat(d, zone[d])
  /\ Stamp(d)
  /\ IF ~flag[d] /\ isDirty
       THEN /\ pagecnt_dirty' = [pagecnt_dirty EXCEPT ![zone[d]] = @ + 1]
            /\ pagecnt_clean' = [pagecnt_clean EXCEPT ![zone[d]] = @ - 1]
       ELSE UNCHANGED counts

Blocks_pore(z) == pagecnt_dirty[z] + pagecnt_clean[z]

\* pause_and_caculate_weight_sizedivhot()
score_pore == [z \in Zones |-> (Blocks_pore(z) * Blocks_pore(z) * 1000000) \div (zoneheat[z] + 1)]

ZoneSortArray_pore == SortedZones([z \in Zones |-> Blocks_pore(z)], score_pore)

\* The zones at the front of an order, up to the one whose dirty blocks make
\* the length of a period; the tree is made when it is first used.
Opened_pore(p, order) ==
  LET chosen[n \in 0 .. Len(order)] ==
        IF n = 0 THEN 0 ELSE chosen[n - 1] + pagecnt_dirty[order[n]]
      cnt == Min({n \in 0 .. Len(order) : n = Len(order) \/ chosen[n] >= Cycle_Length})
  IN  [p EXCEPT !.open = SubSeq(order, 1, cnt), !.progress = 1, !.IsNewPeriod = TRUE]

redefineOpenZones_pore(p) == Opened_pore(p, ZoneSortArray_pore)

TailOf_pore(z) == [value |-> stamp[links.tail[z]], desp |-> links.tail[z]]

\* What getEvictZone() leaves: the period, and whether it has a zone.
Outcome_pore(p, t) ==
  LET r == [p EXCEPT !.passport = t, !.winner = Losers!Winner(t).pathId, !.IsNewPeriod = FALSE]
  IN  [period |-> r, found |-> ~Losers!NoWinner(t),
       zone |-> IF Losers!NoWinner(t) THEN NoZone ELSE r.open[r.winner + 1]]

\* Faulty variant: the first answer of the tree is taken.
getEvictZone_Trusting_pore(p) ==
  IF p.IsNewPeriod
  THEN Outcome_pore(p, Losers!LoserTree_Create([i \in 1 .. Len(p.open) |-> TailOf_pore(p.open[i])]))
  ELSE LET z == p.open[p.winner + 1]
       IN  Outcome_pore(p, IF links.tail[z] = Nil
                      THEN Losers!LoserTree_PathEnds(p.passport)
                      ELSE Losers!LoserTree_GetWinner(p.passport, TailOf_pore(z)))

\* getEvictZone(): the tree is told of the last winner's tail, until the
\* descriptor that wins is still the tail of its zone.
getEvictZone_pore(p) ==
  IF p.IsNewPeriod
  THEN Outcome_pore(p, Losers!LoserTree_Create([i \in 1 .. Len(p.open) |-> TailOf_pore(p.open[i])]))
  ELSE LET told[k \in 0 .. NZones + 1] ==
             IF k = 0 THEN [period |-> p, found |-> TRUE, zone |-> NoZone]
             ELSE LET o == told[k - 1]
                      q == o.period
                      z == q.open[q.winner + 1]
                  IN  IF k > 1 /\ (~o.found
                                   \/ links.tail[o.zone] = Losers!Winner(q.passport).despId)
                        THEN o
                      ELSE Outcome_pore(q, IF links.tail[z] = Nil
                                        THEN Losers!LoserTree_PathEnds(q.passport)
                                        ELSE Losers!LoserTree_GetWinner(q.passport, TailOf_pore(z)))
       IN  told[NZones + 1]

EvictTail_pore(p, z, d) ==
  /\ unloadfromZone_pore(d, z)
  /\ zoneheat' = [zoneheat EXCEPT ![z] = @ - heat[d]]
  /\ IF flag[d]
       THEN /\ period' = [p EXCEPT !.progress = @ + 1]
            /\ pagecnt_dirty' = [pagecnt_dirty EXCEPT ![z] = @ - 1]
            /\ UNCHANGED pagecnt_clean
       ELSE /\ period' = p
            /\ pagecnt_clean' = [pagecnt_clean EXCEPT ![z] = @ - 1]
            /\ UNCHANGED pagecnt_dirty
  /\ clearDesp({d})

\* LogOutDesp_pore().  Without a zone a new period is started at once.
LogOut_pore(t) ==
  /\ MayAsk(t) /\ asked' = t
  /\ \E p \in {IF period.progress % Cycle_Length = 0 THEN redefineOpenZones_pore(period)
                                                     ELSE period} :
       \E first \in {getEvictZone_pore(p)} :
         \E got \in {IF first.found THEN first
                     ELSE getEvictZone_pore(redefineOpenZones_pore(first.period))} :
           EvictTail_pore(got.period, got.zone, links.tail[got.zone])
  /\ UNCHANGED <<strategy, StampGlobal, alive>>

Next_pore ==
  \/ \E d \in Desps, z \in Zones, isDirty \in BOOLEAN : LogIn_pore(d, z, isDirty)
  \/ \E d \in Desps, isDirty \in BOOLEAN : HitIn_pore(d, isDirty)
  \/ \E t \in VictimTypes : LogOut_pore(t)

-----------------------------------------------------------------------------
\* The paths of the tree that still have a value.
LivePaths_pore(p) ==
  {i \in 1 .. Len(p.open) :
     \E e \in Range(p.passport.non_leafs) :
       e.pathId = i - 1 /\ e.value # Losers!OVERFLOW_LEAF_VALUE}

\* The victim is the descriptor the tree names, still the tail of its zone, and
\* what the tree knows of its last use is no later than the last use of any
\* block of an open zone with a path, though hits have moved blocks since the
\* tree was told of them (getEvictZone()).
EvictsOldestKnown_pore ==
  strategy = "PORE" /\ valid \ valid' # {} =>
    LET known == Losers!Winner(period'.passport)
    IN  /\ valid \ valid' = {known.despId}
        /\ \A i \in LivePaths_pore(period') :
             \A d \in Of(period'.open[i], valid) : known.value <= stamp[d]
=============================================================================
