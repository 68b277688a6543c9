--------------------------- MODULE ZoneStrategies ---------------------------
(***************************************************************************)
(* The strategies by zones under the calls of the cache.  The program is   *)
(* started with one of them and keeps it (main.c, EvictStrategy).          *)
(***************************************************************************)
EXTENDS Most, MostRw, Pore, PorePlus, PorePlusV2

\* What these come to for a cache of at least five blocks: in a smaller one
\* the low bound is 0, and a period of PORE_PLUS without clean blocks starts over
\* for ever.
ASSUME PorePlusAssumption ==
  /\ plus_Dirty_Threshold \in 1 .. ZoneBlks
  /\ Thresholds \subseteq 1 .. ZoneBlks
  /\ plus_Clean_LowBound \in 1 .. Cardinality(Desps)
  /\ plus_Clean_UpBound \in plus_Clean_LowBound .. Cardinality(Desps)

Init == Init_most \/ Init_most_rw \/ Init_pore \/ Init_plus \/ Init_plus_v2

Next ==
  \/ strategy = "MOST" /\ Next_most
  \/ strategy = "MOST_RW" /\ Next_most_rw
  \/ strategy = "PORE" /\ Next_pore
  \/ strategy = "PORE_PLUS" /\ Next_plus
  \/ strategy = "PORE_PLUS_V2" /\ Next_plus_v2

Spec == Init /\ [][Next]_vars

-----------------------------------------------------------------------------
\* No strategy follows a descriptor or a zone it does not have, or looks for one
\* without end, except that MOST_RW loses its zone in a period that began
\* without a dirty block, and that PORE_PLUS_V2 passes over the block used last.
NeverLost ==
  \/ alive
  \/ strategy = "MOST_RW" /\ period.chosen = NoZone
  \/ strategy = "PORE_PLUS_V2" /\ FindsNoZone_plus_v2

\* The linked lists are ranked by use, and every batch is the old end of one.
Order == INSTANCE ListOrder WITH list <- Lists
ImplementsListOrder == Order!Spec

\* Each of them is a replacement strategy as the cache needs one: MOST_RW one
\* that honours the victim type, the others one that ignores it.
Honours == INSTANCE EvictStrategy WITH
             Typed <- TRUE, cleanSet <- HeldClean, dirtySet <- HeldDirty
Ignores == INSTANCE EvictStrategy WITH
             Typed <- FALSE, cleanSet <- HeldClean, dirtySet <- HeldDirty

IsEvictStrategy ==
  /\ Honours!Init
  /\ [][LET batch == valid \ valid'
        IN  IF batch = {} THEN Honours!Next \/ UNCHANGED <<HeldClean, HeldDirty>>
            ELSE IF strategy = "MOST_RW" THEN Honours!LogOut(asked', batch)
            ELSE Ignores!LogOut(asked', batch)]_vars

\* The blocks of a zone that decide whether it is the fullest.
Counted == IF strategy = "MOST" THEN valid ELSE dirty

\* How many have left in this period: the count starts again with each.
PeriodVictims ==
  IF strategy = "MOST" THEN period.progress ELSE period.progress + period.clean

\* A new period of MOST takes its victims from a zone with most cached blocks,
\* one of MOST_RW its dirty victims from a zone with most dirty blocks; without
\* dirty blocks it has no zone (redefineOpenZones(), getEvictZone()).
NewPeriodTakesFullest ==
  [][LET batch == valid \ valid'
         begins == \/ period'.chosen # period.chosen
                   \/ PeriodVictims' # PeriodVictims + Cardinality(batch)
         z == period'.chosen
     IN  strategy \in {"MOST", "MOST_RW"} /\ batch # {} /\ begins =>
           IF Counted = {} THEN z = NoZone
           ELSE \A y \in Zones :
                  Cardinality(Of(y, Counted)) <= Cardinality(Of(z, Counted))]_vars

\* MOST_RW parts with a dirty block only when asked for one by name: for "Any"
\* it compares stamps nobody has set, and takes the clean class.
DirtyOnlyByName ==
  [][strategy = "MOST_RW" /\ dirty \ dirty' # {} => asked' = "Dirty"]_vars

\* What the loser tree of PORE is there for, and the search of PORE_PLUS_V2.
EvictsOldestKnown ==
  [][EvictsOldestKnown_pore /\ EvictsOldestOpen_plus_v2]_vars

\* PORE_PLUS evicts zones whole: a dirty block leaves a zone only if no other
\* zone of the same period has been begun and not used up.
WholeZoneLeaves ==
  [][strategy = "PORE_PLUS" /\ period.isWholeZone /\ valid \ valid' # {} =>
       \A d \in valid \ valid' :
         d \in dirty /\ zone[d] = period.open[period.CurEvictZoneSeq]]_vars
=============================================================================
