------------------------------ MODULE LruOrder ------------------------------
(***************************************************************************)
(* Least recently used, said without lists: descriptors are ranked by      *)
(* their last use, and a batch is taken from the old end of the ranking.   *)
(* LRU_rw takes it from one class only, LRU_private from all.              *)
(***************************************************************************)
EXTENDS Integers, SequencesExt

CONSTANTS
  Desps,       \* serial numbers of the descriptors
  Grain,       \* EVICT_DITRY_GRAIN
  Typed        \* LRU_rw: TRUE, LRU_private: FALSE

VARIABLES
  recency,     \* the resident descriptors, the last used one first
  dirtySet,    \* those that are dirty
  evicted,     \* the batch of the last LogOut, in the order it was filled
  asked        \* the victim type of the last LogOut

vars == <<recency, dirtySet, evicted, asked>>

Resident == ToSet(recency)
cleanSet == Resident \ dirtySet

Calls == INSTANCE EvictStrategy

TypeOK ==
  /\ recency \in Seq(Desps) /\ IsInjective(recency)
  /\ dirtySet \subseteq Resident
  /\ evicted \in Seq(Desps) /\ IsInjective(evicted)
  /\ asked \in Calls!VictimTypes

Init == recency = << >> /\ dirtySet = {} /\ evicted = << >> /\ asked = "Any"

\* Descriptor d becomes the last used one.
Use(d, isDirty) ==
  /\ recency' = <<d>> \o Remove(recency, d)
  /\ dirtySet' = IF isDirty THEN dirtySet \cup {d} ELSE dirtySet \ {d}
  /\ UNCHANGED <<evicted, asked>>

LogIn(d, isDirty) == d \notin Resident /\ Use(d, isDirty)

HitIn(d, isDirty) ==
  /\ d \in Resident
  /\ d \in dirtySet => isDirty
  /\ Use(d, isDirty)

\* The class the batch comes from: the one asked for, else the class of the
\* descriptor that was not used for longest.
VictimClass(t) ==
  IF ~Typed THEN Resident
  ELSE IF t = "Dirty" \/ (t = "Any" /\ Last(recency) \in dirtySet)
    THEN dirtySet ELSE cleanSet

LogOut(t) ==
  LET ranked == SelectSeq(recency, LAMBDA d : d \in VictimClass(t))
      size   == IF Len(ranked) < Grain THEN Len(ranked) ELSE Grain
  IN  /\ Calls!Answerable(t)
      /\ asked' = t
      /\ evicted' = SubSeq(Reverse(ranked), 1, size)
      /\ recency' = SelectSeq(recency, LAMBDA d : d \notin ToSet(evicted'))
      /\ dirtySet' = dirtySet \ ToSet(evicted')

Next ==
  \/ \E d \in Desps, isDirty \in BOOLEAN : LogIn(d, isDirty) \/ HitIn(d, isDirty)
  \/ \E t \in Calls!VictimTypes : LogOut(t)

Spec == Init /\ [][Next]_vars

\* LRU is a replacement strategy as the cache needs one, and a batch it takes
\* out is one for the type that was asked for (LogOut of LRU_rw, LRU_private).
IsEvictStrategy ==
  /\ Calls!Spec
  /\ [][Resident \ Resident' # {} =>
          Calls!LogOut(asked', Resident \ Resident')]_vars
=============================================================================
