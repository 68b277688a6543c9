---------------------------- MODULE EvictStrategy ----------------------------
(***************************************************************************)
(* What allocSSDBuf() of src/cache.c needs from a replacement strategy     *)
(* (LRU_private, LRU_rw, PAUL, MOST, MOST_RW): the three calls LogIn, HitIn *)
(* and LogOut, with the order in which a strategy ranks its descriptors    *)
(* left open.  The strategy keeps its own idea of which descriptors are    *)
(* cached and of which of them are dirty; it learns of both only through   *)
(* these calls.                                                            *)
(***************************************************************************)
EXTENDS Integers, FiniteSets

CONSTANTS
  Desps,       \* serial numbers of the SSD buffer descriptors
  Grain,       \* EVICT_DITRY_GRAIN: the largest batch LogOut returns
  Typed        \* TRUE: LogOut honours the victim type it is given

\* enum_t_vict
VictimTypes == {"Clean", "Dirty", "Any"}

VARIABLES
  cleanSet,    \* resident descriptors the strategy holds as clean
  dirtySet     \* resident descriptors the strategy holds as dirty

vars == <<cleanSet, dirtySet>>

Resident == cleanSet \cup dirtySet

TypeOK ==
  /\ cleanSet \subseteq Desps
  /\ dirtySet \subseteq Desps
  /\ cleanSet \cap dirtySet = {}

Init ==
  /\ cleanSet = {}
  /\ dirtySet = {}

\* The descriptors LogOut may choose from when asked for a victim of type t.
Candidates(t) ==
  IF Typed /\ t = "Clean" THEN cleanSet
  ELSE IF Typed /\ t = "Dirty" THEN dirtySet
  ELSE Resident

\* When LogOut may be called.  The cache is full: LRU_private takes a whole
\* batch off its list without looking for the end.  A class that is asked for
\* has a member, and "Any" is only asked when both have: LRU_rw compares the
\* two ends of its lists without a check of its own.
Answerable(t) ==
  /\ Resident = Desps
  /\ t \in {"Clean", "Any"} => cleanSet # {}
  /\ t \in {"Dirty", "Any"} => dirtySet # {}

\* Descriptor d belongs to the dirty class, or to the clean one.
Classify(d, isDirty) ==
  /\ cleanSet' = IF isDirty THEN cleanSet \ {d} ELSE cleanSet \cup {d}
  /\ dirtySet' = IF isDirty THEN dirtySet \cup {d} ELSE dirtySet \ {d}

\* Strategy_Desp_LogIn(): a descriptor enters the cache.
LogIn(d, isDirty) ==
  /\ d \notin Resident
  /\ Classify(d, isDirty)

\* Strategy_Desp_HitIn(): a cached descriptor is used; the flag it is called
\* with is the one after the access, so a write moves d to the dirty class.
HitIn(d, isDirty) ==
  /\ d \in Resident
  /\ d \in dirtySet => isDirty
  /\ Classify(d, isDirty)

\* LogOut_*(): a batch of distinct victims leaves the cache.
LogOut(t, batch) ==
  /\ Answerable(t)
  /\ batch # {}
  /\ batch \subseteq Candidates(t)
  /\ Cardinality(batch) <= Grain
  /\ cleanSet' = cleanSet \ batch
  /\ dirtySet' = dirtySet \ batch

\* The calls a strategy has to be ready for, in any order.
Next ==
  \/ \E d \in Desps, isDirty \in BOOLEAN : LogIn(d, isDirty) \/ HitIn(d, isDirty)
  \/ \E t \in VictimTypes : \E batch \in SUBSET Candidates(t) : LogOut(t, batch)

Spec == Init /\ [][Next]_vars
=============================================================================
