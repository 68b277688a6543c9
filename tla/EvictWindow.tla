----------------------------- MODULE EvictWindow -----------------------------
(***************************************************************************)
(* What the balancer knows of the past (strategy/costmodel.c), said        *)
(* without rings and chains: the last evictions, and for each of them      *)
(* whether its block was missed since.                                     *)
(***************************************************************************)
EXTENDS Integers, SequencesExt

CONSTANTS
  Blocks,
  Length,     \* how many evictions are remembered
  Times       \* what an eviction may take

VARIABLES
  recent,     \* the evictions, the oldest first
  cached      \* the blocks of the cache

Evictions == [block : Blocks, dirty : BOOLEAN, time : Times, isCallBack : BOOLEAN]

Init == recent = << >> /\ cached = {}

\* Block b leaves the cache.
Evict(b, isDirty, t) ==
  LET e == [block |-> b, dirty |-> isDirty, time |-> t, isCallBack |-> FALSE]
      kept == IF Len(recent) = Length THEN Tail(recent) ELSE recent
  IN  /\ b \in cached
      /\ cached' = cached \ {b}
      /\ recent' = Append(kept, e)

\* Block b is missed and cached: its last eviction, if it is remembered, was
\* one too many.
Miss(b) ==
  /\ b \notin cached
  /\ cached' = cached \cup {b}
  /\ recent' = [i \in DOMAIN recent |->
                  IF recent[i].block = b THEN [recent[i] EXCEPT !.isCallBack = TRUE]
                                         ELSE recent[i]]

Next == \E b \in Blocks :
          Miss(b) \/ \E isDirty \in BOOLEAN, t \in Times : Evict(b, isDirty, t)

Spec == Init /\ [][Next]_<<recent, cached>>
=============================================================================
