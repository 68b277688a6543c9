----------------------------- MODULE LruPrivate -----------------------------
(***************************************************************************)
(* strategy/lru_private.c: one doubly linked list of all cached            *)
(* descriptors.  It is told nothing of dirty blocks and pays no attention  *)
(* to the victim type; a batch is always EVICT_DITRY_GRAIN descriptors, so *)
(* a cache smaller than that is outside what the code is written for.      *)
(***************************************************************************)
EXTENDS Walks, FiniteSets

CONSTANTS
  N,          \* NBLOCK_SSD_CACHE
  Grain       \* EVICT_DITRY_GRAIN

Desps == 0 .. N - 1
Nil == -1

VARIABLES
  lru,        \* strategy_desp and self_strategy_ctrl
  evicted,    \* out_despid_array as the last batch left it
  asked,      \* the victim type of the last call for a batch
  valid, dirty   \* the flags of the cache, whose calls drive the strategy

vars == <<lru, evicted, asked, valid, dirty>>

\* lru.next[d] is the next older descriptor, lru.last[d] the next newer one
\* (next_self_lru, last_self_lru); lru.head and lru.tail are the ends
\* (first_self_lru, last_self_lru of the control block).
Lists == [next : [Desps -> Desps \cup {Nil}], last : [Desps -> Desps \cup {Nil}],
          head : Desps \cup {Nil}, tail : Desps \cup {Nil}]

addToLRUHead(l, d) ==
  IF l.tail = Nil
  THEN [l EXCEPT !.head = d, !.tail = d]
  ELSE [l EXCEPT !.next[d] = l.head, !.last[d] = Nil,
                 !.last[l.head] = d, !.head = d]

deleteFromLRU(l, d) ==
  LET older == l.next[d]
      newer == l.last[d]
      l1 == IF newer # Nil THEN [l EXCEPT !.next[newer] = older]
                           ELSE [l EXCEPT !.head = older]
      l2 == IF older # Nil THEN [l1 EXCEPT !.last[older] = newer]
                           ELSE [l1 EXCEPT !.tail = newer]
  IN  [l2 EXCEPT !.last[d] = Nil, !.next[d] = Nil]

moveToLRUHead(l, d) == addToLRUHead(deleteFromLRU(l, d), d)

\* initSSDBufferFor_LRU_private()
Init ==
  /\ lru = [next |-> [d \in Desps |-> Nil], last |-> [d \in Desps |-> Nil],
            head |-> Nil, tail |-> Nil]
  /\ evicted = << >> /\ asked = "Any"
  /\ valid = {} /\ dirty = {}

\* insertBuffer_LRU_private(), for a descriptor that enters the cache
LogIn(d, isDirty) ==
  /\ d \notin valid
  /\ valid' = valid \cup {d}
  /\ dirty' = IF isDirty THEN dirty \cup {d} ELSE dirty
  /\ lru' = addToLRUHead(lru, d)
  /\ UNCHANGED <<evicted, asked>>

\* Faulty variant: the descriptor stays where it is.
HitIn_NotMoved(d, isWrite) ==
  /\ d \in valid
  /\ dirty' = IF isWrite THEN dirty \cup {d} ELSE dirty
  /\ UNCHANGED <<lru, valid, evicted, asked>>

\* hitInBuffer_LRU_private()
HitIn(d, isWrite) ==
  /\ d \in valid
  /\ dirty' = IF isWrite THEN dirty \cup {d} ELSE dirty
  /\ lru' = moveToLRUHead(lru, d)
  /\ UNCHANGED <<valid, evicted, asked>>

\* One round of the loop of Unload_Buf_LRU_private(): the tail is taken
\* without a look at whether there is one.
TakeTail(acc) ==
  [l   |-> deleteFromLRU(acc.l, acc.l.tail),
   out |-> Append(acc.out, acc.l.tail)]

VictimTypes == {"Clean", "Dirty", "Any"}

\* Unload_Buf_LRU_private(), called as EvictStrategy!Answerable says; the type
\* the cache has in mind is not among its arguments.
LogOut(t) ==
  LET batch[k \in 0 .. Grain] ==
        IF k = 0 THEN [l |-> lru, out |-> << >>] ELSE TakeTail(batch[k - 1])
  IN  /\ valid = Desps
      /\ t \in {"Clean", "Any"} => valid # dirty
      /\ t \in {"Dirty", "Any"} => dirty # {}
      /\ asked' = t
      /\ lru' = batch[Grain].l
      /\ evicted' = batch[Grain].out
      /\ valid' = valid \ ToSet(evicted')
      /\ dirty' = dirty \ ToSet(evicted')

Next ==
  \/ \E d \in Desps, isDirty \in BOOLEAN : LogIn(d, isDirty) \/ HitIn(d, isDirty)
  \/ \E t \in VictimTypes : LogOut(t)

-----------------------------------------------------------------------------
\* The list from the given end.
Chain(start, follow) == Walk(start, follow, Nil, N)

Recency == Chain(lru.head, lru.next)

TypeOK ==
  /\ lru \in Lists
  /\ evicted \in Seq(Desps) /\ IsInjective(evicted)
  /\ asked \in VictimTypes
  /\ valid \subseteq Desps /\ dirty \subseteq valid

\* Both ways through the list agree and visit each cached descriptor once,
\* and the links of a descriptor that is not cached are cleared: a stale one
\* would be followed when it enters an empty list, where addToLRUHead() sets
\* neither link.
ListMatchesCache ==
  /\ TypeOK
  /\ Chain(lru.tail, lru.last) = Reverse(Recency)
  /\ IsInjective(Recency) /\ ToSet(Recency) = valid
  /\ \A d \in Desps \ valid : lru.next[d] = Nil /\ lru.last[d] = Nil

Order == INSTANCE LruOrder WITH
           Typed <- FALSE, recency <- Recency, dirtySet <- dirty
Calls == INSTANCE EvictStrategy WITH
           Typed <- FALSE, cleanSet <- valid \ dirty, dirtySet <- dirty
=============================================================================
