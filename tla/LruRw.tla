------------------------------- MODULE LruRw -------------------------------
(***************************************************************************)
(* strategy/lru_rw.c: a doubly linked list of clean descriptors and one of *)
(* dirty descriptors through the same array of nodes, and a stamp on each  *)
(* node that says when it was last used.                                   *)
(***************************************************************************)
EXTENDS Walks, FiniteSets

CONSTANTS
  N,          \* NBLOCK_SSD_CACHE
  Grain,      \* EVICT_DITRY_GRAIN
  MaxStamp    \* bound: calls of LogIn and HitIn

Desps == 0 .. N - 1
Nil == -1
Classes == {"clean", "dirty"}

VARIABLES
  lru,        \* strategy_desp, lru_clean_ctrl and lru_dirty_ctrl
  StampGlobal,
  evicted,    \* out_despid_array as the last batch left it
  asked,      \* the victim type of the last call for a batch
  valid, dirty   \* the flags of the cache, whose calls drive the strategy

vars == <<lru, StampGlobal, evicted, asked, valid, dirty>>

(***************************************************************************)
(* The lists.  lru.node[d].next points to the next older node, .last to    *)
(* the next newer one, as next_self_lru and last_self_lru do; lru.ok turns *)
(* FALSE where deleteFromLRU() calls exit().                               *)
(***************************************************************************)
Node == [next : Desps \cup {Nil}, last : Desps \cup {Nil}, stamp : 0 .. MaxStamp]
Ctrl == [first : Desps \cup {Nil}, last : Desps \cup {Nil}]
Lists == [node : [Desps -> Node], ctrl : [Classes -> Ctrl], ok : BOOLEAN]

ClassOf(isDirty) == IF isDirty THEN "dirty" ELSE "clean"

addToLRUHead(l, d, c) ==
  LET head == l.ctrl[c].first
  IN  IF head = Nil
      THEN [l EXCEPT !.ctrl[c] = [first |-> d, last |-> d]]
      ELSE [l EXCEPT !.node[d].next = head, !.node[d].last = Nil,
                     !.node[head].last = d, !.ctrl[c].first = d]

\* Set the end of the list that has d there; the clean list is looked at first.
SetFirst(l, d, x) ==
  IF l.ctrl["clean"].first = d THEN [l EXCEPT !.ctrl["clean"].first = x]
  ELSE IF l.ctrl["dirty"].first = d THEN [l EXCEPT !.ctrl["dirty"].first = x]
  ELSE [l EXCEPT !.ok = FALSE]

SetLast(l, d, x) ==
  IF l.ctrl["clean"].last = d THEN [l EXCEPT !.ctrl["clean"].last = x]
  ELSE IF l.ctrl["dirty"].last = d THEN [l EXCEPT !.ctrl["dirty"].last = x]
  ELSE [l EXCEPT !.ok = FALSE]

deleteFromLRU(l, d) ==
  LET older == l.node[d].next
      newer == l.node[d].last
      l1 == IF newer # Nil THEN [l EXCEPT !.node[newer].next = older]
                           ELSE SetFirst(l, d, older)
      l2 == IF older # Nil THEN [l1 EXCEPT !.node[older].last = newer]
                           ELSE SetLast(l1, d, newer)
  IN  [l2 EXCEPT !.node[d].next = Nil, !.node[d].last = Nil]

moveToLRUHead(l, d, c) == addToLRUHead(deleteFromLRU(l, d), d, c)

\* initSSDBufferFor_LRU_rw()
Init ==
  /\ lru = [node |-> [d \in Desps |-> [next |-> Nil, last |-> Nil, stamp |-> 0]],
            ctrl |-> [c \in Classes |-> [first |-> Nil, last |-> Nil]],
            ok   |-> TRUE]
  /\ StampGlobal = 0
  /\ evicted = << >> /\ asked = "Any"
  /\ valid = {} /\ dirty = {}

Stamp(l, d) ==
  /\ StampGlobal < MaxStamp
  /\ StampGlobal' = StampGlobal + 1
  /\ lru' = [l EXCEPT !.node[d].stamp = StampGlobal']

\* insertBuffer_LRU_rw(), for a descriptor that enters the cache
LogIn(d, isDirty) ==
  /\ lru.ok
  /\ d \notin valid
  /\ valid' = valid \cup {d}
  /\ dirty' = IF isDirty THEN dirty \cup {d} ELSE dirty
  /\ Stamp(addToLRUHead(lru, d, ClassOf(isDirty)), d)
  /\ UNCHANGED <<evicted, asked>>

\* hitInBuffer_LRU_rw(), with the flag after the access
HitIn(d, isWrite) ==
  /\ lru.ok
  /\ d \in valid
  /\ dirty' = IF isWrite THEN dirty \cup {d} ELSE dirty
  /\ Stamp(moveToLRUHead(lru, d, ClassOf(d \in dirty')), d)
  /\ UNCHANGED <<valid, evicted, asked>>

\* Faulty variant: the two types are mixed up.
EvictClass_Swapped(t) ==
  IF t = "Any"
  THEN LET stampOf(c) == lru.node[lru.ctrl[c].last].stamp
       IN  IF stampOf("dirty") > stampOf("clean") THEN "clean" ELSE "dirty"
  ELSE ClassOf(t = "Clean")

\* The class Unload_Buf_LRU_rw() takes the batch from.
EvictClass(t) ==
  IF t = "Any"
  THEN LET stampOf(c) == lru.node[lru.ctrl[c].last].stamp
       IN  IF stampOf("dirty") > stampOf("clean") THEN "clean" ELSE "dirty"
  ELSE ClassOf(t = "Dirty")

\* One round of the loop over the tail of class c.
TakeTail(acc, c) ==
  LET victim == acc.l.ctrl[c].last
  IN  IF victim = Nil THEN acc
      ELSE [l |-> deleteFromLRU(acc.l, victim), out |-> Append(acc.out, victim)]

\* Unload_Buf_LRU_rw(), called as EvictStrategy!Answerable says: on a full
\* cache, and for "Any" only when neither class is empty.
LogOut(t) ==
  LET c == EvictClass(t)
      batch[k \in 0 .. Grain] ==
        IF k = 0 THEN [l |-> lru, out |-> << >>] ELSE TakeTail(batch[k - 1], c)
  IN  /\ lru.ok
      /\ valid = Desps
      /\ t \in {"Clean", "Any"} => valid # dirty
      /\ t \in {"Dirty", "Any"} => dirty # {}
      /\ asked' = t
      /\ lru' = batch[Grain].l
      /\ evicted' = batch[Grain].out
      /\ valid' = valid \ ToSet(evicted')
      /\ dirty' = dirty \ ToSet(evicted')
      /\ UNCHANGED StampGlobal

VictimTypes == {"Clean", "Dirty", "Any"}

Next ==
  \/ \E d \in Desps, isDirty \in BOOLEAN : LogIn(d, isDirty) \/ HitIn(d, isDirty)
  \/ \E t \in VictimTypes : LogOut(t)

-----------------------------------------------------------------------------
\* The list of class c from either end.
Chain(start, follow) == Walk(start, follow, Nil, N)

List(c)     == Chain(lru.ctrl[c].first, [d \in Desps |-> lru.node[d].next])
BackList(c) == Chain(lru.ctrl[c].last,  [d \in Desps |-> lru.node[d].last])

TypeOK ==
  /\ lru \in Lists
  /\ StampGlobal \in 0 .. MaxStamp
  /\ evicted \in Seq(Desps) /\ IsInjective(evicted)
  /\ asked \in VictimTypes
  /\ valid \subseteq Desps /\ dirty \subseteq valid

\* The two ways through each list agree and visit the descriptors the cache
\* holds in that class, each once: no node is lost, shared by the two lists or
\* linked in a cycle, whatever moved between the lists.  The links of a
\* descriptor that is not cached are cleared: addToLRUHead() sets neither of
\* them when the list is empty.
ListsMatchCache ==
  /\ TypeOK /\ lru.ok
  /\ \A c \in Classes : BackList(c) = Reverse(List(c)) /\ IsInjective(List(c))
  /\ ToSet(List("dirty")) = dirty
  /\ ToSet(List("clean")) = valid \ dirty
  /\ \A d \in Desps \ valid : lru.node[d].next = Nil /\ lru.node[d].last = Nil

\* What the two lists and the stamps say about recency.
Recency ==
  LET resident  == ToSet(List("clean")) \cup ToSet(List("dirty"))
      newer(d)  == {e \in resident : lru.node[e].stamp > lru.node[d].stamp}
  IN  [i \in 1 .. Cardinality(resident) |->
         CHOOSE d \in resident : Cardinality(newer(d)) = i - 1]

Order == INSTANCE LruOrder WITH
           Typed <- TRUE, recency <- Recency, dirtySet <- ToSet(List("dirty"))
Calls == INSTANCE EvictStrategy WITH
           Typed <- TRUE, cleanSet <- ToSet(List("clean")), dirtySet <- ToSet(List("dirty"))
=============================================================================
