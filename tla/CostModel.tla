----------------------------- MODULE CostModel -----------------------------
(***************************************************************************)
(* strategy/costmodel.c, in a build with R3BALANCER_ON: a window over the  *)
(* last evictions, with a hash index of those that were not called back,   *)
(* two windows of times, and the choice of a victim type by the costs      *)
(* they say.  The cache calls it: CM_TryCallBack() for each block that is  *)
(* missed, CM_Reg_EvictBlk() for each that leaves.                         *)
(***************************************************************************)
EXTENDS Integers, FiniteSetsExt, SequencesExt

CONSTANTS
  TS_WindowSize,   \* NBLOCK_SSD_CACHE / 16
  Blocks,          \* block numbers: offset / BLKSZ
  ReadTimes, WriteTimes, MissTimes,   \* bound: what the disks may take
  NoChoice

\* A cache of fewer than 32 blocks has no window: with a size of 1 the ring is
\* full before anything is in it, with 0 the remainders below do not exist.
ASSUME CostModelAssumption ==
  /\ TS_WindowSize \in Nat \ {0, 1} /\ Blocks \subseteq Nat
  /\ ReadTimes \cup WriteTimes \cup MissTimes \subseteq Nat \ {0}
  /\ NoChoice \notin {"Clean", "Dirty"}

Slots == 0 .. TS_WindowSize - 1
After(s) == (s + 1) % TS_WindowSize

VARIABLES
  WindowArray, WDArray_Head, WDArray_Tail,
  HashIndex,        \* the chain of each hash code, its head first
  nBuckets,         \* length of the chain of free buckets, WDBucket_Top
  counters,         \* the statistic objects
  reads, misses,    \* Lat_read_avgcollect, t_hitmisscollect: ring, sum, count
  chosen,           \* what CM_CHOOSE() returned last, until the next call
  alive,            \* FALSE: exit(), or a bucket beyond the end of the pool
  cached            \* the blocks of the cache, whose calls drive the model

window == <<WindowArray, WDArray_Head, WDArray_Tail>>
index == <<HashIndex, nBuckets>>
vars == <<window, index, counters, reads, misses, chosen, alive, cached>>

\* Slots outside the ring hold what was left there; it is never read again.
Unused == [offset |-> -1, dirty |-> FALSE, usetime |-> 0, isCallBack |-> FALSE]

\* CM_Init()
EmptyRing == [slot |-> [s \in Slots |-> 0], head |-> 0, tail |-> 0, sum |-> 0, cnt |-> 0]

Init ==
  /\ WindowArray = [s \in Slots |-> Unused]
  /\ WDArray_Head = 0 /\ WDArray_Tail = 0
  /\ HashIndex = [code \in Slots |-> << >>] /\ nBuckets = TS_WindowSize
  /\ counters = [Evict_Clean |-> 0, Evict_Dirty |-> 0, CallBack_Clean |-> 0,
                 CallBack_Dirty |-> 0, Lat_write_sum |-> 0, Cnt_write_req |-> 0,
                 T_evict_cnt |-> 0]
  /\ reads = EmptyRing /\ misses = EmptyRing
  /\ chosen = NoChoice /\ alive = TRUE /\ cached = {}

IsFull_WDArray == WDArray_Head = After(WDArray_Tail)

-----------------------------------------------------------------------------
(* The hash index; x is the index with its pool and whether all went well. *)

HashMap_KeytoValue(key) == key % TS_WindowSize

indexGet_WDItemId(key) ==
  LET chain == HashIndex[HashMap_KeytoValue(key)]
      at == SelectInSeq(chain, LAMBDA e : e.key = key)
  IN  IF at = 0 THEN -1 ELSE chain[at].itemId

\* pop_WDBucket() takes the top of the pool without a look at whether there is
\* one; the new entry is the head of its chain.
indexInsert_WDItem(x, key, item) ==
  [x EXCEPT !.ok = @ /\ x.free > 0, !.free = @ - 1,
            !.index[HashMap_KeytoValue(key)] = <<[key |-> key, itemId |-> item]>> \o @]

\* The first entry with the key leaves; without one the process exits.
indexRemove_WDItem(x, key) ==
  LET chain == x.index[HashMap_KeytoValue(key)]
      at == SelectInSeq(chain, LAMBDA e : e.key = key)
  IN  IF at = 0 THEN [x EXCEPT !.ok = FALSE]
      ELSE [x EXCEPT !.index[HashMap_KeytoValue(key)] = RemoveAt(chain, at),
                     !.free = @ + 1]

Index == [index |-> HashIndex, free |-> nBuckets, ok |-> TRUE]

Becomes(x) ==
  /\ HashIndex' = x.index /\ nBuckets' = x.free /\ alive' = x.ok

-----------------------------------------------------------------------------
B(condition) == IF condition THEN 1 ELSE 0

\* The counters without item e, and with a new one.
Without(c, e) ==
  [c EXCEPT !.T_evict_cnt    = @ - 1,
            !.Cnt_write_req  = @ - B(e.dirty),
            !.Lat_write_sum  = @ - B(e.dirty) * e.usetime,
            !.Evict_Dirty    = @ - B(e.dirty),
            !.CallBack_Dirty = @ - B(e.dirty /\ e.isCallBack),
            !.Evict_Clean    = @ - B(~e.dirty),
            !.CallBack_Clean = @ - B(~e.dirty /\ e.isCallBack)]

With(c, e) ==
  [c EXCEPT !.T_evict_cnt   = @ + 1,
            !.Cnt_write_req = @ + B(e.dirty),
            !.Lat_write_sum = @ + B(e.dirty) * e.usetime,
            !.Evict_Dirty   = @ + B(e.dirty),
            !.Evict_Clean   = @ + B(~e.dirty)]

\* What is left of the index and the counters after the oldest item, if it has
\* to make room.
Oldest == WindowArray[WDArray_Head]

Unindexed(e) == IF e.isCallBack THEN Index ELSE indexRemove_WDItem(Index, e.offset)

\* Faulty variant: a full ring is left as it is.
Kept_Overwrites == [index |-> Index, counters |-> counters, head |-> WDArray_Head]

\* Faulty variant: the call-back of a clean item stays counted.
Kept_CallBackStays ==
  IF ~IsFull_WDArray THEN [index |-> Index, counters |-> counters, head |-> WDArray_Head]
  ELSE [index |-> Unindexed(Oldest),
        counters |-> Without(counters, [Oldest EXCEPT !.isCallBack = @ /\ Oldest.dirty]),
        head |-> After(WDArray_Head)]

\* Faulty variant: the index is cleaned of an item that has left it before.
Kept_RemovesTwice ==
  IF ~IsFull_WDArray THEN [index |-> Index, counters |-> counters, head |-> WDArray_Head]
  ELSE [index |-> indexRemove_WDItem(Index, Oldest.offset),
        counters |-> Without(counters, Oldest), head |-> After(WDArray_Head)]

Kept ==
  IF ~IsFull_WDArray THEN [index |-> Index, counters |-> counters, head |-> WDArray_Head]
  ELSE [index |-> Unindexed(Oldest),
        counters |-> Without(counters, Oldest), head |-> After(WDArray_Head)]

\* CM_Reg_EvictBlk(): block b leaves the cache; a clean one takes no time.
Reg_EvictBlk(b, isDirty, usetime) ==
  LET new == [offset |-> b, dirty |-> isDirty, usetime |-> usetime, isCallBack |-> FALSE]
  IN  /\ alive /\ b \in cached /\ cached' = cached \ {b}
      /\ Becomes(indexInsert_WDItem(Kept.index, b, WDArray_Tail))
      /\ counters' = With(Kept.counters, new)
      /\ WDArray_Head' = Kept.head
      /\ WDArray_Tail' = After(WDArray_Tail)
      /\ WindowArray' = [s \in Slots |->
                           IF s = WDArray_Tail THEN new
                           ELSE IF IsFull_WDArray /\ s = WDArray_Head THEN Unused
                           ELSE WindowArray[s]]
      /\ chosen' = NoChoice
      /\ UNCHANGED <<reads, misses>>

\* CM_TryCallBack(): block b is missed; allocSSDBuf() goes on to cache it.
TryCallBack(b) ==
  LET item == indexGet_WDItemId(b)
  IN  /\ alive /\ b \notin cached /\ cached' = cached \cup {b}
      /\ IF item = -1 THEN UNCHANGED <<WindowArray, index, counters, alive>>
         ELSE /\ WindowArray' = [WindowArray EXCEPT ![item].isCallBack = TRUE]
              /\ Becomes(indexRemove_WDItem(Index, b))
              /\ counters' = IF WindowArray[item].dirty
                             THEN [counters EXCEPT !.CallBack_Dirty = @ + 1]
                             ELSE [counters EXCEPT !.CallBack_Clean = @ + 1]
      /\ chosen' = NoChoice
      /\ UNCHANGED <<WDArray_Head, WDArray_Tail, reads, misses>>

\* A window of times: the oldest one is taken out of the sum when it is full.
Registered(r, usetime) ==
  LET full == r.head = After(r.tail)
  IN  [slot |-> [s \in Slots |-> IF s = r.tail THEN usetime
                                ELSE IF full /\ s = r.head THEN 0 ELSE r.slot[s]],
       sum  |-> r.sum + usetime - (IF full THEN r.slot[r.head] ELSE 0),
       cnt  |-> r.cnt + 1 - B(full),
       head |-> IF full THEN After(r.head) ELSE r.head,
       tail |-> After(r.tail)]

\* CM_T_rand_Reg(), for the read of a block that was called back
T_rand_Reg(usetime) ==
  /\ alive /\ reads' = Registered(reads, usetime)
  /\ chosen' = NoChoice
  /\ UNCHANGED <<window, index, counters, misses, alive, cached>>

\* CM_T_hitmiss_Reg(), for a miss
T_hitmiss_Reg(usetime) ==
  /\ alive /\ misses' = Registered(misses, usetime)
  /\ chosen' = NoChoice
  /\ UNCHANGED <<window, index, counters, reads, alive, cached>>

\* The costs of a clean and a dirty victim, times (Evict_Clean + 1) and
\* (Evict_Dirty + 1), the denominators of PCB_Clean and PCB_Dirty.
Lat_read_avg  == reads.sum \div (reads.cnt + 1)
Lat_write_avg == counters.Lat_write_sum \div (counters.Cnt_write_req + 1)
Lat_evict_avg == misses.sum \div (misses.cnt + 1)

CC == counters.CallBack_Clean * (Lat_read_avg + Lat_evict_avg) * (counters.Evict_Dirty + 1)
CD == (Lat_write_avg * (counters.Evict_Dirty + 1) + counters.CallBack_Dirty * Lat_evict_avg)
        * (counters.Evict_Clean + 1)

\* random_pick(): a token below 1000 * CC / (CC + CD) is for the second, the
\* dirty one.  Without a cost of the first the quotient is an infinity or not a
\* number, and no token is below what is made of it.
random_pick ==
  {t \in {"Clean", "Dirty"} :
     IF t = "Dirty" THEN CC > 0 ELSE CC = 0 \/ 1000 * CC <= 999 * (CC + CD)}

\* CM_CHOOSE(), for a trace that does not only write
CHOOSE_Type ==
  /\ alive
  /\ chosen' \in random_pick
  /\ UNCHANGED <<window, index, counters, reads, misses, alive, cached>>

Next ==
  \/ \E b \in Blocks : \/ TryCallBack(b)
                     \/ Reg_EvictBlk(b, FALSE, 0)
                     \/ \E t \in WriteTimes : Reg_EvictBlk(b, TRUE, t)
  \/ \E t \in ReadTimes : T_rand_Reg(t)
  \/ \E t \in MissTimes : T_hitmiss_Reg(t)
  \/ CHOOSE_Type

Spec == Init /\ [][Next]_vars

-----------------------------------------------------------------------------
\* The slots of a ring from its head on.
InRing(head, tail) ==
  [i \in 1 .. (tail - head) % TS_WindowSize |-> (head + i - 1) % TS_WindowSize]

\* The sum of a sequence.
Total(s) ==
  LET sum[k \in 0 .. Len(s)] == IF k = 0 THEN 0 ELSE sum[k - 1] + s[k]
  IN  sum[Len(s)]

Ring == InRing(WDArray_Head, WDArray_Tail)
Items(isDirty) == {s \in ToSet(Ring) : WindowArray[s].dirty = isDirty}
Called(isDirty) == {s \in Items(isDirty) : WindowArray[s].isCallBack}

\* The counters the costs are made of are those of the items in the window, and
\* the sums those of the last times, however often the rings have gone round.
CountersMatchWindow ==
  /\ counters = [Evict_Clean    |-> Cardinality(Items(FALSE)),
                 Evict_Dirty    |-> Cardinality(Items(TRUE)),
                 CallBack_Clean |-> Cardinality(Called(FALSE)),
                 CallBack_Dirty |-> Cardinality(Called(TRUE)),
                 Lat_write_sum  |-> Total([i \in 1 .. Len(Ring) |->
                                      B(WindowArray[Ring[i]].dirty) * WindowArray[Ring[i]].usetime]),
                 Cnt_write_req  |-> Cardinality(Items(TRUE)),
                 T_evict_cnt    |-> Len(Ring)]
  /\ \A r \in {reads, misses} :
       LET slots == InRing(r.head, r.tail)
       IN  r.cnt = Len(slots) /\ r.sum = Total([i \in 1 .. Len(slots) |-> r.slot[slots[i]]])

\* The index has one entry for each item that was not called back, under its own
\* code, and no block twice: an eviction follows a miss that took the older
\* entry out.  No bucket is lost, so the pool is never empty when one is taken
\* (pop_WDBucket()), and no entry is missing when it is to be removed.
IndexMatchesWindow ==
  LET entries == UNION {ToSet(HashIndex[code]) : code \in Slots}
  IN  /\ alive /\ nBuckets > 0
      /\ entries = {[key |-> WindowArray[s].offset, itemId |-> s] :
                      s \in ToSet(Ring) \ (Called(FALSE) \cup Called(TRUE))}
      /\ \A e, f \in entries : e.key = f.key => e = f
      /\ \A code \in Slots :
           /\ IsInjective(HashIndex[code])
           /\ \A e \in ToSet(HashIndex[code]) : HashMap_KeytoValue(e.key) = code
      /\ nBuckets + Cardinality(entries) = TS_WindowSize

\* A dirty victim is chosen only if the window holds a clean block that was
\* called back; a clean one, when such a block costs anything, only if it
\* holds a dirty one (the divisions by nothing in CM_CHOOSE(), random_pick()).
ChoiceFromWindow ==
  /\ chosen = "Dirty" => Called(FALSE) # {}
  /\ chosen = "Clean" /\ Called(FALSE) # {} /\ Lat_read_avg + Lat_evict_avg > 0
       => Items(TRUE) # {}

\* The window is the last evictions, with those that were one too many marked.
Window == INSTANCE EvictWindow WITH
            Length <- TS_WindowSize - 1, Times <- WriteTimes \cup {0},
            recent <- [i \in DOMAIN Ring |->
                         LET e == WindowArray[Ring[i]]
                         IN  [block |-> e.offset, dirty |-> e.dirty, time |-> e.usetime,
                              isCallBack |-> e.isCallBack]]
ImplementsWindow == Window!Spec
=============================================================================
