--------------------------- MODULE SsdCacheProofs ---------------------------
(***************************************************************************)
(* Proofs about SsdCache, for every number of descriptors, every batch     *)
(* size, every set of blocks and of values and every strategy that meets   *)
(* EvictStrategy.  The types come first, then the two operations on the    *)
(* free list, then the inductive invariant CacheInv; the refinements and   *)
(* the counters follow from it.  The second part is about HrcPipes: the    *)
(* main process, whose cache this is, and the helpers that replay it.      *)
(***************************************************************************)
EXTENDS SsdCache, HrcPipes, SequenceTheorems, FiniteSetTheorems, TLAPS

\* CacheLayer_Init() leaves every variable in its type.
LEMMA TypeInit == Init => TypeOK
  <1> SUFFICES ASSUME Init PROVE TypeOK
    OBVIOUS
  <1> USE CacheAssumption DEF CacheAssumption, Init, Slot, Desps, Nil
  <1>1. freelist \in Seq(Desps)
    <2>1. \A i \in 1 .. N : i - 1 \in Desps
      OBVIOUS
    <2> QED
      BY <2>1, IsASeq
  <1>2. hashtable \in [Blocks -> Desps \cup {Nil}]
    OBVIOUS
  <1>3. tag \in [Desps -> Blocks \cup {NoBlock}]
    OBVIOUS
  <1>4. ssd \in [Desps -> Slot] /\ hdd \in [Blocks -> Slot]
    OBVIOUS
  <1>5. Strategy!TypeOK
    BY DEF Strategy!Init, Strategy!TypeOK
  <1>6. cur \in Desps /\ n_clean \in Int /\ n_dirty \in Int
    OBVIOUS
  <1>7. found \in BOOLEAN /\ alive \in BOOLEAN
    OBVIOUS
  <1>8. pc \in PCs /\ suggest \in Strategy!VictimTypes
    BY DEF PCs, Strategy!VictimTypes
  <1> HIDE DEF Desps, Slot, Nil
  <1> QED
    BY <1>1, <1>2, <1>3, <1>4, <1>5, <1>6, <1>7, <1>8 DEF TypeOK, Slot

\* A request that is being served names a block and a value.
LEMMA OpType ==
  ASSUME TypeOK, pc # "idle"
  PROVE  op \in Requests /\ op.block \in Blocks /\ op.value \in Values
  BY CacheAssumption DEF TypeOK, Requests, CacheAssumption

\* The end of a miss keeps the types.
LEMMA InstallType ==
  ASSUME TypeOK, pc # "idle", freelist # << >>, Install
  PROVE  /\ cur' \in Desps /\ pc' \in {"io", "load"}
         /\ valid' \subseteq Desps /\ dirty' \subseteq Desps
         /\ tag' \in [Desps -> Blocks \cup {NoBlock}]
         /\ hashtable' \in [Blocks -> Desps \cup {Nil}]
         /\ freelist' \in Seq(Desps)
         /\ n_clean' \in Int /\ n_dirty' \in Int
         /\ Strategy!TypeOK'
  <1> DEFINE d == Head(freelist)
  <1>1. d \in Desps /\ Tail(freelist) \in Seq(Desps)
    BY HeadTailProperties DEF TypeOK
  <1>2. op.block \in Blocks
    BY OpType
  <1> QED
    BY <1>1, <1>2 DEF TypeOK, Install, flagOp, Strategy!TypeOK,
       Strategy!Classify

\* So does the release of a victim.
LEMMA ReleaseType ==
  ASSUME TypeOK, NEW d \in Desps, Release(d)
  PROVE  /\ n_clean' \in Int /\ n_dirty' \in Int
         /\ valid' \subseteq Desps /\ dirty' \subseteq Desps
         /\ freelist' \in Seq(Desps)
         /\ registered' \subseteq Blocks \cup {NoBlock}
  <1>1. <<d>> \o freelist \in Seq(Desps)
    BY DEF TypeOK
  <1> QED
    BY <1>1 DEF TypeOK, Release

\* Every step keeps the types.
LEMMA TypeNext == TypeOK /\ [Next]_vars => TypeOK'
  <1> SUFFICES ASSUME TypeOK, [Next]_vars PROVE TypeOK'
    OBVIOUS
  <1> USE CacheAssumption, NoOpAssumption
      DEF TypeOK, PCs, request, control, metadata, strategy, devices
  <1>1. CASE Request
    BY <1>1 DEF Request, Strategy!TypeOK
  <1>2. CASE Hit
    <2>1. cur' \in Desps
      BY <1>2, OpType DEF Hit, Nil
    <2>2. n_clean' \in Int /\ n_dirty' \in Int
      BY <1>2 DEF Hit
    <2>3. Strategy!TypeOK'
      BY <1>2, <2>1 DEF Hit, Strategy!TypeOK, Strategy!Classify
    <2> QED
      BY <1>2, <2>1, <2>2, <2>3 DEF Hit, flagOp
  <1>3. CASE MissFree
    BY <1>3, InstallType DEF MissFree, CallBack
  <1>4. CASE MissFull
    BY <1>4 DEF MissFull, CallBack, Strategy!TypeOK, Strategy!VictimTypes
  <1>5. CASE LogOut
    BY <1>5 DEF LogOut, VictimType, Strategy!TypeOK, Strategy!LogOut,
       Strategy!VictimTypes, Strategy!Candidates, Strategy!Resident
  <1>6. ASSUME NEW d \in Desps, EvictClean(d) PROVE TypeOK'
    BY <1>6, ReleaseType DEF EvictClean, Strategy!TypeOK
  <1>7. ASSUME NEW d \in Desps, FlushRead(d) PROVE TypeOK'
    BY <1>7 DEF FlushRead, Strategy!TypeOK
  <1>8. CASE FlushWrite
    BY <1>8, ReleaseType DEF FlushWrite, Strategy!TypeOK
  <1>9. CASE Evicted
    BY <1>9, InstallType DEF Evicted
  <1>10. CASE WriteSsd
    BY <1>10, OpType DEF WriteSsd, Return, Slot, Strategy!TypeOK
  <1>11. CASE ReadSsd
    BY <1>11 DEF ReadSsd, Return, Strategy!TypeOK
  <1>12. CASE ReadHdd
    BY <1>12, OpType DEF ReadHdd, Strategy!TypeOK
  <1>13. CASE FillSsd
    BY <1>13 DEF FillSsd, Return, Strategy!TypeOK
  <1>14. CASE DeviceError
    BY <1>14 DEF DeviceError, Strategy!TypeOK
  <1>15. CASE UNCHANGED vars
    BY <1>15 DEF vars, Strategy!TypeOK
  <1> QED
    BY <1>1, <1>2, <1>3, <1>4, <1>5, <1>6, <1>7, <1>8, <1>9, <1>10, <1>11,
       <1>12, <1>13, <1>14, <1>15 DEF Next, Serve

\* Every variable keeps its type through every step of every request.
THEOREM TypeCorrect == Spec => []TypeOK
  BY TypeInit, TypeNext, PTL DEF Spec

\* pop_freebuf() takes a descriptor that is free, and leaves the others so.
LEMMA FreePop ==
  ASSUME TypeOK, FreeOrValid, freelist # << >>,
         freelist' = Tail(freelist), valid' = valid \cup {Head(freelist)}
  PROVE  Head(freelist) \in Desps \ valid /\ FreeOrValid'
  <1>1. /\ freelist \in Seq(Desps) /\ Len(freelist) \in Nat \ {0}
        /\ Head(freelist) = freelist[1] /\ freelist[1] \in Desps
        /\ Len(freelist') = Len(freelist) - 1
        /\ \A i \in 1 .. Len(freelist') : freelist'[i] = freelist[i + 1]
    BY HeadTailProperties, EmptySeq DEF TypeOK
  <1>2. Head(freelist) \in Desps \ valid
    BY <1>1 DEF FreeOrValid
  <1>3. \A i, j \in 1 .. Len(freelist') : freelist'[i] = freelist'[j] => i = j
    <2> TAKE i, j \in 1 .. Len(freelist')
    <2>1. i + 1 \in 1 .. Len(freelist) /\ j + 1 \in 1 .. Len(freelist)
      BY <1>1
    <2> QED
      BY <1>1, <2>1 DEF FreeOrValid
  <1>4. ASSUME NEW x \in {freelist'[i] : i \in 1 .. Len(freelist')}
        PROVE  x \in Desps \ valid'
    <2> PICK i \in 1 .. Len(freelist') : x = freelist'[i]
      OBVIOUS
    <2>1. i + 1 \in 1 .. Len(freelist) /\ 1 \in 1 .. Len(freelist) /\ i + 1 # 1
      BY <1>1
    <2> QED
      BY <1>1, <2>1 DEF FreeOrValid
  <1>5. ASSUME NEW x \in Desps \ valid'
        PROVE  x \in {freelist'[i] : i \in 1 .. Len(freelist')}
    <2> PICK i \in 1 .. Len(freelist) : x = freelist[i]
      BY DEF FreeOrValid
    <2>1. i # 1
      BY <1>1
    <2>2. i - 1 \in 1 .. Len(freelist') /\ x = freelist'[i - 1]
      BY <1>1, <2>1
    <2> QED
      BY <2>2
  <1> QED
    BY <1>2, <1>3, <1>4, <1>5 DEF FreeOrValid

\* push_freebuf() of a valid descriptor that loses its VALID bit.
LEMMA FreePush ==
  ASSUME TypeOK, FreeOrValid, NEW d \in valid,
         freelist' = <<d>> \o freelist, valid' = valid \ {d}
  PROVE  FreeOrValid' /\ freelist' # << >>
  <1>1. /\ freelist \in Seq(Desps) /\ d \in Desps /\ Len(freelist) \in Nat
        /\ Len(freelist') = Len(freelist) + 1
        /\ freelist'[1] = d
        /\ \A i \in 1 .. Len(freelist) : freelist'[i + 1] = freelist[i]
    BY DEF TypeOK
  <1>2. \A i \in 1 .. Len(freelist') :
          i = 1 \/ (i - 1 \in 1 .. Len(freelist) /\ freelist'[i] = freelist[i - 1])
    BY <1>1
  <1>3. \A i \in 1 .. Len(freelist) : freelist[i] \in Desps \ valid
    BY DEF FreeOrValid
  <1>4. \A i, j \in 1 .. Len(freelist') : freelist'[i] = freelist'[j] => i = j
    BY <1>1, <1>2, <1>3 DEF FreeOrValid
  <1>5. ASSUME NEW x \in {freelist'[i] : i \in 1 .. Len(freelist')}
        PROVE  x \in Desps \ valid'
    BY <1>1, <1>2, <1>3
  <1>6. ASSUME NEW x \in Desps \ valid'
        PROVE  x \in {freelist'[i] : i \in 1 .. Len(freelist')}
    <2>1. CASE x = d
      <3>1. 1 \in 1 .. Len(freelist')
        BY <1>1
      <3> QED
        BY <1>1, <2>1, <3>1
    <2>2. CASE x # d
      <3> PICK i \in 1 .. Len(freelist) : x = freelist[i]
        BY <2>2 DEF FreeOrValid
      <3>1. i + 1 \in 1 .. Len(freelist') /\ x = freelist'[i + 1]
        BY <1>1
      <3> QED
        BY <3>1
    <2> QED
      BY <2>1, <2>2
  <1> QED
    BY <1>1, <1>4, <1>5, <1>6, EmptySeq DEF FreeOrValid

\* The invariant holds when the cache is empty.
LEMMA InvInit == Init => CacheInv
  <1> SUFFICES ASSUME Init PROVE CacheInv
    OBVIOUS
  <1>1. TypeOK
    BY TypeInit
  <1>2. FreeOrValid
    <2>1. Len(freelist) = N /\ \A i \in 1 .. N : freelist[i] = i - 1
      BY CacheAssumption DEF Init, CacheAssumption
    <2>2. \A d \in Desps : d + 1 \in 1 .. N /\ freelist[d + 1] = d
      BY <2>1, CacheAssumption DEF Desps, CacheAssumption
    <2>3. \A i \in 1 .. N : freelist[i] \in Desps
      BY <2>1, CacheAssumption DEF Desps, CacheAssumption
    <2>4. {freelist[i] : i \in 1 .. N} = Desps
      BY <2>2, <2>3
    <2>5. valid = {}
      BY DEF Init
    <2> QED
      BY <2>1, <2>4, <2>5 DEF FreeOrValid
  <1>3. RequestOnTrack
    BY DEF Init, RequestOnTrack
  <1>4. HashMatchesTags /\ CleanIsOnDisk /\ NoDoubleRegistration
    BY DEF Init, HashMatchesTags, CleanIsOnDisk, NoDoubleRegistration, Nil
  <1>5. StrategyMatchesFlags
    BY DEF Init, StrategyMatchesFlags, Strategy!Init, Flushing
  <1>6. NothingUnwritten
    BY CacheAssumption DEF Init, NothingUnwritten, CacheAssumption
  <1> QED
    BY <1>1, <1>2, <1>3, <1>4, <1>5, <1>6 DEF CacheInv

(***************************************************************************)
(* Install is the last part of a miss, with and without an eviction.       *)
(***************************************************************************)
LEMMA InstallInv ==
  ASSUME CacheInv, TypeOK', freelist # << >>, Install,
         pc \in {"lookup", "evict"}, victims = {}, hashtable[op.block] = Nil,
         ~found', registered' \subseteq registered,
         op.block \notin registered',
         UNCHANGED <<op, reply, victims, buf, ssd, hdd>>
  PROVE  CacheInv'
  <1> DEFINE d == Head(freelist)
  <1> USE DEF CacheInv
  <1>0. /\ op.block \in Blocks /\ valid \subseteq Desps /\ dirty \subseteq Desps
        /\ tag \in [Desps -> Blocks \cup {NoBlock}]
        /\ hashtable \in [Blocks -> Desps \cup {Nil}]
        /\ ~IsWrite <=> op.kind = "read"
    BY OpType DEF TypeOK, IsWrite, Requests
  <1>1. d \in Desps \ valid /\ FreeOrValid'
    BY FreePop DEF Install, flagOp
  <1>2. /\ cur' = d /\ d # Nil
        /\ valid' = valid \cup {d}
        /\ dirty' = IF IsWrite THEN dirty \cup {d} ELSE dirty
        /\ tag' = [tag EXCEPT ![d] = op.block]
        /\ hashtable' = [hashtable EXCEPT ![op.block] = d]
        /\ IsWrite' <=> IsWrite
        /\ pc' = IF IsWrite THEN "io" ELSE "load"
    BY <1>1 DEF Install, flagOp, Desps, Nil, IsWrite
  <1>3. \A x \in valid : /\ x # d /\ x # Nil /\ tag[x] \in Blocks
                         /\ hashtable[tag[x]] = x /\ tag[x] # op.block
    BY <1>0, <1>1 DEF HashMatchesTags, Flushing, Desps, Nil
  <1>4. HashMatchesTags'
    BY <1>0, <1>1, <1>2, <1>3 DEF HashMatchesTags, Flushing
  <1>5. StrategyMatchesFlags'
    BY <1>1, <1>2 DEF StrategyMatchesFlags, Flushing, Install,
       Strategy!Classify
  <1>6. CleanIsOnDisk' /\ NothingUnwritten'
    BY <1>0, <1>1, <1>2, <1>3 DEF CleanIsOnDisk, NothingUnwritten, Filling
  <1>7. NoDoubleRegistration'
    BY <1>0, <1>1, <1>2, <1>3 DEF NoDoubleRegistration
  <1>8. RequestOnTrack'
    BY <1>0, <1>1, <1>2 DEF RequestOnTrack
  <1> QED
    BY <1>1, <1>4, <1>5, <1>6, <1>7, <1>8

(***************************************************************************)
(* Release ends the eviction of descriptor d, once the backing disk holds  *)
(* its block.                                                              *)
(***************************************************************************)
LEMMA ReleaseInv ==
  ASSUME CacheInv, TypeOK', NEW d \in valid, Release(d),
         pc \in {"evict", "flush"}, pc' = "evict", d # cur => d \in victims,
         pc = "flush" => d = cur, cur' = d,
         victims' = victims \ {d}, tag[d] # op.block,
         hashtable' = [hashtable EXCEPT ![tag[d]] = Nil],
         hdd' = [hdd EXCEPT ![tag[d]] = ssd[d]], ssd[d] \in Values,
         UNCHANGED <<op, reply, found, tag, strategy, ssd>>,
         cleanSet \cup dirtySet = valid \ (victims \cup {d})
  PROVE  CacheInv'
  <1> USE DEF CacheInv
  <1>0. /\ op.block \in Blocks /\ valid \subseteq Desps /\ dirty \subseteq valid
        /\ tag \in [Desps -> Blocks \cup {NoBlock}]
        /\ hashtable \in [Blocks -> Desps \cup {Nil}]
        /\ hdd \in [Blocks -> Slot]
    BY OpType DEF TypeOK, StrategyMatchesFlags
  <1>1. FreeOrValid' /\ freelist' # << >>
    BY FreePush DEF Release
  <1>2. /\ valid' = valid \ {d} /\ dirty' = dirty \ {d}
        /\ registered' = registered \cup {tag[d]}
    BY DEF Release
  <1>3. \A x \in valid : /\ tag[x] \in Blocks
                         /\ x # d => tag[x] # tag[d] /\ hashtable[tag[x]] = x
    BY <1>0 DEF HashMatchesTags, Flushing, Desps, Nil
  <1>4. HashMatchesTags'
    BY <1>0, <1>2, <1>3 DEF HashMatchesTags, Flushing
  <1>5. StrategyMatchesFlags'
    BY <1>0, <1>2 DEF StrategyMatchesFlags, Flushing, strategy
  <1>6. CleanIsOnDisk' /\ NothingUnwritten'
    BY <1>0, <1>2, <1>3 DEF CleanIsOnDisk, NothingUnwritten, Filling
  <1>7. NoDoubleRegistration'
    BY <1>0, <1>2, <1>3 DEF NoDoubleRegistration
  <1>8. RequestOnTrack'
    BY <1>0, <1>1, <1>2 DEF RequestOnTrack, IsWrite
  <1> QED
    BY <1>1, <1>4, <1>5, <1>6, <1>7, <1>8

\* Every step keeps the invariant.
LEMMA InvNext == CacheInv /\ [Next]_vars => CacheInv'
  <1> SUFFICES ASSUME CacheInv, [Next]_vars PROVE CacheInv'
    OBVIOUS
  <1>0. TypeOK /\ TypeOK'
    BY TypeNext DEF CacheInv
  <1> USE <1>0 DEF CacheInv, request, control, metadata, strategy, devices
  <1>1. CASE Request
    <2>1. RequestOnTrack'
      BY <1>1 DEF Request, RequestOnTrack
    <2>2. HashMatchesTags' /\ StrategyMatchesFlags'
      BY <1>1 DEF Request, HashMatchesTags, StrategyMatchesFlags, Flushing
    <2>3. CleanIsOnDisk' /\ NothingUnwritten'
      BY <1>1 DEF Request, CleanIsOnDisk, NothingUnwritten, Filling
    <2> QED
      BY <1>1, <2>1, <2>2, <2>3 DEF Request, FreeOrValid, NoDoubleRegistration
  <1>2. CASE Hit
    <2> DEFINE d == hashtable[op.block]
    <2>1. d \in valid /\ d # Nil /\ victims = {} /\ op.block \in Blocks
      BY <1>2, OpType DEF Hit, HashMatchesTags, RequestOnTrack
    <2>2. /\ valid' = valid /\ cur' = d /\ found' /\ op' = op /\ pc' = "io"
          /\ dirty' = IF IsWrite THEN dirty \cup {d} ELSE dirty
          /\ IsWrite' <=> IsWrite
      BY <1>2, <2>1 DEF Hit, flagOp, IsWrite
    <2>3. RequestOnTrack'
      BY <1>2, <2>1, <2>2 DEF Hit, RequestOnTrack
    <2>4. HashMatchesTags' /\ FreeOrValid' /\ NoDoubleRegistration'
      BY <1>2, <2>2 DEF Hit, HashMatchesTags, FreeOrValid, NoDoubleRegistration,
         Flushing
    <2>5. StrategyMatchesFlags'
      BY <1>2, <2>1, <2>2 DEF Hit, StrategyMatchesFlags, Flushing,
         Strategy!Classify
    <2>6. CleanIsOnDisk' /\ NothingUnwritten'
      BY <1>2, <2>2 DEF Hit, CleanIsOnDisk, NothingUnwritten, Filling
    <2> QED
      BY <2>3, <2>4, <2>5, <2>6
  <1>3. CASE MissFree
    BY <1>3, InstallInv DEF MissFree, CallBack, RequestOnTrack
  <1>4. CASE MissFull
    <2>1. RequestOnTrack'
      BY <1>4 DEF MissFull, CallBack, RequestOnTrack
    <2>2. HashMatchesTags' /\ StrategyMatchesFlags'
      BY <1>4 DEF MissFull, HashMatchesTags, StrategyMatchesFlags, Flushing
    <2>3. CleanIsOnDisk' /\ NothingUnwritten'
      BY <1>4 DEF MissFull, CleanIsOnDisk, NothingUnwritten, Filling
    <2> QED
      BY <1>4, <2>1, <2>2, <2>3
      DEF MissFull, CallBack, FreeOrValid, NoDoubleRegistration
  <1>5. CASE LogOut
    <2>1. victims = {} /\ cleanSet \cup dirtySet = valid
      BY <1>5 DEF LogOut, RequestOnTrack, StrategyMatchesFlags, Flushing
    <2>2. victims' # {} /\ victims' \subseteq cleanSet \cup dirtySet
      BY <1>5 DEF LogOut, Strategy!LogOut, Strategy!Candidates, Strategy!Resident
    <2>3. RequestOnTrack'
      BY <1>5, <2>2 DEF LogOut, RequestOnTrack
    <2>4. StrategyMatchesFlags'
      BY <1>5, <2>1, <2>2 DEF LogOut, StrategyMatchesFlags, Flushing,
         Strategy!LogOut
    <2>5. CleanIsOnDisk' /\ NothingUnwritten' /\ HashMatchesTags'
      BY <1>5 DEF LogOut, CleanIsOnDisk, NothingUnwritten, HashMatchesTags,
         Filling, Flushing
    <2> QED
      BY <1>5, <2>3, <2>4, <2>5 DEF LogOut, FreeOrValid, NoDoubleRegistration
  <1>6. ASSUME NEW d \in Desps, EvictClean(d) PROVE CacheInv'
    <2>1. d \in valid \ dirty /\ ssd[d] = hdd[tag[d]] /\ ssd[d] \in Values
      BY <1>6 DEF EvictClean, StrategyMatchesFlags, CleanIsOnDisk,
         NothingUnwritten, Filling
    <2>2. tag[d] # op.block
      BY <1>6, <2>1 DEF EvictClean, RequestOnTrack, HashMatchesTags, Flushing,
         Desps, Nil
    <2>3. hdd' = [hdd EXCEPT ![tag[d]] = ssd[d]]
      BY <1>6, <2>1 DEF EvictClean, TypeOK
    <2>4. cleanSet \cup dirtySet = valid \ (victims' \cup {d})
      BY <1>6 DEF EvictClean, StrategyMatchesFlags, Flushing
    <2> QED
      BY <1>6, <2>1, <2>2, <2>3, <2>4, ReleaseInv DEF EvictClean
  <1>7. ASSUME NEW d \in Desps, FlushRead(d) PROVE CacheInv'
    <2>1. d \in dirty /\ d \in valid /\ d \in victims /\ pc = "evict"
      BY <1>7 DEF FlushRead, StrategyMatchesFlags
    <2>2. \A x \in valid : /\ tag[x] \in Blocks /\ x # Nil
                           /\ hashtable[tag[x]] = x
      BY <2>1 DEF HashMatchesTags, Flushing, TypeOK, Desps, Nil
    <2>3. hashtable' = [hashtable EXCEPT ![tag[d]] = Nil]
          /\ hashtable \in [Blocks -> Desps \cup {Nil}]
      BY <1>7 DEF FlushRead, TypeOK
    <2>4. RequestOnTrack'
      BY <1>7, <2>1, <2>2, <2>3, OpType DEF FlushRead, RequestOnTrack
    <2>5. HashMatchesTags'
      BY <1>7, <2>1, <2>2, <2>3 DEF FlushRead, HashMatchesTags, Flushing
    <2>6. StrategyMatchesFlags'
      BY <1>7, <2>1 DEF FlushRead, StrategyMatchesFlags, Flushing
    <2>7. CleanIsOnDisk' /\ NothingUnwritten'
      BY <1>7, <2>1 DEF FlushRead, CleanIsOnDisk, NothingUnwritten, Filling
    <2> QED
      BY <1>7, <2>4, <2>5, <2>6, <2>7
      DEF FlushRead, FreeOrValid, NoDoubleRegistration
  <1>8. CASE FlushWrite
    <2>1. cur \in dirty /\ cur \in valid /\ cur \notin victims
          /\ buf = ssd[cur] /\ tag[cur] # op.block /\ ssd[cur] \in Values
      BY <1>8 DEF FlushWrite, RequestOnTrack, StrategyMatchesFlags,
         NothingUnwritten, Filling
    <2>2. hashtable' = [hashtable EXCEPT ![tag[cur]] = Nil]
      BY <1>8, <2>1 DEF FlushWrite, HashMatchesTags, Flushing, TypeOK
    <2>3. cleanSet \cup dirtySet = valid \ (victims \cup {cur})
      BY <1>8 DEF FlushWrite, StrategyMatchesFlags, Flushing
    <2>4. victims' = victims \ {cur}
      BY <1>8, <2>1 DEF FlushWrite
    <2>5. hdd' = [hdd EXCEPT ![tag[cur]] = ssd[cur]]
      BY <1>8, <2>1 DEF FlushWrite
    <2>6. /\ Release(cur) /\ pc = "flush" /\ pc' = "evict" /\ cur' = cur
          /\ UNCHANGED <<op, reply, found, tag, strategy, ssd>>
      BY <1>8 DEF FlushWrite
    <2>7. PICK d : d = cur
      OBVIOUS
    <2>8. Release(d)
      BY <2>6, <2>7 DEF Release
    <2>9. /\ d \in valid /\ victims' = victims \ {d} /\ cur' = d
          /\ hashtable' = [hashtable EXCEPT ![tag[d]] = Nil]
          /\ hdd' = [hdd EXCEPT ![tag[d]] = ssd[d]]
          /\ ssd[d] \in Values /\ tag[d] # op.block
          /\ cleanSet \cup dirtySet = valid \ (victims \cup {d})
      BY <2>1, <2>2, <2>3, <2>4, <2>5, <2>6, <2>7
    <2> QED
      BY <2>6, <2>7, <2>8, <2>9, ReleaseInv
  <1>9. CASE Evicted
    BY <1>9, InstallInv DEF Evicted, RequestOnTrack
  <1>10. CASE WriteSsd
    <2>1. cur \in dirty /\ op.value \in Values
      BY <1>10, OpType DEF WriteSsd, RequestOnTrack
    <2>2. RequestOnTrack' /\ HashMatchesTags' /\ StrategyMatchesFlags'
      BY <1>10 DEF WriteSsd, Return, RequestOnTrack, HashMatchesTags,
         StrategyMatchesFlags, Flushing
    <2>3. CleanIsOnDisk' /\ NothingUnwritten'
      BY <1>10, <2>1 DEF WriteSsd, Return, CleanIsOnDisk, NothingUnwritten,
         Filling, TypeOK
    <2> QED
      BY <1>10, <2>2, <2>3 DEF WriteSsd, Return, FreeOrValid, NoDoubleRegistration
  <1>11. CASE ReadSsd
    <2>1. ssd[cur] \in Values /\ found
      BY <1>11, OpType DEF ReadSsd, RequestOnTrack, HashMatchesTags,
         NothingUnwritten, Filling, TypeOK, Desps, Nil
    <2>2. RequestOnTrack' /\ HashMatchesTags' /\ StrategyMatchesFlags'
      BY <1>11 DEF ReadSsd, Return, RequestOnTrack, HashMatchesTags,
         StrategyMatchesFlags, Flushing
    <2>3. CleanIsOnDisk' /\ NothingUnwritten'
      BY <1>11, <2>1 DEF ReadSsd, Return, CleanIsOnDisk, NothingUnwritten, Filling
    <2> QED
      BY <1>11, <2>2, <2>3 DEF ReadSsd, Return, FreeOrValid, NoDoubleRegistration
  <1>12. CASE ReadHdd
    <2>1. RequestOnTrack' /\ HashMatchesTags' /\ StrategyMatchesFlags'
      BY <1>12 DEF ReadHdd, RequestOnTrack, HashMatchesTags, IsWrite,
         StrategyMatchesFlags, Flushing
    <2>2. CleanIsOnDisk' /\ NothingUnwritten'
      BY <1>12 DEF ReadHdd, CleanIsOnDisk, NothingUnwritten, Filling
    <2> QED
      BY <1>12, <2>1, <2>2 DEF ReadHdd, FreeOrValid, NoDoubleRegistration
  <1>13. CASE FillSsd
    <2>1. /\ buf = hdd[op.block] /\ hashtable[op.block] = cur
          /\ op.block \in Blocks /\ tag[cur] = op.block /\ buf \in Values
      BY <1>13, OpType DEF FillSsd, RequestOnTrack, HashMatchesTags,
         NothingUnwritten, TypeOK, Desps, Nil
    <2>2. RequestOnTrack' /\ HashMatchesTags' /\ StrategyMatchesFlags'
      BY <1>13 DEF FillSsd, Return, RequestOnTrack, HashMatchesTags,
         StrategyMatchesFlags, Flushing
    <2>3. CleanIsOnDisk' /\ NothingUnwritten'
      BY <1>13, <2>1 DEF FillSsd, Return, CleanIsOnDisk, NothingUnwritten,
         Filling, TypeOK
    <2> QED
      BY <1>13, <2>2, <2>3 DEF FillSsd, Return, FreeOrValid, NoDoubleRegistration
  <1>14. CASE DeviceError \/ UNCHANGED vars
    <2>1. UNCHANGED <<request, control, metadata, strategy, registered, devices>>
      BY <1>14 DEF DeviceError, vars
    <2> QED
      BY <2>1 DEF RequestOnTrack, HashMatchesTags, FreeOrValid,
         StrategyMatchesFlags, CleanIsOnDisk, NothingUnwritten,
         NoDoubleRegistration, Flushing, Filling, IsWrite
  <1> QED
    BY <1>1, <1>2, <1>3, <1>4, <1>5, <1>6, <1>7, <1>8, <1>9, <1>10, <1>11,
       <1>12, <1>13, <1>14 DEF Next, Serve

\* The invariant holds in every reachable state, for every number of
\* descriptors, every set of blocks and of values, and every strategy.
THEOREM CacheInvariant == Spec => []CacheInv
  BY InvInit, InvNext, PTL DEF Spec

\* A block is never registered with the balancer twice without a call back
\* between (the comment above CM_Reg_EvictBlk()).
THEOREM RegisteredOnce == Spec => []NoDoubleRegistration
  BY CacheInvariant, PTL DEF CacheInv

-----------------------------------------------------------------------------
(***************************************************************************)
(* The cache implements the store.  Contents changes only where a write    *)
(* returns, and a read returns Contents of its block.                      *)
(***************************************************************************)
LEMMA StoreInit == Init => Store!Init
  BY DEF Init, Store!Init, Contents, Nil

LEMMA StoreNext == CacheInv /\ [Next]_vars => [Store!Next]_(Store!vars)
  <1> SUFFICES ASSUME CacheInv, [Next]_vars PROVE [Store!Next]_(Store!vars)
    OBVIOUS
  <1>0. /\ TypeOK /\ RequestOnTrack /\ HashMatchesTags /\ StrategyMatchesFlags
        /\ \A d \in valid : d # Nil
    BY DEF CacheInv, TypeOK, Desps, Nil
  <1> USE <1>0 DEF request, control, metadata, strategy, devices
  <1>a. ASSUME Install, freelist # << >>, pc \in {"lookup", "evict"},
               hashtable[op.block] = Nil, ~found',
               UNCHANGED <<op, ssd, hdd>>
        PROVE  Contents' = Contents
    <2> DEFINE d == Head(freelist)
    <2>1. d \notin valid /\ cur' = d /\ op.block \in Blocks
          /\ hashtable' = [hashtable EXCEPT ![op.block] = d]
          /\ pc' \in {"io", "load"}
      BY <1>a, FreePop, OpType DEF Install, flagOp, CacheInv
    <2>2. \A b \in Blocks : hashtable[b] # Nil => hashtable[b] \in valid
      BY DEF HashMatchesTags
    <2>3. hashtable \in [Blocks -> Desps \cup {Nil}]
      BY DEF TypeOK
    <2> QED
      BY <1>a, <2>1, <2>2, <2>3 DEF Contents, Filling
  <1>1. CASE Request
    <2>1. Contents' = Contents
      BY <1>1 DEF Request, Contents, Filling
    <2> QED
      BY <1>1, <2>1 DEF Request, TypeOK, Store!Next, Store!Request,
         Store!Requests, Requests
  <1>2. CASE Hit
    BY <1>2 DEF Hit, Contents, Filling, Store!vars
  <1>3. CASE MissFree
    BY <1>3, <1>a DEF MissFree, Store!vars
  <1>4. CASE MissFull
    BY <1>4 DEF MissFull, Contents, Filling, Store!vars
  <1>5. CASE LogOut
    BY <1>5 DEF LogOut, Contents, Filling, Store!vars
  <1>6. ASSUME NEW d \in Desps, EvictClean(d) PROVE UNCHANGED Store!vars
    <2>1. d \in valid \ dirty /\ ssd[d] = hdd[tag[d]] /\ hashtable[tag[d]] = d
      BY <1>6 DEF EvictClean, StrategyMatchesFlags, CleanIsOnDisk, Filling,
         HashMatchesTags, Flushing, CacheInv
    <2>2. \A b \in Blocks : hashtable[b] = d => b = tag[d]
      BY <2>1 DEF HashMatchesTags
    <2>3. \A b \in Blocks : hashtable'[b] = IF b = tag[d] THEN Nil ELSE hashtable[b]
      BY <1>6 DEF EvictClean, TypeOK
    <2> QED
      BY <1>6, <2>1, <2>2, <2>3 DEF EvictClean, Contents, Filling, Store!vars
  <1>7. ASSUME NEW d \in Desps, FlushRead(d) PROVE UNCHANGED Store!vars
    <2>1. d \in valid /\ hashtable[tag[d]] = d
      BY <1>7 DEF FlushRead, StrategyMatchesFlags, HashMatchesTags, Flushing
    <2>2. \A b \in Blocks : hashtable'[b] = IF b = tag[d] THEN Nil ELSE hashtable[b]
      BY <1>7 DEF FlushRead, TypeOK
    <2> QED
      BY <1>7, <2>1, <2>2 DEF FlushRead, Contents, Filling, Store!vars
  <1>8. CASE FlushWrite
    <2>1. cur \in valid /\ buf = ssd[cur] /\ hashtable[tag[cur]] = Nil
      BY <1>8 DEF FlushWrite, RequestOnTrack, StrategyMatchesFlags,
         HashMatchesTags, Flushing
    <2>2. \A b \in Blocks : hdd'[b] = IF b = tag[cur] THEN ssd[cur] ELSE hdd[b]
      BY <1>8, <2>1 DEF FlushWrite, TypeOK
    <2> QED
      BY <1>8, <2>1, <2>2 DEF FlushWrite, Contents, Filling, Store!vars
  <1>9. CASE Evicted
    BY <1>9, <1>a DEF Evicted, RequestOnTrack, Store!vars
  <1>10. CASE WriteSsd
    <2>1. /\ op \in Requests /\ op.block \in Blocks
          /\ hashtable[op.block] = cur /\ cur \in valid
      BY <1>10, OpType DEF WriteSsd, RequestOnTrack, HashMatchesTags, TypeOK,
         Desps, Nil
    <2>2. \A b \in Blocks : hashtable[b] = cur => b = op.block
      BY <2>1 DEF HashMatchesTags
    <2>3. \A d \in Desps : ssd'[d] = IF d = cur THEN op.value ELSE ssd[d]
      BY <1>10 DEF WriteSsd, TypeOK
    <2>4. Contents' = [Contents EXCEPT ![op.block] = op.value]
      BY <1>10, <2>1, <2>2, <2>3
      DEF WriteSsd, Return, Contents, Filling, TypeOK, Desps
    <2> QED
      BY <1>10, <2>1, <2>4, NoOpAssumption
      DEF WriteSsd, Return, IsWrite, Store!Next, Store!WriteReturns
  <1>11. CASE ReadSsd
    <2>1. /\ op \in Requests /\ op.block \in Blocks /\ found
          /\ hashtable[op.block] = cur /\ cur # Nil
      BY <1>11, OpType DEF ReadSsd, RequestOnTrack, TypeOK, Desps, Nil
    <2>2. Contents' = Contents /\ reply' = Contents[op.block]
      BY <1>11, <2>1 DEF ReadSsd, Return, Contents, Filling
    <2>3. op.kind = "read"
      BY <1>11, <2>1 DEF ReadSsd, IsWrite, Requests
    <2> QED
      BY <1>11, <2>1, <2>2, <2>3, NoOpAssumption
      DEF ReadSsd, Return, Store!Next, Store!ReadReturns
  <1>12. CASE ReadHdd
    BY <1>12 DEF ReadHdd, Contents, Filling, Store!vars
  <1>13. CASE FillSsd
    <2>1. /\ op \in Requests /\ op.block \in Blocks /\ ~found /\ ~IsWrite
          /\ hashtable[op.block] = cur /\ cur \in valid /\ cur \in Desps
          /\ buf = hdd[op.block]
      BY <1>13, OpType DEF FillSsd, RequestOnTrack, HashMatchesTags, TypeOK,
         Desps, Nil
    <2>2. \A b \in Blocks : hashtable[b] = cur => b = op.block
      BY <2>1 DEF HashMatchesTags
    <2>3. \A d \in Desps : ssd'[d] = IF d = cur THEN buf ELSE ssd[d]
      BY <1>13 DEF FillSsd, TypeOK
    <2>4. Contents' = Contents /\ reply' = Contents[op.block]
      BY <1>13, <2>1, <2>2, <2>3
      DEF FillSsd, Return, Contents, Filling, TypeOK, Desps
    <2>5. op.kind = "read"
      BY <2>1 DEF IsWrite, Requests
    <2> QED
      BY <1>13, <2>1, <2>4, <2>5, NoOpAssumption
      DEF FillSsd, Return, Store!Next, Store!ReadReturns
  <1>14. CASE DeviceError \/ UNCHANGED vars
    BY <1>14 DEF DeviceError, vars, Contents, Filling, Store!vars
  <1> QED
    BY <1>1, <1>2, <1>3, <1>4, <1>5, <1>6, <1>7, <1>8, <1>9, <1>10, <1>11,
       <1>12, <1>13, <1>14 DEF Next, Serve

\* The cache of src/cache.c is one array of blocks to its callers.
THEOREM CacheImplementsStore == Spec => ImplementsBlockStore
  BY StoreInit, StoreNext, CacheInvariant, PTL DEF Spec, ImplementsBlockStore, Store!Spec

-----------------------------------------------------------------------------
(***************************************************************************)
(* The cache calls the strategy as EvictStrategy allows.                   *)
(***************************************************************************)
LEMMA StrategyNext ==
  CacheInv /\ [Next]_vars => [Strategy!Next]_(Strategy!vars)
  <1> SUFFICES ASSUME CacheInv, [Next]_vars PROVE [Strategy!Next]_(Strategy!vars)
    OBVIOUS
  <1> USE DEF CacheInv, strategy
  <1>a. ASSUME NEW d \in Desps, NEW set, Strategy!Classify(d, d \in set)
        PROVE  \/ Strategy!Classify(d, TRUE) /\ d \in set
               \/ Strategy!Classify(d, FALSE) /\ d \notin set
    <2>1. CASE d \in set
      BY <1>a, <2>1 DEF Strategy!Classify
    <2>2. CASE d \notin set
      BY <1>a, <2>2 DEF Strategy!Classify
    <2> QED
      BY <2>1, <2>2
  <1>1. CASE Hit
    <2>1. /\ cur' \in Desps /\ cur' \in valid
          /\ Strategy!Classify(cur', cur' \in dirty')
          /\ cleanSet \cup dirtySet = valid
          /\ cur' \in dirtySet => cur' \in dirty'
      BY <1>1, OpType DEF Hit, TypeOK, Nil, HashMatchesTags, RequestOnTrack,
         StrategyMatchesFlags, Flushing, flagOp
    <2> PICK d \in Desps : d = cur'
      BY <2>1
    <2> PICK set : set = dirty'
      OBVIOUS
    <2>2. Strategy!Classify(d, d \in set)
      BY <2>1 DEF Strategy!Classify
    <2>3. Strategy!HitIn(d, TRUE) \/ Strategy!HitIn(d, FALSE)
      BY <1>a, <2>1, <2>2 DEF Strategy!HitIn, Strategy!Resident
    <2> QED
      BY <2>3 DEF Strategy!Next
  <1>2. CASE MissFree \/ Evicted
    <2>1. /\ Head(freelist) \in Desps \ valid
          /\ cleanSet \cup dirtySet = valid
          /\ Strategy!Classify(Head(freelist), Head(freelist) \in dirty')
      BY <1>2, FreePop DEF MissFree, Evicted, Install, flagOp,
         StrategyMatchesFlags, RequestOnTrack, Flushing
    <2> PICK set : set = dirty'
      OBVIOUS
    <2>2. Strategy!Classify(Head(freelist), Head(freelist) \in set)
      BY <2>1 DEF Strategy!Classify
    <2>3. \/ Strategy!LogIn(Head(freelist), TRUE)
          \/ Strategy!LogIn(Head(freelist), FALSE)
      BY <1>a, <2>1, <2>2 DEF Strategy!LogIn, Strategy!Resident
    <2> QED
      BY <2>1, <2>3 DEF Strategy!Next
  <1>3. CASE LogOut
    <2>1. VictimType \in Strategy!VictimTypes
      BY DEF VictimType, TypeOK, Strategy!VictimTypes
    <2> QED
      BY <1>3, <2>1 DEF LogOut, Strategy!Next
  <1> QED
    BY <1>1, <1>2, <1>3 DEF Next, Serve, Request, MissFull, EvictClean,
       FlushRead, FlushWrite, WriteSsd, ReadSsd, ReadHdd, FillSsd, DeviceError,
       vars, Strategy!vars

\* Every call allocSSDBuf() makes on the strategy is one EvictStrategy allows: no
\* descriptor is logged in twice, hit when it is not held, or asked of an empty
\* class.
THEOREM CacheCallsStrategyCorrectly == Spec => CallsStrategyCorrectly
  <1>1. Init => Strategy!Init
    BY DEF Init
  <1> QED
    BY <1>1, StrategyNext, CacheInvariant, PTL DEF Spec, CallsStrategyCorrectly, Strategy!Spec

-----------------------------------------------------------------------------
(***************************************************************************)
(* The cache uses the hash table as TagMap allows: the descriptor that is  *)
(* installed is free, so no block maps to it, and a victim is valid, so    *)
(* its block maps to it.                                                   *)
(***************************************************************************)
LEMMA TableNext == CacheInv /\ [Next]_vars => [Table!Next]_hashtable
  <1> SUFFICES ASSUME CacheInv, [Next]_vars PROVE [Table!Next]_hashtable
    OBVIOUS
  <1> USE DEF CacheInv, metadata
  <1>1. CASE MissFree \/ Evicted
    <2>0. pc \in {"lookup", "evict"} /\ freelist # << >> /\ Install
          /\ hashtable[op.block] = Nil
      BY <1>1 DEF MissFree, Evicted, RequestOnTrack
    <2>1. /\ Head(freelist) \in Desps \ valid /\ Install
          /\ op.block \in Blocks /\ hashtable[op.block] = Nil
      BY <2>0, FreePop, OpType DEF Install, flagOp
    <2>2. PICK d : d = Head(freelist)
      OBVIOUS
    <2>3. \A b \in Blocks : hashtable[b] # d
      BY <2>1, <2>2 DEF HashMatchesTags, Desps, Nil
    <2>4. Table!Insert(op.block, d)
      BY <2>1, <2>2, <2>3 DEF Install, Table!Insert
    <2> QED
      BY <2>1, <2>2, <2>4 DEF Table!Next
  <1>2. ASSUME NEW d \in Desps, EvictClean(d) \/ FlushRead(d)
        PROVE  [Table!Next]_hashtable
    <2>1. tag[d] \in Blocks /\ hashtable[tag[d]] = d
      BY <1>2 DEF EvictClean, FlushRead, StrategyMatchesFlags, HashMatchesTags,
         Flushing
    <2>2. PICK b \in Blocks : b = tag[d]
      BY <2>1
    <2>3. Table!Delete(b)
      BY <1>2, <2>1, <2>2 DEF EvictClean, FlushRead, Table!Delete, Desps, Nil
    <2> QED
      BY <2>2, <2>3 DEF Table!Next
  <1> QED
    BY <1>1, <1>2 DEF Next, Serve, Request, Hit, MissFull, LogOut, FlushWrite,
       WriteSsd, ReadSsd, ReadHdd, FillSsd, DeviceError, vars

\* Every insertion into the hash table and every deletion by allocSSDBuf() is
\* one the table allows, whatever it collides with.
THEOREM CacheCallsTableCorrectly == Spec => CallsTableCorrectly
  <1>1. Init => Table!Init
    BY DEF Init, Table!Init
  <1> QED
    BY <1>1, TableNext, CacheInvariant, PTL DEF Spec, CallsTableCorrectly, Table!Spec

-----------------------------------------------------------------------------
(***************************************************************************)
(* The counters.  A descriptor enters and leaves a class one at a time.    *)
(***************************************************************************)
LEMMA DespsFinite == IsFiniteSet(Desps) /\ \A S \in SUBSET Desps : IsFiniteSet(S)
  <1>1. N - 1 \in Int
    BY CacheAssumption DEF CacheAssumption
  <1>2. IsFiniteSet(Desps)
    BY <1>1, FS_Interval DEF Desps
  <1> QED
    BY <1>2, FS_Subset

\* A set of descriptors gains one.
LEMMA AddOne ==
  ASSUME NEW S \in SUBSET Desps, NEW d, d \notin S
  PROVE  Cardinality(S \cup {d}) = Cardinality(S) + 1
  BY DespsFinite, FS_AddElement

\* A set of descriptors loses one.
LEMMA RemoveOne ==
  ASSUME NEW S \in SUBSET Desps, NEW d \in S
  PROVE  Cardinality(S \ {d}) = Cardinality(S) - 1
  BY DespsFinite, FS_RemoveElement

\* Nothing is cached and the counters are zero.
LEMMA CountersInit == Init => CountersMatchFlags
  BY FS_EmptySet DEF Init, CountersMatchFlags

\* Every step that moves a descriptor between the classes moves the counters.
LEMMA CountersNext ==
  CacheInv /\ CountersMatchFlags /\ [Next]_vars => CountersMatchFlags'
  <1> SUFFICES ASSUME CacheInv, CountersMatchFlags, [Next]_vars
               PROVE  CountersMatchFlags'
    OBVIOUS
  <1>0. valid \subseteq Desps /\ dirty \subseteq valid /\ n_clean \in Int /\ n_dirty \in Int
    BY DEF CacheInv, TypeOK, StrategyMatchesFlags
  <1> USE <1>0 DEF CountersMatchFlags
  <1>a. ASSUME NEW d, d \notin valid, Install, d = Head(freelist)
        PROVE  CountersMatchFlags'
    <2>1. CASE IsWrite
      <3>1. dirty' = dirty \cup {d} /\ valid' \ dirty' = valid \ dirty
            /\ n_dirty' = n_dirty + 1 /\ n_clean' = n_clean
        BY <1>a, <2>1 DEF Install, flagOp
      <3> QED
        BY <1>a, <3>1, AddOne
    <2>2. CASE ~IsWrite
      <3>1. dirty' = dirty /\ valid' \ dirty' = (valid \ dirty) \cup {d}
            /\ n_dirty' = n_dirty /\ n_clean' = n_clean + 1
        BY <1>a, <2>2 DEF Install, flagOp
      <3> QED
        BY <1>a, <3>1, AddOne
    <2> QED
      BY <2>1, <2>2
  <1>b. ASSUME NEW d \in valid, Release(d)
        PROVE  CountersMatchFlags'
    <2>1. CASE d \in dirty
      <3>1. dirty' = dirty \ {d} /\ valid' \ dirty' = valid \ dirty
            /\ n_dirty' = n_dirty - 1 /\ n_clean' = n_clean
        BY <1>b, <2>1 DEF Release
      <3> QED
        BY <2>1, <3>1, RemoveOne
    <2>2. CASE d \notin dirty
      <3>1. dirty' = dirty /\ valid' \ dirty' = (valid \ dirty) \ {d}
            /\ n_dirty' = n_dirty /\ n_clean' = n_clean - 1
        BY <1>b, <2>2 DEF Release
      <3> QED
        BY <2>2, <3>1, RemoveOne
    <2> QED
      BY <2>1, <2>2
  <1>1. CASE Hit
    <2>1. cur' \in valid
      BY <1>1, OpType DEF Hit, CacheInv, HashMatchesTags
    <2>2. PICK d : d = cur'
      OBVIOUS
    <2>3. CASE IsWrite /\ d \notin dirty
      <3>1. dirty' = dirty \cup {d} /\ valid' \ dirty' = (valid \ dirty) \ {d}
            /\ n_dirty' = n_dirty + 1 /\ n_clean' = n_clean - 1
        BY <1>1, <2>1, <2>2, <2>3 DEF Hit, flagOp
      <3> QED
        BY <2>1, <2>2, <2>3, <3>1, AddOne, RemoveOne
    <2>4. CASE ~(IsWrite /\ d \notin dirty)
      BY <1>1, <2>1, <2>2, <2>4 DEF Hit, flagOp
    <2> QED
      BY <2>3, <2>4
  <1>2. CASE MissFree \/ Evicted
    <2>1. Install /\ Head(freelist) \notin valid
      BY <1>2, FreePop DEF MissFree, Evicted, Install, flagOp, CacheInv
    <2> QED
      BY <1>a, <2>1
  <1>3. ASSUME NEW d \in Desps, EvictClean(d) PROVE CountersMatchFlags'
    <2>1. d \in valid /\ Release(d)
      BY <1>3 DEF EvictClean, CacheInv, StrategyMatchesFlags
    <2> QED
      BY <1>b, <2>1
  <1>4. CASE FlushWrite
    <2>1. PICK d : d = cur
      OBVIOUS
    <2>2. d \in valid /\ Release(d)
      BY <1>4, <2>1 DEF FlushWrite, Release, CacheInv, RequestOnTrack
    <2> QED
      BY <1>b, <2>2
  <1>5. ASSUME UNCHANGED <<valid, dirty, n_clean, n_dirty>>
        PROVE  CountersMatchFlags'
    BY <1>5
  <1> QED
    BY <1>1, <1>2, <1>3, <1>4, <1>5 DEF Next, Serve, Request, MissFull, LogOut,
       FlushRead, WriteSsd, ReadSsd, ReadHdd, FillSsd, DeviceError, vars,
       metadata

\* incache_n_clean and incache_n_dirty count the clean and the dirty descriptors
\* at every step.
THEOREM CountersCorrect == Spec => []CountersMatchFlags
  BY CountersInit, CountersNext, CacheInvariant, PTL DEF Spec

LEMMA VictimClass ==
  ASSUME CacheInv, CountersMatchFlags PROVE LogOutAnswerable
  <1> SUFFICES ASSUME pc = "logout" PROVE Strategy!Answerable(VictimType)
    BY DEF LogOutAnswerable
  <1>1. valid # {} /\ valid = Desps /\ dirty \subseteq valid
    <2>1. freelist = << >> /\ Desps \ valid = {}
      BY EmptySeq DEF CacheInv, RequestOnTrack, FreeOrValid
    <2>2. 0 \in Desps
      BY CacheAssumption DEF Desps, CacheAssumption
    <2> QED
      BY <2>1, <2>2 DEF CacheInv, TypeOK, StrategyMatchesFlags
  <1>2. cleanSet \cup dirtySet = valid /\ dirtySet = dirty
        /\ cleanSet = valid \ dirty
    BY <1>1 DEF CacheInv, TypeOK, RequestOnTrack, StrategyMatchesFlags,
       Flushing, Strategy!TypeOK
  <1>3. (n_clean = 0 <=> valid \ dirty = {}) /\ (n_dirty = 0 <=> dirty = {})
    <2>1. IsFiniteSet(dirty) /\ IsFiniteSet(valid \ dirty)
      BY <1>1, DespsFinite
    <2> QED
      BY <2>1, FS_EmptySet DEF CountersMatchFlags
  <1> QED
    BY <1>1, <1>2, <1>3 DEF VictimType, Strategy!Answerable, Strategy!Resident, CacheInv, TypeOK,
       Strategy!VictimTypes

\* allocSSDBuf() asks the strategy for victims only when the cache is full, and
\* never for a class with nothing in it.
THEOREM VictimsAvailable == Spec => []LogOutAnswerable
  BY CountersCorrect, CacheInvariant, VictimClass, PTL
-----------------------------------------------------------------------------
(***************************************************************************)
(* The processes around the cache: the pipes of the hit-ratio curve        *)
(* (main.c, pipe_method.c, trace2call.c, hrc.c), for any number of         *)
(* helpers, any pipe and any trace.  What they carry is what the cache     *)
(* served, and a helper that stops by itself has replayed it all.          *)
(***************************************************************************)
Records == {EOF} \cup 1 .. Lines

\* EOF is written last, if at all.
OnlyLastIsEOF(s) == \A n \in 1 .. Len(s) - 1 : s[n] # EOF

HasEOF(s) == s # << >> /\ Last(s) = EOF

\* What the main process has still to send to helper i: nothing, or the request
\* it has served last.
Full(i) == Sent(i) = served
Lags(i) == served # << >> /\ served = Append(Sent(i), Last(served))

\* Where every pipe is in the loop over the helpers.
LoopInv ==
  /\ mainPc = "serve" => k = 1
  /\ mainPc = "send" => served # << >> /\ Last(served) = line /\ line \in 1 .. Lines
  /\ \A i \in Helpers :
       IF mainPc = "send" /\ k <= i THEN Lags(i)
       ELSE Full(i) \/ (mainPc = "failed" /\ Lags(i))

\* What follows from the end of a pipe.
EndInv ==
  \A i \in Helpers :
    /\ OnlyLastIsEOF(pipe[i])
    /\ HasEOF(pipe[i]) => MainGone \/ mainPc = "wait" \/ (mainPc = "eof" /\ i < k)
    /\ helper[i] # "none" /\ ~MainGone => Main \in writeEnds[i]
    /\ helper[i] = "done" => /\ RequestsOf(pipe[i]) = << >>
                             /\ MainGone \/ mainPc = "wait" \/ (mainPc = "eof" /\ i < k)

PipeInv == HrcTypeOK /\ LoopInv /\ EndInv

-----------------------------------------------------------------------------
\* Sequences of records.
LEMMA ConcatAppend ==
  ASSUME NEW S, NEW s \in Seq(S), NEW t \in Seq(S), NEW x \in S
  PROVE  s \o Append(t, x) = Append(s \o t, x)
  BY ConcatAssociative, AppendIsConcat, ConcatProperties

LEMMA FrontOfAppend ==
  ASSUME NEW S, NEW s \in Seq(S), NEW x \in S
  PROVE  /\ Append(s, x) \in Seq(S) /\ Append(s, x) # << >>
         /\ Last(Append(s, x)) = x /\ Front(Append(s, x)) = s
  <1>1. Append(s, x) \in Seq(S) /\ Len(Append(s, x)) = Len(s) + 1
        /\ Append(s, x)[Len(s) + 1] = x
        /\ \A n \in 1 .. Len(s) : Append(s, x)[n] = s[n]
    BY AppendProperties
  <1>2. Front(Append(s, x)) = s
    <2>1. Front(Append(s, x)) = SubSeq(Append(s, x), 1, Len(s))
      BY <1>1, LenProperties DEF Front
    <2>2. /\ SubSeq(Append(s, x), 1, Len(s)) \in Seq(S)
          /\ Len(SubSeq(Append(s, x), 1, Len(s))) = Len(s)
          /\ \A n \in 1 .. Len(s) : SubSeq(Append(s, x), 1, Len(s))[n] = s[n]
      BY <1>1, LenProperties, ElementOfSeq
    <2> QED
      BY <2>1, <2>2, SeqEqual
  <1> QED
    BY <1>1, <1>2 DEF Last

LEMMA AppendOfFront ==
  ASSUME NEW S, NEW s \in Seq(S), s # << >>
  PROVE  Front(s) \in Seq(S) /\ Last(s) \in S /\ s = Append(Front(s), Last(s))
  <1>1. PICK f \in Seq(S), x \in S : s = Append(f, x)
    BY SequenceEmptyOrAppend
  <1> QED
    BY <1>1, FrontOfAppend

LEMMA RequestsType ==
  ASSUME NEW s \in Seq(Records)
  PROVE  RequestsOf(s) \in Seq(Records)
  BY AppendOfFront DEF RequestsOf

LEMMA RequestsOfAppend ==
  ASSUME NEW s \in Seq(Records), ~HasEOF(s), OnlyLastIsEOF(s), NEW x \in Records
  PROVE  /\ RequestsOf(s) = s
         /\ RequestsOf(Append(s, x)) = IF x = EOF THEN s ELSE Append(s, x)
         /\ OnlyLastIsEOF(Append(s, x))
         /\ HasEOF(Append(s, x)) <=> x = EOF
  <1>1. /\ Append(s, x) # << >> /\ Last(Append(s, x)) = x /\ Front(Append(s, x)) = s
    BY FrontOfAppend
  <1>2. OnlyLastIsEOF(Append(s, x))
    <2>1. \A n \in 1 .. Len(s) : s[n] # EOF
      BY EmptySeq DEF HasEOF, OnlyLastIsEOF, Last
    <2> QED
      BY <2>1, AppendProperties DEF OnlyLastIsEOF
  <1> QED
    BY <1>1, <1>2 DEF RequestsOf, HasEOF

LEMMA HeadAndTail ==
  ASSUME NEW S, NEW s \in Seq(S), s # << >>
  PROVE  s = <<Head(s)>> \o Tail(s)
  <1>1. Len(s) \in Nat \ {0} /\ Head(s) = s[1]
    BY EmptySeq
  <1>2. SubSeq(s, 1, Len(s)) = <<s[1]>> \o SubSeq(s, 2, Len(s))
    BY <1>1, SubSeqRecursiveFirst
  <1> QED
    BY <1>1, <1>2, SubSeqFull, TailIsSubSeq

LEMMA AppendConcat ==
  ASSUME NEW S, NEW r \in Seq(S), NEW h \in S, NEW t \in Seq(S)
  PROVE  Append(r, h) \o t = r \o (<<h>> \o t)
  <1>1. Append(r, h) = r \o <<h>> /\ <<h>> \in Seq(S)
    BY AppendIsConcat
  <1>2. (r \o <<h>>) \o t = r \o (<<h>> \o t)
    BY <1>1, ConcatAssociative
  <1> QED
    BY <1>1, <1>2

\* The head of a pipe is moved to the end of what was replayed.
LEMMA HeadMoves ==
  ASSUME NEW r \in Seq(Records), NEW s \in Seq(Records), s # << >>, Head(s) # EOF,
         OnlyLastIsEOF(s)
  PROVE  /\ Append(r, Head(s)) \o RequestsOf(Tail(s)) = r \o RequestsOf(s)
         /\ OnlyLastIsEOF(Tail(s))
         /\ HasEOF(Tail(s)) => HasEOF(s)
         /\ Tail(s) \in Seq(Records) /\ Head(s) \in 1 .. Lines
  <1>1. PICK f \in Seq(Records), x \in Records : s = Append(f, x)
    BY SequenceEmptyOrAppend
  <1>2. Head(s) \in Records /\ Tail(s) \in Seq(Records)
    BY HeadTailProperties
  <1>3. /\ HasEOF(s) <=> x = EOF
        /\ RequestsOf(s) = IF x = EOF THEN f ELSE s
    BY <1>1, FrontOfAppend DEF HasEOF, RequestsOf
  <1>4. /\ RequestsOf(s) # << >> /\ Head(RequestsOf(s)) = Head(s)
        /\ RequestsOf(Tail(s)) = Tail(RequestsOf(s))
        /\ HasEOF(Tail(s)) => HasEOF(s)
    <2>1. CASE f = << >>
      <3>1. Head(s) = x /\ Tail(s) = << >>
        BY <1>1, <2>1, HeadTailAppend
      <3> QED
        BY <1>3, <3>1 DEF RequestsOf, HasEOF
    <2>2. CASE f # << >>
      <3>1. Head(s) = Head(f) /\ Tail(s) = Append(Tail(f), x) /\ Tail(f) \in Seq(Records)
        BY <1>1, <2>2, HeadTailAppend, HeadTailProperties
      <3>2. /\ HasEOF(Tail(s)) <=> x = EOF
            /\ RequestsOf(Tail(s)) = IF x = EOF THEN Tail(f) ELSE Tail(s)
        <4>1. Tail(s) # << >> /\ Last(Tail(s)) = x /\ Front(Tail(s)) = Tail(f)
          BY <3>1, FrontOfAppend
        <4> QED
          BY <4>1 DEF HasEOF, RequestsOf
      <3> QED
        BY <1>3, <2>2, <3>1, <3>2
    <2> QED
      BY <2>1, <2>2
  <1>5. OnlyLastIsEOF(Tail(s))
    <2>1. Len(s) \in Nat \ {0}
      BY EmptySeq
    <2> QED
      BY <2>1, HeadTailProperties DEF OnlyLastIsEOF
  <1>6. Append(r, Head(s)) \o RequestsOf(Tail(s)) = r \o RequestsOf(s)
    <2>1. /\ RequestsOf(s) = <<Head(s)>> \o RequestsOf(Tail(s))
          /\ RequestsOf(Tail(s)) \in Seq(Records)
      BY <1>2, <1>4, RequestsType, HeadAndTail
    <2> QED
      BY <1>2, <2>1, AppendConcat
  <1> QED
    BY <1>2, <1>4, <1>5, <1>6 DEF Records

-----------------------------------------------------------------------------
\* The parts of the invariant that the provers need of a state.
LEMMA PipeFacts ==
  ASSUME HrcTypeOK, NEW i \in Helpers
  PROVE  /\ pipe[i] \in Seq(Records) /\ replayed[i] \in Seq(Records)
         /\ replayed[i] \in Seq(1 .. Lines)
         /\ RequestsOf(pipe[i]) \in Seq(Records) /\ Sent(i) \in Seq(Records)
         /\ served \in Seq(Records)
  <1>1. pipe[i] \in Seq(Records) /\ replayed[i] \in Seq(1 .. Lines)
        /\ served \in Seq(1 .. Lines)
    BY DEF HrcTypeOK, Records
  <1>2. \A s \in Seq(1 .. Lines) : s \in Seq(Records)
    <2> SUFFICES ASSUME NEW s \in Seq(1 .. Lines) PROVE s \in Seq(Records)
      OBVIOUS
    <2>1. /\ Len(s) \in Nat /\ s = [n \in 1 .. Len(s) |-> s[n]]
          /\ \A n \in 1 .. Len(s) : s[n] \in Records
      BY LenProperties, ElementOfSeq DEF Records
    <2> QED
      BY <2>1, IsASeq
  <1>3. RequestsOf(pipe[i]) \in Seq(Records)
    BY <1>1, RequestsType
  <1>4. Sent(i) \in Seq(Records)
    BY <1>1, <1>2, <1>3, ConcatProperties DEF Sent
  <1> QED
    BY <1>1, <1>2, <1>3, <1>4

LEMMA PipeInit == HrcInit => PipeInv
  <1> SUFFICES ASSUME HrcInit PROVE PipeInv
    OBVIOUS
  <1>1. HrcTypeOK
    BY HrcAssumption, EmptySeq DEF HrcInit, HrcTypeOK, MainStates, HelperStates, Helpers, Procs
  <1>2. /\ mainPc = "fork" /\ served = << >>
        /\ \A i \in Helpers : replayed[i] = << >> /\ pipe[i] = << >> /\ helper[i] = "none"
    BY DEF HrcInit
  <1>3. RequestsOf(<< >>) = << >> /\ ~HasEOF(<< >>) /\ OnlyLastIsEOF(<< >>)
    BY DEF RequestsOf, HasEOF, OnlyLastIsEOF
  <1>4. \A i \in Helpers : Sent(i) = << >>
    BY <1>2, <1>3, ConcatEmptySeq, EmptySeq DEF Sent
  <1>5. LoopInv
    BY <1>2, <1>4 DEF LoopInv, Full
  <1>6. EndInv
    BY <1>2, <1>3 DEF EndInv
  <1> QED
    BY <1>1, <1>5, <1>6 DEF PipeInv

\* A step that moves no record and serves nothing leaves each helper where it
\* was in the loop.
LEMMA LoopKept ==
  ASSUME LoopInv, UNCHANGED <<line, served, replayed, pipe>>,
         \/ UNCHANGED <<mainPc, k>>
         \/ mainPc # "send" /\ mainPc' \notin {"serve", "send"} /\ mainPc # "failed"
         \/ mainPc # "send" /\ mainPc' = "serve" /\ k' = 1 /\ mainPc # "failed"
         \/ mainPc' = "failed"
  PROVE  LoopInv'
  <1>1. \A i \in Helpers : (Full(i)' <=> Full(i)) /\ (Lags(i)' <=> Lags(i))
    BY DEF Full, Lags, Sent
  <1> QED
    BY <1>1 DEF LoopInv

\* Who holds which end, and what has been seen, when no record is moved and no
\* helper stops.
LEMMA EndKept ==
  ASSUME EndInv, UNCHANGED <<helper, pipe>>,
         \A i \in Helpers : Main \in writeEnds[i] /\ ~MainGone' => Main \in writeEnds'[i],
         MainGone => MainGone',
         \/ UNCHANGED <<mainPc, k>>
         \/ mainPc \notin {"wait", "eof"}
         \/ MainGone'
  PROVE  EndInv'
  BY DEF EndInv, MainGone

\* A helper ends, or is running still: what else changes are its descriptors.
LEMMA HelperMoves ==
  ASSUME PipeInv, NEW i \in Helpers,
         NEW to \in {"reads", "done", "failed"}, helper[i] # "none",
         helper' = [helper EXCEPT ![i] = to],
         to = "done" => /\ RequestsOf(pipe[i]) = << >>
                        /\ MainGone \/ mainPc = "wait" \/ (mainPc = "eof" /\ i < k),
         UNCHANGED <<mainPc, k, trace, replayed, pipe>>,
         readEnds' \in [Helpers -> SUBSET Procs], writeEnds' \in [Helpers -> SUBSET Procs],
         \A j \in Helpers : Main \in writeEnds[j] => Main \in writeEnds'[j]
  PROVE  PipeInv'
  <1>1. /\ helper' \in [Helpers -> HelperStates] /\ helper'[i] = to
        /\ \A j \in Helpers \ {i} : helper'[j] = helper[j]
    BY DEF PipeInv, HrcTypeOK, HelperStates
  <1>2. HrcTypeOK'
    BY <1>1 DEF PipeInv, HrcTypeOK, trace
  <1>3. LoopInv'
    BY LoopKept DEF PipeInv, trace
  <1>4. EndInv'
    BY <1>1 DEF PipeInv, EndInv, MainGone
  <1> QED
    BY <1>2, <1>3, <1>4 DEF PipeInv

\* exit() closes the descriptors of one process only.
LEMMA Closes ==
  ASSUME HrcTypeOK, NEW p \in Procs, CloseAll(p)
  PROVE  /\ readEnds' \in [Helpers -> SUBSET Procs] /\ writeEnds' \in [Helpers -> SUBSET Procs]
         /\ \A j \in Helpers : p # Main /\ Main \in writeEnds[j] => Main \in writeEnds'[j]
  BY DEF CloseAll, HrcTypeOK

\* The main process comes to its end.
LEMMA MainEnds ==
  ASSUME PipeInv, mainPc' \in {"done", "failed"}, mainPc' = "done" => mainPc = "wait",
         CloseAll(Main), UNCHANGED <<k, trace, helper, replayed, pipe>>
  PROVE  PipeInv'
  <1>1. HrcTypeOK'
    BY Closes DEF PipeInv, HrcTypeOK, trace, Procs, MainStates
  <1>2. LoopInv'
    BY LoopKept DEF PipeInv, trace
  <1>3. EndInv'
    BY EndKept DEF PipeInv, MainGone
  <1> QED
    BY <1>1, <1>2, <1>3 DEF PipeInv

LEMMA ForkKeeps == ASSUME PipeInv, Fork PROVE PipeInv'
  <1>1. /\ k \in Helpers /\ helper' = [helper EXCEPT ![k] = "started"]
        /\ mainPc = "fork" /\ mainPc' = "forked" /\ UNCHANGED <<k, line, served, replayed, pipe>>
    BY DEF Fork, PipeInv, HrcTypeOK, Helpers, trace
  <1>2. /\ readEnds' \in [Helpers -> SUBSET Procs] /\ writeEnds' \in [Helpers -> SUBSET Procs]
        /\ \A j \in Helpers : Main \in writeEnds[j] \/ j = k => Main \in writeEnds'[j]
    BY <1>1 DEF Fork, Inherits, PipeInv, HrcTypeOK, Procs
  <1>3. /\ helper' \in [Helpers -> HelperStates] /\ helper'[k] = "started"
        /\ \A j \in Helpers \ {k} : helper'[j] = helper[j]
    BY <1>1 DEF PipeInv, HrcTypeOK, HelperStates
  <1>4. HrcTypeOK'
    BY <1>1, <1>2, <1>3 DEF PipeInv, HrcTypeOK, MainStates
  <1>5. LoopInv'
    BY <1>1, LoopKept DEF PipeInv
  <1>6. EndInv'
    BY <1>1, <1>2, <1>3 DEF PipeInv, EndInv, MainGone
  <1> QED
    BY <1>4, <1>5, <1>6 DEF PipeInv

LEMMA ParentClosesKeeps == ASSUME PipeInv, ParentCloses PROVE PipeInv'
  <1>1. /\ mainPc = "forked" /\ UNCHANGED <<line, served, helper, replayed, pipe, writeEnds>>
        /\ \/ mainPc' = "fork" /\ k' = k + 1 /\ k < H
           \/ mainPc' = "serve" /\ k' = 1
    BY DEF ParentCloses, trace
  <1>2. readEnds' \in [Helpers -> SUBSET Procs]
    BY DEF ParentCloses, ReaderOfMain, PipeInv, HrcTypeOK
  <1>3. HrcTypeOK'
    BY <1>1, <1>2, HrcAssumption DEF PipeInv, HrcTypeOK, MainStates
  <1>4. LoopInv'
    BY <1>1, LoopKept DEF PipeInv
  <1>5. EndInv'
    BY <1>1, EndKept DEF PipeInv, MainGone
  <1> QED
    BY <1>3, <1>4, <1>5 DEF PipeInv

LEMMA ServeKeeps == ASSUME PipeInv, ServeLine PROVE PipeInv'
  <1>1. /\ mainPc = "serve" /\ line' = line + 1 /\ line' \in 1 .. Lines
        /\ UNCHANGED <<k, helper, replayed, pipe, readEnds, writeEnds>>
    BY HrcAssumption DEF ServeLine, fds, PipeInv, HrcTypeOK
  <1>2. \A i \in Helpers : Full(i) /\ Sent(i)' = Sent(i) /\ Sent(i) = served
    BY <1>1 DEF PipeInv, LoopInv, Full, Sent
  <1>3. served \in Seq(1 .. Lines) /\ k = 1
    BY <1>1 DEF PipeInv, HrcTypeOK, LoopInv
  <1>4. CASE served' = Append(served, line + 1) /\ mainPc' = "send"
    <2>1. /\ served' \in Seq(1 .. Lines) /\ served' # << >>
          /\ Last(served') = line' /\ served' = Append(served, line')
      BY <1>1, <1>3, <1>4, FrontOfAppend
    <2>2. HrcTypeOK'
      BY <1>1, <1>4, <2>1 DEF PipeInv, HrcTypeOK, MainStates
    <2>3. \A i \in Helpers : Lags(i)' /\ k' <= i
      BY <1>1, <1>2, <1>3, <2>1 DEF Lags, Helpers
    <2>4. LoopInv'
      BY <1>1, <1>4, <2>1, <2>3 DEF LoopInv
    <2>5. EndInv'
      BY <1>1, EndKept DEF PipeInv, MainGone
    <2> QED
      BY <2>2, <2>4, <2>5 DEF PipeInv
  <1>5. CASE UNCHANGED <<served, mainPc>>
    <2>1. HrcTypeOK'
      BY <1>1, <1>5 DEF PipeInv, HrcTypeOK
    <2>2. LoopInv'
      BY <1>1, <1>2, <1>5 DEF PipeInv, LoopInv, Full
    <2>3. EndInv'
      BY <1>1, <1>5, EndKept DEF PipeInv, MainGone
    <2> QED
      BY <2>1, <2>2, <2>3 DEF PipeInv
  <1> QED
    BY <1>4, <1>5 DEF ServeLine

\* Every helper's pipe but the one that is written to is as it was.
LEMMA WriteKeeps == ASSUME PipeInv, Write PROVE PipeInv'
  <1>1. /\ mainPc \in {"send", "eof"} /\ k \in Helpers /\ Len(pipe[k]) < PipeRecords
        /\ pipe' = [pipe EXCEPT ![k] = Append(@, Record)]
        /\ NextHelper(IF mainPc = "send" THEN "serve" ELSE "wait")
        /\ UNCHANGED <<line, served, helper, replayed, readEnds, writeEnds>>
    BY DEF Write, fds, trace, PipeInv, HrcTypeOK, Helpers
  <1>2. /\ Record \in Records
        /\ mainPc = "send" => Record # EOF /\ Record = Last(served)
        /\ mainPc = "eof" => Record = EOF
    BY <1>1 DEF PipeInv, LoopInv, Record, Records, EOF
  <1>3. /\ pipe[k] \in Seq(Records) /\ ~HasEOF(pipe[k]) /\ OnlyLastIsEOF(pipe[k])
        /\ helper[k] # "done" /\ (mainPc = "send" => \A i \in Helpers : helper[i] # "done")
    BY <1>1, PipeFacts DEF PipeInv, EndInv, MainGone, HrcTypeOK, Helpers
  <1>4. /\ pipe'[k] = Append(pipe[k], Record)
        /\ \A i \in Helpers \ {k} : pipe'[i] = pipe[i]
    BY <1>1 DEF PipeInv, HrcTypeOK
  <1>5. /\ RequestsOf(pipe[k]) = pipe[k]
        /\ RequestsOf(pipe'[k]) = IF Record = EOF THEN pipe[k] ELSE pipe'[k]
        /\ OnlyLastIsEOF(pipe'[k])
        /\ HasEOF(pipe'[k]) <=> Record = EOF
    BY <1>2, <1>3, <1>4, RequestsOfAppend
  <1>w. PICK w \in Helpers : w = k
    BY <1>1
  <1>6. IF mainPc = "send" THEN Sent(w)' = Append(Sent(w), Last(served))
                           ELSE Sent(w)' = Sent(w)
    <2>1. replayed[w] \in Seq(Records) /\ replayed'[w] = replayed[w]
      BY <1>1, PipeFacts DEF PipeInv
    <2>2. Sent(w) = replayed[w] \o pipe[w]
      BY <1>5, <1>w DEF Sent
    <2>3. CASE mainPc = "send"
      <3>1. Sent(w)' = replayed[w] \o Append(pipe[w], Record)
        BY <1>2, <1>4, <1>w, <1>5, <2>1, <2>3 DEF Sent
      <3> QED
        <4>1. pipe[w] \in Seq(Records)
          BY <1>3, <1>w
        <4>2. replayed[w] \o Append(pipe[w], Record) = Append(replayed[w] \o pipe[w], Record)
          <5>1. \A r, t \in Seq(Records) : \A x \in Records :
                  r \o Append(t, x) = Append(r \o t, x)
            BY ConcatAppend
          <5> QED
            BY <1>2, <2>1, <4>1, <5>1
        <4> QED
          BY <1>2, <2>2, <2>3, <3>1, <4>2
    <2>4. CASE mainPc # "send"
      <3>1. Sent(w)' = replayed[w] \o pipe[w]
        BY <1>1, <1>2, <1>4, <1>5, <1>w, <2>1, <2>4 DEF Sent
      <3> QED
        BY <2>2, <2>4, <3>1
    <2> QED
      BY <2>3, <2>4
  <1>7. /\ mainPc = "send" => Full(w)'
        /\ mainPc = "eof" => Full(w)'
        /\ \A i \in Helpers \ {w} : (Full(i)' <=> Full(i)) /\ (Lags(i)' <=> Lags(i))
    <2>1. mainPc = "send" => Lags(w)
      BY <1>1, <1>w DEF PipeInv, LoopInv, Helpers
    <2>2. mainPc = "eof" => Full(w)
      BY <1>1 DEF PipeInv, LoopInv
    <2>3. \A i \in Helpers \ {w} : Sent(i)' = Sent(i)
      BY <1>1, <1>4, <1>w DEF Sent
    <2> QED
      BY <1>1, <1>6, <2>1, <2>2, <2>3 DEF Full, Lags
  <1>8. \/ k < H /\ k' = k + 1 /\ mainPc' = mainPc
        \/ k = H /\ k' = 1 /\ mainPc = "send" /\ mainPc' = "serve"
        \/ k = H /\ k' = 1 /\ mainPc = "eof" /\ mainPc' = "wait"
    BY <1>1, HrcAssumption DEF NextHelper, Helpers
  <1>9. HrcTypeOK'
    <2>1. pipe' \in [Helpers -> Seq(Records)]
      <3>1. Append(pipe[k], Record) \in Seq(Records)
        BY <1>2, <1>3, AppendProperties
      <3> QED
        BY <1>1, <3>1 DEF PipeInv, HrcTypeOK, Records
    <2>2. \A i \in Helpers : Len(pipe'[i]) <= PipeRecords
      <3>1. Len(pipe'[k]) = Len(pipe[k]) + 1 /\ Len(pipe[k]) \in Nat
        BY <1>2, <1>3, <1>4, AppendProperties, LenProperties
      <3> QED
        BY <1>1, <1>4, <3>1, HrcAssumption DEF PipeInv, HrcTypeOK
    <2>3. k' \in 1 .. H /\ mainPc' \in MainStates
      BY <1>1, <1>8, HrcAssumption DEF PipeInv, HrcTypeOK, MainStates
    <2> QED
      BY <1>1, <2>1, <2>2, <2>3 DEF PipeInv, HrcTypeOK, Records
  <1>10. LoopInv'
    <2>1. CASE mainPc = "send"
      <3>1. \A i \in Helpers : IF k <= i THEN Lags(i) ELSE Full(i)
        BY <2>1 DEF PipeInv, LoopInv
      <3>2. \A i \in Helpers : IF k < i THEN Lags(i)' ELSE Full(i)'
        BY <1>1, <1>7, <1>w, <2>1, <3>1 DEF Helpers
      <3>3. served # << >> /\ Last(served) = line /\ line \in 1 .. Lines
        BY <2>1 DEF PipeInv, LoopInv
      <3> QED
        BY <1>1, <1>8, <2>1, <3>2, <3>3 DEF LoopInv, Helpers
    <2>2. CASE mainPc = "eof"
      <3>1. \A i \in Helpers : Full(i)'
        BY <1>7, <1>w, <2>2 DEF PipeInv, LoopInv
      <3> QED
        BY <1>8, <2>2, <3>1 DEF LoopInv
    <2> QED
      BY <1>1, <2>1, <2>2
  <1>11. EndInv'
    <2>1. ~MainGone /\ ~MainGone'
      BY <1>1, <1>8 DEF MainGone
    <2>2. \A i \in Helpers : OnlyLastIsEOF(pipe'[i])
      BY <1>4, <1>5 DEF PipeInv, EndInv
    <2>3. \A i \in Helpers : helper'[i] # "none" => Main \in writeEnds'[i]
      BY <1>1, <2>1 DEF PipeInv, EndInv
    <2>4. CASE mainPc = "send"
      <3>1. \A i \in Helpers : ~HasEOF(pipe'[i]) /\ helper'[i] # "done"
        BY <1>1, <1>2, <1>3, <1>4, <1>5, <2>1, <2>4 DEF PipeInv, EndInv
      <3> QED
        BY <2>2, <2>3, <3>1 DEF EndInv
    <2>5. CASE mainPc = "eof"
      <3>1. \A i \in Helpers : HasEOF(pipe'[i]) => i <= k
        BY <1>1, <1>4, <2>1, <2>5 DEF PipeInv, EndInv, Helpers
      <3>2. \A i \in Helpers : helper'[i] = "done" => RequestsOf(pipe'[i]) = << >> /\ i < k
        BY <1>1, <1>3, <1>4, <2>1, <2>5 DEF PipeInv, EndInv
      <3>3. \A i \in Helpers : i <= k => mainPc' = "wait" \/ (mainPc' = "eof" /\ i < k')
        BY <1>1, <1>8, <2>5 DEF Helpers
      <3>4. \A i \in Helpers : i < k => i <= k
        BY <1>1 DEF Helpers
      <3> QED
        BY <2>2, <2>3, <3>1, <3>2, <3>3, <3>4 DEF EndInv
    <2> QED
      BY <1>1, <2>4, <2>5
  <1> QED
    BY <1>9, <1>10, <1>11 DEF PipeInv

LEMMA ReplayKeeps == ASSUME PipeInv, NEW i \in Helpers, Replay(i) PROVE PipeInv'
  <1>1. /\ pipe[i] # << >> /\ Head(pipe[i]) # EOF /\ helper[i] = "reads"
        /\ UNCHANGED <<mainPc, k, line, served, helper, readEnds, writeEnds>>
    BY DEF Replay, trace, fds
  <1>2. /\ replayed'[i] = Append(replayed[i], Head(pipe[i])) /\ pipe'[i] = Tail(pipe[i])
        /\ \A j \in Helpers \ {i} : replayed'[j] = replayed[j] /\ pipe'[j] = pipe[j]
    BY DEF Replay, PipeInv, HrcTypeOK
  <1>3. /\ replayed[i] \in Seq(1 .. Lines) /\ replayed[i] \in Seq(Records)
        /\ pipe[i] \in Seq(Records)
    BY PipeFacts DEF PipeInv
  <1>4. /\ Append(replayed[i], Head(pipe[i])) \o RequestsOf(Tail(pipe[i]))
             = replayed[i] \o RequestsOf(pipe[i])
        /\ OnlyLastIsEOF(Tail(pipe[i]))
        /\ HasEOF(Tail(pipe[i])) => HasEOF(pipe[i])
        /\ Tail(pipe[i]) \in Seq(Records) /\ Head(pipe[i]) \in 1 .. Lines
    BY <1>1, <1>3, HeadMoves DEF PipeInv, EndInv
  <1>5. HrcTypeOK'
    <2>1. Len(Tail(pipe[i])) <= PipeRecords
      BY <1>1, <1>3, HeadTailProperties, EmptySeq, HrcAssumption DEF PipeInv, HrcTypeOK
    <2>2. Append(replayed[i], Head(pipe[i])) \in Seq(1 .. Lines)
      BY <1>3, <1>4, AppendProperties
    <2>3. replayed' \in [Helpers -> Seq(1 .. Lines)] /\ pipe' \in [Helpers -> Seq(Records)]
      BY <1>4, <2>2 DEF Replay, PipeInv, HrcTypeOK, Records
    <2>4. \A j \in Helpers : Len(pipe'[j]) <= PipeRecords
      BY <1>2, <2>1 DEF PipeInv, HrcTypeOK
    <2> QED
      BY <1>1, <2>3, <2>4 DEF PipeInv, HrcTypeOK, Records
  <1>6. LoopInv'
    <2>1. \A j \in Helpers : Sent(j)' = Sent(j)
      BY <1>2, <1>4 DEF Sent
    <2>2. \A j \in Helpers : (Full(j)' <=> Full(j)) /\ (Lags(j)' <=> Lags(j))
      BY <1>1, <2>1 DEF Full, Lags
    <2> QED
      BY <1>1, <2>2 DEF PipeInv, LoopInv
  <1>7. EndInv'
    BY <1>1, <1>2, <1>4 DEF PipeInv, EndInv, MainGone
  <1> QED
    BY <1>5, <1>6, <1>7 DEF PipeInv

\* A short read means the last record, or that the main process is gone.
LEMMA StopKeeps == ASSUME PipeInv, NEW i \in Helpers, Stop(i) PROVE PipeInv'
  <1>1. /\ helper[i] = "reads" /\ helper' = [helper EXCEPT ![i] = "done"]
        /\ ShortRead(i) /\ CloseAll(i)
        /\ UNCHANGED <<mainPc, k, trace, replayed, pipe>>
    BY DEF Stop
  <1>2. /\ RequestsOf(pipe[i]) = << >>
        /\ MainGone \/ mainPc = "wait" \/ (mainPc = "eof" /\ i < k)
    <2>1. CASE pipe[i] # << >> /\ Head(pipe[i]) = EOF
      <3>1. pipe[i] \in Seq(Records) /\ OnlyLastIsEOF(pipe[i])
        BY PipeFacts DEF PipeInv, EndInv
      <3>2. PICK f \in Seq(Records), x \in Records : pipe[i] = Append(f, x)
        BY <2>1, <3>1, SequenceEmptyOrAppend
      <3>3. Len(pipe[i]) \in Nat /\ Len(pipe[i]) = 1
        <4>1. Len(pipe[i]) \in Nat \ {0} /\ Head(pipe[i]) = pipe[i][1]
          BY <2>1, <3>1, EmptySeq
        <4>2. Len(pipe[i]) > 1 => pipe[i][1] # EOF
          BY <3>1, <4>1 DEF OnlyLastIsEOF
        <4>3. ~(Len(pipe[i]) > 1)
          BY <2>1, <4>1, <4>2
        <4>4. \A n \in Nat \ {0} : ~(n > 1) => n \in Nat /\ n = 1
          OBVIOUS
        <4> QED
          BY <4>1, <4>3, <4>4
      <3>4. f = << >>
        BY <3>2, <3>3, AppendProperties, EmptySeq, LenProperties
      <3>5. x = EOF
        BY <2>1, <3>2, <3>4, HeadTailAppend
      <3>6. Last(pipe[i]) = x /\ Front(pipe[i]) = f
        BY <3>2, FrontOfAppend
      <3> QED
        BY <2>1, <3>4, <3>5, <3>6 DEF PipeInv, EndInv, HasEOF, RequestsOf
    <2>2. CASE pipe[i] = << >> /\ writeEnds[i] = {}
      BY <1>1, <2>2 DEF PipeInv, EndInv, RequestsOf
    <2> QED
      BY <1>1, <2>1, <2>2 DEF ShortRead
  <1>3. i \in Procs /\ i # Main
    BY DEF Procs, Helpers, Main
  <1>4. /\ readEnds' \in [Helpers -> SUBSET Procs] /\ writeEnds' \in [Helpers -> SUBSET Procs]
        /\ \A j \in Helpers : Main \in writeEnds[j] => Main \in writeEnds'[j]
    BY <1>1, <1>3, Closes DEF PipeInv
  <1> QED
    BY <1>1, <1>2, <1>4, HelperMoves

LEMMA PipeNext == PipeInv /\ [HrcNext]_hrcVars => PipeInv'
  <1> SUFFICES ASSUME PipeInv, [HrcNext]_hrcVars PROVE PipeInv'
    OBVIOUS
  <1>1. CASE Fork
    BY <1>1, ForkKeeps
  <1>2. CASE ParentCloses
    BY <1>2, ParentClosesKeeps
  <1>3. CASE ServeLine
    BY <1>3, ServeKeeps
  <1>4. CASE EndOfTrace
    <2>1. /\ mainPc = "serve" /\ mainPc' = "eof"
          /\ UNCHANGED <<k, line, served, helper, replayed, pipe, readEnds, writeEnds>>
      BY <1>4 DEF EndOfTrace, trace, fds
    <2>2. HrcTypeOK'
      BY <2>1 DEF PipeInv, HrcTypeOK, MainStates
    <2>3. LoopInv'
      BY <2>1, LoopKept DEF PipeInv
    <2>4. EndInv'
      BY <2>1, EndKept DEF PipeInv, MainGone
    <2> QED
      BY <2>2, <2>3, <2>4 DEF PipeInv
  <1>5. CASE Write
    BY <1>5, WriteKeeps
  <1>6. CASE WriteFails
    BY <1>6, MainEnds DEF WriteFails
  <1>7. CASE WaitForOne
    BY <1>7, MainEnds DEF WaitForOne
  <1>8. CASE MainFails
    BY <1>8, MainEnds DEF MainFails
  <1>9. ASSUME NEW i \in Helpers, ChildCloses(i) PROVE PipeInv'
    <2>1. /\ readEnds' \in [Helpers -> SUBSET Procs] /\ writeEnds' \in [Helpers -> SUBSET Procs]
          /\ \A j \in Helpers : Main \in writeEnds[j] => Main \in writeEnds'[j]
      BY <1>9 DEF ChildCloses, WriterOfHelper, PipeInv, HrcTypeOK, Helpers, Main
    <2> QED
      BY <1>9, <2>1, HelperMoves DEF ChildCloses
  <1>10. ASSUME NEW i \in Helpers, Replay(i) PROVE PipeInv'
    BY <1>10, ReplayKeeps
  <1>11. ASSUME NEW i \in Helpers, Stop(i) PROVE PipeInv'
    BY <1>11, StopKeeps
  <1>12. ASSUME NEW i \in Helpers, HelperFails(i) PROVE PipeInv'
    <2>1. i \in Procs /\ i # Main
      BY DEF Procs, Helpers, Main
    <2>2. /\ readEnds' \in [Helpers -> SUBSET Procs] /\ writeEnds' \in [Helpers -> SUBSET Procs]
          /\ \A j \in Helpers : Main \in writeEnds[j] => Main \in writeEnds'[j]
      BY <1>12, <2>1, Closes DEF HelperFails, PipeInv
    <2> QED
      BY <1>12, <2>2, HelperMoves DEF HelperFails, Running
  <1>13. CASE UNCHANGED hrcVars
    <2>1. UNCHANGED <<mainPc, k, line, served, helper, replayed, pipe, readEnds, writeEnds>>
      BY <1>13 DEF hrcVars
    <2>2. HrcTypeOK'
      BY <2>1 DEF PipeInv, HrcTypeOK
    <2>3. LoopInv'
      BY <2>1, LoopKept DEF PipeInv
    <2>4. EndInv'
      BY <2>1, EndKept DEF PipeInv, MainGone
    <2> QED
      BY <2>2, <2>3, <2>4 DEF PipeInv
  <1> QED
    BY <1>1, <1>2, <1>3, <1>4, <1>5, <1>6, <1>7, <1>8, <1>9, <1>10, <1>11, <1>12, <1>13
    DEF HrcNext, MainStep, HelperStep

\* PipeInv holds in every reachable state.
THEOREM PipesInvariant == HrcSpec => []PipeInv
  <1>1. HrcInit => PipeInv
    BY PipeInit
  <1>2. PipeInv /\ [HrcNext]_hrcVars => PipeInv'
    BY PipeNext
  <1> QED
    BY <1>1, <1>2, PTL DEF HrcSpec

-----------------------------------------------------------------------------
LEMMA PrefixOfAppend ==
  ASSUME NEW S, NEW s \in Seq(S), NEW x \in S
  PROVE  IsPrefix(s, s) /\ IsPrefix(s, Append(s, x)) /\ Len(Append(s, x)) = Len(s) + 1
  <1>1. /\ Append(s, x) \in Seq(S) /\ Len(Append(s, x)) = Len(s) + 1 /\ Len(s) \in Nat
        /\ Front(Append(s, x)) = s
    BY FrontOfAppend, AppendProperties, LenProperties
  <1>2. SubSeq(Append(s, x), 1, Len(s)) = s
    BY <1>1 DEF Front
  <1>3. SubSeq(s, 1, Len(s)) = s
    BY SubSeqFull
  <1> QED
    BY <1>1, <1>2, <1>3 DEF IsPrefix

\* A helper has been sent the real cache's requests, in order, but for the one
\* being sent: the hit ratios are taken over one workload.
THEOREM SameWorkload == HrcSpec => []SamePrefix
  <1>1. PipeInv => SamePrefix
    <2> SUFFICES ASSUME PipeInv, NEW i \in Helpers
                 PROVE  /\ IsPrefix(Sent(i), served)
                        /\ mainPc \in {"serve", "eof", "wait", "done"} => Sent(i) = served
                        /\ Len(Sent(i)) >= Len(served) - 1
      BY DEF SamePrefix, PipeInv
    <2>1. Sent(i) \in Seq(Records) /\ served \in Seq(Records) /\ Len(Sent(i)) \in Nat
      BY PipeFacts, LenProperties DEF PipeInv
    <2>2. CASE Full(i)
      <3>1. IsPrefix(Sent(i), Sent(i)) /\ Len(Sent(i)) >= Len(Sent(i)) - 1
        BY <2>1, PrefixOfAppend, SubSeqFull DEF IsPrefix
      <3> QED
        BY <2>2, <3>1 DEF Full
    <2>3. CASE Lags(i) /\ mainPc \in {"send", "failed"}
      <3>1. Last(served) \in Records /\ served = Append(Sent(i), Last(served))
        BY <2>1, <2>3, AppendOfFront DEF Lags
      <3>2. IsPrefix(Sent(i), served) /\ Len(served) = Len(Sent(i)) + 1
        <4>1. \A t \in Seq(Records) : \A x \in Records :
                IsPrefix(t, Append(t, x)) /\ Len(Append(t, x)) = Len(t) + 1
          BY PrefixOfAppend
        <4>2. IsPrefix(Sent(i), Append(Sent(i), Last(served)))
              /\ Len(Append(Sent(i), Last(served))) = Len(Sent(i)) + 1
          BY <2>1, <3>1, <4>1
        <4> QED
          BY <3>1, <4>2
      <3> QED
        BY <2>1, <2>3, <3>2
    <2>4. Full(i) \/ (Lags(i) /\ mainPc \in {"send", "failed"})
      BY DEF PipeInv, LoopInv
    <2> QED
      BY <2>2, <2>3, <2>4
  <1> QED
    BY <1>1, PipesInvariant, PTL

\* A helper that stops by itself has replayed all it was ever sent.
THEOREM CleanStop == HrcSpec => []CleanStopIsComplete
  <1>1. PipeInv => CleanStopIsComplete
    <2> SUFFICES ASSUME PipeInv, NEW i \in Helpers, helper[i] = "done"
                 PROVE  /\ RequestsOf(pipe[i]) = << >>
                        /\ MainGone \/ mainPc \in {"eof", "wait"}
                        /\ mainPc \in {"wait", "done"} => replayed[i] = served
      BY DEF CleanStopIsComplete
    <2>1. RequestsOf(pipe[i]) = << >> /\ (MainGone \/ mainPc \in {"eof", "wait"})
      BY DEF PipeInv, EndInv
    <2>2. Sent(i) = replayed[i]
      BY <2>1, PipeFacts, ConcatEmptySeq DEF Sent, PipeInv
    <2>3. mainPc \in {"wait", "done"} => Full(i)
      BY DEF PipeInv, LoopInv
    <2> QED
      BY <2>1, <2>2, <2>3 DEF Full
  <1> QED
    BY <1>1, PipesInvariant, PTL
=============================================================================
