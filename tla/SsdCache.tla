------------------------------ MODULE SsdCache ------------------------------
(***************************************************************************)
(* The cache layer of src/cache.c: one process serves one request at a     *)
(* time, looks its block up in the hash table, takes a descriptor from the *)
(* free list or has the strategy throw a batch of blocks out, and moves    *)
(* data between the SSD slots and the backing disk.  The steps are cut     *)
(* where a device is used, because a device call that fails ends the       *)
(* process there (dev_pread and dev_pwrite call exit).                     *)
(*                                                                         *)
(* The hash table is the map it implements, the free list the stack it     *)
(* implements, and the strategy is EvictStrategy.                          *)
(***************************************************************************)
EXTENDS Integers, Sequences, FiniteSets

CONSTANTS
  N,             \* NBLOCK_SSD_CACHE: descriptors, and slots of the SSD
  Grain,         \* EVICT_DITRY_GRAIN
  Blocks,        \* tags: block offsets on the backing disk
  Values,        \* contents of a block
  InitValue,     \* what the backing disk holds at the start
  Unwritten,     \* what an SSD slot holds before it is first written
  NoOp, NoReply, NoBlock,
  Balancer,      \* R3BALANCER_ON: the cost model may name the victim type
  Typed,         \* the strategy honours the victim type
  DevicesFail    \* device calls may fail

ASSUME CacheAssumption ==
  /\ N \in Nat \ {0}
  /\ Grain \in Nat \ {0}
  /\ InitValue \in Values
  /\ Unwritten \notin Values
  /\ NoReply \notin Values
  /\ NoBlock \notin Blocks
  /\ Balancer \in BOOLEAN /\ Typed \in BOOLEAN /\ DevicesFail \in BOOLEAN

Desps == 0 .. N - 1
Nil == -1
Slot == Values \cup {Unwritten}

Requests == [kind : {"read"}, block : Blocks, value : {InitValue}]
              \cup [kind : {"write"}, block : Blocks, value : Values]

ASSUME NoOpAssumption == NoOp \notin Requests

VARIABLES
  op,            \* the request read_block() or write_block() is serving
  reply,         \* the buffer of the last read_block() that returned
  pc,            \* the next step of the request
  found,         \* *found of allocSSDBuf()
  cur,           \* ssd_buf_hdr: the descriptor the request works on
  suggest,       \* suggest_type, the victim type
  victims,       \* what is left of buf_despid_array
  buf,           \* the page a device read filled: ssd_buffer of
                 \* flushSSDBuffer(), or the caller's page
  valid, dirty,  \* descriptors whose ssd_buf_flag has VALID, DIRTY set
  tag,           \* ssd_buf_tag of each descriptor
  hashtable,     \* the descriptor each cached block maps to, or Nil
  freelist,      \* descriptors from first_freessd on
  n_clean, n_dirty,   \* incache_n_clean, incache_n_dirty
  cleanSet, dirtySet, \* the strategy's descriptors
  registered,    \* blocks given to CM_Reg_EvictBlk() since their last
                 \* CM_TryCallBack()
  ssd, hdd,      \* contents of the two devices
  alive          \* the process has not called exit()

request  == <<op, reply>>
control  == <<pc, found, cur, suggest, victims, buf>>
metadata == <<valid, dirty, tag, hashtable, freelist, n_clean, n_dirty>>
strategy == <<cleanSet, dirtySet>>
devices  == <<ssd, hdd>>
vars == <<request, control, metadata, strategy, registered, devices, alive>>

Strategy == INSTANCE EvictStrategy

PCs == {"idle", "lookup", "logout", "evict", "flush", "io", "load", "fill"}

TypeOK ==
  /\ op \in Requests \cup {NoOp}
  /\ reply \in Slot \cup {NoReply}
  /\ pc \in PCs
  /\ pc = "idle" <=> op = NoOp
  /\ found \in BOOLEAN
  /\ cur \in Desps
  /\ suggest \in Strategy!VictimTypes
  /\ victims \subseteq Desps
  /\ buf \in Slot
  /\ valid \subseteq Desps /\ dirty \subseteq Desps
  /\ tag \in [Desps -> Blocks \cup {NoBlock}]
  /\ hashtable \in [Blocks -> Desps \cup {Nil}]
  /\ freelist \in Seq(Desps)
  /\ n_clean \in Int /\ n_dirty \in Int
  /\ Strategy!TypeOK
  /\ registered \subseteq Blocks \cup {NoBlock}
  /\ ssd \in [Desps -> Slot]
  /\ hdd \in [Blocks -> Slot]
  /\ alive \in BOOLEAN

(***************************************************************************)
(* CacheLayer_Init(): all descriptors are free, linked in order; tags and  *)
(* the pages are what malloc() and the disks hold.                         *)
(***************************************************************************)
Init ==
  /\ op = NoOp /\ reply = NoReply
  /\ pc = "idle" /\ found = FALSE /\ cur = 0
  /\ suggest = "Any" /\ victims = {} /\ buf = Unwritten
  /\ valid = {} /\ dirty = {}
  /\ tag = [d \in Desps |-> NoBlock]
  /\ hashtable = [b \in Blocks |-> Nil]
  /\ freelist = [i \in 1 .. N |-> i - 1]
  /\ n_clean = 0 /\ n_dirty = 0
  /\ Strategy!Init
  /\ registered = {}
  /\ ssd = [d \in Desps |-> Unwritten]
  /\ hdd = [b \in Blocks |-> InitValue]
  /\ alive = TRUE

IsWrite == op.kind = "write"

\* read_block() or write_block() is called.
Request ==
  /\ alive /\ pc = "idle"
  /\ op' \in Requests
  /\ reply' = NoReply
  /\ pc' = "lookup"
  /\ UNCHANGED <<found, cur, suggest, victims, buf,
                 metadata, strategy, registered, devices, alive>>

(***************************************************************************)
(* flagOp(): the descriptor becomes valid, and dirty by a write.           *)
(***************************************************************************)
flagOp(d) ==
  /\ valid' = valid \cup {d}
  /\ dirty' = IF IsWrite THEN dirty \cup {d} ELSE dirty

\* Faulty variant: the strategy is told the kind of access, not the flag.
Hit_TellsAccess ==
  /\ alive /\ pc = "lookup"
  /\ hashtable[op.block] # Nil
  /\ cur' = hashtable[op.block]
  /\ found' = TRUE
  /\ IF IsWrite /\ cur' \notin dirty
       THEN n_clean' = n_clean - 1 /\ n_dirty' = n_dirty + 1
       ELSE UNCHANGED <<n_clean, n_dirty>>
  /\ flagOp(cur')
  /\ Strategy!Classify(cur', IsWrite)
  /\ pc' = "io"
  /\ UNCHANGED <<request, suggest, victims, buf, tag, hashtable, freelist,
                 registered, devices, alive>>

\* Faulty variant: a write hit on a clean block is not counted.
Hit_NotCounted ==
  /\ alive /\ pc = "lookup"
  /\ hashtable[op.block] # Nil
  /\ cur' = hashtable[op.block]
  /\ found' = TRUE
  /\ UNCHANGED <<n_clean, n_dirty>>
  /\ flagOp(cur')
  /\ Strategy!Classify(cur', cur' \in dirty')
  /\ pc' = "io"
  /\ UNCHANGED <<request, suggest, victims, buf, tag, hashtable, freelist,
                 registered, devices, alive>>

\* The block is cached: flag it, tell the strategy, go on to the SSD.
Hit ==
  /\ alive /\ pc = "lookup"
  /\ hashtable[op.block] # Nil
  /\ cur' = hashtable[op.block]
  /\ found' = TRUE
  /\ IF IsWrite /\ cur' \notin dirty
       THEN n_clean' = n_clean - 1 /\ n_dirty' = n_dirty + 1
       ELSE UNCHANGED <<n_clean, n_dirty>>
  /\ flagOp(cur')
  /\ Strategy!Classify(cur', cur' \in dirty')   \* Strategy_Desp_HitIn()
  /\ pc' = "io"
  /\ UNCHANGED <<request, suggest, victims, buf, tag, hashtable, freelist,
                 registered, devices, alive>>

\* Faulty variant: the descriptor keeps the tag of its last block.
Install_KeepsTag ==
  LET d == Head(freelist)
  IN  /\ freelist' = Tail(freelist)
      /\ cur' = d
      /\ flagOp(d)
      /\ tag' = IF tag[d] = NoBlock THEN [tag EXCEPT ![d] = op.block] ELSE tag
      /\ hashtable' = [hashtable EXCEPT ![op.block] = d]
      /\ Strategy!Classify(d, d \in dirty')
      /\ IF d \in dirty'
           THEN n_dirty' = n_dirty + 1 /\ UNCHANGED n_clean
           ELSE n_clean' = n_clean + 1 /\ UNCHANGED n_dirty
      /\ pc' = IF IsWrite THEN "io" ELSE "load"

\* The end of allocSSDBuf() on a miss: pop_freebuf() returned the head d of
\* the free list, and the block moves in.
Install ==
  LET d == Head(freelist)
  IN  /\ freelist' = Tail(freelist)
      /\ cur' = d
      /\ flagOp(d)
      /\ tag' = [tag EXCEPT ![d] = op.block]
      /\ hashtable' = [hashtable EXCEPT ![op.block] = d]
      /\ Strategy!Classify(d, d \in dirty')         \* Strategy_Desp_LogIn()
      /\ IF d \in dirty'
           THEN n_dirty' = n_dirty + 1 /\ UNCHANGED n_clean
           ELSE n_clean' = n_clean + 1 /\ UNCHANGED n_dirty
      /\ pc' = IF IsWrite THEN "io" ELSE "load"

\* Faulty variant: the cost model is not asked on a miss.
CallBack_Skipped == registered' = registered

\* CM_TryCallBack() on a miss: the block leaves the cost model's index.
CallBack == registered' = registered \ {op.block}

\* The block is not cached and a descriptor is free.
MissFree ==
  /\ alive /\ pc = "lookup"
  /\ hashtable[op.block] = Nil
  /\ freelist # << >>
  /\ found' = FALSE
  /\ CallBack
  /\ Install
  /\ UNCHANGED <<request, suggest, victims, buf, devices, alive>>

\* The block is not cached and no descriptor is free.  With R3BALANCER_ON
\* the cost model names a type once enough blocks were evicted; when that is
\* and what it names is left open.
MissFull ==
  /\ alive /\ pc = "lookup"
  /\ hashtable[op.block] = Nil
  /\ freelist = << >>
  /\ found' = FALSE
  /\ CallBack
  /\ suggest' \in IF Balancer THEN Strategy!VictimTypes ELSE {"Any"}
  /\ pc' = "logout"
  /\ UNCHANGED <<request, cur, victims, buf, metadata, strategy, devices, alive>>

\* Faulty variant: the counters are not looked at.
VictimType_AsSuggested == suggest

\* The type the strategy is asked for: never one of which nothing is cached.
VictimType ==
  IF n_clean = 0 THEN "Dirty" ELSE IF n_dirty = 0 THEN "Clean" ELSE suggest

\* LogOut_*(): the strategy fills buf_despid_array.
LogOut ==
  /\ alive /\ pc = "logout"
  /\ suggest' = VictimType
  /\ victims' \in SUBSET Strategy!Candidates(VictimType)
  /\ Strategy!LogOut(VictimType, victims')
  /\ pc' = "evict"
  /\ UNCHANGED <<request, found, cur, buf, metadata, registered, devices, alive>>

\* The victim's flags are cleared and it goes to the free list.
Release(d) ==
  /\ IF d \in dirty
       THEN n_dirty' = n_dirty - 1 /\ UNCHANGED n_clean
       ELSE n_clean' = n_clean - 1 /\ UNCHANGED n_dirty
  /\ valid' = valid \ {d}
  /\ dirty' = dirty \ {d}
  /\ freelist' = <<d>> \o freelist
  /\ registered' = registered \cup {tag[d]}      \* CM_Reg_EvictBlk()

\* Faulty variant: the hash table keeps the victim.
EvictClean_StaysHashed(d) ==
  /\ alive /\ pc = "evict"
  /\ d \in victims \ dirty
  /\ cur' = d
  /\ victims' = victims \ {d}
  /\ UNCHANGED hashtable
  /\ Release(d)
  /\ UNCHANGED <<request, pc, found, suggest, buf, tag, strategy, devices, alive>>

\* The next victim is clean: nothing to write back.
EvictClean(d) ==
  /\ alive /\ pc = "evict"
  /\ d \in victims \ dirty
  /\ cur' = d
  /\ victims' = victims \ {d}
  /\ hashtable' = [hashtable EXCEPT ![tag[d]] = Nil]
  /\ Release(d)
  /\ UNCHANGED <<request, pc, found, suggest, buf, tag, strategy, devices, alive>>

\* The next victim is dirty: it leaves the hash table and is read from the
\* SSD (flushSSDBuffer(), first half) ...
FlushRead(d) ==
  /\ alive /\ pc = "evict"
  /\ d \in victims \cap dirty
  /\ cur' = d
  /\ victims' = victims \ {d}
  /\ hashtable' = [hashtable EXCEPT ![tag[d]] = Nil]
  /\ buf' = ssd[d]
  /\ pc' = "flush"
  /\ UNCHANGED <<request, found, suggest, valid, dirty, tag, freelist,
                 n_clean, n_dirty, strategy, registered, devices, alive>>

\* Faulty variant: written to the place of the block that is coming in.
FlushWrite_WrongPlace ==
  /\ alive /\ pc = "flush"
  /\ hdd' = [hdd EXCEPT ![op.block] = buf]
  /\ Release(cur)
  /\ pc' = "evict"
  /\ UNCHANGED <<request, found, cur, suggest, victims, buf, tag, hashtable,
                 strategy, ssd, alive>>

\* Faulty variant: the loop over the victims does not advance.
FlushWrite_NoProgress ==
  /\ alive /\ pc = "flush"
  /\ hdd' = [hdd EXCEPT ![tag[cur]] = buf]
  /\ victims' = victims \cup {cur}
  /\ pc' = "evict"
  /\ UNCHANGED <<request, found, cur, suggest, buf, metadata, strategy,
                 registered, ssd, alive>>

\* ... and written to the backing disk, and the descriptor is released.
FlushWrite ==
  /\ alive /\ pc = "flush"
  /\ hdd' = [hdd EXCEPT ![tag[cur]] = buf]
  /\ Release(cur)
  /\ pc' = "evict"
  /\ UNCHANGED <<request, found, cur, suggest, victims, buf, tag, hashtable,
                 strategy, ssd, alive>>

\* All victims are out: the head of the free list takes the block.
Evicted ==
  /\ alive /\ pc = "evict"
  /\ victims = {}
  /\ freelist # << >>
  /\ Install
  /\ UNCHANGED <<request, found, suggest, victims, buf, registered, devices, alive>>

Return(answer) ==
  /\ pc' = "idle"
  /\ op' = NoOp
  /\ reply' = answer

\* write_block(): the page goes to the SSD slot.
WriteSsd ==
  /\ alive /\ pc = "io" /\ IsWrite
  /\ ssd' = [ssd EXCEPT ![cur] = op.value]
  /\ Return(reply)
  /\ UNCHANGED <<found, cur, suggest, victims, buf, metadata, strategy,
                 registered, hdd, alive>>

\* read_block(), hit: the page comes from the SSD slot.
ReadSsd ==
  /\ alive /\ pc = "io" /\ ~IsWrite
  /\ buf' = ssd[cur]
  /\ Return(buf')
  /\ UNCHANGED <<found, cur, suggest, victims, metadata, strategy,
                 registered, devices, alive>>

\* read_block(), miss: the page comes from the backing disk ...
ReadHdd ==
  /\ alive /\ pc = "load"
  /\ buf' = hdd[op.block]
  /\ pc' = "fill"
  /\ UNCHANGED <<request, found, cur, suggest, victims, metadata, strategy,
                 registered, devices, alive>>

\* ... and is copied to the SSD slot.
FillSsd ==
  /\ alive /\ pc = "fill"
  /\ ssd' = [ssd EXCEPT ![cur] = buf]
  /\ Return(buf)
  /\ UNCHANGED <<found, cur, suggest, victims, buf, metadata, strategy,
                 registered, hdd, alive>>

\* A device call fails: dev_pread() or dev_pwrite() ends the process.
DeviceError ==
  /\ DevicesFail /\ alive
  /\ \/ pc \in {"flush", "io", "load", "fill"}
     \/ pc = "evict" /\ victims \cap dirty # {}
  /\ alive' = FALSE
  /\ UNCHANGED <<request, control, metadata, strategy, registered, devices>>

\* What the process does by itself once a request is there.
Serve ==
  \/ Hit \/ MissFree \/ MissFull \/ LogOut
  \/ \E d \in Desps : EvictClean(d) \/ FlushRead(d)
  \/ FlushWrite \/ Evicted
  \/ WriteSsd \/ ReadSsd \/ ReadHdd \/ FillSsd

Next == Request \/ Serve \/ DeviceError

Spec == Init /\ [][Next]_vars

\* One process runs the code to its end: as long as it lives and has a
\* request, it takes steps.
FairSpec == Spec /\ WF_vars(Serve)

-----------------------------------------------------------------------------
(***************************************************************************)
(* What the cache promises.                                                *)
(***************************************************************************)

\* The descriptor being written back: out of the hash table, not yet free.
Flushing(d) == pc = "flush" /\ d = cur

\* Descriptor d was given to the block of the current miss and its slot does
\* not hold the block yet.
Filling(d) == pc \in {"load", "fill", "io"} /\ ~found /\ d = cur

\* What the two devices and the page being filled stand for: the contents
\* of each block as a user of the cache sees them.
Contents ==
  [b \in Blocks |->
     IF pc = "flush" /\ tag[cur] = b THEN ssd[cur]
     ELSE IF hashtable[b] # Nil /\ ~Filling(hashtable[b]) THEN ssd[hashtable[b]]
     ELSE hdd[b]]

\* The cache behaves as one array of blocks: a read returns what the last
\* write of the block stored, whatever was evicted, written back or refilled
\* in between (read_block() and write_block()).
Store == INSTANCE BlockStore WITH store <- Contents
ImplementsBlockStore == Store!Spec

\* The hash table finds exactly the valid descriptors, each under its own
\* tag; only the one being written back is valid and not to be found
\* (allocSSDBuf(): HashTab_Delete comes before the flags are cleared).
HashMatchesTags ==
  /\ \A b \in Blocks : hashtable[b] # Nil =>
       hashtable[b] \in valid /\ tag[hashtable[b]] = b
  /\ \A d \in valid : tag[d] \in Blocks
                      /\ hashtable[tag[d]] = IF Flushing(d) THEN Nil ELSE d

\* Each descriptor is either valid or on the free list, on it once only
\* (pop_freebuf() and push_freebuf()).
FreeOrValid ==
  /\ \A i, j \in 1 .. Len(freelist) : freelist[i] = freelist[j] => i = j
  /\ {freelist[i] : i \in 1 .. Len(freelist)} = Desps \ valid

\* The strategy ranks exactly the valid descriptors that are not on their
\* way out, and agrees with their flags on which are dirty: it is only told
\* by the arguments of LogIn and HitIn.
StrategyMatchesFlags ==
  /\ cleanSet \cup dirtySet = valid \ (victims \cup {d \in {cur} : Flushing(d)})
  /\ dirtySet = dirty \cap (cleanSet \cup dirtySet)
  /\ victims \cup dirty \subseteq valid

\* incache_n_clean and incache_n_dirty count what they say; allocSSDBuf()
\* picks the victim type by them.
CountersMatchFlags ==
  /\ n_dirty = Cardinality(dirty)
  /\ n_clean = Cardinality(valid \ dirty)

\* A clean block may be dropped without a write: its slot holds what the
\* backing disk holds (flushSSDBuffer() returns early for it).
CleanIsOnDisk ==
  \A d \in valid \ dirty : Filling(d) \/ ssd[d] = hdd[tag[d]]

\* A slot is read only after it was written: no page reaches the caller or
\* the backing disk that was never stored (allocSSDBuf() marks a descriptor
\* valid before read_block() or write_block() fills its slot).
NothingUnwritten ==
  /\ \A d \in valid : Filling(d) \/ ssd[d] \in Values
  /\ \A b \in Blocks : hdd[b] \in Values
  /\ reply \in Values \cup {NoReply}

\* What each step of a request may count on: a missed block stays out of the
\* hash table, and in particular is not a victim of its own miss, until it
\* is installed; the descriptor it was given stays its own to the end; after
\* a batch was evicted the free list is not empty (allocSSDBuf() uses what
\* pop_freebuf() returns there without a check).
RequestOnTrack ==
  /\ pc \in {"logout", "evict", "flush"} =>
       ~found /\ hashtable[op.block] = Nil /\ op.block \notin registered
  /\ pc \in {"io", "load", "fill"} => hashtable[op.block] = cur
  /\ pc = "logout" => freelist = << >>
  /\ victims # {} => pc \in {"evict", "flush"}
  /\ pc = "evict" => victims # {} \/ freelist # << >>
  /\ pc = "flush" => /\ cur \in dirty \ victims
                     /\ buf = ssd[cur]
                     /\ tag[cur] # op.block
  /\ pc = "io" => IF IsWrite THEN cur \in dirty ELSE found
  /\ pc \in {"load", "fill"} => ~found /\ ~IsWrite
  /\ pc = "fill" => buf = hdd[op.block]

\* Every call on the strategy is one it allows: no descriptor logged in
\* twice, no hit on one it does not hold, no batch asked of an empty class.
CallsStrategyCorrectly == Strategy!Spec

\* The hash table is used as a map: a block is inserted only when it is not in
\* it, with a descriptor that no other block maps to, and a victim is in it
\* when it is deleted (allocSSDBuf() looks at the result of neither call).
Table == INSTANCE TagMap WITH map <- hashtable
CallsTableCorrectly == Table!Spec

\* LogOut_*() is only called on a full cache, and the class of victims it is
\* asked for has a member, both have one when any will do: the two tests on
\* the counters before the call are enough (cache.c:313-317).
LogOutAnswerable ==
  pc = "logout" => Strategy!Answerable(VictimType)

\* "it can not be register a block has been exist in the window array": no
\* block is given to CM_Reg_EvictBlk() again before CM_TryCallBack() saw it
\* (costmodel.c:115-119).
NoDoubleRegistration ==
  \A d \in valid : tag[d] \notin registered

\* The inductive invariant: the parts above together.
CacheInv ==
  /\ TypeOK
  /\ RequestOnTrack
  /\ HashMatchesTags
  /\ FreeOrValid
  /\ StrategyMatchesFlags
  /\ CleanIsOnDisk
  /\ NothingUnwritten
  /\ NoDoubleRegistration

\* Every request is answered, if the devices answer.
RequestsReturn == (op # NoOp) ~> (op = NoOp)
=============================================================================
