---------------------------- MODULE SmrSimulator ----------------------------
(***************************************************************************)
(* smr-simulator/simulator_v2.c: a shingled disk made of an append-only    *)
(* FIFO of blocks in front of bands that can only be rewritten as a whole. *)
(* A write goes to the tail of the FIFO and makes the older version of its *)
(* block there invalid.  When the FIFO is full, the band of the block at   *)
(* the head is read, all valid blocks of the band in the FIFO are merged   *)
(* into it, and it is written back.                                        *)
(*                                                                         *)
(* Offsets are counted in blocks.  The build modelled has disk I/O (no     *)
(* SIMU_NO_DISK_IO) and no SIMULATOR_AIO; a request is one block, as those *)
(* of cache.c are.  The mutex makes a request one section, so the steps    *)
(* below are cut for the reader and for the invariants of the loop.        *)
(***************************************************************************)
EXTENDS Integers, FiniteSetsExt

CONSTANTS
  FifoBlks,      \* NBLOCK_SMR_FIFO
  HalfBand,      \* BNDSZ / 2: size of the smallest bands
  Unit,          \* one megabyte: each size class has bands this much larger
  Classes,       \* band_size_num
  NumEach,       \* num_each_size: bands of each size class
  Used,          \* bound: blocks that requests name
  Marked,        \* bound: blocks that are written with other values than InitValue
  Values, InitValue, NoOp, NoReply

ASSUME SimulatorAssumption ==
  /\ FifoBlks \in Nat \ {0} /\ HalfBand \in Nat \ {0} /\ Unit \in Nat
  /\ Classes \in Nat \ {0} /\ NumEach \in Nat \ {0}
  /\ InitValue \in Values /\ NoReply \notin Values

Slots == 0 .. FifoBlks     \* fifo_desp_array has one slot more than it may hold
Nil == -1

After(s) == (s + 1) % (FifoBlks + 1)

(***************************************************************************)
(* The bands.  The loops over the size classes stop at the first class     *)
(* that ends beyond the offset.                                            *)
(***************************************************************************)
Size(i) == HalfBand + i * Unit

Start[i \in 0 .. Classes] ==
  IF i = 0 THEN 0 ELSE Start[i - 1] + NumEach * Size(i - 1)

Disk == 0 .. Start[Classes] - 1
ASSUME UsedAssumption == Used \subseteq Disk /\ Used # {} /\ Marked \subseteq Used

ClassOf(b) == Min({i \in 0 .. Classes - 1 : Start[i + 1] > b})

\* GetSMRBandNumFromSSD()
BandNum(b) == NumEach * ClassOf(b) + (b - Start[ClassOf(b)]) \div Size(ClassOf(b))

\* GetSMROffsetInBandFromSSD()
OffsetInBand(b) == (b - Start[ClassOf(b)]) % Size(ClassOf(b))

\* GetSMRActualBandSizeFromSSD(): here the class may also end at the offset.
ActualBandSize(b) == Size(Min({i \in 0 .. Classes - 1 : Start[i + 1] >= b}))

VARIABLES
  op, reply,       \* the request, and what the last one returned
  pc,
  isValid, tag, fifo,   \* of each slot: descriptor, and block on the FIFO disk
  head, tail,      \* global_fifo_ctrl
  table,           \* the hash table: the slot of a block's last version
  smr,             \* the bands
  BandBuffer,      \* the merged band, from its first block on
  leader,          \* tag of the block the flush started from
  curPos,          \* where the flush's walk through the FIFO is
  alive            \* the process has not called exit()

ring == <<isValid, tag, fifo, head, tail, table>>
flush == <<BandBuffer, leader, curPos>>
vars == <<op, reply, pc, ring, smr, flush, alive>>

Requests == [kind : {"read"}, block : Used, value : {InitValue}]
              \cup [kind : {"write"}, block : Used, value : Values]
ASSUME NoOpAssumption == NoOp \notin Requests

TypeOK ==
  /\ op \in Requests \cup {NoOp} /\ reply \in Values \cup {NoReply}
  /\ pc \in {"idle", "start", "collect", "append"} /\ (pc = "idle" <=> op = NoOp)
  /\ isValid \in [Slots -> BOOLEAN] /\ tag \in [Slots -> Used]
  /\ fifo \in [Slots -> Values] /\ head \in Slots /\ tail \in Slots
  /\ table \in [Used -> Slots \cup {Nil}]
  /\ smr \in [Disk -> Values]
  /\ BandBuffer \in [0 .. Size(Classes - 1) - 1 -> Values]
  /\ leader \in Used /\ curPos \in Slots /\ alive \in BOOLEAN

\* The variables of flushFIFO() while it does not run.  The buffer keeps its
\* contents in the code, where the next flush overwrites what it will use.
EmptyBuffer == [i \in 0 .. Size(Classes - 1) - 1 |-> InitValue]
NoFlush == BandBuffer = EmptyBuffer /\ leader = Min(Used) /\ curPos = 0

\* InitSimulator(): an empty FIFO.  The tags are what the memory holds; they are
\* only read in valid slots.
Init ==
  /\ op = NoOp /\ reply = NoReply /\ pc = "idle"
  /\ isValid = [s \in Slots |-> FALSE]
  /\ tag = [s \in Slots |-> Min(Used)]
  /\ fifo = [s \in Slots |-> InitValue]
  /\ head = 0 /\ tail = 0
  /\ table = [b \in Used |-> Nil]
  /\ smr = [b \in Disk |-> InitValue]
  /\ NoFlush
  /\ alive = TRUE

\* Faulty variant: the test for an empty FIFO.
isFIFOFull_WhenEmpty == tail = head

isFIFOFull == After(tail) = head

\* simu_smr_read() or simu_smr_write() is called; getFIFODesp() looks whether
\* there is room for a write.
Request ==
  /\ alive /\ pc = "idle"
  /\ op' \in {r \in Requests : r.value = InitValue \/ r.block \in Marked}
  /\ reply' = NoReply
  /\ pc' = IF op'.kind = "write" /\ ~isFIFOFull THEN "append" ELSE "start"
  /\ UNCHANGED <<ring, smr, flush, alive>>

\* simu_smr_read(): from the FIFO if a version is there, else from its band.
Read ==
  /\ alive /\ pc = "start" /\ op.kind = "read"
  /\ reply' = IF table[op.block] # Nil THEN fifo[table[op.block]] ELSE smr[op.block]
  /\ op' = NoOp /\ pc' = "idle"
  /\ UNCHANGED <<ring, smr, flush, alive>>

\* flushFIFO(): the band of the block at the head is read ...
ReadBand ==
  /\ alive /\ pc = "start" /\ op.kind = "write"
  /\ leader' = tag[head]
  /\ BandBuffer' =
       [i \in DOMAIN BandBuffer |->
          IF i < ActualBandSize(leader')
          THEN smr[leader' - OffsetInBand(leader') + i] ELSE BandBuffer[i]]
  /\ curPos' = head
  /\ pc' = "collect"
  /\ UNCHANGED <<op, reply, ring, smr, alive>>

\* Faulty variant: the head moves on by one slot only.
Invalidate_OneSlot(flags, s, t) ==
  /\ isValid' = [flags EXCEPT ![s] = FALSE]
  /\ head' = IF ~isValid'[head] /\ head # t THEN After(head) ELSE head

\* How far slot t is ahead of slot s, going round.
Ahead(s, t) == (t - s) % (FifoBlks + 1)

\* invalidDespInFIFO(): slot s holds an old version; the head moves on to the
\* next valid slot, or to the tail t.
Invalidate(flags, s, t) ==
  /\ isValid' = [flags EXCEPT ![s] = FALSE]
  /\ \E h \in Slots :
       /\ isValid'[h] \/ h = t
       /\ \A x \in Slots : Ahead(head, x) < Ahead(head, h) => ~isValid'[x] /\ x # t
       /\ head' = h

\* Faulty variant: a version that is no longer valid is merged as well.
Collect_Stale ==
  /\ alive /\ pc = "collect" /\ curPos # tail
  /\ LET b == tag[curPos]
     IN  IF BandNum(b) = BandNum(leader)
         THEN /\ BandBuffer' = [BandBuffer EXCEPT ![OffsetInBand(b)] = fifo[curPos]]
              /\ table' = [table EXCEPT ![b] = Nil]
              /\ Invalidate(isValid, curPos, tail)
              /\ curPos' = IF head' # head THEN head' ELSE After(curPos)
         ELSE /\ curPos' = After(curPos)
              /\ UNCHANGED <<BandBuffer, table, isValid, head>>
  /\ UNCHANGED <<op, reply, pc, tag, fifo, tail, smr, leader, alive>>

\* Faulty variant: the walk starts over when the head moved.
Collect_StaysAtHead ==
  /\ alive /\ pc = "collect" /\ curPos # tail
  /\ LET b == tag[curPos]
     IN  IF isValid[curPos] /\ BandNum(b) = BandNum(leader)
         THEN /\ BandBuffer' = [BandBuffer EXCEPT ![OffsetInBand(b)] = fifo[curPos]]
              /\ table' = [table EXCEPT ![b] = Nil]
              /\ Invalidate(isValid, curPos, tail)
              /\ curPos' = IF head' # head THEN head' ELSE After(curPos)
         ELSE /\ curPos' = IF isValid[curPos] THEN After(curPos) ELSE head
              /\ UNCHANGED <<BandBuffer, table, isValid, head>>
  /\ UNCHANGED <<op, reply, pc, tag, fifo, tail, smr, leader, alive>>

\* ... the FIFO is walked from there to the tail, and the valid blocks of the
\* band are merged into the buffer and leave the FIFO ...
Collect ==
  /\ alive /\ pc = "collect" /\ curPos # tail
  /\ LET b == tag[curPos]
     IN  IF isValid[curPos] /\ BandNum(b) = BandNum(leader)
         THEN /\ BandBuffer' = [BandBuffer EXCEPT ![OffsetInBand(b)] = fifo[curPos]]
              /\ table' = [table EXCEPT ![b] = Nil]
              /\ Invalidate(isValid, curPos, tail)
              /\ curPos' = IF head' # head THEN head' ELSE After(curPos)
         ELSE /\ curPos' = After(curPos)
              /\ UNCHANGED <<BandBuffer, table, isValid, head>>
  /\ UNCHANGED <<op, reply, pc, tag, fifo, tail, smr, leader, alive>>

\* ... and the band is written back.
WriteBand ==
  /\ alive /\ pc = "collect" /\ curPos = tail
  /\ LET first == leader - OffsetInBand(leader)
     IN  smr' = [b \in Disk |->
                   IF b - first \in 0 .. ActualBandSize(leader) - 1
                   THEN BandBuffer[b - first] ELSE smr[b]]
  /\ BandBuffer' = EmptyBuffer /\ leader' = Min(Used) /\ curPos' = 0
  /\ pc' = "append"
  /\ UNCHANGED <<op, reply, ring, alive>>

\* Faulty variant: the older version stays valid.
AppendBlock_KeepsOld ==
  /\ alive /\ pc = "append"
  /\ tag' = [tag EXCEPT ![tail] = op.block]
  /\ fifo' = [fifo EXCEPT ![tail] = op.value]
  /\ tail' = After(tail)
  /\ table' = [table EXCEPT ![op.block] = tail]
  /\ isValid' = [isValid EXCEPT ![tail] = TRUE]
  /\ op' = NoOp /\ pc' = "idle"
  /\ UNCHANGED <<reply, head, smr, flush, alive>>

\* simu_smr_write(): the block is appended, and its older version in the FIFO
\* becomes invalid.
AppendBlock ==
  /\ alive /\ pc = "append"
  /\ tag' = [tag EXCEPT ![tail] = op.block]
  /\ fifo' = [fifo EXCEPT ![tail] = op.value]
  /\ tail' = After(tail)
  /\ table' = [table EXCEPT ![op.block] = tail]           \* ssdtableUpdate()
  /\ LET old == table[op.block]
         appended == [isValid EXCEPT ![tail] = TRUE]
     IN  IF old = Nil
         THEN isValid' = appended /\ UNCHANGED head
         ELSE Invalidate(appended, old, tail')
  /\ op' = NoOp /\ pc' = "idle"
  /\ UNCHANGED <<reply, smr, flush, alive>>

\* A read or write of one of the two disks fails, and the process exits.
DeviceError ==
  /\ alive
  /\ \/ pc \in {"start", "append"}
     \/ pc = "collect" /\ (curPos = tail \/ isValid[curPos])
  /\ alive' = FALSE
  /\ UNCHANGED <<op, reply, pc, ring, smr, flush>>

Serve == Read \/ ReadBand \/ Collect \/ WriteBand \/ AppendBlock

Next == Request \/ Serve \/ DeviceError

Spec == Init /\ [][Next]_vars

\* A request runs to its end under the mutex.
FairSpec == Spec /\ WF_vars(Serve)

-----------------------------------------------------------------------------
\* The slots from the head up to the tail.
InRing(s) == Ahead(head, s) < Ahead(head, tail)

\* Valid slots lie between head and tail, and the head is one of them unless
\* the FIFO is empty: getFIFODesp() reuses what lies outside, and flushFIFO()
\* takes the tag of the head without a look at isValid.
HeadIsValid ==
  /\ \A s \in Slots : isValid[s] => InRing(s)
  /\ head = tail \/ isValid[head]

\* The hash table finds the one valid slot of each block.
TableMatchesFifo ==
  /\ \A b \in Used : table[b] # Nil => isValid[table[b]] /\ tag[table[b]] = b
  /\ \A s \in Slots : isValid[s] => table[tag[s]] = s

\* While the FIFO is walked, valid blocks of the band are only left ahead, and
\* when the write goes on there is room for it: a flush has taken at least the
\* block at the head out (getFIFODesp() does not look again).
CollectsAhead ==
  pc = "collect" =>
    \A s \in Slots : isValid[s] /\ BandNum(tag[s]) = BandNum(leader) =>
      Ahead(curPos, s) < Ahead(curPos, tail)

RoomToAppend == pc = "append" => After(tail) # head

FlushMakesRoom == TypeOK /\ CollectsAhead /\ RoomToAppend

\* What a user of the disk sees: the version in the FIFO, else what the band
\* that is being rewritten will hold, else what the band holds.
Contents ==
  [b \in Used |->
     IF table[b] # Nil THEN fifo[table[b]]
     ELSE IF pc = "collect" /\ BandNum(b) = BandNum(leader)
       THEN BandBuffer[OffsetInBand(b)] ELSE smr[b]]

\* The simulated disk is an array of blocks: a read returns what the last write
\* of the block stored, however versions, flushes and the wrap of the FIFO fall
\* (simu_smr_read(), simu_smr_write()).
Store == INSTANCE BlockStore WITH Blocks <- Used, store <- Contents
ImplementsBlockStore == Store!Spec

\* Every request ends: the walk of flushFIFO(), whose bounds move, stops.
RequestsReturn == (op # NoOp /\ alive) ~> (op = NoOp \/ ~alive)

\* "flush whole band to smr": when the band is written back, it holds what was
\* collected of each of its blocks (flushFIFO()).
WholeBandFlushed ==
  [][smr' # smr \/ (pc = "collect" /\ pc' = "append") =>
       \A b \in Used : BandNum(b) = BandNum(leader) =>
         smr'[b] = BandBuffer[OffsetInBand(b)]]_vars
=============================================================================
