------------------------- MODULE SmrSimulatorProofs -------------------------
(***************************************************************************)
(* The simulated disk (smr-simulator/simulator_v2.c), for any length of    *)
(* the FIFO, any division of the disk into bands and any requests: the     *)
(* table finds the one valid version of each block, the valid versions lie *)
(* between head and tail, and a flush makes room.  The second part is      *)
(* about that table and the one of the cache (inner_ssd_buf_table.c,       *)
(* hashtable_utils.c): whatever their sizes and the blocks, no item is     *)
(* lost or linked twice and the pool is never dry, and insert, update and  *)
(* delete do to the map what their users take them to do.                  *)
(***************************************************************************)
EXTENDS SmrSimulator, Tables, ListTheorems

\* The parts of the type invariant that the FIFO rests on.
FifoType ==
  /\ pc \in {"idle", "start", "collect", "append"}
  /\ pc # "idle" => op.block \in Used
  /\ isValid \in [Slots -> BOOLEAN] /\ DOMAIN tag = Slots
  /\ head \in Slots /\ tail \in Slots /\ curPos \in Slots
  /\ table \in [Used -> Slots \cup {Nil}]

NewestInv ==
  /\ \A b \in Used : table[b] # Nil => isValid[table[b]] /\ tag[table[b]] = b
  /\ \A s \in Slots : isValid[s] => tag[s] \in Used /\ table[tag[s]] = s

Full == After(tail) = head

\* What the walk of a flush has before it and behind it, and that there is room
\* as soon as it has taken out the head.
WalkInv ==
  /\ \A s \in Slots : isValid[s] /\ BandNum(tag[s]) = BandNum(leader) =>
       Ahead(curPos, s) < Ahead(curPos, tail)
  /\ Ahead(head, curPos) <= Ahead(head, tail)
  /\ Full => curPos = head /\ BandNum(tag[head]) = BandNum(leader)

RoomInv ==
  /\ pc = "start" /\ op.kind = "write" => Full
  /\ pc = "collect" => WalkInv
  /\ pc = "append" => ~Full

FifoInv == FifoType /\ NewestInv /\ HeadIsValid /\ RoomInv

-----------------------------------------------------------------------------
\* Going round the slots.
LEMMA AheadIs ==
  ASSUME NEW s \in Slots, NEW t \in Slots
  PROVE  Ahead(s, t) = IF s <= t THEN t - s ELSE t - s + FifoBlks + 1
  BY SimulatorAssumption DEF Ahead, Slots

LEMMA AfterIs ==
  ASSUME NEW s \in Slots
  PROVE  After(s) = IF s = FifoBlks THEN 0 ELSE s + 1
  BY SimulatorAssumption DEF After, Slots

LEMMA AheadFacts ==
  ASSUME NEW s \in Slots, NEW t \in Slots
  PROVE  /\ Ahead(s, t) \in 0 .. FifoBlks
         /\ Ahead(s, t) = 0 <=> s = t
         /\ Ahead(s, t) = FifoBlks <=> After(t) = s
         /\ After(t) \in Slots /\ After(t) # t
  <1>1. After(t) \in Slots /\ After(t) # t
    BY AfterIs, SimulatorAssumption DEF Slots
  <1>2. Ahead(s, t) \in 0 .. FifoBlks /\ (Ahead(s, t) = 0 <=> s = t)
    BY AheadIs, SimulatorAssumption DEF Slots
  <1>3. Ahead(s, t) = FifoBlks <=> After(t) = s
    BY AheadIs, AfterIs, SimulatorAssumption DEF Slots
  <1> QED
    BY <1>1, <1>2, <1>3

LEMMA AheadOfAfter ==
  ASSUME NEW s \in Slots, NEW t \in Slots
  PROVE  /\ s # t => Ahead(After(s), t) = Ahead(s, t) - 1
         /\ After(t) # s => Ahead(s, After(t)) = Ahead(s, t) + 1
  <1>1. After(s) \in Slots /\ After(t) \in Slots
    BY AheadFacts
  <1> QED
    BY <1>1, AheadIs, AfterIs, SimulatorAssumption, SMTT(20) DEF Slots

LEMMA AheadOfSlot ==
  ASSUME NEW s \in Slots, NEW t \in Slots, NEW u \in Slots, Ahead(s, t) <= Ahead(s, u)
  PROVE  Ahead(t, u) = Ahead(s, u) - Ahead(s, t)
  BY AheadIs, SimulatorAssumption DEF Slots

\* The head h after old versions were passed over: it is the nearest slot from
\* the old one on that is in use, or the tail t.
LEMMA InvalidateMoves ==
  ASSUME isValid \in [Slots -> BOOLEAN], NEW flags \in [Slots -> BOOLEAN],
         head \in Slots, NEW s \in Slots, NEW t \in Slots,
         \A x \in Slots : flags[x] => Ahead(head, x) < Ahead(head, t),
         Invalidate(flags, s, t)
  PROVE  /\ isValid' \in [Slots -> BOOLEAN] /\ head' \in Slots
         /\ ~isValid'[s] /\ \A x \in Slots \ {s} : isValid'[x] = flags[x]
         /\ Ahead(head, head') <= Ahead(head, t)
         /\ \A x \in Slots : isValid'[x] => Ahead(head', x) < Ahead(head', t)
         /\ head' = t \/ isValid'[head']
         /\ head' # head => ~isValid'[head] /\ head # t
  <1>1. /\ isValid' \in [Slots -> BOOLEAN]
        /\ ~isValid'[s] /\ \A x \in Slots \ {s} : isValid'[x] = flags[x]
    BY DEF Invalidate
  <1>2. /\ head' \in Slots /\ (isValid'[head'] \/ head' = t)
        /\ \A x \in Slots : Ahead(head, x) < Ahead(head, head') => ~isValid'[x] /\ x # t
    BY DEF Invalidate
  <1>3. \A x, y \in Slots : Ahead(x, y) \in Int
    BY AheadFacts
  <1>4. Ahead(head, head') <= Ahead(head, t)
    BY <1>2, <1>3
  <1>5. ASSUME NEW x \in Slots, isValid'[x]
        PROVE  Ahead(head', x) < Ahead(head', t)
    <2>1. Ahead(head, head') <= Ahead(head, x)
      BY <1>2, <1>3, <1>5
    <2>2. Ahead(head, x) < Ahead(head, t)
      BY <1>1, <1>5
    <2>3. /\ Ahead(head', x) = Ahead(head, x) - Ahead(head, head')
          /\ Ahead(head', t) = Ahead(head, t) - Ahead(head, head')
      BY <1>2, <1>4, <2>1, AheadOfSlot
    <2> QED
      BY <1>2, <1>3, <2>2, <2>3
  <1>6. ASSUME head' # head PROVE ~isValid'[head] /\ head # t
    <2>1. Ahead(head, head) = 0 /\ Ahead(head, head') > 0
      BY <1>2, <1>6, AheadFacts
    <2> QED
      BY <1>2, <2>1
  <1> QED
    BY <1>1, <1>2, <1>4, <1>5, <1>6

-----------------------------------------------------------------------------
LEMMA FifoInit == Init => FifoInv
  <1> SUFFICES ASSUME Init PROVE FifoInv
    OBVIOUS
  <1>1. FifoType
    BY SimulatorAssumption DEF Init, FifoType, Slots, NoFlush
  <1>2. NewestInv /\ HeadIsValid
    BY DEF Init, NewestInv, HeadIsValid
  <1>3. RoomInv
    BY DEF Init, RoomInv
  <1> QED
    BY <1>1, <1>2, <1>3 DEF FifoInv

LEMMA RequestKeeps == ASSUME FifoInv, Request PROVE FifoInv'
  <1>1. /\ op' \in Requests /\ pc = "idle" /\ UNCHANGED <<ring, curPos, leader>>
        /\ pc' = IF op'.kind = "write" /\ ~isFIFOFull THEN "append" ELSE "start"
    BY DEF Request, flush
  <1>2. op'.block \in Used
    BY <1>1 DEF Requests
  <1>3. FifoType'
    BY <1>1, <1>2 DEF FifoInv, FifoType, ring
  <1>4. NewestInv' /\ HeadIsValid'
    BY <1>1 DEF FifoInv, NewestInv, HeadIsValid, InRing, Ahead, ring
  <1>5. RoomInv'
    BY <1>1 DEF RoomInv, Full, isFIFOFull, After, ring
  <1> QED
    BY <1>3, <1>4, <1>5 DEF FifoInv

LEMMA ReadBandKeeps == ASSUME FifoInv, ReadBand PROVE FifoInv'
  <1>1. /\ pc = "start" /\ op.kind = "write" /\ pc' = "collect" /\ curPos' = head
        /\ leader' = tag[head] /\ UNCHANGED <<op, ring>>
    BY DEF ReadBand
  <1>2. Full /\ head # tail
    BY <1>1, AheadFacts DEF FifoInv, FifoType, RoomInv, Full
  <1>3. FifoType'
    BY <1>1 DEF FifoInv, FifoType, ring
  <1>4. NewestInv' /\ HeadIsValid'
    BY <1>1 DEF FifoInv, NewestInv, HeadIsValid, InRing, Ahead, ring
  <1>5. WalkInv'
    <2>1. Ahead(head, head) <= Ahead(head, tail)
      BY AheadFacts DEF FifoInv, FifoType
    <2> QED
      BY <1>1, <2>1 DEF FifoInv, HeadIsValid, InRing, WalkInv, Full, Ahead, After, BandNum, ring
  <1> QED
    BY <1>1, <1>3, <1>4, <1>5 DEF FifoInv, RoomInv

\* The walk comes to a valid block of the band ...
LEMMA CollectTakes ==
  ASSUME FifoInv, Collect, isValid[curPos], BandNum(tag[curPos]) = BandNum(leader)
  PROVE  FifoInv'
  <1>1. /\ pc = "collect" /\ curPos # tail
        /\ table' = [table EXCEPT ![tag[curPos]] = Nil]
        /\ Invalidate(isValid, curPos, tail)
        /\ curPos' = IF head' # head THEN head' ELSE After(curPos)
        /\ UNCHANGED <<op, pc, tag, tail, leader>>
    BY DEF Collect
  <1>2. /\ isValid' \in [Slots -> BOOLEAN] /\ head' \in Slots
        /\ ~isValid'[curPos] /\ \A x \in Slots \ {curPos} : isValid'[x] = isValid[x]
        /\ Ahead(head, head') <= Ahead(head, tail)
        /\ \A x \in Slots : isValid'[x] => Ahead(head', x) < Ahead(head', tail)
        /\ head' = tail \/ isValid'[head']
        /\ head' # head => ~isValid'[head] /\ head # tail
    BY <1>1, InvalidateMoves DEF FifoInv, FifoType, HeadIsValid, InRing
  <1>3. /\ head \in Slots /\ tail \in Slots /\ curPos \in Slots /\ tag[curPos] \in Used
        /\ isValid \in [Slots -> BOOLEAN] /\ After(curPos) \in Slots
    BY AheadFacts DEF FifoInv, FifoType, NewestInv
  <1>4. FifoType'
    BY <1>1, <1>2, <1>3 DEF FifoInv, FifoType
  <1>5. NewestInv'
    <2>1. /\ \A b \in Used : table'[b] = IF b = tag[curPos] THEN Nil ELSE table[b]
          /\ table[tag[curPos]] = curPos
      BY <1>1, <1>3 DEF FifoInv, FifoType, NewestInv
    <2>2. \A b \in Used : table'[b] # Nil =>
            table'[b] \in Slots \ {curPos} /\ isValid[table'[b]] /\ tag[table'[b]] = b
      BY <2>1, <1>3 DEF FifoInv, FifoType, NewestInv
    <2>3. \A s \in Slots : isValid'[s] => s # curPos /\ isValid[s]
      BY <1>2
    <2>4. \A s \in Slots : isValid'[s] => tag[s] \in Used /\ table'[tag[s]] = s
      BY <2>1, <2>3 DEF FifoInv, NewestInv
    <2> QED
      BY <1>1, <1>2, <2>2, <2>4 DEF NewestInv
  <1>6. HeadIsValid'
    BY <1>1, <1>2 DEF HeadIsValid, InRing, Ahead
  <1>7. WalkInv'
    <2>1. CASE head' # head
      <3>1. curPos' = head' /\ Ahead(head', head') = 0 /\ Ahead(head', tail) >= 0
        BY <1>1, <1>2, <1>3, <2>1, AheadFacts
      <3>2. After(tail) # head'
        <4>1. Ahead(head', tail) = Ahead(head, tail) - Ahead(head, head')
          BY <1>2, <1>3, AheadOfSlot
        <4>2. /\ Ahead(head, head') \in 0 .. FifoBlks /\ Ahead(head, head') # 0
              /\ Ahead(head, tail) \in 0 .. FifoBlks
          BY <1>2, <1>3, <2>1, AheadFacts
        <4>3. Ahead(head', tail) # FifoBlks
          BY <4>1, <4>2, SimulatorAssumption
        <4> QED
          BY <1>2, <1>3, <4>3, AheadFacts
      <3> QED
        BY <1>1, <1>2, <3>1, <3>2 DEF WalkInv, Full, Ahead, After
    <2>2. CASE head' = head
      <3>1. curPos' = After(curPos) /\ Ahead(After(curPos), tail) = Ahead(curPos, tail) - 1
        BY <1>1, <1>3, <2>2, AheadOfAfter
      <3>2. ASSUME NEW s \in Slots, isValid'[s], BandNum(tag[s]) = BandNum(leader)
            PROVE  Ahead(After(curPos), s) < Ahead(After(curPos), tail)
        <4>1. s # curPos /\ isValid[s] /\ Ahead(curPos, s) < Ahead(curPos, tail)
          BY <1>1, <1>2, <3>2 DEF FifoInv, RoomInv, WalkInv
        <4>2. Ahead(After(curPos), s) = Ahead(curPos, s) - 1
          BY <1>3, <4>1, AheadOfAfter
        <4> QED
          BY <1>3, <3>1, <4>1, <4>2, AheadFacts
      <3>3. Ahead(head, After(curPos)) <= Ahead(head, tail) /\ ~Full
        <4>1. Ahead(head, curPos) <= Ahead(head, tail) /\ (Full => curPos = head)
          BY <1>1 DEF FifoInv, RoomInv, WalkInv
        <4>2. ~Full
          BY <1>1, <1>2, <2>2, <4>1
        <4>3. Ahead(curPos, tail) = Ahead(head, tail) - Ahead(head, curPos)
          BY <1>3, <4>1, AheadOfSlot
        <4>4. /\ Ahead(curPos, tail) \in 1 .. FifoBlks /\ Ahead(head, curPos) \in 0 .. FifoBlks
              /\ Ahead(head, tail) \in 0 .. FifoBlks
          BY <1>1, <1>3, AheadFacts
        <4>5. Ahead(head, tail) # FifoBlks
          BY <1>3, <4>2, AheadFacts DEF Full
        <4>6. Ahead(head, After(curPos)) = Ahead(head, curPos) + 1
          <5>1. Ahead(head, curPos) # FifoBlks
            BY <4>3, <4>4, SimulatorAssumption
          <5> QED
            BY <1>3, <5>1, AheadFacts, AheadOfAfter
        <4> QED
          BY <4>2, <4>3, <4>4, <4>6, SimulatorAssumption
      <3> QED
        BY <1>1, <2>2, <3>1, <3>2, <3>3 DEF WalkInv, Full, Ahead, After, BandNum
    <2> QED
      BY <2>1, <2>2
  <1> QED
    BY <1>1, <1>4, <1>5, <1>6, <1>7 DEF FifoInv, RoomInv

\* ... or passes over another slot.
LEMMA CollectPasses ==
  ASSUME FifoInv, Collect, ~(isValid[curPos] /\ BandNum(tag[curPos]) = BandNum(leader))
  PROVE  FifoInv'
  <1>1. /\ pc = "collect" /\ curPos # tail /\ curPos' = After(curPos)
        /\ UNCHANGED <<op, pc, isValid, head, table, tag, tail, leader>>
    BY DEF Collect
  <1>2. /\ head \in Slots /\ tail \in Slots /\ curPos \in Slots /\ After(curPos) \in Slots
    BY AheadFacts DEF FifoInv, FifoType
  <1>3. FifoType'
    BY <1>1, <1>2 DEF FifoInv, FifoType
  <1>4. NewestInv' /\ HeadIsValid'
    BY <1>1 DEF FifoInv, NewestInv, HeadIsValid, InRing, Ahead
  <1>5. ASSUME NEW s \in Slots, isValid[s], BandNum(tag[s]) = BandNum(leader)
        PROVE  Ahead(After(curPos), s) < Ahead(After(curPos), tail)
    <2>1. s # curPos /\ Ahead(curPos, s) < Ahead(curPos, tail)
      BY <1>1, <1>5 DEF FifoInv, RoomInv, WalkInv
    <2>2. /\ Ahead(After(curPos), s) = Ahead(curPos, s) - 1
          /\ Ahead(After(curPos), tail) = Ahead(curPos, tail) - 1
      BY <1>1, <1>2, <2>1, AheadOfAfter
    <2> QED
      BY <1>2, <2>1, <2>2, AheadFacts
  <1>6. Ahead(head, After(curPos)) <= Ahead(head, tail) /\ ~Full
    <2>1. /\ Ahead(head, curPos) <= Ahead(head, tail)
          /\ Full => curPos = head /\ BandNum(tag[head]) = BandNum(leader)
      BY <1>1 DEF FifoInv, RoomInv, WalkInv
    <2>2. ~Full
      BY <1>1, <1>2, <2>1, AheadFacts DEF FifoInv, HeadIsValid, Full
    <2>3. Ahead(curPos, tail) = Ahead(head, tail) - Ahead(head, curPos)
      BY <1>2, <2>1, AheadOfSlot
    <2>4. /\ Ahead(curPos, tail) \in 1 .. FifoBlks /\ Ahead(head, curPos) \in 0 .. FifoBlks
          /\ Ahead(head, tail) \in 0 .. FifoBlks
      BY <1>1, <1>2, AheadFacts
    <2>5. Ahead(head, After(curPos)) = Ahead(head, curPos) + 1
      <3>1. Ahead(head, curPos) # FifoBlks
        BY <2>3, <2>4, SimulatorAssumption
      <3> QED
        BY <1>2, <3>1, AheadFacts, AheadOfAfter
    <2> QED
      BY <2>2, <2>3, <2>4, <2>5, SimulatorAssumption
  <1>7. WalkInv'
    BY <1>1, <1>5, <1>6 DEF WalkInv, Full, Ahead, After, BandNum
  <1> QED
    BY <1>1, <1>3, <1>4, <1>7 DEF FifoInv, RoomInv

LEMMA WriteBandKeeps == ASSUME FifoInv, WriteBand PROVE FifoInv'
  <1>1. /\ pc = "collect" /\ curPos = tail /\ pc' = "append" /\ curPos' = 0
        /\ UNCHANGED <<op, ring>>
    BY DEF WriteBand
  <1>2. FifoType'
    BY <1>1, SimulatorAssumption DEF FifoInv, FifoType, ring, Slots
  <1>3. NewestInv' /\ HeadIsValid'
    BY <1>1 DEF FifoInv, NewestInv, HeadIsValid, InRing, Ahead, ring
  <1>4. ~Full
    BY <1>1, AheadFacts DEF FifoInv, FifoType, RoomInv, WalkInv, Full
  <1> QED
    BY <1>1, <1>2, <1>3, <1>4 DEF FifoInv, RoomInv, Full, After, ring

LEMMA AppendKeeps == ASSUME FifoInv, AppendBlock PROVE FifoInv'
  <1> DEFINE b        == op.block
             old      == table[b]
             appended == [isValid EXCEPT ![tail] = TRUE]
  <1>1. /\ pc = "append" /\ pc' = "idle" /\ tail' = After(tail)
        /\ tag' = [tag EXCEPT ![tail] = b] /\ table' = [table EXCEPT ![b] = tail]
        /\ IF old = Nil THEN isValid' = appended /\ head' = head
                        ELSE Invalidate(appended, old, tail')
        /\ UNCHANGED curPos
    BY DEF AppendBlock, flush
  <1>2. /\ b \in Used /\ head \in Slots /\ tail \in Slots /\ tail' \in Slots
        /\ isValid \in [Slots -> BOOLEAN] /\ appended \in [Slots -> BOOLEAN]
        /\ appended[tail] /\ \A x \in Slots \ {tail} : appended[x] = isValid[x]
    BY <1>1, AheadFacts DEF FifoInv, FifoType
  <1>3. /\ tag'[tail] = b /\ DOMAIN tag' = Slots
        /\ \A x \in Slots \ {tail} : tag'[x] = tag[x]
        /\ table'[b] = tail /\ table' \in [Used -> Slots \cup {Nil}]
        /\ \A c \in Used \ {b} : table'[c] = table[c]
    BY <1>1, <1>2 DEF FifoInv, FifoType
  <1>4. ~isValid[tail]
    BY <1>2, AheadFacts DEF FifoInv, HeadIsValid, InRing
  <1>5. /\ Ahead(head, tail') = Ahead(head, tail) + 1
        /\ Ahead(head, tail) \in Nat
    BY <1>1, <1>2, AheadFacts, AheadOfAfter DEF FifoInv, RoomInv, Full
  <1>6. \A x \in Slots : appended[x] => Ahead(head, x) < Ahead(head, tail')
    <2> SUFFICES ASSUME NEW x \in Slots, appended[x]
                 PROVE  Ahead(head, x) < Ahead(head, tail')
      OBVIOUS
    <2>1. x = tail \/ Ahead(head, x) < Ahead(head, tail)
      BY <1>2 DEF FifoInv, HeadIsValid, InRing
    <2>2. Ahead(head, x) \in Nat
      BY <1>2, AheadFacts
    <2> QED
      BY <1>5, <2>1, <2>2
  <1>7. old = Nil \/ (old \in Slots \ {tail} /\ isValid[old] /\ tag[old] = b)
    BY <1>2, <1>4 DEF FifoInv, FifoType, NewestInv
  \* What holds of the flags and the head, whether there was an older version.
  <1>8. /\ isValid' \in [Slots -> BOOLEAN] /\ head' \in Slots
        /\ \A x \in Slots : isValid'[x] => x # old /\ appended[x]
        /\ \A x \in Slots : appended[x] /\ x # old => isValid'[x]
        /\ \A x \in Slots : isValid'[x] => Ahead(head', x) < Ahead(head', tail')
        /\ head' = tail' \/ isValid'[head']
    <2>1. CASE old = Nil
      <3>1. isValid' = appended /\ head' = head
        BY <1>1, <2>1
      <3>2. appended[head]
        BY <1>2 DEF FifoInv, HeadIsValid
      <3>3. \A x \in Slots : x # old
        BY <2>1 DEF Nil, Slots
      <3> QED
        BY <1>2, <1>6, <3>1, <3>2, <3>3
    <2>2. CASE old # Nil
      <3>1. old \in Slots /\ Invalidate(appended, old, tail')
        BY <1>1, <1>7, <2>2
      <3> HIDE DEF old, appended
      <3>2. /\ isValid' \in [Slots -> BOOLEAN] /\ head' \in Slots
            /\ ~isValid'[old] /\ \A x \in Slots \ {old} : isValid'[x] = appended[x]
            /\ \A x \in Slots : isValid'[x] => Ahead(head', x) < Ahead(head', tail')
            /\ head' = tail' \/ isValid'[head']
        BY <1>2, <1>6, <3>1, InvalidateMoves
      <3> QED
        BY <3>2
    <2> QED
      BY <2>1, <2>2
  <1> HIDE DEF old, appended
  <1>9. FifoType'
    BY <1>1, <1>2, <1>3, <1>8 DEF FifoInv, FifoType
  <1>10. NewestInv'
    <2>1. ASSUME NEW c \in Used, table'[c] # Nil
          PROVE  isValid'[table'[c]] /\ tag'[table'[c]] = c
      <3>1. CASE c = b
        <4>1. tail # old
          BY <1>2, <1>7 DEF Nil, Slots
        <4> QED
          BY <1>2, <1>3, <1>8, <3>1, <4>1
      <3>2. CASE c # b
        <4>1. table'[c] = table[c] /\ table[c] \in Slots /\ isValid[table[c]] /\ tag[table[c]] = c
          BY <1>3, <2>1, <3>2 DEF FifoInv, FifoType, NewestInv
        <4>2. table[c] # tail /\ table[c] # old
          BY <1>4, <1>7, <2>1, <3>2, <4>1
        <4> QED
          BY <1>2, <1>3, <1>8, <4>1, <4>2
      <3> QED
        BY <3>1, <3>2
    <2>2. ASSUME NEW s \in Slots, isValid'[s]
          PROVE  tag'[s] \in Used /\ table'[tag'[s]] = s
      <3>1. s # old /\ appended[s]
        BY <1>8, <2>2
      <3>2. CASE s = tail
        BY <1>2, <1>3, <3>2
      <3>3. CASE s # tail
        <4>1. isValid[s] /\ tag[s] \in Used /\ table[tag[s]] = s /\ tag'[s] = tag[s]
          BY <1>2, <1>3, <3>1, <3>3 DEF FifoInv, NewestInv
        <4>2. tag[s] # b
          BY <3>1, <4>1 DEF old
        <4> QED
          BY <1>3, <4>1, <4>2
      <3> QED
        BY <3>2, <3>3
    <2> QED
      BY <2>1, <2>2 DEF NewestInv
  <1>11. HeadIsValid'
    BY <1>8 DEF HeadIsValid, InRing, Ahead
  <1> QED
    BY <1>1, <1>9, <1>10, <1>11 DEF FifoInv, RoomInv

LEMMA FifoInvNext == FifoInv /\ [Next]_vars => FifoInv'
  <1> SUFFICES ASSUME FifoInv, [Next]_vars PROVE FifoInv'
    OBVIOUS
  <1>1. CASE Request
    BY <1>1, RequestKeeps
  <1>2. CASE ReadBand
    BY <1>2, ReadBandKeeps
  <1>3. CASE Collect
    BY <1>3, CollectTakes, CollectPasses
  <1>4. CASE WriteBand
    BY <1>4, WriteBandKeeps
  <1>5. CASE AppendBlock
    BY <1>5, AppendKeeps
  <1>6. CASE Read \/ DeviceError \/ UNCHANGED vars
    <2>1. /\ UNCHANGED <<ring, leader, curPos>>
          /\ UNCHANGED <<pc, op>> \/ pc' = "idle"
      BY <1>6 DEF Read, DeviceError, vars, flush
    <2>2. FifoType'
      BY <2>1 DEF FifoInv, FifoType, ring
    <2>3. NewestInv' /\ HeadIsValid'
      BY <2>1 DEF FifoInv, NewestInv, HeadIsValid, InRing, Ahead, ring
    <2>4. WalkInv' <=> WalkInv
      BY <2>1 DEF WalkInv, Full, Ahead, After, BandNum, ring
    <2>5. Full' <=> Full
      BY <2>1 DEF Full, After, ring
    <2> QED
      BY <2>1, <2>2, <2>3, <2>4, <2>5 DEF FifoInv, RoomInv
  <1> QED
    BY <1>1, <1>2, <1>3, <1>4, <1>5, <1>6 DEF Next, Serve

\* FifoInv holds in every reachable state.
THEOREM FifoInvariant == Spec => []FifoInv
  <1> QED
    BY FifoInit, FifoInvNext, PTL DEF Spec

\* What is between head and tail is all that is in use, and it starts with a
\* valid version (getFIFODesp() reuses the rest, flushFIFO() takes the head's tag).
THEOREM HeadValid == Spec => []HeadIsValid
  <1>1. FifoInv => HeadIsValid
    BY DEF FifoInv
  <1> QED
    BY <1>1, FifoInvariant, PTL

\* The table finds the one valid version of each block (simu_smr_read()).
THEOREM TableSound == Spec => []TableMatchesFifo
  <1>1. FifoInv => TableMatchesFifo
    BY DEF FifoInv, NewestInv, TableMatchesFifo
  <1> QED
    BY <1>1, FifoInvariant, PTL

-----------------------------------------------------------------------------
(***************************************************************************)
(* The bands of the disk.                                                  *)
(***************************************************************************)

\* Division with a remainder, and what products of natural numbers keep.
LEMMA DivMod ==
  ASSUME NEW x \in Nat, NEW s \in Nat \ {0}
  PROVE  x = s * (x \div s) + (x % s) /\ x % s \in 0 .. s - 1 /\ x \div s \in Nat
  OBVIOUS

LEMMA Multiples ==
  ASSUME NEW a \in Nat, NEW b \in Nat, NEW s \in Nat
  PROVE  /\ s * a \in Nat /\ (a < b => s * a + s <= s * b) /\ (a <= b => s * a <= s * b)
         /\ \A o \in Nat : s # 0 /\ s * b > s * a + o => a < b
  OBVIOUS

LEMMA SizeIs ==
  /\ \A i \in Nat : Size(i) \in Nat \ {0}
  /\ \A i, j \in Nat : i <= j => Size(i) <= Size(j)
  BY SimulatorAssumption DEF Size

\* Start exists: its definition is an iteration.
LEMMA StartIs ==
  /\ Start \in [0 .. Classes -> Nat] /\ Start[0] = 0
  /\ \A i \in 0 .. Classes - 1 : Start[i + 1] = Start[i] + NumEach * Size(i)
  <1> DEFINE step == [i \in Nat |-> [x \in Nat |-> x + NumEach * Size(i)]]
             body(g) == [i \in 0 .. Classes |->
                           IF i = 0 THEN 0 ELSE g[i - 1] + NumEach * Size(i - 1)]
  <1>1. step \in [Nat -> [Nat -> Nat]]
    <2>1. \A i \in Nat : NumEach * Size(i) \in Nat
      BY SizeIs, Multiples, SimulatorAssumption
    <2> QED
      BY <2>1
  <1>2. PICK f \in [Nat -> Nat] : f[0] = 0 /\ \A n \in Nat : f[n + 1] = step[n][f[n]]
    <2> HIDE DEF step
    <2>1. \A base \in Nat : \A next \in [Nat -> [Nat -> Nat]] :
            \E f \in [Nat -> Nat] : f[0] = base /\ \A n \in Nat : f[n + 1] = next[n][f[n]]
      BY NumberIteration
    <2> QED
      BY <1>1, <2>1
  <1>3. \A n \in Nat : f[n + 1] = f[n] + NumEach * Size(n)
    BY <1>2
  <1> HIDE DEF step
  <1> DEFINE g == [i \in 0 .. Classes |-> f[i]]
  <1>4. g = body(g)
    <2>1. ASSUME NEW i \in 0 .. Classes
          PROVE  f[i] = IF i = 0 THEN 0 ELSE g[i - 1] + NumEach * Size(i - 1)
      <3>1. CASE i = 0
        BY <1>2, <3>1
      <3>2. CASE i # 0
        <4>1. i - 1 \in 0 .. Classes /\ i - 1 \in Nat /\ (i - 1) + 1 = i
          BY <3>2, SimulatorAssumption
        <4> QED
          BY <1>3, <3>2, <4>1
      <3> QED
        BY <3>1, <3>2
    <2> QED
      BY <2>1
  <1>5. Start = body(Start)
    <2> HIDE DEF g
    <2> QED
      BY <1>4 DEF Start
  <1>6. Start[0] = 0
    BY <1>5, SimulatorAssumption
  <1>7. ASSUME NEW i \in 0 .. Classes - 1 PROVE Start[i + 1] = Start[i] + NumEach * Size(i)
    <2>1. i + 1 \in 0 .. Classes /\ i + 1 # 0 /\ (i + 1) - 1 = i
      BY SimulatorAssumption
    <2> QED
      BY <1>5, <2>1
  <1>8. Start \in [0 .. Classes -> Nat]
    <2> DEFINE T == {n \in Nat : n <= Classes => Start[n] \in Nat}
    <2>1. 0 \in T
      BY <1>6
    <2>2. ASSUME NEW n \in Nat, n \in T PROVE n + 1 \in T
      <3>1. n + 1 <= Classes => n \in 0 .. Classes - 1
        BY SimulatorAssumption
      <3>2. NumEach * Size(n) \in Nat
        BY SizeIs, Multiples, SimulatorAssumption
      <3>3. CASE n + 1 <= Classes
        <4>1. n <= Classes /\ n \in 0 .. Classes - 1
          BY <3>1, <3>3, SimulatorAssumption
        <4>2. Start[n] \in Nat /\ Start[n + 1] = Start[n] + NumEach * Size(n)
          BY <1>7, <2>2, <4>1
        <4> QED
          BY <3>2, <4>2
      <3> QED
        BY <3>3
    <2>3. Nat \subseteq T
      <3> HIDE DEF T
      <3> QED
        BY <2>1, <2>2, NatInduct
    <2>4. \A i \in 0 .. Classes : Start[i] \in Nat
      BY <2>3
    <2> QED
      BY <1>5, <2>4
  <1> QED
    BY <1>6, <1>7, <1>8

\* The size classes follow one another.
LEMMA StartGrows == \A i, j \in 0 .. Classes : i < j => Start[i] < Start[j]
  <1> SUFFICES ASSUME NEW i \in 0 .. Classes
               PROVE  \A j \in 0 .. Classes : i < j => Start[i] < Start[j]
    OBVIOUS
  <1> DEFINE T == {n \in Nat : n <= Classes /\ i < n => Start[i] < Start[n]}
  <1>1. 0 \in T
    OBVIOUS
  <1>2. ASSUME NEW n \in Nat, n \in T PROVE n + 1 \in T
    <2>1. CASE n + 1 <= Classes /\ i < n + 1
      <3>1. n \in 0 .. Classes - 1 /\ (i < n \/ i = n) /\ n \in 0 .. Classes
        BY <2>1, SimulatorAssumption
      <3>2. Start[n + 1] = Start[n] + NumEach * Size(n) /\ Start[i] \in Nat /\ Start[n] \in Nat
        BY <3>1, StartIs
      <3>3. NumEach * Size(n) \in Nat \ {0}
        <4>1. Size(n) \in Nat \ {0} /\ NumEach \in Nat \ {0}
          BY SizeIs, SimulatorAssumption
        <4> QED
          BY <4>1
      <3>4. i < n => Start[i] < Start[n]
        BY <1>2, <3>1
      <3> QED
        BY <3>1, <3>2, <3>3, <3>4
    <2> QED
      BY <2>1
  <1>3. Nat \subseteq T
    <2> HIDE DEF T
    <2> QED
      BY <1>1, <1>2, NatInduct
  <1> QED
    BY <1>3, SimulatorAssumption

\* Each block of the disk lies in one class ...
LEMMA ClassIs ==
  ASSUME NEW b \in Disk
  PROVE  /\ ClassOf(b) \in 0 .. Classes - 1 /\ b \in Nat
         /\ Start[ClassOf(b)] <= b /\ b < Start[ClassOf(b) + 1]
         /\ \A i \in 0 .. Classes - 1 : Start[i + 1] > b => ClassOf(b) <= i
  <1> DEFINE S == {i \in 0 .. Classes - 1 : Start[i + 1] > b}
  <1>1. b \in Nat /\ b < Start[Classes] /\ Classes \in Nat \ {0} /\ Start[Classes] \in Nat
    <2>1. Classes \in 0 .. Classes /\ Classes \in Nat \ {0}
      BY SimulatorAssumption
    <2>2. Start[Classes] \in Nat
      BY <2>1, StartIs
    <2> QED
      BY <2>1, <2>2 DEF Disk
  <1>2. S \subseteq Nat /\ S # {}
    <2>1. Classes - 1 \in S
      BY <1>1
    <2> QED
      BY <2>1
  <1>3. ClassOf(b) = Min(S)
    BY DEF ClassOf
  <1>4. ClassOf(b) \in S /\ \A i \in S : ClassOf(b) <= i
    <2> HIDE DEF S
    <2> QED
      BY <1>2, <1>3, MinIs
  <1>5. Start[ClassOf(b)] <= b
    <2>1. CASE ClassOf(b) = 0
      BY <1>1, <2>1, StartIs
    <2>2. CASE ClassOf(b) # 0
      <3>1. ClassOf(b) - 1 \in 0 .. Classes - 1 /\ (ClassOf(b) - 1) + 1 = ClassOf(b)
        BY <1>1, <1>4, <2>2
      <3>2. ClassOf(b) - 1 \notin S
        BY <1>4
      <3>3. Start[ClassOf(b)] \in Nat
        <4>1. ClassOf(b) \in 0 .. Classes
          BY <1>1, <1>4
        <4> QED
          BY <4>1, StartIs
      <3> QED
        BY <1>1, <3>1, <3>2, <3>3
    <2> QED
      BY <2>1, <2>2
  <1> QED
    BY <1>1, <1>4, <1>5

\* ... and in one band of it, all of which lies in the class.
LEMMA BandIs ==
  ASSUME NEW b \in Disk
  PROVE  LET c == ClassOf(b)
             k == (b - Start[c]) \div Size(c)
         IN  /\ k \in 0 .. NumEach - 1 /\ BandNum(b) = NumEach * c + k
             /\ OffsetInBand(b) \in 0 .. Size(c) - 1
             /\ b - OffsetInBand(b) = Start[c] + Size(c) * k
             /\ b - OffsetInBand(b) \in Nat
             /\ b - OffsetInBand(b) + Size(c) <= Start[Classes]
  <1> DEFINE c == ClassOf(b)
             s == Size(c)
             x == b - Start[c]
             k == x \div s
  <1>1. /\ c \in 0 .. Classes - 1 /\ c \in Nat /\ b \in Nat /\ Start[c] \in Nat /\ c + 1 \in 0 .. Classes
        /\ Start[c] <= b /\ b < Start[c] + NumEach * s
    <2>1. c \in 0 .. Classes - 1 /\ c \in 0 .. Classes /\ c + 1 \in 0 .. Classes
      BY ClassIs, SimulatorAssumption
    <2> QED
      BY <2>1, ClassIs, StartIs
  <1>2. s \in Nat \ {0} /\ NumEach \in Nat \ {0}
    BY <1>1, SizeIs, SimulatorAssumption
  <1>3. Start[c] + NumEach * s <= Start[Classes]
    <2>1. Start[c + 1] = Start[c] + NumEach * s
      BY <1>1, StartIs
    <2>2. c + 1 = Classes \/ Start[c + 1] < Start[Classes]
      <3>1. Classes \in 0 .. Classes /\ (c + 1 = Classes \/ c + 1 < Classes)
        BY <1>1, SimulatorAssumption
      <3> QED
        BY <1>1, <3>1, StartGrows
    <2>3. Start[c + 1] \in Nat /\ Start[Classes] \in Nat
      <3>1. Classes \in 0 .. Classes
        BY SimulatorAssumption
      <3> QED
        BY <1>1, <3>1, StartIs
    <2> QED
      BY <2>1, <2>2, <2>3
  <1>4. BandNum(b) = NumEach * c + k /\ OffsetInBand(b) = x % s
    BY DEF BandNum, OffsetInBand
  <1>5. x \in Nat /\ x < NumEach * s
    BY <1>1, <1>2
  <1>t. Start[Classes] \in Nat /\ b = Start[c] + x
    <2>1. Classes \in 0 .. Classes
      BY SimulatorAssumption
    <2> QED
      BY <1>1, <2>1, StartIs
  <1> HIDE DEF c, s, x
  <1>6. x = s * k + (x % s) /\ x % s \in 0 .. s - 1 /\ k \in Nat
    BY <1>2, <1>5, DivMod
  <1> HIDE DEF k
  <1>o. x % s \in Nat /\ s * k \in Nat /\ NumEach * s = s * NumEach /\ s * NumEach \in Nat
    BY <1>2, <1>6, Multiples
  <1>7. k < NumEach
    <2>1. s * NumEach > s * k + (x % s)
      BY <1>5, <1>6, <1>o
    <2> QED
      BY <1>2, <1>6, <1>o, <2>1, Multiples
  <1>8. s * k + s <= s * NumEach
    BY <1>2, <1>6, <1>7, Multiples
  <1>9. b - (x % s) = Start[c] + s * k
    BY <1>1, <1>2, <1>6, <1>o, <1>t
  <1>10. b - (x % s) \in Nat /\ b - (x % s) + s <= Start[Classes]
    BY <1>1, <1>2, <1>3, <1>8, <1>9, <1>o, <1>t
  <1>11. k \in 0 .. NumEach - 1
    BY <1>2, <1>6, <1>7
  <1> QED
    BY <1>4, <1>6, <1>9, <1>10, <1>11 DEF c, s, x, k

\* The number of a band tells where it starts.
LEMMA SameBand ==
  ASSUME NEW b \in Disk, NEW d \in Disk, BandNum(b) = BandNum(d)
  PROVE  ClassOf(b) = ClassOf(d) /\ b - OffsetInBand(b) = d - OffsetInBand(d)
  <1> DEFINE c == ClassOf(b)
             e == ClassOf(d)
             k == (b - Start[c]) \div Size(c)
             m == (d - Start[e]) \div Size(e)
  <1>1. /\ k \in 0 .. NumEach - 1 /\ BandNum(b) = NumEach * c + k
        /\ b - OffsetInBand(b) = Start[c] + Size(c) * k
    BY BandIs
  <1>2. /\ m \in 0 .. NumEach - 1 /\ BandNum(d) = NumEach * e + m
        /\ d - OffsetInBand(d) = Start[e] + Size(e) * m
    BY BandIs
  <1>3. c \in Nat /\ e \in Nat /\ NumEach \in Nat \ {0}
    BY ClassIs, SimulatorAssumption
  <1> HIDE DEF k, m, c, e
  <1>4. /\ NumEach * c \in Nat /\ NumEach * e \in Nat
        /\ c < e => NumEach * c + NumEach <= NumEach * e
        /\ e < c => NumEach * e + NumEach <= NumEach * c
    BY <1>3, Multiples
  <1>5. c = e /\ k = m
    <2> DEFINE p == NumEach * c
               q == NumEach * e
    <2>1. /\ p \in Nat /\ q \in Nat /\ p + k = q + m
          /\ c < e => p + NumEach <= q
          /\ e < c => q + NumEach <= p
          /\ c = e => p = q
      BY <1>1, <1>2, <1>4
    <2> HIDE DEF p, q
    <2>2. ~(c < e) /\ ~(e < c)
      BY <1>1, <1>2, <1>3, <2>1
    <2>3. c = e
      BY <1>3, <2>2
    <2> QED
      BY <1>1, <1>2, <2>1, <2>3
  <1> QED
    BY <1>1, <1>2, <1>5 DEF c, e

\* What GetSMRActualBandSizeFromSSD() returns: the size of the band, but for the
\* first block of a class, where it may be that of the class before.
LEMMA ActualSizeIs ==
  ASSUME NEW b \in Disk
  PROVE  /\ ActualBandSize(b) \in 1 .. Size(ClassOf(b))
         /\ (\A i \in 1 .. Classes - 1 : b # Start[i]) => ActualBandSize(b) = Size(ClassOf(b))
         /\ Size(ClassOf(b)) <= Size(Classes - 1)
  <1> DEFINE S == {i \in 0 .. Classes - 1 : Start[i + 1] >= b}
             c == ClassOf(b)
  <1>1. /\ c \in 0 .. Classes - 1 /\ b \in Nat /\ b < Start[c + 1] /\ Start[c + 1] \in Nat
        /\ \A i \in 0 .. Classes - 1 : Start[i + 1] > b => c <= i
    <2>1. c \in 0 .. Classes - 1 /\ c + 1 \in 0 .. Classes
      BY ClassIs, SimulatorAssumption
    <2> QED
      BY <2>1, ClassIs, StartIs
  <1>2. c \in S /\ S \subseteq Nat
    BY <1>1
  <1>3. Min(S) \in S /\ Min(S) <= c
    <2> HIDE DEF S, c
    <2> QED
      BY <1>2, MinIs
  <1>4. ActualBandSize(b) = Size(Min(S))
    BY DEF ActualBandSize
  <1> DEFINE i == Min(S)
  <1>5. i \in 0 .. Classes - 1 /\ Start[i + 1] >= b /\ i \in Nat /\ i <= c
    BY <1>3
  <1> HIDE DEF i, c
  <1>6. Size(i) \in Nat \ {0} /\ Size(c) \in Nat \ {0} /\ Size(i) <= Size(c) /\ Size(c) <= Size(Classes - 1)
    BY <1>1, <1>5, SizeIs, SimulatorAssumption
  <1>7. ASSUME \A j \in 1 .. Classes - 1 : b # Start[j] PROVE i = c
    <2>1. CASE i = Classes - 1
      BY <1>1, <1>5, <2>1
    <2>2. CASE i # Classes - 1
      <3>1. i + 1 \in 1 .. Classes - 1 /\ i + 1 \in 0 .. Classes
        BY <1>5, <2>2, SimulatorAssumption
      <3>2. Start[i + 1] \in Nat
        BY <3>1, StartIs
      <3>3. Start[i + 1] > b
        BY <1>1, <1>5, <1>7, <3>1, <3>2
      <3> QED
        BY <1>1, <1>5, <3>3
    <2> QED
      BY <2>1, <2>2
  <1> QED
    BY <1>4, <1>6, <1>7 DEF i, c

\* The blocks from the start of a band on, as many as it has, are its blocks.
LEMMA InBand ==
  ASSUME NEW b \in Disk, NEW d \in Disk,
         d - (b - OffsetInBand(b)) \in 0 .. Size(ClassOf(b)) - 1
  PROVE  BandNum(d) = BandNum(b)
  <1> DEFINE c == ClassOf(b)
             e == ClassOf(d)
             s == Size(c)
             k == (b - Start[c]) \div s
             o == d - (b - OffsetInBand(b))
  <1>1. /\ k \in 0 .. NumEach - 1 /\ BandNum(b) = NumEach * c + k
        /\ b - OffsetInBand(b) = Start[c] + s * k /\ o \in 0 .. s - 1
    BY BandIs
  <1>2. /\ c \in 0 .. Classes - 1 /\ c \in 0 .. Classes /\ c + 1 \in 0 .. Classes
        /\ e \in 0 .. Classes - 1 /\ e \in 0 .. Classes /\ e + 1 \in 0 .. Classes
        /\ Start[e] <= d /\ d < Start[e + 1] /\ d \in Nat
    BY ClassIs, SimulatorAssumption
  <1>3. /\ Start[c] \in Nat /\ Start[e] \in Nat /\ Start[c + 1] = Start[c] + NumEach * s
        /\ Start[c + 1] \in Nat /\ Start[e + 1] \in Nat /\ s \in Nat \ {0} /\ NumEach \in Nat \ {0}
    <2>1. c \in Nat /\ e \in Nat
      BY <1>2
    <2>2. s \in Nat \ {0} /\ NumEach \in Nat \ {0}
      BY <2>1, SizeIs, SimulatorAssumption
    <2>3. Start[c + 1] = Start[c] + NumEach * s
      BY <1>2, StartIs
    <2>4. Start[c] \in Nat /\ Start[e] \in Nat /\ Start[c + 1] \in Nat /\ Start[e + 1] \in Nat
      BY <1>2, StartIs
    <2> QED
      BY <2>2, <2>3, <2>4
  <1>4. BandNum(d) = NumEach * e + (d - Start[e]) \div Size(e)
    BY DEF BandNum
  <1>o. o = d - (Start[c] + s * k)
    BY <1>1
  <1> HIDE DEF c, s, k, o, e
  <1>5. s * k \in Nat /\ s * k + s <= s * NumEach /\ s * NumEach = NumEach * s /\ k \in Nat
    BY <1>1, <1>3, Multiples
  <1>6. d = Start[c] + (s * k + o) /\ o \in Nat /\ o < s
    BY <1>1, <1>2, <1>3, <1>5, <1>o
  <1>7. Start[c] <= d /\ d < Start[c + 1]
    BY <1>3, <1>5, <1>6
  <1>8. e = c
    <2>1. c + 1 = e \/ c + 1 < e => Start[c + 1] <= Start[e]
      BY <1>2, <1>3, StartGrows
    <2>2. e + 1 = c \/ e + 1 < c => Start[e + 1] <= Start[c]
      BY <1>2, <1>3, StartGrows
    <2>3. ~(c < e)
      BY <1>2, <1>3, <1>7, <2>1
    <2>4. ~(e < c)
      BY <1>2, <1>3, <1>7, <2>2
    <2> QED
      BY <1>2, <2>3, <2>4
  <1>9. (d - Start[e]) \div Size(e) = k
    <2> DEFINE x == s * k + o
               q == x \div s
    <2>1. d - Start[e] = x /\ Size(e) = s /\ x \in Nat
      BY <1>3, <1>5, <1>6, <1>8 DEF s
    <2>2. x = s * q + (x % s) /\ x % s \in 0 .. s - 1 /\ q \in Nat
      BY <1>3, <2>1, DivMod
    <2>3. (k < q => s * k + s <= s * q) /\ (q < k => s * q + s <= s * k) /\ s * q \in Nat
      BY <1>3, <1>5, <2>2, Multiples
    <2>4. s * k + o = s * q + (x % s)
      BY <2>2
    <2> HIDE DEF q, x
    <2>5. ~(k < q) /\ ~(q < k)
      BY <1>3, <1>5, <1>6, <2>2, <2>3, <2>4
    <2>6. q = k
      BY <1>5, <2>2, <2>5
    <2> QED
      BY <2>1, <2>6 DEF q
  <1> QED
    BY <1>1, <1>4, <1>8, <1>9

-----------------------------------------------------------------------------
(***************************************************************************)
(* Types: the buffer holds any band, and no flush leaves the disk.         *)
(***************************************************************************)
LEMMA InitTypes == Init => TypeOK
  <1> SUFFICES ASSUME Init PROVE TypeOK
    OBVIOUS
  <1>1. Min(Used) \in Used
    <2>1. Used \subseteq Nat /\ Used # {}
      BY ClassIs, UsedAssumption
    <2> QED
      BY <2>1, MinIs
  <1> QED
    BY <1>1, SimulatorAssumption DEF Init, TypeOK, NoFlush, EmptyBuffer, Slots

LEMMA StepTypes == FifoInv /\ FifoInv' /\ TypeOK /\ [Next]_vars => TypeOK'
  <1> SUFFICES ASSUME FifoInv, FifoInv', TypeOK, [Next]_vars PROVE TypeOK'
    OBVIOUS
  \* What the proof of FifoInv has already shown.
  <1>1. /\ isValid' \in [Slots -> BOOLEAN] /\ head' \in Slots /\ tail' \in Slots
        /\ curPos' \in Slots /\ table' \in [Used -> Slots \cup {Nil}]
    BY DEF FifoInv, FifoType
  <1>2. ASSUME Request PROVE TypeOK'
    <2>1. op' \in Requests /\ op' # NoOp /\ pc' \in {"start", "append"} /\ reply' = NoReply
      BY <1>2, NoOpAssumption DEF Request
    <2>2. UNCHANGED <<tag, fifo, smr, BandBuffer, leader, alive>>
      BY <1>2 DEF Request, ring, flush
    <2> QED
      BY <1>1, <2>1, <2>2 DEF TypeOK
  <1>3. ASSUME Read PROVE TypeOK'
    <2>1. op \in Requests /\ op.block \in Used /\ op.block \in Disk
      BY <1>3, UsedAssumption DEF Read, TypeOK, Requests
    <2>2. reply' \in Values
      BY <1>3, <2>1 DEF Read, TypeOK
    <2>3. /\ op' = NoOp /\ pc' = "idle"
          /\ UNCHANGED <<tag, fifo, smr, BandBuffer, leader, alive>>
      BY <1>3 DEF Read, ring, flush
    <2> QED
      BY <1>1, <2>2, <2>3 DEF TypeOK
  <1>4. ASSUME ReadBand PROVE TypeOK'
    <2>1. /\ leader' \in Used /\ leader' \in Disk /\ pc = "start" /\ pc' = "collect"
          /\ UNCHANGED <<op, reply, tag, fifo, smr, alive>>
      BY <1>4, UsedAssumption DEF ReadBand, TypeOK, ring
    <2> PICK b \in Disk : b = leader'
      BY <2>1
    <2>2. /\ b - OffsetInBand(b) \in Nat /\ b - OffsetInBand(b) + Size(ClassOf(b)) <= Start[Classes]
          /\ ActualBandSize(b) \in 1 .. Size(ClassOf(b)) /\ Size(ClassOf(b)) \in Nat
          /\ Start[Classes] \in Nat
      <3>1. Classes \in 0 .. Classes
        BY SimulatorAssumption
      <3> QED
        BY <3>1, BandIs, ActualSizeIs, ClassIs, SizeIs, StartIs
    <2>3. BandBuffer' = [i \in 0 .. Size(Classes - 1) - 1 |->
                           IF i < ActualBandSize(b)
                           THEN smr[b - OffsetInBand(b) + i] ELSE BandBuffer[i]]
      BY <1>4 DEF ReadBand, TypeOK
    <2>4. ASSUME NEW i \in 0 .. Size(Classes - 1) - 1, i < ActualBandSize(b)
          PROVE  smr[b - OffsetInBand(b) + i] \in Values
      <3>1. b - OffsetInBand(b) + i \in 0 .. Start[Classes] - 1
        BY <2>2, <2>4
      <3> QED
        BY <3>1 DEF TypeOK, Disk
    <2>5. BandBuffer' \in [0 .. Size(Classes - 1) - 1 -> Values]
      BY <2>3, <2>4 DEF TypeOK
    <2> QED
      BY <1>1, <2>1, <2>5 DEF TypeOK
  <1>5. ASSUME Collect PROVE TypeOK'
    <2>1. UNCHANGED <<op, reply, pc, tag, fifo, smr, leader, alive>>
      BY <1>5 DEF Collect
    <2>2. BandBuffer' \in [0 .. Size(Classes - 1) - 1 -> Values]
      BY <1>5 DEF Collect, TypeOK
    <2> QED
      BY <1>1, <2>1, <2>2 DEF TypeOK
  <1>6. ASSUME WriteBand PROVE TypeOK'
    <2>1. /\ pc = "collect" /\ pc' = "append" /\ BandBuffer' = EmptyBuffer /\ leader' = Min(Used)
          /\ UNCHANGED <<op, reply, tag, fifo, alive>>
      BY <1>6 DEF WriteBand, ring
    <2>2. leader' \in Used
      <3>1. Used \subseteq Nat /\ Used # {}
        BY ClassIs, UsedAssumption
      <3> QED
        BY <2>1, <3>1, MinIs
    <2>3. BandBuffer' \in [0 .. Size(Classes - 1) - 1 -> Values]
      BY <2>1, SimulatorAssumption DEF EmptyBuffer
    <2>4. smr' \in [Disk -> Values]
      <3>1. leader \in Disk
        BY UsedAssumption DEF TypeOK
      <3>2. /\ ActualBandSize(leader) \in 1 .. Size(ClassOf(leader))
            /\ Size(ClassOf(leader)) <= Size(Classes - 1)
            /\ Size(ClassOf(leader)) \in Nat /\ Size(Classes - 1) \in Nat
        <4>1. ClassOf(leader) \in Nat /\ Classes - 1 \in Nat
          BY <3>1, ClassIs, SimulatorAssumption
        <4> QED
          BY <3>1, <4>1, ActualSizeIs, SizeIs
      <3>3. \A i \in 0 .. ActualBandSize(leader) - 1 : BandBuffer[i] \in Values
        <4>1. \A i \in 0 .. ActualBandSize(leader) - 1 : i \in 0 .. Size(Classes - 1) - 1
          BY <3>2
        <4> QED
          BY <4>1 DEF TypeOK
      <3> QED
        BY <1>6, <3>3 DEF WriteBand, TypeOK
    <2> QED
      BY <1>1, <2>1, <2>2, <2>3, <2>4 DEF TypeOK
  <1>7. ASSUME AppendBlock PROVE TypeOK'
    <2>1. op \in Requests /\ op.block \in Used /\ op.value \in Values
      BY <1>7, SimulatorAssumption DEF AppendBlock, TypeOK, Requests
    <2>2. /\ op' = NoOp /\ pc' = "idle"
          /\ UNCHANGED <<reply, smr, BandBuffer, leader, alive>>
      BY <1>7 DEF AppendBlock, flush
    <2>3. tag' \in [Slots -> Used] /\ fifo' \in [Slots -> Values]
      BY <1>7, <2>1 DEF AppendBlock, TypeOK
    <2> QED
      BY <1>1, <2>2, <2>3 DEF TypeOK
  <1>8. ASSUME DeviceError PROVE TypeOK'
    BY <1>1, <1>8 DEF DeviceError, TypeOK, ring, flush
  <1>9. CASE UNCHANGED vars
    BY <1>9 DEF vars, TypeOK, ring, flush
  <1> QED
    BY <1>2, <1>3, <1>4, <1>5, <1>6, <1>7, <1>8, <1>9 DEF Next, Serve

\* Every variable keeps its type: no slot, band or place in the buffer is named
\* that does not exist.
THEOREM SimulatorTypes == Spec => []TypeOK
  BY InitTypes, StepTypes, FifoInvariant, PTL DEF Spec

\* A flush makes room for the write that caused it, and what it has still to
\* collect is ahead of its walk (getFIFODesp(), flushFIFO()).
THEOREM RoomMade == Spec => []FlushMakesRoom
  <1>1. FifoInv => CollectsAhead /\ RoomToAppend
    BY DEF FifoInv, RoomInv, WalkInv, Full, CollectsAhead, RoomToAppend
  <1> QED
    BY <1>1, FifoInvariant, SimulatorTypes, PTL DEF FlushMakesRoom

-----------------------------------------------------------------------------
(***************************************************************************)
(* The disk as a user sees it.  A flush that starts from the first block   *)
(* of a size class gets the length of the class before, and may lose what  *)
(* it has collected (simulator_boundary); what follows holds of requests   *)
(* that do not name these blocks.                                          *)
(***************************************************************************)
FirstsUnused == \A b \in Used, i \in 1 .. Classes - 1 : b # Start[i]

\* Only writes flush and append.
WriteInv == pc \in {"collect", "append"} => op.kind = "write"

LEMMA WriteStep == WriteInv /\ [Next]_vars => WriteInv'
  <1> SUFFICES ASSUME WriteInv, [Next]_vars PROVE WriteInv'
    OBVIOUS
  <1>1. CASE Request
    BY <1>1 DEF Request, WriteInv
  <1>2. CASE Read \/ ReadBand \/ AppendBlock
    BY <1>2 DEF Read, ReadBand, AppendBlock, WriteInv
  <1>3. CASE Collect \/ WriteBand \/ DeviceError
    BY <1>3 DEF Collect, WriteBand, DeviceError, WriteInv
  <1>4. CASE UNCHANGED vars
    BY <1>4 DEF vars, WriteInv
  <1> QED
    BY <1>1, <1>2, <1>3, <1>4 DEF Next, Serve

\* What is known of a block of the band that is being rewritten, whose first
\* block of all has number `leader`: its place in the buffer, and that no other
\* block of the band has that place.
LEMMA PlaceIs ==
  ASSUME FirstsUnused, NEW d \in Used, NEW b \in Used, BandNum(b) = BandNum(d)
  PROVE  /\ OffsetInBand(b) \in 0 .. ActualBandSize(d) - 1
         /\ OffsetInBand(b) \in 0 .. Size(Classes - 1) - 1
         /\ d - OffsetInBand(d) + OffsetInBand(b) = b
         /\ b - (d - OffsetInBand(d)) = OffsetInBand(b)
         /\ \A e \in Used : BandNum(e) = BandNum(d) /\ e # b => OffsetInBand(e) # OffsetInBand(b)
  <1>1. \A e \in Used : e \in Disk
    BY UsedAssumption
  <1>2. ASSUME NEW e \in Used, BandNum(e) = BandNum(d)
        PROVE  /\ ClassOf(e) = ClassOf(d) /\ e - OffsetInBand(e) = d - OffsetInBand(d)
               /\ OffsetInBand(e) \in 0 .. Size(ClassOf(d)) - 1 /\ e \in Nat
    BY <1>1, <1>2, SameBand, BandIs, ClassIs
  <1>3. ActualBandSize(d) = Size(ClassOf(d)) /\ Size(ClassOf(d)) <= Size(Classes - 1)
    BY <1>1, ActualSizeIs DEF FirstsUnused
  <1>4. Size(ClassOf(d)) \in Nat /\ Size(Classes - 1) \in Nat
    <2>1. ClassOf(d) \in Nat /\ Classes - 1 \in Nat
      BY <1>1, ClassIs, SimulatorAssumption
    <2> QED
      BY <2>1, SizeIs
  <1>5. d - OffsetInBand(d) \in Nat
    BY <1>1, BandIs
  <1>6. /\ OffsetInBand(b) \in 0 .. Size(ClassOf(d)) - 1 /\ b \in Nat
        /\ b - OffsetInBand(b) = d - OffsetInBand(d)
    BY <1>2
  <1>7. ASSUME NEW e \in Used, BandNum(e) = BandNum(d), e # b
        PROVE  OffsetInBand(e) # OffsetInBand(b)
    <2>1. /\ OffsetInBand(e) \in 0 .. Size(ClassOf(d)) - 1 /\ e \in Nat
          /\ e - OffsetInBand(e) = d - OffsetInBand(d)
      BY <1>2, <1>7
    <2> QED
      BY <1>6, <1>7, <2>1
  <1>8. OffsetInBand(b) \in 0 .. Size(Classes - 1) - 1
    BY <1>3, <1>4, <1>6
  <1>9. d - OffsetInBand(d) + OffsetInBand(b) = b /\ b - (d - OffsetInBand(d)) = OffsetInBand(b)
    <2> DEFINE o == OffsetInBand(b)
               first == d - OffsetInBand(d)
    <2>1. o \in Nat /\ first \in Nat /\ b - o = first /\ b \in Nat
      BY <1>4, <1>5, <1>6
    <2> HIDE DEF o, first
    <2>2. first + o = b /\ b - first = o
      BY <2>1
    <2> QED
      BY <2>2 DEF o, first
  <1> QED
    BY <1>3, <1>6, <1>7, <1>8, <1>9

\* The steps of a flush do not change what a user sees.
LEMMA ReadBandShowsSame ==
  ASSUME FirstsUnused, FifoInv, TypeOK, TypeOK', ReadBand
  PROVE  Contents' = Contents
  <1>1. /\ pc = "start" /\ pc' = "collect" /\ leader' \in Used
        /\ UNCHANGED <<table, fifo, smr>>
    BY DEF ReadBand, TypeOK, ring
  <1> PICK d \in Used : d = leader'
    BY <1>1
  <1>2. \A i \in 0 .. Size(Classes - 1) - 1 :
          i < ActualBandSize(d) => BandBuffer'[i] = smr[d - OffsetInBand(d) + i]
    BY DEF ReadBand, TypeOK
  <1>3. ASSUME NEW b \in Used, BandNum(b) = BandNum(d)
        PROVE  BandBuffer'[OffsetInBand(b)] = smr[b]
    <2>1. /\ OffsetInBand(b) \in 0 .. ActualBandSize(d) - 1
          /\ OffsetInBand(b) \in 0 .. Size(Classes - 1) - 1
          /\ d - OffsetInBand(d) + OffsetInBand(b) = b
      BY <1>3, PlaceIs
    <2>2. ActualBandSize(d) \in Nat
      BY <1>1, UsedAssumption, ActualSizeIs, ClassIs, SizeIs
    <2>3. OffsetInBand(b) < ActualBandSize(d)
      BY <2>1, <2>2
    <2> QED
      BY <1>2, <2>1, <2>3
  <1>4. \A b \in Used : Contents[b] = IF table[b] # Nil THEN fifo[table[b]] ELSE smr[b]
    BY <1>1 DEF Contents
  <1>5. \A b \in Used : Contents'[b] =
          IF table[b] # Nil THEN fifo[table[b]]
          ELSE IF BandNum(b) = BandNum(d) THEN BandBuffer'[OffsetInBand(b)] ELSE smr[b]
    BY <1>1 DEF Contents, BandNum, OffsetInBand
  <1>6. \A b \in Used : Contents'[b] = Contents[b]
    BY <1>3, <1>4, <1>5
  <1> QED
    BY <1>6 DEF Contents

LEMMA CollectShowsSame ==
  ASSUME FirstsUnused, FifoInv, TypeOK, Collect
  PROVE  Contents' = Contents
  <1>1. /\ pc = "collect" /\ pc' = "collect" /\ leader \in Used
        /\ UNCHANGED <<leader, fifo, smr, tag>>
    BY DEF Collect, TypeOK
  <1>2. \A b \in Used : Contents[b] =
          IF table[b] # Nil THEN fifo[table[b]]
          ELSE IF BandNum(b) = BandNum(leader) THEN BandBuffer[OffsetInBand(b)] ELSE smr[b]
    BY <1>1 DEF Contents
  <1>3. \A b \in Used : Contents'[b] =
          IF table'[b] # Nil THEN fifo[table'[b]]
          ELSE IF BandNum(b) = BandNum(leader) THEN BandBuffer'[OffsetInBand(b)] ELSE smr[b]
    BY <1>1 DEF Contents, BandNum, OffsetInBand
  <1>4. CASE isValid[curPos] /\ BandNum(tag[curPos]) = BandNum(leader)
    <2> PICK c \in Used : c = tag[curPos]
      BY DEF TypeOK
    <2>1. /\ BandBuffer' = [BandBuffer EXCEPT ![OffsetInBand(c)] = fifo[curPos]]
          /\ table' = [table EXCEPT ![c] = Nil]
          /\ BandNum(c) = BandNum(leader)
      BY <1>4 DEF Collect
    <2>2. table[c] = curPos /\ curPos # Nil
      BY <1>4 DEF FifoInv, NewestInv, FifoType, Slots, Nil
    <2>3. table'[c] = Nil /\ \A b \in Used \ {c} : table'[b] = table[b]
      BY <2>1 DEF TypeOK
    <2>4. OffsetInBand(c) \in 0 .. Size(Classes - 1) - 1
      BY <1>1, <2>1, PlaceIs
    <2>5. BandBuffer'[OffsetInBand(c)] = fifo[curPos]
      BY <2>1, <2>4 DEF TypeOK
    <2>6. ASSUME NEW b \in Used, b # c, BandNum(b) = BandNum(leader)
          PROVE  BandBuffer'[OffsetInBand(b)] = BandBuffer[OffsetInBand(b)]
      <3>1. OffsetInBand(b) # OffsetInBand(c) /\ OffsetInBand(b) \in 0 .. Size(Classes - 1) - 1
        BY <1>1, <2>1, <2>6, PlaceIs
      <3> QED
        BY <2>1, <3>1 DEF TypeOK
    <2>7. ASSUME NEW b \in Used PROVE Contents'[b] = Contents[b]
      <3>1. CASE b = c
        BY <1>2, <1>3, <2>1, <2>2, <2>3, <2>5, <3>1
      <3>2. CASE b # c
        BY <1>2, <1>3, <2>3, <2>6, <3>2
      <3> QED
        BY <3>1, <3>2
    <2> QED
      BY <2>7 DEF Contents
  <1>5. CASE ~(isValid[curPos] /\ BandNum(tag[curPos]) = BandNum(leader))
    <2>1. UNCHANGED <<BandBuffer, table>>
      BY <1>5 DEF Collect
    <2>2. \A b \in Used : Contents'[b] = Contents[b]
      BY <1>2, <1>3, <2>1
    <2> QED
      BY <2>2 DEF Contents
  <1> QED
    BY <1>4, <1>5

\* The band is written back as it was collected.
LEMMA BandWritten ==
  ASSUME FirstsUnused, TypeOK, WriteBand
  PROVE  /\ \A b \in Used : BandNum(b) = BandNum(leader) => smr'[b] = BandBuffer[OffsetInBand(b)]
         /\ \A b \in Used : BandNum(b) # BandNum(leader) => smr'[b] = smr[b]
  <1>1. leader \in Used /\ leader \in Disk
    BY UsedAssumption DEF TypeOK
  <1> DEFINE first == leader - OffsetInBand(leader)
  <1>2. \A b \in Used : smr'[b] = IF b - first \in 0 .. ActualBandSize(leader) - 1
                                  THEN BandBuffer[b - first] ELSE smr[b]
    BY UsedAssumption DEF WriteBand
  <1>3. ASSUME NEW b \in Used, BandNum(b) = BandNum(leader)
        PROVE  b - first = OffsetInBand(b) /\ b - first \in 0 .. ActualBandSize(leader) - 1
    BY <1>1, <1>3, PlaceIs
  <1>4. ASSUME NEW b \in Used, BandNum(b) # BandNum(leader)
        PROVE  b - first \notin 0 .. ActualBandSize(leader) - 1
    <2>1. b - first \notin 0 .. Size(ClassOf(leader)) - 1
      BY <1>1, <1>4, UsedAssumption, InBand
    <2>2. ActualBandSize(leader) = Size(ClassOf(leader))
      BY <1>1, ActualSizeIs DEF FirstsUnused
    <2> QED
      BY <2>1, <2>2
  <1> QED
    BY <1>2, <1>3, <1>4

LEMMA WriteBandShowsSame ==
  ASSUME FirstsUnused, TypeOK, WriteBand
  PROVE  Contents' = Contents
  <1>1. pc = "collect" /\ pc' = "append" /\ UNCHANGED <<table, fifo>>
    BY DEF WriteBand, ring
  <1>2. \A b \in Used : Contents[b] =
          IF table[b] # Nil THEN fifo[table[b]]
          ELSE IF BandNum(b) = BandNum(leader) THEN BandBuffer[OffsetInBand(b)] ELSE smr[b]
    BY <1>1 DEF Contents
  <1>3. \A b \in Used : Contents'[b] = IF table[b] # Nil THEN fifo[table[b]] ELSE smr'[b]
    BY <1>1 DEF Contents
  <1>4. \A b \in Used : Contents'[b] = Contents[b]
    BY <1>2, <1>3, BandWritten
  <1> QED
    BY <1>4 DEF Contents

\* A write is done when its block has been appended.
LEMMA AppendShows ==
  ASSUME FifoInv, TypeOK, AppendBlock
  PROVE  Contents' = [Contents EXCEPT ![op.block] = op.value]
  <1>1. /\ pc = "append" /\ pc' = "idle" /\ op.block \in Used
        /\ fifo' = [fifo EXCEPT ![tail] = op.value]
        /\ table' = [table EXCEPT ![op.block] = tail] /\ UNCHANGED smr
        /\ tail \in Slots /\ tail # Nil
    BY SimulatorAssumption DEF AppendBlock, FifoInv, FifoType, Slots, Nil
  <1>2. \A b \in Used : Contents[b] = IF table[b] # Nil THEN fifo[table[b]] ELSE smr[b]
    BY <1>1 DEF Contents
  <1>3. \A b \in Used : Contents'[b] = IF table'[b] # Nil THEN fifo'[table'[b]] ELSE smr[b]
    BY <1>1 DEF Contents
  <1>4. ~isValid[tail]
    BY <1>1, AheadFacts DEF FifoInv, FifoType, HeadIsValid, InRing
  <1>5. ASSUME NEW b \in Used \ {op.block}, table[b] # Nil PROVE fifo'[table[b]] = fifo[table[b]]
    <2>1. table[b] # tail /\ table[b] \in Slots
      BY <1>4, <1>5 DEF FifoInv, NewestInv, FifoType
    <2> QED
      BY <1>1, <2>1 DEF TypeOK
  <1>6. ASSUME NEW b \in Used
        PROVE  Contents'[b] = IF b = op.block THEN op.value ELSE Contents[b]
    <2>1. CASE b = op.block
      <3>1. table'[b] = tail /\ fifo'[tail] = op.value
        BY <1>1, <2>1 DEF TypeOK
      <3> QED
        BY <1>1, <1>3, <2>1, <3>1
    <2>2. CASE b # op.block
      <3>1. table'[b] = table[b]
        BY <1>1, <2>2 DEF TypeOK
      <3> QED
        BY <1>2, <1>3, <1>5, <2>2, <3>1
    <2> QED
      BY <2>1, <2>2
  <1>7. DOMAIN Contents = Used /\ DOMAIN Contents' = Used
    BY DEF Contents
  <1>8. Contents' = [b \in Used |-> Contents'[b]]
    BY DEF Contents
  <1>9. [Contents EXCEPT ![op.block] = op.value] =
          [b \in Used |-> IF b = op.block THEN op.value ELSE Contents[b]]
    BY <1>1, <1>7
  <1> QED
    BY <1>6, <1>8, <1>9

LEMMA StoreStep ==
  ASSUME FirstsUnused, FifoInv, WriteInv, TypeOK, TypeOK', [Next]_vars
  PROVE  [Store!Next]_(Store!vars)
  <1>1. CASE Request
    <2>1. /\ op = NoOp /\ op' \in Requests /\ reply' = NoReply
          /\ pc # "collect" /\ pc' # "collect" /\ UNCHANGED <<table, fifo, smr>>
      BY <1>1 DEF Request, TypeOK, ring
    <2>2. Contents' = Contents
      BY <2>1 DEF Contents
    <2> QED
      BY <2>1, <2>2 DEF Store!Next, Store!Request, Store!Requests, Requests
  <1>2. CASE Read
    <2>1. /\ op # NoOp /\ op.kind = "read" /\ op.block \in Used /\ op' = NoOp
          /\ pc # "collect" /\ pc' # "collect" /\ UNCHANGED <<table, fifo, smr>>
          /\ reply' = IF table[op.block] # Nil THEN fifo[table[op.block]] ELSE smr[op.block]
      BY <1>2 DEF Read, TypeOK, FifoInv, FifoType, ring
    <2>2. Contents' = Contents /\ reply' = Contents[op.block]
      BY <2>1 DEF Contents
    <2> QED
      BY <2>1, <2>2 DEF Store!Next, Store!ReadReturns
  <1>3. CASE ReadBand \/ Collect \/ WriteBand
    <2>1. Contents' = Contents
      BY <1>3, ReadBandShowsSame, CollectShowsSame, WriteBandShowsSame
    <2>2. UNCHANGED <<op, reply>>
      BY <1>3 DEF ReadBand, Collect, WriteBand
    <2> QED
      BY <2>1, <2>2 DEF Store!vars
  <1>4. CASE AppendBlock
    <2>1. op # NoOp /\ op.kind = "write" /\ op' = NoOp /\ UNCHANGED reply
      BY <1>4 DEF AppendBlock, TypeOK, WriteInv
    <2>2. Contents' = [Contents EXCEPT ![op.block] = op.value]
      BY <1>4, AppendShows
    <2> QED
      BY <2>1, <2>2 DEF Store!Next, Store!WriteReturns
  <1>5. CASE DeviceError \/ UNCHANGED vars
    <2>1. UNCHANGED <<op, reply, pc, table, fifo, smr, BandBuffer, leader>>
      BY <1>5 DEF DeviceError, vars, ring, flush
    <2>2. Contents' = Contents
      BY <2>1 DEF Contents, BandNum, OffsetInBand
    <2> QED
      BY <2>1, <2>2 DEF Store!vars
  <1> QED
    BY <1>1, <1>2, <1>3, <1>4, <1>5 DEF Next, Serve

LEMMA StoreInit == Init => Store!Init
  <1> SUFFICES ASSUME Init PROVE Store!Init
    OBVIOUS
  <1>1. Contents = [b \in Used |-> InitValue]
    BY UsedAssumption DEF Init, Contents
  <1> QED
    BY <1>1 DEF Init, Store!Init

\* A read returns what the last write of the block stored: the FIFO, the merge
\* of its versions into the bands and the wrap of its slots cannot be told from
\* an array of blocks (simu_smr_read(), simu_smr_write()), but for requests
\* that name the first block of a size class.
THEOREM DiskIsArray ==
  ASSUME FirstsUnused
  PROVE  Spec => ImplementsBlockStore
  <1>1. Init => WriteInv
    BY DEF Init, WriteInv
  <1>2. Spec => []WriteInv
    BY <1>1, WriteStep, PTL DEF Spec
  <1>3. FifoInv /\ WriteInv /\ TypeOK /\ TypeOK' /\ [Next]_vars => [Store!Next]_(Store!vars)
    BY StoreStep
  <1> QED
    BY <1>2, <1>3, StoreInit, FifoInvariant, SimulatorTypes, PTL
    DEF Spec, ImplementsBlockStore, Store!Spec

\* With the same exception, a band is written back with all that was collected
\* of it ("flush whole band to smr", flushFIFO()).
THEOREM WholeBands ==
  ASSUME FirstsUnused
  PROVE  Spec => WholeBandFlushed
  <1> DEFINE Flushed ==
        smr' # smr \/ (pc = "collect" /\ pc' = "append") =>
          \A b \in Used : BandNum(b) = BandNum(leader) => smr'[b] = BandBuffer[OffsetInBand(b)]
  <1>1. TypeOK /\ [Next]_vars => [Flushed]_vars
    <2> SUFFICES ASSUME TypeOK, Next PROVE Flushed
      OBVIOUS
    <2>1. CASE WriteBand
      BY <2>1, BandWritten
    <2>2. CASE ~WriteBand
      <3>1. smr' = smr /\ ~(pc = "collect" /\ pc' = "append")
        BY <2>2 DEF Next, Serve, Request, Read, ReadBand, Collect, AppendBlock, DeviceError
      <3> QED
        BY <3>1
    <2> QED
      BY <2>1, <2>2
  <1> QED
    BY <1>1, SimulatorTypes, PTL DEF Spec, WholeBandFlushed

-----------------------------------------------------------------------------
(***************************************************************************)
(* The hash tables.                                                        *)
(***************************************************************************)
\* The code of each block, for the table in use.
Coded == [b \in Blocks |-> IF user = "cache" THEN HashTab_GetHashCode(b) ELSE ssdtableHashcode(b)]

\* The items in use whose keys have the code, with the head of their bucket.
InBucket(c, key, used, code) == {HeadOf(c)} \cup {i \in used : code[key[i]] = c}

\* The items in use are in the buckets of their codes, the others in the free
\* chain, and no two items in use have the same key or the same descriptor.
Sound(next, key, desp, top, used, code) ==
  /\ \A i \in used : key[i] \in Blocks /\ desp[i] \in Desps
  /\ \A i, j \in used : key[i] = key[j] \/ desp[i] = desp[j] => i = j
  /\ \A c \in Desps : key[HeadOf(c)] = Null
  /\ ChainOf(top, Items \ used, next, Null, Nodes)
  /\ \A c \in Desps : ChainOf(HeadOf(c), InBucket(c, key, used, code), next, Null, Nodes)

SoundNow(used) == Sound(next_item, hash_key, desp_serial_id, topfree_ptr, used, Coded)

TableInv ==
  /\ TableTypeOK /\ ok
  /\ user \in {"cache", "fifo"} /\ (user = "fifo" => NBLOCK_SMR_FIFO > 0)
  /\ \E used \in SUBSET Items : SoundNow(used)

LEMMA NodesAre ==
  /\ N \in Nat \ {0} /\ Blocks \subseteq Nat
  /\ Null \notin Nodes /\ Null \notin Blocks /\ Null \notin Desps /\ Null \notin Items
  /\ Items \subseteq Nodes /\ Items = Desps
  /\ \A c \in Desps : HeadOf(c) \in Nodes \ Items
  /\ \A c, d \in Desps : HeadOf(c) = HeadOf(d) => c = d
  /\ IsFiniteSet(Nodes) /\ Cardinality(Nodes) = 2 * N
  /\ IsFiniteSet(Items) /\ Cardinality(Items) = N
  <1>1. N \in Nat \ {0} /\ Blocks \subseteq Nat
    BY HashTabAssumption
  <1>2. IsFiniteSet(0 .. 2 * N - 1) /\ Cardinality(0 .. 2 * N - 1) = 2 * N
    <2>1. 0 \in Int /\ 2 * N - 1 \in Int /\ ~(0 > 2 * N - 1) /\ ((2 * N - 1) - 0) + 1 = 2 * N
      BY <1>1
    <2> QED
      BY <2>1, FS_Interval
  <1>3. IsFiniteSet(0 .. N - 1) /\ Cardinality(0 .. N - 1) = N
    <2>1. 0 \in Int /\ N - 1 \in Int /\ ~(0 > N - 1) /\ ((N - 1) - 0) + 1 = N
      BY <1>1
    <2> QED
      BY <2>1, FS_Interval
  <1>4. /\ Null \notin Nodes /\ Null \notin Blocks /\ Null \notin Desps /\ Null \notin Items
        /\ Items \subseteq Nodes /\ Items = Desps
    BY <1>1 DEF Null, Nodes, Items, Desps
  <1>5. /\ \A c \in Desps : HeadOf(c) \in Nodes \ Items
        /\ \A c, d \in Desps : HeadOf(c) = HeadOf(d) => c = d
    BY <1>1 DEF Desps, HeadOf, Nodes, Items
  <1> QED
    BY <1>1, <1>2, <1>3, <1>4, <1>5 DEF Nodes, Items

LEMMA CodedIs ==
  ASSUME user \in {"cache", "fifo"}, user = "fifo" => NBLOCK_SMR_FIFO > 0
  PROVE  Coded \in [Blocks -> Desps]
  <1>1. N \in Nat \ {0} /\ Blocks \subseteq Nat
    BY NodesAre
  <1>2. ASSUME NEW b \in Blocks
        PROVE  (IF user = "cache" THEN HashTab_GetHashCode(b) ELSE ssdtableHashcode(b)) \in Desps
    <2>1. b \in Nat
      BY <1>1
    <2>2. CASE user = "cache"
      BY <2>1, <2>2, <1>1 DEF HashTab_GetHashCode, Desps
    <2>3. CASE user = "fifo"
      <3>1. N - 1 > 0 /\ N - 1 \in Nat
        BY <2>3, <1>1 DEF NBLOCK_SMR_FIFO
      <3>2. b % (N - 1) \in 0 .. (N - 1) - 1
        BY <2>1, <3>1
      <3> QED
        BY <3>1, <3>2, <2>3, <1>1 DEF ssdtableHashcode, NBLOCK_SMR_FIFO, Desps
    <2> QED
      BY <2>2, <2>3
  <1> QED
    BY <1>2 DEF Coded

-----------------------------------------------------------------------------
\* The pointer writes.

\* What the chains of a table have in common.
LEMMA BucketLinks ==
  ASSUME NEW next, NEW key, NEW desp, NEW top, NEW used \in SUBSET Items,
         NEW code \in [Blocks -> Desps], Sound(next, key, desp, top, used, code),
         NEW c \in Desps
  PROVE  /\ InBucket(c, key, used, code) \subseteq Nodes
         /\ InBucket(c, key, used, code) \cap Items \subseteq used
         /\ HeadOf(c) \in InBucket(c, key, used, code)
         /\ \A e \in InBucket(c, key, used, code) :
              next[e] = Null \/ next[e] \in InBucket(c, key, used, code) \cap Items
         /\ \A e, f \in InBucket(c, key, used, code) : next[e] = next[f] => e = f
         /\ \A d \in Desps \ {c} :
              InBucket(c, key, used, code) \cap InBucket(d, key, used, code) = {}
  <1> DEFINE members == InBucket(c, key, used, code)
  <1>1. ChainOf(HeadOf(c), members, next, Null, Nodes)
    BY DEF Sound
  <1>2. HeadOf(c) \in Nodes \ Items /\ Null \notin Nodes /\ Items \subseteq Nodes
    BY NodesAre
  <1>3. /\ \A e \in members : next[e] \in (members \ {e, HeadOf(c)}) \cup {Null}
        /\ \A e, f \in members : next[e] = next[f] => e = f
    BY <1>1, <1>2, ChainLinks
  <1>4. /\ members \subseteq Nodes /\ members \cap Items \subseteq used /\ HeadOf(c) \in members
        /\ members \ {HeadOf(c)} \subseteq Items
    BY <1>2 DEF InBucket
  <1>5. \A d \in Desps \ {c} : members \cap InBucket(d, key, used, code) = {}
    BY NodesAre DEF InBucket
  <1>6. \A e \in members : next[e] = Null \/ next[e] \in members \cap Items
    BY <1>3, <1>4
  <1> QED
    BY <1>3, <1>4, <1>5, <1>6

\* buckect_alloc(), memPop() and the link at the end of a bucket.
LEMMA Inserted ==
  ASSUME NEW next \in [Nodes -> Items \cup {Null}], NEW key \in [Nodes -> Blocks \cup {Null}],
         NEW desp \in [Nodes -> Desps \cup {Null}], NEW top, NEW used \in SUBSET Items,
         NEW code \in [Blocks -> Desps], Sound(next, key, desp, top, used, code), top # Null,
         NEW b \in Blocks, \A i \in used : key[i] # b,
         NEW d \in Desps, \A i \in used : desp[i] # d,
         NEW last \in InBucket(code[b], key, used, code), next[last] = Null
  PROVE  /\ top \in Items \ used
         /\ Sound([next EXCEPT ![last] = top, ![top] = Null], [key EXCEPT ![top] = b],
                  [desp EXCEPT ![top] = d], next[top], used \cup {top}, code)
  <1> DEFINE next2 == [next EXCEPT ![last] = top, ![top] = Null]
             key2 == [key EXCEPT ![top] = b]
             desp2 == [desp EXCEPT ![top] = d]
             used2 == used \cup {top}
             c == code[b]
  <1>1. /\ ChainOf(top, Items \ used, next, Null, Nodes)
        /\ \A i \in used : key[i] \in Blocks /\ desp[i] \in Desps
        /\ \A i, j \in used : key[i] = key[j] \/ desp[i] = desp[j] => i = j
        /\ \A e \in Desps : key[HeadOf(e)] = Null
        /\ \A e \in Desps : ChainOf(HeadOf(e), InBucket(e, key, used, code), next, Null, Nodes)
    BY DEF Sound
  <1>2. top \in Items \ used /\ top \in Nodes /\ c \in Desps
    BY <1>1, ChainLinks, NodesAre
  <1>3. /\ last \in Nodes /\ last # top /\ last \notin Items \ used
    <2>1. last = HeadOf(c) \/ last \in used
      BY DEF InBucket
    <2>2. HeadOf(c) \in Nodes \ Items
      BY <1>2, NodesAre
    <2> QED
      BY <2>1, <2>2, <1>2, NodesAre
  <1>4. /\ next2[last] = top /\ next2[top] = Null
        /\ \A e \in Nodes \ {last, top} : next2[e] = next[e]
        /\ key2[top] = b /\ desp2[top] = d
        /\ \A e \in Nodes \ {top} : key2[e] = key[e] /\ desp2[e] = desp[e]
    BY <1>2, <1>3
  <1>5. \A e \in Desps : HeadOf(e) \in Nodes \ {top}
    BY <1>2, NodesAre
  <1>6. used \subseteq Nodes \ {top}
    BY <1>2, NodesAre
  <1> HIDE DEF next2, key2, desp2
  <1>7. \A i \in used2 : key2[i] \in Blocks /\ desp2[i] \in Desps
    BY <1>1, <1>4, <1>6
  <1>8. \A i, j \in used2 : key2[i] = key2[j] \/ desp2[i] = desp2[j] => i = j
    BY <1>1, <1>4, <1>6
  <1>9. \A e \in Desps : key2[HeadOf(e)] = Null
    BY <1>1, <1>4, <1>5
  <1>10. ChainOf(next[top], Items \ used2, next2, Null, Nodes)
    <2>1. ChainOf(next[top], (Items \ used) \ {top}, next, Null, Nodes)
      BY <1>1, NodesAre, ChainPop
    <2>2. (Items \ used) \ {top} = Items \ used2
      OBVIOUS
    <2>3. \A e \in Items \ used2 : next2[e] = next[e]
      BY <1>3, <1>4, NodesAre
    <2> QED
      BY <2>1, <2>2, <2>3, ChainKept
  <1>11. ASSUME NEW e \in Desps
         PROVE  ChainOf(HeadOf(e), InBucket(e, key2, used2, code), next2, Null, Nodes)
    <2>1. ChainOf(HeadOf(e), InBucket(e, key, used, code), next, Null, Nodes)
      BY <1>1
    <2>2. /\ InBucket(e, key, used, code) \subseteq Nodes \ {top}
      BY <1>2, <1>5, <1>6 DEF InBucket
    <2>3. CASE e = c
      <3>1. InBucket(e, key2, used2, code) = InBucket(e, key, used, code) \cup {top}
        BY <2>3, <1>4, <1>6 DEF InBucket
      <3>2. \A f \in InBucket(e, key, used, code) \ {last} : next2[f] = next[f]
        BY <2>2, <1>4
      <3>3. top \in Nodes \ InBucket(e, key, used, code) /\ Null \notin Nodes
        BY <2>2, <1>2, NodesAre
      <3>4. last \in InBucket(e, key, used, code) /\ next[last] = Null
        BY <2>3
      <3>5. ChainOf(HeadOf(e), InBucket(e, key, used, code) \cup {top}, next2, Null, Nodes)
        BY <2>1, <3>2, <3>3, <3>4, <1>4, ChainAppend
      <3> QED
        BY <3>1, <3>5
    <2>4. CASE e # c
      <3>1. InBucket(e, key2, used2, code) = InBucket(e, key, used, code)
        BY <2>4, <1>4, <1>6 DEF InBucket
      <3>2. last \notin InBucket(e, key, used, code)
        BY <2>4, <1>2, BucketLinks
      <3>3. \A f \in InBucket(e, key, used, code) : next2[f] = next[f]
        BY <3>2, <2>2, <1>4
      <3> QED
        BY <3>1, <3>3, <2>1, ChainKept
    <2> QED
      BY <2>3, <2>4
  <1>12. Sound(next2, key2, desp2, next[top], used2, code)
    BY <1>7, <1>8, <1>9, <1>10, <1>11 DEF Sound
  <1> QED
    BY <1>2, <1>12 DEF next2, key2, desp2

\* The item after another leaves its bucket and is pushed on the free chain.
LEMMA Deleted ==
  ASSUME NEW next \in [Nodes -> Items \cup {Null}], NEW key, NEW desp, NEW top,
         NEW used \in SUBSET Items, NEW code \in [Blocks -> Desps],
         Sound(next, key, desp, top, used, code), NEW c \in Desps,
         NEW before \in InBucket(c, key, used, code), NEW item \in used,
         item \in InBucket(c, key, used, code), next[before] = item
  PROVE  Sound([next EXCEPT ![before] = next[item], ![item] = top], key, desp, item,
               used \ {item}, code)
  <1> DEFINE next2 == [next EXCEPT ![before] = next[item], ![item] = top]
             used2 == used \ {item}
             B == InBucket(c, key, used, code)
  <1>1. /\ ChainOf(top, Items \ used, next, Null, Nodes)
        /\ \A i \in used : key[i] \in Blocks /\ desp[i] \in Desps
        /\ \A i, j \in used : key[i] = key[j] \/ desp[i] = desp[j] => i = j
        /\ \A e \in Desps : key[HeadOf(e)] = Null
        /\ \A e \in Desps : ChainOf(HeadOf(e), InBucket(e, key, used, code), next, Null, Nodes)
    BY DEF Sound
  <1>2. item \in Items /\ item \in Nodes /\ Null \notin Nodes
    BY NodesAre
  <1>3. /\ before \in Nodes /\ before \notin Items \ used /\ before # item
    <2>1. before # item
      BY <1>1, <1>2, ChainLinks
    <2> QED
      BY <2>1, BucketLinks
  <1>4. /\ next2[before] = next[item] /\ next2[item] = top
        /\ \A e \in Nodes \ {before, item} : next2[e] = next[e]
    BY <1>2, <1>3
  <1>5. \A e \in Desps : InBucket(e, key, used2, code) = InBucket(e, key, used, code) \ {item}
    BY <1>2, NodesAre DEF InBucket
  <1> HIDE DEF next2
  <1>6. ChainOf(item, Items \ used2, next2, Null, Nodes)
    <2>1. Items \ used2 = (Items \ used) \cup {item}
      BY <1>2
    <2>2. item \in Nodes \ (Items \ used)
      BY <1>2
    <2>3. \A e \in Items \ used : next2[e] = next[e]
      BY <1>3, <1>4, NodesAre
    <2> QED
      BY <2>1, <2>2, <2>3, <1>1, <1>2, <1>4, ChainPush
  <1>7. ASSUME NEW e \in Desps
        PROVE  ChainOf(HeadOf(e), InBucket(e, key, used2, code), next2, Null, Nodes)
    <2>1. ChainOf(HeadOf(e), InBucket(e, key, used, code), next, Null, Nodes)
      BY <1>1
    <2>2. InBucket(e, key, used, code) \subseteq Nodes
      BY NodesAre DEF InBucket
    <2>3. CASE e = c
      <3>1. \A f \in B \ {before, item} : next2[f] = next[f]
        BY <2>2, <2>3, <1>4
      <3>2. ChainOf(HeadOf(e), B \ {item}, next2, Null, Nodes)
        BY <2>1, <2>3, <3>1, <1>2, <1>4, ChainUnlink
      <3> QED
        BY <2>3, <3>2, <1>5
    <2>4. CASE e # c
      <3>1. before \notin InBucket(e, key, used, code) /\ item \notin InBucket(e, key, used, code)
        <4>1. InBucket(e, key, used, code) \cap InBucket(c, key, used, code) = {}
          BY <2>4, BucketLinks
        <4> QED
          BY <4>1
      <3>2. \A f \in InBucket(e, key, used, code) : next2[f] = next[f]
        BY <3>1, <2>2, <1>4
      <3>3. InBucket(e, key, used2, code) = InBucket(e, key, used, code)
        BY <3>1, <1>5
      <3> QED
        BY <2>1, <3>2, <3>3, ChainKept
    <2> QED
      BY <2>3, <2>4
  <1>8. Sound(next2, key, desp, item, used2, code)
    BY <1>1, <1>6, <1>7 DEF Sound
  <1> QED
    BY <1>8 DEF next2

LEMMA DeletedAfter ==
  ASSUME NEW next \in [Nodes -> Items \cup {Null}], NEW key, NEW desp, NEW top,
         NEW used \in SUBSET Items, NEW code \in [Blocks -> Desps],
         Sound(next, key, desp, top, used, code), NEW c \in Desps,
         NEW before \in InBucket(c, key, used, code), next[before] \in used,
         next[before] \in InBucket(c, key, used, code)
  PROVE  Sound([next EXCEPT ![before] = next[next[before]], ![next[before]] = top], key, desp,
               next[before], used \ {next[before]}, code)
  BY Deleted

\* Each item in use has a predecessor in its bucket.
LEMMA Predecessor ==
  ASSUME NEW next, NEW key, NEW desp, NEW top, NEW used \in SUBSET Items,
         NEW code \in [Blocks -> Desps], Sound(next, key, desp, top, used, code),
         NEW c \in Desps, NEW i \in InBucket(c, key, used, code) \cap Items
  PROVE  \E n \in InBucket(c, key, used, code) : next[n] = i
  <1>1. ChainOf(HeadOf(c), InBucket(c, key, used, code), next, Null, Nodes)
    BY DEF Sound
  <1>2. HeadOf(c) \in Nodes \ Items /\ Null \notin Nodes
    BY NodesAre
  <1>3. \A e \in InBucket(c, key, used, code) :
          e = HeadOf(c) \/ \E f \in InBucket(c, key, used, code) : next[f] = e
    BY <1>1, <1>2, ChainLinks
  <1> QED
    BY <1>2, <1>3

\* The item of a block takes another slot.
LEMMA Moved ==
  ASSUME NEW next, NEW key, NEW desp \in [Nodes -> Desps \cup {Null}], NEW top,
         NEW used \in SUBSET Items, NEW code, Sound(next, key, desp, top, used, code),
         NEW item \in used, NEW d \in Desps, \A i \in used : desp[i] # d
  PROVE  Sound(next, key, [desp EXCEPT ![item] = d], top, used, code)
  <1> DEFINE desp2 == [desp EXCEPT ![item] = d]
  <1>1. used \subseteq Nodes
    BY NodesAre
  <1>2. desp2[item] = d /\ \A e \in Nodes \ {item} : desp2[e] = desp[e]
    BY <1>1
  <1> HIDE DEF desp2
  <1>3. /\ \A i \in used : key[i] \in Blocks /\ desp2[i] \in Desps
        /\ \A i, j \in used : key[i] = key[j] \/ desp2[i] = desp2[j] => i = j
    BY <1>1, <1>2 DEF Sound
  <1>4. Sound(next, key, desp2, top, used, code)
    BY <1>3 DEF Sound
  <1> QED
    BY <1>4 DEF desp2

-----------------------------------------------------------------------------
\* What the walks and the lookups show.

LEMMA ChainIs ==
  ASSUME TableTypeOK, NEW start, NEW members, ChainOf(start, members, next_item, Null, Nodes)
  PROVE  /\ Chain(start) \in Seq(Nodes) /\ IsInjective(Chain(start))
         /\ ToSet(Chain(start)) = members /\ Follows(Chain(start), start, next_item, Null)
  <1>1. DOMAIN next_item = Nodes
    BY DEF TableTypeOK
  <1>2. /\ Null \notin Nodes /\ IsFiniteSet(Nodes) /\ 2 * N \in Nat /\ Cardinality(Nodes) <= 2 * N + 1
    BY NodesAre
  <1> QED
    BY <1>1, <1>2, ChainShown DEF Chain

LEMMA LastIs ==
  ASSUME TableTypeOK, NEW start, NEW members, ChainOf(start, members, next_item, Null, Nodes), members # {}
  PROVE  Last(Chain(start)) \in members /\ next_item[Last(Chain(start))] = Null
  <1> DEFINE path == Chain(start)
  <1>1. path \in Seq(Nodes) /\ ToSet(path) = members /\ Follows(path, start, next_item, Null)
    BY ChainIs
  <1> HIDE DEF path
  <1>2. Len(path) \in Nat /\ Len(path) # 0
    BY <1>1 DEF ToSet
  <1>3. Len(path) \in 1 .. Len(path)
    BY <1>2
  <1>4. path[Len(path)] \in members
    BY <1>1, <1>3, InToSet
  <1>5. next_item[path[Len(path)]] = Null
    BY <1>1, <1>3 DEF Follows
  <1> QED
    BY <1>4, <1>5 DEF Last, path

LEMMA NodeOfIs ==
  ASSUME NEW path \in Seq(Nodes), NEW b
  PROVE  \/ NodeOf(path, b) = Null /\ \A n \in ToSet(path) : hash_key[n] # b
         \/ NodeOf(path, b) \in ToSet(path) /\ hash_key[NodeOf(path, b)] = b
  <1> DEFINE hits == {i \in DOMAIN path : hash_key[path[i]] = b}
  <1>1. NodeOf(path, b) = IF hits = {} THEN Null ELSE path[Min(hits)]
    BY DEF NodeOf
  <1>2. /\ DOMAIN path = 1 .. Len(path) /\ 1 .. Len(path) \subseteq Nat
        /\ \A i \in 1 .. Len(path) : path[i] \in ToSet(path)
        /\ \A n \in ToSet(path) : \E i \in 1 .. Len(path) : path[i] = n
    BY InToSet
  <1>3. CASE hits = {}
    BY <1>1, <1>2, <1>3
  <1>4. CASE hits # {}
    <2>1. hits \subseteq Nat
      BY <1>2
    <2>2. Min(hits) \in hits
      BY <2>1, <1>4, MinIs
    <2> QED
      BY <2>2, <1>1, <1>2, <1>4
  <1> QED
    BY <1>3, <1>4

\* The bucket of a block shows the item that has it as its key, if there is one.
LEMMA Found ==
  ASSUME TableTypeOK, NEW used \in SUBSET Items, NEW code \in [Blocks -> Desps],
         Sound(next_item, hash_key, desp_serial_id, topfree_ptr, used, code), NEW b \in Blocks
  PROVE  \/ NodeOf(Chain(HeadOf(code[b])), b) = Null /\ \A i \in used : hash_key[i] # b
         \/ /\ NodeOf(Chain(HeadOf(code[b])), b) \in used
            /\ hash_key[NodeOf(Chain(HeadOf(code[b])), b)] = b
  <1> DEFINE c == code[b]
             path == Chain(HeadOf(c))
             members == InBucket(c, hash_key, used, code)
  <1>1. c \in Desps /\ hash_key[HeadOf(c)] = Null /\ Null # b
    BY NodesAre DEF Sound
  <1>2. ChainOf(HeadOf(c), members, next_item, Null, Nodes)
    BY <1>1 DEF Sound
  <1>3. path \in Seq(Nodes) /\ ToSet(path) = members
    BY <1>2, ChainIs
  <1>4. \/ NodeOf(path, b) = Null /\ \A n \in members : hash_key[n] # b
        \/ NodeOf(path, b) \in members /\ hash_key[NodeOf(path, b)] = b
    BY <1>3, NodeOfIs
  <1>5. \A n \in members : hash_key[n] = b => n \in used
    BY <1>1 DEF InBucket
  <1>6. \A i \in used : hash_key[i] = b => i \in members
    BY DEF InBucket
  <1> QED
    BY <1>4, <1>5, <1>6

\* The map of a table with these items in use.
MapIs(map, used, key, desp) ==
  /\ map \in [Blocks -> Desps \cup {Null}]
  /\ \A b \in Blocks : (\A i \in used : key[i] # b) => map[b] = Null
  /\ \A i \in used : map[key[i]] = desp[i]

LEMMA MappedBy ==
  ASSUME TableInv, NEW used \in SUBSET Items, SoundNow(used)
  PROVE  /\ MapIs(Mapped, used, hash_key, desp_serial_id)
         /\ \A b \in Blocks :
              Mapped[b] = LET node == NodeOf(Chain(HeadOf(Coded[b])), b)
                          IN  IF node = Null THEN Null ELSE desp_serial_id[node]
  <1>1. Coded \in [Blocks -> Desps] /\ TableTypeOK
    BY CodedIs DEF TableInv
  <1>2. Sound(next_item, hash_key, desp_serial_id, topfree_ptr, used, Coded)
    BY DEF SoundNow
  <1>3. ASSUME NEW b \in Blocks
        PROVE  /\ Mapped[b] = LET node == NodeOf(Chain(HeadOf(Coded[b])), b)
                              IN  IF node = Null THEN Null ELSE desp_serial_id[node]
               /\ Mapped[b] \in Desps \cup {Null}
               /\ (\A i \in used : hash_key[i] # b) => Mapped[b] = Null
               /\ \A i \in used : hash_key[i] = b => Mapped[b] = desp_serial_id[i]
    <2>1. Mapped[b] = LET node == NodeOf(Chain(HeadOf(Coded[b])), b)
                      IN  IF node = Null THEN Null ELSE desp_serial_id[node]
      BY DEF Mapped, Coded, HashTab_Lookup, ssdtableLookup, Bucket, FifoBucket
    <2>2. \/ NodeOf(Chain(HeadOf(Coded[b])), b) = Null /\ \A i \in used : hash_key[i] # b
          \/ /\ NodeOf(Chain(HeadOf(Coded[b])), b) \in used
             /\ hash_key[NodeOf(Chain(HeadOf(Coded[b])), b)] = b
      BY <1>1, <1>2, Found
    <2>3. /\ \A i \in used : hash_key[i] \in Blocks /\ desp_serial_id[i] \in Desps
          /\ \A i, j \in used : hash_key[i] = hash_key[j] => i = j
      BY <1>2 DEF Sound
    <2>4. Null \notin used
      BY NodesAre
    <2> QED
      BY <2>1, <2>2, <2>3, <2>4
  <1>4. \A i \in used : hash_key[i] \in Blocks
    BY <1>2 DEF Sound
  <1>5. Mapped \in [Blocks -> Desps \cup {Null}]
    BY <1>3 DEF Mapped
  <1> QED
    BY <1>3, <1>4, <1>5 DEF MapIs

MapsSound ==
  TableInv => \A used \in SUBSET Items :
                SoundNow(used) => MapIs(Mapped, used, hash_key, desp_serial_id)

LEMMA MappedIs == MapsSound
  BY MappedBy DEF MapsSound

-----------------------------------------------------------------------------
\* The steps.

LEMMA InsertStep ==
  ASSUME TableInv, MapsSound', NEW used \in SUBSET Items, SoundNow(used), NEW b \in Blocks, NEW d \in Desps,
         \A i \in used : hash_key[i] # b, \A i \in used : desp_serial_id[i] # d,
         topfree_ptr # Null, UNCHANGED <<ok, user>>,
         topfree_ptr' = next_item[topfree_ptr],
         hash_key' = [hash_key EXCEPT ![topfree_ptr] = b],
         desp_serial_id' = [desp_serial_id EXCEPT ![topfree_ptr] = d],
         next_item' = [next_item EXCEPT ![Last(Chain(HeadOf(Coded[b])))] = topfree_ptr,
                                        ![topfree_ptr] = Null]
  PROVE  TableInv' /\ Mapped' = [Mapped EXCEPT ![b] = d]
  <1> DEFINE last == Last(Chain(HeadOf(Coded[b])))
             top == topfree_ptr
  <1> PICK used2 : used2 = used \cup {top}
    OBVIOUS
  <1>1. /\ TableTypeOK /\ ok /\ user \in {"cache", "fifo"} /\ Coded \in [Blocks -> Desps]
        /\ user = "fifo" => NBLOCK_SMR_FIFO > 0
        /\ Sound(next_item, hash_key, desp_serial_id, top, used, Coded)
    BY CodedIs DEF TableInv, SoundNow
  <1>2. last \in InBucket(Coded[b], hash_key, used, Coded) /\ next_item[last] = Null
    <2>1. ChainOf(HeadOf(Coded[b]), InBucket(Coded[b], hash_key, used, Coded), next_item, Null, Nodes)
      BY <1>1 DEF Sound
    <2>2. InBucket(Coded[b], hash_key, used, Coded) # {}
      BY DEF InBucket
    <2> QED
      BY <2>1, <2>2, <1>1, LastIs
  <1>3. /\ top \in Items \ used
        /\ Sound(next_item', hash_key', desp_serial_id', topfree_ptr', used2, Coded)
    <2>1. /\ next_item \in [Nodes -> Items \cup {Null}] /\ hash_key \in [Nodes -> Blocks \cup {Null}]
          /\ desp_serial_id \in [Nodes -> Desps \cup {Null}]
      BY <1>1 DEF TableTypeOK
    <2>2. /\ top \in Items \ used
          /\ Sound([next_item EXCEPT ![last] = top, ![top] = Null], [hash_key EXCEPT ![top] = b],
                   [desp_serial_id EXCEPT ![top] = d], next_item[top], used \cup {top}, Coded)
      <3> HIDE DEF last, top
      <3>1. /\ Sound(next_item, hash_key, desp_serial_id, top, used, Coded) /\ top # Null
            /\ last \in InBucket(Coded[b], hash_key, used, Coded) /\ next_item[last] = Null
            /\ Coded \in [Blocks -> Desps]
        BY <1>1, <1>2 DEF top
      <3> QED
        BY <2>1, <3>1, Inserted
    <2> QED
      BY <2>2
  <1>4. Coded' = Coded /\ used2 \in SUBSET Items
    BY <1>3 DEF Coded
  <1>5. TableTypeOK'
    BY <1>1, <1>2, <1>3, NodesAre DEF TableTypeOK
  <1>6. TableInv' /\ SoundNow(used2)'
    BY <1>1, <1>3, <1>4, <1>5 DEF TableInv, SoundNow
  <1>7. MapIs(Mapped, used, hash_key, desp_serial_id)
    BY MappedBy
  <1>8. MapIs(Mapped', used2, hash_key', desp_serial_id')
    BY <1>4, <1>6 DEF MapsSound
  <1>9. Mapped' = [Mapped EXCEPT ![b] = d]
    <2>1. /\ Mapped \in [Blocks -> Desps \cup {Null}] /\ Mapped' \in [Blocks -> Desps \cup {Null}]
      BY <1>7, <1>8 DEF MapIs
    <2>2. /\ hash_key'[top] = b /\ desp_serial_id'[top] = d
          /\ \A i \in used : hash_key'[i] = hash_key[i] /\ desp_serial_id'[i] = desp_serial_id[i]
      BY <1>1, <1>3, NodesAre DEF TableTypeOK
    <2>3. Mapped'[b] = d
      BY <2>2, <1>8 DEF MapIs
    <2>4. ASSUME NEW e \in Blocks \ {b}
          PROVE  Mapped'[e] = Mapped[e]
      <3>1. CASE \E i \in used : hash_key[i] = e
        BY <3>1, <2>2, <1>7, <1>8 DEF MapIs
      <3>2. CASE \A i \in used : hash_key[i] # e
        <4>1. \A i \in used2 : hash_key'[i] # e
          BY <3>2, <2>2
        <4> QED
          BY <3>2, <4>1, <1>7, <1>8 DEF MapIs
      <3> QED
        BY <3>1, <3>2
    <2> QED
      BY <2>1, <2>3, <2>4
  <1> QED
    BY <1>6, <1>9

LEMMA DeleteStep ==
  ASSUME TableInv, MapsSound', NEW used \in SUBSET Items, SoundNow(used), NEW b \in Blocks,
         Mapped[b] # Null, NEW before,
         before = CHOOSE n \in ToSet(Chain(HeadOf(Coded[b]))) :
                    next_item[n] # Null /\ hash_key[next_item[n]] = b,
         next_item' = [next_item EXCEPT ![before] = next_item[next_item[before]],
                                        ![next_item[before]] = topfree_ptr],
         topfree_ptr' = next_item[before],
         UNCHANGED <<hash_key, desp_serial_id, ok, user>>
  PROVE  TableInv' /\ Mapped' = [Mapped EXCEPT ![b] = Null]
  <1> DEFINE item == next_item[before]
             c == Coded[b]
  <1> PICK used2 : used2 = used \ {item}
    OBVIOUS
  <1>1. /\ TableTypeOK /\ ok /\ user \in {"cache", "fifo"} /\ Coded \in [Blocks -> Desps]
        /\ user = "fifo" => NBLOCK_SMR_FIFO > 0
        /\ Sound(next_item, hash_key, desp_serial_id, topfree_ptr, used, Coded)
    BY CodedIs DEF TableInv, SoundNow
  <1>2. MapIs(Mapped, used, hash_key, desp_serial_id) /\ c \in Desps
    BY <1>1, MappedBy
  <1>3. PICK i \in used : hash_key[i] = b
    BY <1>2 DEF MapIs
  <1>4. ToSet(Chain(HeadOf(c))) = InBucket(c, hash_key, used, Coded)
    BY <1>1, <1>2, ChainIs DEF Sound
  <1>5. i \in InBucket(c, hash_key, used, Coded) \cap Items
    BY <1>3 DEF InBucket
  <1>6. PICK n \in InBucket(c, hash_key, used, Coded) : next_item[n] = i
    BY <1>1, <1>2, <1>5, Predecessor
  <1>7. Null \notin Items /\ Items \subseteq Nodes
    BY NodesAre
  <1>8. /\ before \in InBucket(c, hash_key, used, Coded)
        /\ item # Null /\ hash_key[item] = b
    BY <1>3, <1>4, <1>6, <1>7
  <1>9. item \in InBucket(c, hash_key, used, Coded) \cap Items /\ item \in used
    BY <1>1, <1>2, <1>8, BucketLinks
  <1>10. /\ Sound(next_item', hash_key', desp_serial_id', topfree_ptr', used2, Coded)
    <2>1. next_item \in [Nodes -> Items \cup {Null}]
      BY <1>1 DEF TableTypeOK
    <2>2. Sound([next_item EXCEPT ![before] = next_item[next_item[before]],
                                  ![next_item[before]] = topfree_ptr],
                hash_key, desp_serial_id, next_item[before], used \ {next_item[before]}, Coded)
      BY <2>1, <1>1, <1>2, <1>8, <1>9, DeletedAfter
    <2> QED
      BY <2>2
  <1>11. Coded' = Coded /\ used2 \in SUBSET Items
    BY DEF Coded
  <1>12. TableTypeOK'
    BY <1>1, <1>7, <1>9 DEF TableTypeOK
  <1>13. TableInv' /\ SoundNow(used2)'
    BY <1>1, <1>10, <1>11, <1>12 DEF TableInv, SoundNow
  <1>14. MapIs(Mapped', used2, hash_key', desp_serial_id')
    BY <1>11, <1>13 DEF MapsSound
  <1>15. Mapped' = [Mapped EXCEPT ![b] = Null]
    <2>1. /\ Mapped \in [Blocks -> Desps \cup {Null}] /\ Mapped' \in [Blocks -> Desps \cup {Null}]
      BY <1>2, <1>14 DEF MapIs
    <2>2. \A j \in used : hash_key[j] = b => j = item
      BY <1>1, <1>8, <1>9 DEF Sound
    <2>3. Mapped'[b] = Null
      BY <2>2, <1>14 DEF MapIs
    <2>4. ASSUME NEW e \in Blocks \ {b}
          PROVE  Mapped'[e] = Mapped[e]
      <3>1. CASE \E j \in used : hash_key[j] = e
        <4>1. PICK j \in used : hash_key[j] = e
          BY <3>1
        <4>2. j \in used2
          BY <4>1, <1>8
        <4> QED
          BY <4>1, <4>2, <1>2, <1>14 DEF MapIs
      <3>2. CASE \A j \in used : hash_key[j] # e
        BY <3>2, <1>2, <1>14 DEF MapIs
      <3> QED
        BY <3>1, <3>2
    <2> QED
      BY <2>1, <2>3, <2>4
  <1> QED
    BY <1>13, <1>15

LEMMA UpdateStep ==
  ASSUME TableInv, MapsSound', NEW used \in SUBSET Items, SoundNow(used), NEW b \in Blocks, NEW d \in Desps,
         \A i \in used : desp_serial_id[i] # d, NEW item \in used, hash_key[item] = b,
         desp_serial_id' = [desp_serial_id EXCEPT ![item] = d],
         UNCHANGED <<next_item, hash_key, topfree_ptr, ok, user>>
  PROVE  TableInv' /\ Mapped' = [Mapped EXCEPT ![b] = d]
  <1>1. /\ TableTypeOK /\ ok /\ user \in {"cache", "fifo"}
        /\ user = "fifo" => NBLOCK_SMR_FIFO > 0
        /\ Sound(next_item, hash_key, desp_serial_id, topfree_ptr, used, Coded)
    BY DEF TableInv, SoundNow
  <1>2. Sound(next_item', hash_key', desp_serial_id', topfree_ptr', used, Coded)
    BY <1>1, Moved DEF TableTypeOK
  <1>3. Coded' = Coded
    BY DEF Coded
  <1>4. TableTypeOK'
    BY <1>1 DEF TableTypeOK
  <1>5. TableInv' /\ SoundNow(used)'
    BY <1>1, <1>2, <1>3, <1>4 DEF TableInv, SoundNow
  <1>6. MapIs(Mapped, used, hash_key, desp_serial_id)
    BY MappedBy
  <1>7. MapIs(Mapped', used, hash_key', desp_serial_id')
    BY <1>5 DEF MapsSound
  <1>8. Mapped' = [Mapped EXCEPT ![b] = d]
    <2>1. /\ Mapped \in [Blocks -> Desps \cup {Null}] /\ Mapped' \in [Blocks -> Desps \cup {Null}]
      BY <1>6, <1>7 DEF MapIs
    <2>2. /\ desp_serial_id'[item] = d
          /\ \A i \in used \ {item} : desp_serial_id'[i] = desp_serial_id[i]
      BY <1>1, NodesAre DEF TableTypeOK
    <2>3. Mapped'[b] = d
      BY <2>2, <1>7 DEF MapIs
    <2>4. ASSUME NEW e \in Blocks \ {b}
          PROVE  Mapped'[e] = Mapped[e]
      <3>1. CASE \E i \in used : hash_key[i] = e
        <4>1. PICK i \in used : hash_key[i] = e
          BY <3>1
        <4>2. i # item
          BY <4>1
        <4>3. Mapped[e] = desp_serial_id[i] /\ Mapped'[e] = desp_serial_id'[i]
          BY <4>1, <1>6, <1>7 DEF MapIs
        <4> QED
          BY <4>2, <4>3, <2>2
      <3>2. CASE \A i \in used : hash_key[i] # e
        BY <3>2, <1>6, <1>7 DEF MapIs
      <3> QED
        BY <3>1, <3>2
    <2> QED
      BY <2>1, <2>3, <2>4
  <1> QED
    BY <1>5, <1>8

-----------------------------------------------------------------------------
\* The pool suffices.

\* A descriptor that no item has: there are as many items as descriptors, so
\* an item is free.
LEMMA RoomForDesp ==
  ASSUME NEW next, NEW key, NEW desp, NEW top, NEW used \in SUBSET Items, NEW code,
         Sound(next, key, desp, top, used, code),
         NEW d \in Desps, \A i \in used : desp[i] # d
  PROVE  top # Null
  <1> SUFFICES ASSUME top = Null PROVE FALSE
    OBVIOUS
  <1>1. used = Items
    <2>1. ChainOf(top, Items \ used, next, Null, Nodes) /\ Null \notin Nodes
      BY NodesAre DEF Sound
    <2>2. Items \ used = {}
      BY <2>1, ChainLinks
    <2> QED
      BY <2>2
  <1> DEFINE f == [i \in Items |-> desp[i]]
             T == Desps \ {d}
  <1>2. f \in Injection(Items, T)
    BY <1>1 DEF Injection, Sound, IsInjective
  <1>3. IsFiniteSet(Desps) /\ Cardinality(Desps) = N /\ Cardinality(Items) = N /\ N \in Nat
    BY NodesAre
  <1>4. IsFiniteSet(T) /\ Cardinality(T) = N - 1
    BY <1>3, FS_RemoveElement
  <1> HIDE DEF f, T
  <1>5. Cardinality(Items) <= Cardinality(T)
    BY <1>2, <1>4, FS_Injection
  <1> QED
    BY <1>3, <1>4, <1>5

\* Fewer blocks in the FIFO than items: one is free.
LEMMA RoomForBlock ==
  ASSUME NEW next, NEW key, NEW desp, NEW top, NEW used \in SUBSET Items, NEW code,
         Sound(next, key, desp, top, used, code),
         Cardinality({key[i] : i \in used}) < N
  PROVE  top # Null
  <1> SUFFICES ASSUME top = Null PROVE FALSE
    OBVIOUS
  <1>1. used = Items
    <2>1. ChainOf(top, Items \ used, next, Null, Nodes) /\ Null \notin Nodes
      BY NodesAre DEF Sound
    <2>2. Items \ used = {}
      BY <2>1, ChainLinks
    <2> QED
      BY <2>2
  <1> DEFINE T == {key[i] : i \in used}
             f == [i \in Items |-> key[i]]
  <1>2. f \in Surjection(Items, T)
    BY <1>1 DEF Surjection
  <1>3. IsFiniteSet(Items) /\ Cardinality(Items) = N /\ N \in Nat
    BY NodesAre
  <1>4. f \in Injection(Items, T)
    BY <1>1 DEF Injection, Sound, IsInjective
  <1> HIDE DEF f, T
  <1>5. IsFiniteSet(T) /\ Cardinality(T) \in Nat
    BY <1>2, <1>3, FS_Surjection, FS_CardinalityType
  <1>6. Cardinality(Items) <= Cardinality(T)
    BY <1>4, <1>5, FS_Injection
  <1> QED
    BY <1>3, <1>5, <1>6 DEF T

-----------------------------------------------------------------------------
\* The invariant.

LEMMA InitSound == TablesInit => TableInv
  <1> SUFFICES ASSUME TablesInit PROVE TableInv
    OBVIOUS
  <1>1. /\ next_item = [n \in Nodes |-> IF n < N - 1 THEN n + 1 ELSE Null]
        /\ hash_key = [n \in Nodes |-> Null] /\ desp_serial_id = [n \in Nodes |-> Null]
        /\ topfree_ptr = 0 /\ ok = TRUE
        /\ user \in {"cache", "fifo"} /\ (user = "fifo" => NBLOCK_SMR_FIFO > 0)
    BY DEF TablesInit, HashTab_Init
  <1>2. N \in Nat \ {0}
    BY NodesAre
  <1>3. TableTypeOK
    BY <1>1, <1>2 DEF TableTypeOK, Items, Nodes, Null
  <1> DEFINE s == [k \in 1 .. N |-> k - 1]
  <1>4. ChainOf(0, Items, next_item, Null, Nodes)
    <2>1. /\ s \in Seq(Nodes) /\ Len(s) = N /\ DOMAIN s = 1 .. N
          /\ \A k \in 1 .. N : s[k] = k - 1
      BY <1>2 DEF Nodes
    <2> HIDE DEF s
    <2>2. IsInjective(s)
      BY <2>1, <1>2 DEF IsInjective
    <2>3. ToSet(s) = Items
      <3>1. \A i \in Items : i + 1 \in 1 .. N /\ s[i + 1] = i
        BY <2>1, <1>2 DEF Items
      <3>2. \A k \in 1 .. N : s[k] \in Items
        BY <2>1, <1>2 DEF Items
      <3> QED
        BY <2>1, <3>1, <3>2 DEF ToSet
    <2>4. Follows(s, 0, next_item, Null)
      <3>1. s # << >> /\ s[1] = 0
        BY <2>1, <1>2
      <3>2. ASSUME NEW k \in 1 .. N
            PROVE  next_item[s[k]] = IF k = N THEN Null ELSE s[k + 1]
        <4>1. s[k] \in Nodes /\ s[k] = k - 1 /\ k \in Nat
          BY <2>1, <1>2 DEF Nodes
        <4>2. next_item[s[k]] = IF k - 1 < N - 1 THEN (k - 1) + 1 ELSE Null
          BY <4>1, <1>1
        <4>3. k # N => k + 1 \in 1 .. N /\ s[k + 1] = (k - 1) + 1
          BY <2>1, <1>2
        <4>4. k - 1 < N - 1 <=> k # N
          BY <1>2
        <4> QED
          BY <4>2, <4>3, <4>4
      <3> QED
        BY <2>1, <3>1, <3>2 DEF Follows
    <2> QED
      BY <2>1, <2>2, <2>3, <2>4 DEF ChainOf
  <1>5. ASSUME NEW c \in Desps
        PROVE  ChainOf(HeadOf(c), InBucket(c, hash_key, {}, Coded), next_item, Null, Nodes)
    <2> DEFINE t == <<HeadOf(c)>>
    <2>1. HeadOf(c) \in Nodes \ Items
      BY NodesAre
    <2>2. next_item[HeadOf(c)] = Null
      BY <2>1, <1>1, <1>2 DEF Nodes, Items
    <2>3. /\ t \in Seq(Nodes) /\ Len(t) = 1 /\ t[1] = HeadOf(c) /\ t # << >> /\ DOMAIN t = 1 .. 1
      BY <2>1
    <2> HIDE DEF t
    <2>4. \A k \in 1 .. 1 : k = 1
      OBVIOUS
    <2>5. IsInjective(t)
      BY <2>3, <2>4 DEF IsInjective
    <2>6. ToSet(t) = InBucket(c, hash_key, {}, Coded)
      BY <2>3, <2>4 DEF ToSet, InBucket
    <2>7. Follows(t, HeadOf(c), next_item, Null)
      BY <2>2, <2>3, <2>4 DEF Follows
    <2> QED
      BY <2>3, <2>5, <2>6, <2>7 DEF ChainOf
  <1>6. \A c \in Desps : hash_key[HeadOf(c)] = Null
    BY <1>1, NodesAre
  <1>7. Items \ {} = Items
    OBVIOUS
  <1>8. Sound(next_item, hash_key, desp_serial_id, topfree_ptr, {}, Coded)
    BY <1>1, <1>4, <1>5, <1>6, <1>7 DEF Sound
  <1> QED
    BY <1>1, <1>3, <1>8 DEF TableInv, SoundNow

\* An insertion or update by its user finds an item, and every step does to the
\* map what the abstract table does.
LEMMA CacheStep ==
  ASSUME TableInv, MapsSound', user = "cache", CacheNext, UNCHANGED user
  PROVE  TableInv' /\ Table!Next
  <1>1. PICK used \in SUBSET Items : SoundNow(used)
    BY DEF TableInv
  <1>2. /\ MapIs(Mapped, used, hash_key, desp_serial_id)
        /\ Sound(next_item, hash_key, desp_serial_id, topfree_ptr, used, Coded)
        /\ \A b \in Blocks : Mapped[b] = HashTab_Lookup(b)
    BY <1>1, MappedBy DEF Mapped, SoundNow
  <1>3. \A b \in Blocks : Bucket(b) = Chain(HeadOf(Coded[b]))
    BY DEF Bucket, Coded
  <1>4. \A i \in used : hash_key[i] \in Blocks /\ desp_serial_id[i] \in Desps
    BY <1>2 DEF Sound
  <1>5. ASSUME NEW b \in Blocks, HashTab_Delete(b)
        PROVE  TableInv' /\ Table!Delete(b)
    <2> DEFINE before == CHOOSE n \in ToSet(Chain(HeadOf(Coded[b]))) :
                           next_item[n] # Null /\ hash_key[next_item[n]] = b
    <2>1. /\ Mapped[b] # Null
          /\ next_item' = [next_item EXCEPT ![before] = next_item[next_item[before]],
                                            ![next_item[before]] = topfree_ptr]
          /\ topfree_ptr' = next_item[before]
          /\ UNCHANGED <<hash_key, desp_serial_id, ok, user>>
      BY <1>2, <1>3, <1>5 DEF HashTab_Delete
    <2>2. TableInv' /\ Mapped' = [Mapped EXCEPT ![b] = Null]
      BY <2>1, <1>1, DeleteStep
    <2> QED
      BY <2>1, <2>2 DEF Table!Delete
  <1>6. ASSUME NEW b \in Blocks, NEW d \in Desps, HashTab_Insert(b, d)
        PROVE  TableInv' /\ Table!Insert(b, d)
    <2>1. Mapped[b] = Null /\ \A c \in Blocks : Mapped[c] # d
      BY <1>2, <1>6 DEF HashTab_Insert
    <2>2. (\A i \in used : hash_key[i] # b) /\ (\A i \in used : desp_serial_id[i] # d)
      BY <2>1, <1>2, <1>4, NodesAre DEF MapIs
    <2>3. topfree_ptr # Null
      BY <2>2, <1>2, RoomForDesp
    <2>4. /\ topfree_ptr' = next_item[topfree_ptr]
          /\ hash_key' = [hash_key EXCEPT ![topfree_ptr] = b]
          /\ desp_serial_id' = [desp_serial_id EXCEPT ![topfree_ptr] = d]
          /\ next_item' = [next_item EXCEPT ![Last(Chain(HeadOf(Coded[b])))] = topfree_ptr,
                                            ![topfree_ptr] = Null]
          /\ UNCHANGED <<ok, user>>
      BY <2>3, <1>3, <1>6 DEF HashTab_Insert
    <2>5. TableInv' /\ Mapped' = [Mapped EXCEPT ![b] = d]
      BY <2>2, <2>3, <2>4, <1>1, InsertStep
    <2> QED
      BY <2>1, <2>5 DEF Table!Insert
  <1> QED
    BY <1>5, <1>6 DEF CacheNext, Table!Next

LEMMA FifoCall ==
  ASSUME TableInv, MapsSound', user = "fifo", FifoNext, UNCHANGED user
  PROVE  TableInv' /\ Table!UpdateNext
  <1>1. PICK used \in SUBSET Items : SoundNow(used)
    BY DEF TableInv
  <1>2. /\ MapIs(Mapped, used, hash_key, desp_serial_id)
        /\ Sound(next_item, hash_key, desp_serial_id, topfree_ptr, used, Coded)
        /\ \A b \in Blocks : Mapped[b] = ssdtableLookup(b)
    BY <1>1, MappedBy DEF Mapped, SoundNow
  <1>3. /\ \A b \in Blocks : FifoBucket(b) = Chain(HeadOf(Coded[b]))
        /\ TableTypeOK /\ Coded \in [Blocks -> Desps]
    BY CodedIs DEF FifoBucket, Coded, TableInv
  <1>4. \A i \in used : hash_key[i] \in Blocks /\ desp_serial_id[i] \in Desps
    BY <1>2 DEF Sound
  <1>5. ASSUME NEW b \in Blocks, ssdtableDelete(b)
        PROVE  TableInv' /\ Table!Delete(b)
    <2> DEFINE before == CHOOSE n \in ToSet(Chain(HeadOf(Coded[b]))) :
                           next_item[n] # Null /\ hash_key[next_item[n]] = b
    <2>1. /\ Mapped[b] # Null
          /\ next_item' = [next_item EXCEPT ![before] = next_item[next_item[before]],
                                            ![next_item[before]] = topfree_ptr]
          /\ topfree_ptr' = next_item[before]
          /\ UNCHANGED <<hash_key, desp_serial_id, ok, user>>
      BY <1>2, <1>3, <1>5 DEF ssdtableDelete, InFifo
    <2>2. TableInv' /\ Mapped' = [Mapped EXCEPT ![b] = Null]
      BY <2>1, <1>1, DeleteStep
    <2> QED
      BY <2>1, <2>2 DEF Table!Delete
  <1>6. ASSUME NEW b \in Blocks, NEW d \in Desps, ssdtableUpdate(b, d)
        PROVE  TableInv' /\ Table!Update(b, d)
    <2> DEFINE own == NodeOf(Chain(HeadOf(Coded[b])), b)
    <2>1. (\A c \in Blocks : Mapped[c] # d) /\ Cardinality(InFifo) < NBLOCK_SMR_FIFO
      BY <1>2, <1>6 DEF ssdtableUpdate, IsAppended
    <2>2. \A i \in used : desp_serial_id[i] # d
      BY <2>1, <1>2, <1>4 DEF MapIs
    <2>3. \/ own = Null /\ \A i \in used : hash_key[i] # b
          \/ own \in used /\ hash_key[own] = b
      BY <1>2, <1>3, Found
    <2>4. topfree_ptr # Null
      <3>1. InFifo = {hash_key[i] : i \in used}
        <4>1. InFifo = {c \in Blocks : Mapped[c] # Null}
          BY <1>2 DEF InFifo
        <4>2. \A c \in Blocks : Mapped[c] # Null <=> \E i \in used : hash_key[i] = c
          BY <1>2, <1>4, NodesAre DEF MapIs
        <4> QED
          BY <4>1, <4>2, <1>4
      <3>2. Cardinality({hash_key[i] : i \in used}) < N
        <4>1. IsFiniteSet(used)
          BY NodesAre, FS_Subset
        <4>2. Cardinality({hash_key[i] : i \in used}) \in Nat
          <5> DEFINE T == {hash_key[i] : i \in used}
                     f == [i \in used |-> hash_key[i]]
          <5>1. f \in Surjection(used, T)
            BY DEF Surjection
          <5> HIDE DEF f, T
          <5>2. IsFiniteSet(T) /\ Cardinality(T) \in Nat
            BY <5>1, <4>1, FS_Surjection, FS_CardinalityType
          <5> QED
            BY <5>2 DEF T
        <4> QED
          BY <4>2, <2>1, <3>1, NodesAre DEF NBLOCK_SMR_FIFO
      <3> QED
        BY <3>2, <1>2, RoomForBlock
    <2>5. CASE own # Null
      <3>1. own \in used /\ hash_key[own] = b
        BY <2>3, <2>5
      <3>2. /\ desp_serial_id' = [desp_serial_id EXCEPT ![own] = d]
            /\ UNCHANGED <<next_item, hash_key, topfree_ptr, ok, user>>
        BY <2>5, <1>3, <1>6 DEF ssdtableUpdate
      <3>3. TableInv' /\ Mapped' = [Mapped EXCEPT ![b] = d]
        BY <3>1, <3>2, <2>2, <1>1, UpdateStep
      <3> QED
        BY <3>3, <2>1 DEF Table!Update
    <2>6. CASE own = Null
      <3>1. \A i \in used : hash_key[i] # b
        BY <2>3, <2>6, NodesAre
      <3>2. /\ topfree_ptr' = next_item[topfree_ptr]
            /\ hash_key' = [hash_key EXCEPT ![topfree_ptr] = b]
            /\ desp_serial_id' = [desp_serial_id EXCEPT ![topfree_ptr] = d]
            /\ next_item' = [next_item EXCEPT ![Last(Chain(HeadOf(Coded[b])))] = topfree_ptr,
                                              ![topfree_ptr] = Null]
            /\ UNCHANGED <<ok, user>>
        BY <2>4, <2>6, <1>3, <1>6 DEF ssdtableUpdate
      <3>3. TableInv' /\ Mapped' = [Mapped EXCEPT ![b] = d]
        BY <3>1, <3>2, <2>2, <2>4, <1>1, InsertStep
      <3> QED
        BY <3>3, <2>1 DEF Table!Update
    <2> QED
      BY <2>5, <2>6
  <1> QED
    BY <1>5, <1>6 DEF FifoNext, Table!UpdateNext

LEMMA TableStep ==
  TableInv /\ MapsSound' /\ [TablesNext]_tableVars =>
    TableInv' /\ [IF user = "cache" THEN Table!Next ELSE Table!UpdateNext]_Mapped
  <1> SUFFICES ASSUME TableInv, MapsSound', [TablesNext]_tableVars
               PROVE  TableInv' /\ [IF user = "cache" THEN Table!Next ELSE Table!UpdateNext]_Mapped
    OBVIOUS
  <1>1. CASE TablesNext
    <2>1. CASE user = "cache" /\ CacheNext
      BY <1>1, <2>1, CacheStep DEF TablesNext
    <2>2. CASE user = "fifo" /\ FifoNext
      BY <1>1, <2>2, FifoCall DEF TablesNext
    <2> QED
      BY <1>1, <2>1, <2>2 DEF TablesNext
  <1>2. CASE UNCHANGED tableVars
    <2>1. UNCHANGED <<user, next_item, hash_key, desp_serial_id, topfree_ptr, ok>>
      BY <1>2 DEF tableVars, hashVars
    <2>2. Coded' = Coded
      BY <2>1 DEF Coded
    <2>3. \A b \in Blocks : Mapped[b]' = Mapped[b]
      BY <2>1 DEF Mapped, HashTab_Lookup, ssdtableLookup, NodeOf, Bucket, FifoBucket, Chain
    <2>4. Mapped' = Mapped
      BY <2>1 DEF Mapped, HashTab_Lookup, ssdtableLookup, NodeOf, Bucket, FifoBucket, Chain
    <2>5. TableInv'
      BY <2>1, <2>2 DEF TableInv, SoundNow, TableTypeOK
    <2> QED
      BY <2>4, <2>5
  <1> QED
    BY <1>1, <1>2

\* In every state of either table its items are in the chains they belong to.
THEOREM TablesInvariant == TablesSpec => []TableInv
  BY InitSound, TableStep, MappedIs, PTL DEF TablesSpec

\* The tables are the maps their users take them for (the lookups, insertions
\* and deletions of hashtable_utils.c and inner_ssd_buf_table.c).
THEOREM TablesAreMaps == TablesSpec => ImplementsTagMap
  <1>1. TablesInit => Table!Init
    <2> SUFFICES ASSUME TablesInit PROVE Table!Init
      OBVIOUS
    <2>1. TableInv
      BY InitSound
    <2>3. PICK used \in SUBSET Items : SoundNow(used)
      BY <2>1 DEF TableInv
    <2>4. MapIs(Mapped, used, hash_key, desp_serial_id)
      BY <2>1, <2>3, MappedBy
    <2>5. used = {}
      <3>1. \A i \in used : hash_key[i] \in Blocks
        BY <2>3 DEF SoundNow, Sound
      <3>2. \A i \in used : hash_key[i] = Null
        BY NodesAre DEF TablesInit, HashTab_Init
      <3> QED
        BY <3>1, <3>2, NodesAre
    <2>6. \A b \in Blocks : Mapped[b] = Null
      BY <2>4, <2>5 DEF MapIs
    <2> QED
      BY <2>4, <2>6 DEF Table!Init, MapIs
  <1> QED
    BY <1>1, InitSound, TableStep, MappedIs, PTL DEF TablesSpec, ImplementsTagMap

\* What ItemsConserved asks of a table, with its codes as a function.
LEMMA SoundConserves ==
  ASSUME TableTypeOK, NEW used \in SUBSET Items, NEW code \in [Blocks -> Desps],
         Sound(next_item, hash_key, desp_serial_id, topfree_ptr, used, code)
  PROVE  LET free     == Chain(topfree_ptr)
             bucket(c) == Tail(Chain(HeadOf(c)))
         IN  /\ \A i \in Items :
                  Cardinality({k \in DOMAIN free : free[k] = i})
                    + Cardinality({p \in Desps \X (1 .. N + 1) :
                         p[2] \in DOMAIN bucket(p[1]) /\ bucket(p[1])[p[2]] = i}) = 1
             /\ \A c \in Desps : LET keys == [k \in DOMAIN bucket(c) |-> hash_key[bucket(c)[k]]]
                                 IN  IsInjective(keys) /\ \A b \in ToSet(keys) : b \in Blocks /\ code[b] = c
  <1> DEFINE free == Chain(topfree_ptr)
             bucket(c) == Tail(Chain(HeadOf(c)))
             In(c) == {i \in used : code[hash_key[i]] = c}
  <1>1. /\ free \in Seq(Nodes) /\ IsInjective(free) /\ ToSet(free) = Items \ used
    BY ChainIs DEF Sound
  <1>2. ASSUME NEW c \in Desps
        PROVE  /\ bucket(c) \in Seq(Nodes) /\ IsInjective(bucket(c)) /\ ToSet(bucket(c)) = In(c)
               /\ Len(bucket(c)) <= N /\ Len(bucket(c)) \in Nat
    <2> DEFINE path == Chain(HeadOf(c))
               rest == Tail(path)
    <2>1. /\ path \in Seq(Nodes) /\ IsInjective(path)
          /\ ToSet(path) = InBucket(c, hash_key, used, code)
          /\ Follows(path, HeadOf(c), next_item, Null)
      BY ChainIs DEF Sound
    <2> HIDE DEF path
    <2>2. HeadOf(c) \in Nodes \ Items /\ Null \notin Nodes
      BY NodesAre
    <2>3. path # << >> /\ path[1] = HeadOf(c) /\ Len(path) \in Nat \ {0}
      BY <2>1, <2>2 DEF Follows
    <2>4. /\ rest \in Seq(Nodes) /\ Len(rest) = Len(path) - 1 /\ DOMAIN rest = 1 .. Len(rest)
          /\ \A k \in 1 .. Len(rest) : rest[k] = path[k + 1]
      BY <2>1, <2>3
    <2>5. ToSet(rest) = In(c)
      <3>1. ToSet(rest) = ToSet(path) \ {path[1]}
        BY <2>1, <2>3, TailSet
      <3> QED
        BY <3>1, <2>1, <2>2, <2>3 DEF InBucket
    <2> HIDE DEF rest
    <2>6. IsInjective(rest)
      <3>1. ASSUME NEW j \in 1 .. Len(rest), NEW k \in 1 .. Len(rest), rest[j] = rest[k]
            PROVE  j = k
        <4>1. path[j + 1] = path[k + 1] /\ j + 1 \in 1 .. Len(path) /\ k + 1 \in 1 .. Len(path)
          BY <3>1, <2>3, <2>4
        <4>2. j + 1 = k + 1
          BY <4>1, <2>1, <2>3 DEF IsInjective
        <4> QED
          BY <4>2
      <3> QED
        BY <3>1, <2>4 DEF IsInjective
    <2>7. rest \in Seq(Items)
      <3>1. \A k \in 1 .. Len(rest) : rest[k] \in Items
        BY <2>4, <2>5, InToSet
      <3>2. Len(rest) \in Nat
        BY <2>3, <2>4
      <3> QED
        BY <2>4, <3>1, <3>2
    <2>8. Len(rest) <= N
      BY <2>6, <2>7, InjectiveLen, NodesAre
    <2> QED
      BY <2>3, <2>4, <2>5, <2>6, <2>8 DEF path, rest
  <1>3. \A i \in used : hash_key[i] \in Blocks /\ code[hash_key[i]] \in Desps
    BY DEF Sound
  <1> HIDE DEF free, bucket
  <1>4. ASSUME NEW i \in Items
        PROVE  Cardinality({k \in DOMAIN free : free[k] = i})
                 + Cardinality({p \in Desps \X (1 .. N + 1) :
                      p[2] \in DOMAIN bucket(p[1]) /\ bucket(p[1])[p[2]] = i}) = 1
    <2> DEFINE F == {k \in DOMAIN free : free[k] = i}
               B == {p \in Desps \X (1 .. N + 1) :
                       p[2] \in DOMAIN bucket(p[1]) /\ bucket(p[1])[p[2]] = i}
    <2>1. CASE i \in used
      <3> DEFINE c == code[hash_key[i]]
      <3>1. F = {}
        BY <2>1, <1>1 DEF ToSet
      <3>2. c \in Desps /\ i \in In(c)
        BY <2>1, <1>3
      <3>3. PICK k \in DOMAIN bucket(c) : bucket(c)[k] = i
        <4>1. ToSet(bucket(c)) = In(c)
          BY <3>2, <1>2
        <4> HIDE DEF c, In
        <4> QED
          BY <4>1, <3>2 DEF ToSet
      <3>4. k \in 1 .. N + 1
        <4>1. DOMAIN bucket(c) = 1 .. Len(bucket(c)) /\ Len(bucket(c)) <= N /\ Len(bucket(c)) \in Nat
          BY <3>2, <1>2
        <4> QED
          BY <4>1, <3>3, NodesAre
      <3>5. <<c, k>> \in B
        BY <3>2, <3>3, <3>4
      <3>6. ASSUME NEW p \in B
            PROVE  p = <<c, k>>
        <4>1. p[1] \in Desps /\ p[2] \in DOMAIN bucket(p[1]) /\ bucket(p[1])[p[2]] = i /\ p = <<p[1], p[2]>>
          OBVIOUS
        <4>2. i \in In(p[1])
          BY <4>1, <1>2 DEF ToSet
        <4>3. p[1] = c
          BY <4>2
        <4>4. p[2] = k
          BY <4>1, <4>3, <3>2, <3>3, <1>2 DEF IsInjective
        <4> QED
          BY <4>1, <4>3, <4>4
      <3>7. B = {<<c, k>>}
        BY <3>5, <3>6
      <3> HIDE DEF F, B, c
      <3>8. Cardinality(F) = 0 /\ Cardinality(B) = 1
        BY <3>1, <3>7, FS_EmptySet, FS_Singleton
      <3>9. Cardinality(F) + Cardinality(B) = 1
        BY <3>8
      <3> QED
        BY <3>9 DEF F, B
    <2>2. CASE i \notin used
      <3>1. PICK k \in DOMAIN free : free[k] = i
        BY <2>2, <1>1 DEF ToSet
      <3>2. F = {k}
        BY <3>1, <1>1 DEF IsInjective
      <3>3. B = {}
        <4>1. ASSUME NEW p \in B PROVE FALSE
          <5>1. p[1] \in Desps /\ p[2] \in DOMAIN bucket(p[1]) /\ bucket(p[1])[p[2]] = i
            OBVIOUS
          <5>2. i \in In(p[1])
            BY <5>1, <1>2 DEF ToSet
          <5> QED
            BY <5>2, <2>2
        <4> QED
          BY <4>1
      <3> HIDE DEF F, B
      <3>4. Cardinality(F) = 1 /\ Cardinality(B) = 0
        BY <3>2, <3>3, FS_EmptySet, FS_Singleton
      <3>5. Cardinality(F) + Cardinality(B) = 1
        BY <3>4
      <3> QED
        BY <3>5 DEF F, B
    <2> QED
      BY <2>1, <2>2
  <1>5. ASSUME NEW c \in Desps
        PROVE  LET keys == [k \in DOMAIN bucket(c) |-> hash_key[bucket(c)[k]]]
               IN  IsInjective(keys) /\ \A b \in ToSet(keys) : b \in Blocks /\ code[b] = c
    <2> DEFINE keys == [k \in DOMAIN bucket(c) |-> hash_key[bucket(c)[k]]]
    <2>1. \A k \in DOMAIN bucket(c) : bucket(c)[k] \in In(c)
      BY <1>2 DEF ToSet
    <2>2. ASSUME NEW j \in DOMAIN bucket(c), NEW k \in DOMAIN bucket(c), keys[j] = keys[k]
          PROVE  j = k
      <3>1. bucket(c)[j] = bucket(c)[k]
        BY <2>1, <2>2 DEF Sound
      <3> QED
        BY <3>1, <1>2 DEF IsInjective
    <2>3. IsInjective(keys)
      BY <2>2 DEF IsInjective
    <2>4. ASSUME NEW b \in ToSet(keys)
          PROVE  b \in Blocks /\ code[b] = c
      <3>1. PICK k \in DOMAIN bucket(c) : b = hash_key[bucket(c)[k]]
        BY DEF ToSet
      <3> QED
        BY <3>1, <2>1, <1>3
    <2> QED
      BY <2>3, <2>4
  <1> QED
    BY <1>4, <1>5 DEF free, bucket

LEMMA InvConserves == TableInv => ItemsConserved
  <1> SUFFICES ASSUME TableInv PROVE ItemsConserved
    OBVIOUS
  <1>1. PICK used \in SUBSET Items : SoundNow(used)
    BY DEF TableInv
  <1>2. Coded \in [Blocks -> Desps] /\ TableTypeOK /\ ok
    BY CodedIs DEF TableInv
  <1> DEFINE free == Chain(topfree_ptr)
             bucket(c) == Tail(Chain(HeadOf(c)))
  <1>3. /\ \A i \in Items :
             Cardinality({k \in DOMAIN free : free[k] = i})
               + Cardinality({p \in Desps \X (1 .. N + 1) :
                    p[2] \in DOMAIN bucket(p[1]) /\ bucket(p[1])[p[2]] = i}) = 1
        /\ \A c \in Desps : LET keys == [k \in DOMAIN bucket(c) |-> hash_key[bucket(c)[k]]]
                            IN  IsInjective(keys) /\ \A b \in ToSet(keys) : b \in Blocks /\ Coded[b] = c
    BY <1>1, <1>2, SoundConserves DEF SoundNow
  <1>4. CASE user = "cache"
    <2>1. \A b \in Blocks : Coded[b] = HashTab_GetHashCode(b)
      BY <1>4 DEF Coded
    <2> QED
      BY <1>2, <1>3, <1>4, <2>1 DEF ItemsConserved, Conserved
  <1>5. CASE user # "cache"
    <2>1. \A b \in Blocks : Coded[b] = ssdtableHashcode(b)
      BY <1>5 DEF Coded
    <2> QED
      BY <1>2, <1>3, <1>5, <2>1 DEF ItemsConserved, Conserved
  <1> QED
    BY <1>4, <1>5

\* No item is lost or linked twice, and the pool is never dry, where
\* HashTab_Insert() and memPop() would end the process.
THEOREM ItemsKept == TablesSpec => []ItemsConserved
  BY TablesInvariant, InvConserves, PTL
=============================================================================
