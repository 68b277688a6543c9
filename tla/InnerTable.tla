----------------------------- MODULE InnerTable -----------------------------
(***************************************************************************)
(* smr-simulator/inner_ssd_buf_table.c: the table of the blocks in the     *)
(* FIFO of the simulator.  It is laid out as that of the cache, with one   *)
(* item and one head more than the FIFO holds blocks, but a block that     *)
(* enters may be there already, and the heads in use are one fewer.        *)
(***************************************************************************)
EXTENDS HashTab

NBLOCK_SMR_FIFO == N - 1

ssdtableHashcode(b) == b % NBLOCK_SMR_FIFO

FifoBucket(b) == Chain(HeadOf(ssdtableHashcode(b)))

\* ssdtableLookup()
ssdtableLookup(b) ==
  LET node == NodeOf(FifoBucket(b), b)
  IN  IF node = Null THEN Null ELSE desp_serial_id[node]

InFifo == {b \in Blocks : ssdtableLookup(b) # Null}

\* simulator_v2.c appends a block to a slot in no use, when the FIFO is not full.
IsAppended(b, d) ==
  /\ ok
  /\ \A c \in Blocks : ssdtableLookup(c) # d
  /\ Cardinality(InFifo) < NBLOCK_SMR_FIFO

\* ssdtableUpdate(): the item of the block takes the new slot, or the block
\* gets an item at the end of its bucket (memPop()).
ssdtableUpdate(b, d) ==
  LET item == topfree_ptr
      own  == NodeOf(FifoBucket(b), b)
  IN  /\ IsAppended(b, d)
      /\ IF own # Null
           THEN /\ desp_serial_id' = [desp_serial_id EXCEPT ![own] = d]
                /\ UNCHANGED <<next_item, hash_key, topfree_ptr, ok>>
         ELSE IF item = Null
           THEN ok' = FALSE
                /\ UNCHANGED <<next_item, hash_key, desp_serial_id, topfree_ptr>>
           ELSE /\ topfree_ptr' = next_item[item]
                /\ hash_key' = [hash_key EXCEPT ![item] = b]
                /\ desp_serial_id' = [desp_serial_id EXCEPT ![item] = d]
                /\ next_item' = [next_item EXCEPT ![Last(FifoBucket(b))] = item,
                                                  ![item] = Null]
                /\ UNCHANGED ok

\* Faulty variant: the item is not pushed back.
ssdtableDelete_Leaks(b) ==
  /\ ok /\ b \in InFifo
  /\ LET before == CHOOSE n \in ToSet(FifoBucket(b)) :
                     next_item[n] # Null /\ hash_key[next_item[n]] = b
     IN  next_item' = [next_item EXCEPT ![before] = next_item[next_item[before]]]
  /\ UNCHANGED <<topfree_ptr, hash_key, desp_serial_id, ok>>

\* ssdtableDelete(), for a block whose last version goes to its band
\* (memPush()).
ssdtableDelete(b) ==
  /\ ok /\ b \in InFifo
  /\ LET before == CHOOSE n \in ToSet(FifoBucket(b)) :
                     next_item[n] # Null /\ hash_key[next_item[n]] = b
         item   == next_item[before]
     IN  /\ next_item' = [next_item EXCEPT ![before] = next_item[item],
                                           ![item] = topfree_ptr]
         /\ topfree_ptr' = item
  /\ UNCHANGED <<hash_key, desp_serial_id, ok>>

FifoNext == \E b \in Blocks :
              ssdtableDelete(b) \/ \E d \in Desps : ssdtableUpdate(b, d)
=============================================================================
