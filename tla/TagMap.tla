------------------------------- MODULE TagMap -------------------------------
(***************************************************************************)
(* What allocSSDBuf() of src/cache.c needs from the hash table: a map from *)
(* the cached blocks to their descriptors.  A block is inserted after a    *)
(* lookup missed it, with a descriptor no other block has, and is deleted  *)
(* when it leaves the cache.  simulator_v2.c needs a map of the same kind  *)
(* from the blocks in its FIFO to their slots.                             *)
(***************************************************************************)
CONSTANTS
  Blocks,      \* block offsets, the tags
  Desps,       \* serial numbers of the descriptors
  Nil          \* what a lookup returns that misses

VARIABLE map

TypeOK == map \in [Blocks -> Desps \cup {Nil}]

Init == map = [b \in Blocks |-> Nil]

Insert(b, d) ==
  /\ map[b] = Nil
  /\ \A c \in Blocks : map[c] # d
  /\ map' = [map EXCEPT ![b] = d]

Delete(b) ==
  /\ map[b] # Nil
  /\ map' = [map EXCEPT ![b] = Nil]

Next == \E b \in Blocks : Delete(b) \/ \E d \in Desps : Insert(b, d)

\* ssdtableUpdate() of the simulator: the block gets a new descriptor, whether
\* it has one or not.
Update(b, d) ==
  /\ \A c \in Blocks : map[c] # d
  /\ map' = [map EXCEPT ![b] = d]

UpdateNext == \E b \in Blocks : Delete(b) \/ \E d \in Desps : Update(b, d)

Spec == Init /\ [][Next]_map
=============================================================================
