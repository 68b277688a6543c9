------------------------------- MODULE Tables -------------------------------
(***************************************************************************)
(* The two hash tables of the program, each under the calls of its user.   *)
(* They share no memory; a behaviour is that of one of them.               *)
(***************************************************************************)
EXTENDS InnerTable

VARIABLE user     \* "cache": cache.c, "fifo": simulator_v2.c

tableVars == <<user, hashVars>>

\* A FIFO holds at least one block.
TablesInit == HashTab_Init /\ user \in {"cache", "fifo"} /\ (user = "fifo" => NBLOCK_SMR_FIFO > 0)

TablesNext ==
  /\ \/ user = "cache" /\ CacheNext
     \/ user = "fifo" /\ FifoNext
  /\ UNCHANGED user

TablesSpec == TablesInit /\ [][TablesNext]_tableVars

-----------------------------------------------------------------------------
\* No item is lost, linked twice or in a bucket of another code, and no key is
\* in the table twice, for both tables; so the pool never runs dry, where
\* HashTab_Insert() comes to its "hash bucket alloc failure" and memPop() to its
\* "poll overflow": each cached block has a descriptor of its own, and each block
\* in the FIFO a slot.
ItemsConserved ==
  /\ ok
  /\ IF user = "cache" THEN Conserved(HashTab_GetHashCode) ELSE Conserved(ssdtableHashcode)

\* The tables are the maps their users take them for, collisions included.
Mapped == [b \in Blocks |-> IF user = "cache" THEN HashTab_Lookup(b) ELSE ssdtableLookup(b)]

Table == INSTANCE TagMap WITH Nil <- Null, map <- Mapped
ImplementsTagMap ==
  Table!Init /\ [][IF user = "cache" THEN Table!Next ELSE Table!UpdateNext]_Mapped
=============================================================================
