------------------------------ MODULE HashTab ------------------------------
(***************************************************************************)
(* hashtable_utils.c: chained hashing with the items of all chains taken   *)
(* from one pool as large as the cache.  The heads of the chains are items *)
(* of their own that never hold a key; the free items are a chain too.     *)
(***************************************************************************)
EXTENDS Walks, FiniteSets

CONSTANTS
  N,          \* NTABLE_SSD_CACHE, the same number as NBLOCK_SSD_CACHE
  Blocks      \* block numbers: offset / SSD_BUFFER_SIZE

ASSUME HashTabAssumption == N \in Nat \ {0} /\ Blocks \subseteq Nat

Null == -1                 \* NULL, and what a lookup returns that misses
Desps == 0 .. N - 1
Items == 0 .. N - 1       \* hashitem_freelist
HeadOf(code) == N + code  \* ssd_buf_hashtable
Nodes == 0 .. 2 * N - 1

VARIABLES
  next_item,         \* of heads and items
  hash_key,          \* of heads and items, Null before the first use
  desp_serial_id,
  topfree_ptr,
  ok                 \* FALSE: "hash bucket alloc failure", exit()

hashVars == <<next_item, hash_key, desp_serial_id, topfree_ptr, ok>>

TableTypeOK ==
  /\ next_item \in [Nodes -> Items \cup {Null}]
  /\ hash_key \in [Nodes -> Blocks \cup {Null}]
  /\ desp_serial_id \in [Nodes -> Desps \cup {Null}]
  /\ topfree_ptr \in Items \cup {Null}
  /\ ok \in BOOLEAN

HashTab_Init ==
  /\ next_item = [n \in Nodes |-> IF n < N - 1 THEN n + 1 ELSE Null]
  /\ hash_key = [n \in Nodes |-> Null]
  /\ desp_serial_id = [n \in Nodes |-> Null]
  /\ topfree_ptr = 0
  /\ ok = TRUE

HashTab_GetHashCode(b) == b % N

\* The nodes from the given one to the end.
Chain(start) == Walk(start, next_item, Null, 2 * N)

Bucket(b) == Chain(HeadOf(HashTab_GetHashCode(b)))

\* The first node of a chain with the key.
NodeOf(chain, b) ==
  LET first[path \in Seq(Nodes)] ==
        LET hits == {i \in DOMAIN path : hash_key[path[i]] = b}
        IN  IF hits = {} THEN Null ELSE path[Min(hits)]
  IN  first[chain]

\* HashTab_Lookup()
HashTab_Lookup(b) ==
  LET node == NodeOf(Bucket(b), b)
  IN  IF node = Null THEN Null ELSE desp_serial_id[node]

\* Faulty variant: the chain is not walked to its end.
HashTab_Insert_CutsChain(b, d) ==
  LET item == topfree_ptr
  IN  /\ ok
      /\ HashTab_Lookup(b) = Null
      /\ \A c \in Blocks : HashTab_Lookup(c) # d
      /\ IF item = Null
           THEN ok' = FALSE
                /\ UNCHANGED <<next_item, hash_key, desp_serial_id, topfree_ptr>>
           ELSE /\ topfree_ptr' = next_item[item]
                /\ hash_key' = [hash_key EXCEPT ![item] = b]
                /\ desp_serial_id' = [desp_serial_id EXCEPT ![item] = d]
                /\ next_item' = [next_item EXCEPT ![Head(Bucket(b))] = item,
                                                  ![item] = Null]
                /\ UNCHANGED ok

\* HashTab_Insert(), as allocSSDBuf() calls it: after a lookup that missed,
\* with a descriptor that was just taken from the free list.
HashTab_Insert(b, d) ==
  LET item == topfree_ptr                                  \* buckect_alloc()
  IN  /\ ok
      /\ HashTab_Lookup(b) = Null
      /\ \A c \in Blocks : HashTab_Lookup(c) # d
      /\ IF item = Null
           THEN ok' = FALSE
                /\ UNCHANGED <<next_item, hash_key, desp_serial_id, topfree_ptr>>
           ELSE /\ topfree_ptr' = next_item[item]
                /\ hash_key' = [hash_key EXCEPT ![item] = b]
                /\ desp_serial_id' = [desp_serial_id EXCEPT ![item] = d]
                /\ next_item' = [next_item EXCEPT ![Last(Bucket(b))] = item,
                                                  ![item] = Null]
                /\ UNCHANGED ok

\* HashTab_Delete(), for the block of a victim: unlink the item after the
\* node that points to it, and put it on the free chain.
HashTab_Delete(b) ==
  /\ ok
  /\ HashTab_Lookup(b) # Null
  /\ LET before == CHOOSE n \in ToSet(Bucket(b)) :
                     next_item[n] # Null /\ hash_key[next_item[n]] = b
         item   == next_item[before]
     IN  /\ next_item' = [next_item EXCEPT ![before] = next_item[item],
                                           ![item] = topfree_ptr]
         /\ topfree_ptr' = item
  /\ UNCHANGED <<hash_key, desp_serial_id, ok>>

CacheNext == \E b \in Blocks :
          HashTab_Delete(b) \/ \E d \in Desps : HashTab_Insert(b, d)


-----------------------------------------------------------------------------
\* Every item is in exactly one chain: the free chain, or the bucket its key
\* hashes to by code; and no bucket holds a key twice (insert and delete move
\* items by four pointer writes whose order matters).
Conserved(code(_)) ==
  LET free     == Chain(topfree_ptr)
      bucket(c) == Tail(Chain(HeadOf(c)))
  IN  /\ TableTypeOK
      /\ \A i \in Items :
           Cardinality({k \in DOMAIN free : free[k] = i})
             + Cardinality({p \in Desps \X (1 .. N + 1) :
                  p[2] \in DOMAIN bucket(p[1]) /\ bucket(p[1])[p[2]] = i}) = 1
      /\ \A c \in Desps : LET keys == [k \in DOMAIN bucket(c) |-> hash_key[bucket(c)[k]]]
                          IN  IsInjective(keys)
                              /\ \A b \in ToSet(keys) : code(b) = c
=============================================================================
