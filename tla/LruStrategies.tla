--------------------------- MODULE LruStrategies ---------------------------
(***************************************************************************)
(* The LRU strategies, each under the calls of its users: LRU_private and  *)
(* LRU_rw in one process, and the older LRU of strategy/lru.c in several.  *)
(***************************************************************************)
EXTENDS Integers, FiniteSets, TLC

CONSTANTS
  NPrivate, NRw,    \* NBLOCK_SSD_CACHE under LRU_private, and under LRU_rw
  Grain, MaxStamp,
  Procs, SharedDesps, NoDesp, Nobody, Free, Listed, MaxDeaths

\* LRU_private takes a batch of Grain descriptors without a look at the end.
ASSUME LruStrategiesAssumption ==
  /\ NPrivate \in Nat /\ Grain \in 1 .. NPrivate
  /\ NRw \in Nat \ {0} /\ MaxStamp \in Nat
  /\ IsFiniteSet(SharedDesps) /\ NoDesp \notin SharedDesps
  /\ {Nobody, Free, Listed} \cap Procs = {} /\ Free # Listed

VARIABLES
  which,      \* "private", "rw", "shared"
  lru, StampGlobal, evicted, asked, valid, dirty,
  shm, created, lockFile, chkFile, mutex, pc, todo, owner, torn

rwVars == <<lru, StampGlobal, evicted, asked, valid, dirty>>
sharedVars == <<shm, created, lockFile, chkFile, mutex, pc, todo, owner, torn>>
vars == <<which, rwVars, sharedVars>>

PRIVATE == INSTANCE LruPrivate WITH N <- NPrivate
RW      == INSTANCE LruRw WITH N <- NRw
SHARED  == INSTANCE SharedLru WITH Desps <- SharedDesps, Nil <- NoDesp

Init ==
  /\ SHARED!Init
  /\ \/ which = "private" /\ PRIVATE!Init /\ StampGlobal = 0
     \/ which \in {"rw", "shared"} /\ RW!Init

Next ==
  /\ UNCHANGED which
  /\ \/ which = "private" /\ PRIVATE!Next /\ UNCHANGED <<StampGlobal, sharedVars>>
     \/ which = "rw" /\ RW!Next /\ UNCHANGED sharedVars
     \/ which = "shared" /\ SHARED!Next /\ UNCHANGED rwVars

Spec == Init /\ [][Next]_vars

Symmetry == Permutations(Procs) \cup Permutations(SharedDesps)

-----------------------------------------------------------------------------
\* The links of each strategy form the lists it takes them for, with the
\* descriptors the cache takes to be in them, and deleteFromLRU() of LRU_rw never
\* finds a node at the end of no list, where it calls exit(-1).
ListsMatchCache ==
  CASE which = "private" -> PRIVATE!ListMatchesCache
    [] which = "rw"      -> RW!ListsMatchCache
    [] which = "shared"  -> SHARED!SharedListSound

\* The shared list is there, and empty, before it is used, and only once.
CreatedOnce == SHARED!CreatedOnce

\* Each of them evicts by recency of use: LRU_private from all descriptors,
\* LRU_rw from the class asked for or, for "Any", from the class that holds the
\* one unused for longest; the shared one one descriptor at a time, in the order
\* in which the processes get the mutex.
ImplementsLru ==
  /\ which = "private" => PRIVATE!Order!Init
  /\ which = "rw" => RW!Order!Init
  /\ [][which = "private" => PRIVATE!Order!Next \/ UNCHANGED rwVars]_vars
  /\ [][which = "rw" => RW!Order!Next \/ UNCHANGED rwVars]_vars
  /\ [][which = "shared" /\ ~torn' => SHARED!Order!Next \/ SHARED!Recency' = SHARED!Recency]_vars

\* LRU_private and LRU_rw are replacement strategies as the cache needs one, that
\* know what it holds as clean and as dirty; a batch has distinct descriptors, and
\* LRU_rw answers with the class that was asked for.
IsEvictStrategy ==
  /\ which = "private" => PRIVATE!Calls!Init
  /\ which = "rw" => RW!Calls!Init
  /\ [][LET batch == valid \ valid'
        IN  IF which = "private"
            THEN IF batch # {} THEN PRIVATE!Calls!LogOut(asked', batch)
                 ELSE PRIVATE!Calls!Next \/ UNCHANGED PRIVATE!Calls!vars
            ELSE which = "rw" =>
                 IF batch # {} THEN RW!Calls!LogOut(asked', batch)
                 ELSE RW!Calls!Next \/ UNCHANGED RW!Calls!vars]_vars
=============================================================================
