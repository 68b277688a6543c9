----------------------------- MODULE SharedLru -----------------------------
(***************************************************************************)
(* strategy/lru.c over shmlib.c: one LRU list in shared memory, used by    *)
(* several processes.  The first of them to come initialises the memory,   *)
(* the others wait for it; each call holds a robust mutex.  A process may  *)
(* die at any write.  The program links shmlib.c, but starts one process   *)
(* with lists of its own; the callers here do what allocSSDBuf() does with *)
(* its strategy, in several processes at once.                             *)
(***************************************************************************)
EXTENDS Walks, FiniteSets

CONSTANTS
  Procs,
  Desps,      \* serial numbers of the descriptors
  Nil,        \* the index -1
  Nobody,     \* not a process
  Free, Listed,   \* not processes
  MaxDeaths   \* bound: processes that die

VARIABLES
  shm,        \* strategy_desp and strategy_ctrl
  created,    \* how often that memory was initialised
  lockFile,   \* who created LOCK_SSDBUF_STRATEGY_LRU, or Nobody
  chkFile,    \* whether its link LOCK_SSDBUF_STRATEGY_LRU_chk exists
  mutex,      \* strategy_ctrl->lock: its owner, who may be dead
  pc, todo,   \* of each process: where it is, what it has still to write
  owner,      \* of each descriptor: Free, Listed, or the process that unloaded it
  torn        \* some process died with writes to make

vars == <<shm, created, lockFile, chkFile, mutex, pc, todo, owner, torn>>

\* A write to one field, of descriptor d or of the control block.
Put(field, d, value) == [field |-> field, of |-> d, value |-> value]

\* In a list that was left torn the head may be -1: that write goes to memory in
\* front of the array, and the list says nothing any more.
Written(l, w) ==
  IF w.field \in {"first", "last"} THEN [l EXCEPT ![w.field] = w.value]
  ELSE IF w.of = Nil THEN l
  ELSE [l EXCEPT ![w.field][w.of] = w.value]

AllWritten(l, ws) ==
  LET after[k \in 0 .. Len(ws)] ==
        IF k = 0 THEN l ELSE Written(after[k - 1], ws[k])
  IN  after[Len(ws)]

\* The writes of addToLRUHead() to list l.
addToLRUHead(l, d) ==
  IF l.last = Nil
  THEN <<Put("first", Nil, d), Put("last", Nil, d)>>
  ELSE <<Put("next_lru", d, l.first), Put("last_lru", d, Nil),
         Put("last_lru", l.first, d), Put("first", Nil, d)>>

deleteFromLRU(l, d) ==
  LET older == l.next_lru[d]
      newer == l.last_lru[d]
  IN  <<IF newer # Nil THEN Put("next_lru", newer, older) ELSE Put("first", Nil, older),
        IF older # Nil THEN Put("last_lru", older, newer) ELSE Put("last", Nil, newer),
        Put("next_lru", d, Nil), Put("last_lru", d, Nil)>>

moveToLRUHead(l, d) ==
  deleteFromLRU(l, d) \o addToLRUHead(AllWritten(l, deleteFromLRU(l, d)), d)

\* Faulty variant: a descriptor counts as deleted only when the list is empty.
hasBeenDeleted_Never(l, d) == l.last = Nil

\* Also true of a descriptor that is alone in the list.
hasBeenDeleted(l, d) == l.last_lru[d] = Nil /\ l.next_lru[d] = Nil

EmptyList ==
  [next_lru |-> [d \in Desps |-> Nil], last_lru |-> [d \in Desps |-> Nil],
   first |-> Nil, last |-> Nil]

Init ==
  /\ shm = EmptyList /\ created = 0
  /\ lockFile = Nobody /\ chkFile = FALSE /\ mutex = Nobody
  /\ pc = [p \in Procs |-> "start"] /\ todo = [p \in Procs |-> << >>]
  /\ owner = [d \in Desps |-> Free]
  /\ torn = FALSE

Dead == {p \in Procs : pc[p] = "dead"}

Goes(p, from, to) == pc[p] = from /\ pc' = [pc EXCEPT ![p] = to]

-----------------------------------------------------------------------------
\* SHM_lock_n_check(): the file can be created when nobody has it ...
LockFile(p) ==
  /\ Goes(p, "start", "check")
  /\ lockFile = Nobody /\ lockFile' = p
  /\ UNCHANGED <<shm, created, chkFile, mutex, todo, owner, torn>>

\* Faulty variant: the link is made, but what it says is not looked at.
Check_Ignored(p) ==
  /\ Goes(p, "check", "alloc")
  /\ chkFile' = TRUE
  /\ UNCHANGED <<shm, created, lockFile, mutex, todo, owner, torn>>

\* ... and be linked when it is the first one.
Check(p) ==
  /\ Goes(p, "check", IF chkFile THEN "get" ELSE "alloc")
  /\ chkFile' = TRUE
  /\ UNCHANGED <<shm, created, lockFile, mutex, todo, owner, torn>>

SHM_alloc == created' = created + 1

SHM_mutex_init == mutex' = Nobody

\* initSSDBufferForLRU(), for the first process: the memory, and its fields.
Alloc(p) ==
  /\ Goes(p, "alloc", "attached")
  /\ SHM_alloc /\ SHM_mutex_init
  /\ shm' = EmptyList
  /\ UNCHANGED <<lockFile, chkFile, todo, owner, torn>>

\* For the others: SHM_get().
Get(p) ==
  /\ Goes(p, "get", "attached")
  /\ UNCHANGED <<shm, created, lockFile, chkFile, mutex, todo, owner, torn>>

\* SHM_unlock()
UnlockFile(p) ==
  /\ Goes(p, "attached", "idle")
  /\ lockFile' = Nobody
  /\ UNCHANGED <<shm, created, chkFile, mutex, todo, owner, torn>>

-----------------------------------------------------------------------------
\* SHM_mutex_lock(): the mutex is free, or its owner is dead, EOWNERDEAD, and
\* it is made consistent; the list is not.
CanLock == mutex \in {Nobody} \cup Dead

\* Process p is in the section and will make these writes.
Enter(p, ws) ==
  /\ Goes(p, "idle", "inside")
  /\ CanLock /\ mutex' = p
  /\ todo' = [todo EXCEPT ![p] = ws]
  /\ UNCHANGED <<shm, created, lockFile, chkFile, torn>>

\* Unload_LRUBuf().  It does not look for the end: of an empty list it would take
\* the element in front of the array.  That the list has a descriptor is up to the
\* caller; allocSSDBuf() calls when the cache is full.
Unload_LRUBuf(p) ==
  LET frozen_id == shm.last
  IN  /\ frozen_id # Nil
      /\ Enter(p, deleteFromLRU(shm, frozen_id))
      /\ owner' = [owner EXCEPT ![frozen_id] = p]

\* hitInLRUBuffer(), for any descriptor: since p looked it up, another process
\* may have unloaded it.
hitInLRUBuffer(p, d) ==
  /\ Enter(p, IF hasBeenDeleted(shm, d) THEN << >> ELSE moveToLRUHead(shm, d))
  /\ UNCHANGED owner

\* insertLRUBuffer(), for a descriptor that was never used or that p unloaded
insertLRUBuffer(p, d) ==
  /\ owner[d] \in {Free, p}
  /\ Enter(p, addToLRUHead(shm, d))
  /\ owner' = [owner EXCEPT ![d] = Listed]

Write(p) ==
  /\ pc[p] = "inside" /\ todo[p] # << >>
  /\ shm' = Written(shm, Head(todo[p]))
  /\ todo' = [todo EXCEPT ![p] = Tail(@)]
  /\ UNCHANGED <<created, lockFile, chkFile, mutex, pc, owner, torn>>

\* SHM_mutex_unlock()
Leave(p) ==
  /\ Goes(p, "inside", "idle")
  /\ todo[p] = << >>
  /\ mutex' = Nobody
  /\ UNCHANGED <<shm, created, lockFile, chkFile, todo, owner, torn>>

\* The files and the memory outlive the process.
Die(p) ==
  /\ pc[p] # "dead" /\ pc' = [pc EXCEPT ![p] = "dead"]
  /\ Cardinality(Dead) < MaxDeaths
  /\ torn' = (torn \/ todo[p] # << >>)
  /\ todo' = [todo EXCEPT ![p] = << >>]
  /\ UNCHANGED <<shm, created, lockFile, chkFile, mutex, owner>>

Next ==
  \E p \in Procs :
    \/ LockFile(p) \/ Check(p) \/ Alloc(p) \/ Get(p) \/ UnlockFile(p)
    \/ Unload_LRUBuf(p) \/ Write(p) \/ Leave(p) \/ Die(p)
    \/ \E d \in Desps : hitInLRUBuffer(p, d) \/ insertLRUBuffer(p, d)

-----------------------------------------------------------------------------
Chain(start, follow) == Walk(start, follow, Nil, Cardinality(Desps))

\* The list as it will be when the process inside has made its writes.
Settled ==
  IF mutex = Nobody THEN shm ELSE AllWritten(shm, todo[mutex])

Recency == Chain(Settled.first, Settled.next_lru)

\* The memory is initialised once, by one process, before any other one
\* attaches to it, whoever dies on the way (SHM_lock_n_check()).
CreatedOnce ==
  /\ created <= 1
  /\ \A p \in Procs : pc[p] \in {"attached", "idle", "inside"} => created = 1

\* Unless a process died with writes to make, which the robust mutex does not
\* undo, the list has the same descriptors from both ends: those that were
\* inserted and not unloaded since.  A hit that comes too late does not bring
\* one back, and a descriptor that is not in the list has no links.
SharedListSound ==
  ~torn => /\ Chain(Settled.last, Settled.last_lru) = Reverse(Recency)
           /\ ToSet(Recency) = {d \in Desps : owner[d] = Listed}
           /\ \A d \in Desps : owner[d] # Listed => hasBeenDeleted(Settled, d)

\* Each call takes effect as a whole when it gets the mutex.
Order == INSTANCE ListOrder WITH
           Names <- {"lru"}, Grain <- 1, list <- [n \in {"lru"} |-> Recency]
=============================================================================
