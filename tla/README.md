# smr-ssd-cache in TLA+

`smr-ssd-cache` puts an SSD in front of a shingled (SMR) disk: a cache layer
that serves one block at a time, replacement strategies that decide which
blocks leave the SSD, a hash table, a cost model that may take a side between
clean and dirty victims, a simulator of the shingled disk, and a driver that
replays a trace, with helper processes that measure hit ratios of other cache
sizes. This directory specifies that code in TLA+, model-checks the modules on
small instances with TLC, and proves with TLAPS the main results about the
cache, the hash tables, all replacement strategies, the cost model, the simulated
disk and the processes. Paths below are those of the repository, with `src/src/` left
out (`cache.c` is `src/src/cache.c`).

1. [The system](#1-the-system)
2. [The modules](#2-the-modules)
3. [What is checked](#3-what-is-checked)
4. [What is proved](#4-what-is-proved)
5. [What the code does differently from what it says](#5-what-the-code-does-differently-from-what-it-says)
6. [Abstractions](#6-abstractions)
7. [Not modelled](#7-not-modelled)
8. [Plan](#8-plan)

## 1. The system

### Components

| Component | State | Operations | What makes it correct |
|---|---|---|---|
| Cache layer, `cache.c` | descriptors (tag, VALID and DIRTY bits), free list, counters `incache_n_clean/dirty`, the batch `buf_despid_array` | `read_block`, `write_block`, and inside them `allocSSDBuf`, `flushSSDBuffer`, `flagOp`, `Strategy_LogIn/LogOut/HitIn/GetUnloadCnt` | A read returns what was last written, whatever was evicted in between; tags, table, free list, flags and strategy agree; a clean block really is on the disk |
| Hash table, `hashtable_utils.c` | chains, pool of items | lookup, insert, delete | A map; every item is in one chain or in the pool; the pool suffices |
| LRU, `strategy/lru_private.c` | one doubly linked list | `LogIn`, `Hit`, `LogOut` | Victims are the least recently used; the list holds what is cached |
| LRU_rw, `strategy/lru_rw.c` | two lists in one array of nodes, a stamp per node | the same, with victim types | The same, per class; "Any" takes the older tail |
| PAUL, `strategy/paul.c` | a clean list, a dirty list per zone, page counters, open zones, cycle counters | the same; a new cycle scores, sorts and opens zones | Lists match flags; a cycle ends; the coldest zones are opened; the oldest block of the open zones leaves first |
| MOST, MOST_RW, `strategy/most.c`, `most_rw.c` | lists per zone, page counters, the period | the same; a new period sorts the zones and picks one | Lists, counters and flags agree; a period takes the fullest zone; no call is lost |
| PORE, PORE_PLUS, PORE_PLUS_V2, `strategy/pore*.c` | lists per zone, heat, the open zones, kind and progress of the period | the same; victims leave one by one | The same; zones are emptied whole, or the oldest known block leaves |
| Loser tree, `strategy/losertree4pore.c` | a tournament tree | create, replay, end of a path | It merges: the winner is the least |
| Cost model, `strategy/costmodel.c` | ring of evicted blocks, its index and pool of buckets, two rings of times, sums | register an evicted block, call back, register times, choose a victim type | Window, index and sums say the same; the pool suffices; the choice follows from the window |
| SMR simulator, `smr-simulator/simulator_v2.c` | FIFO (`head`, `tail`, `isValid`, tags), table of newest versions, the band buffer | `simu_smr_read`, `simu_smr_write`, inside it `flushFIFO`, `invalidDespInFIFO` | An array of blocks in spite of old versions, flushes and the wrap of the FIFO; a full FIFO always gets room |
| Its hash table, `smr-simulator/inner_ssd_buf_table.c` | chains, pool | lookup, insert or update, delete | A map; the pool suffices |
| Driver and processes, `main.c`, `trace2call.c`, `pipe_method.c` | processes, pipes, descriptors | fork, replay, send and receive records, exit | Helpers replay the requests of the real cache; all processes end |
| Shared memory, `shmlib.c`, with the list that uses it, `strategy/lru.c` | mapped regions, lock files, robust mutex | initialise or attach, lock, insert, hit, unload | The memory is initialised once; the list stays one list through interleaved calls |
| Timers, reports, monitor, older strategies and emulators, experiments | | | see [Not modelled](#7-not-modelled) |

### How they interact

A line of the trace becomes one `read_block()` or `write_block()`
(`trace2call.c`). The cache looks the block up. On a hit it tells the strategy
(`HitIn`) and uses the SSD slot. On a miss it takes a descriptor from the free
list; if there is none it fixes a victim type, calls `LogOut` for a batch of up
to `EVICT_DITRY_GRAIN` descriptors, and for each of them deletes its tag from
the hash table, writes it to the disk if it is dirty, clears its flags and
pushes it on the free list. Then it installs the new tag, calls `LogIn`, and,
for a read, fetches the block and fills the slot. The disk may be the
simulator, whose own FIFO and flushes are below that interface.

The strategy has no access to the cache's flags when it ranks: it learns of a
descriptor's class from the arguments of `LogIn` and `HitIn` only (PAUL, MOST
and MOST_RW have the descriptor's flags too and set DIRTY there themselves).
Cache and strategy are thus two copies of one fact.

The cache itself runs in one process. With the hit-ratio curve switched on,
`main.c` forks helpers, each with a cache of another size and devices switched
off, and sends them the line numbers it serves through pipes.

### What is hard about it

- **Two copies of each fact.** Tag and table, VALID and free list, DIRTY and the
  strategy's lists, counters and flags, FIFO slot and table: each pair is
  changed in several statements of a miss, with device calls in between that
  end the process when they fail.
- **Batches.** A batch leaves the strategy at once and the cache one by one. The
  block that is missed must not be in it, and a descriptor must not be reused
  before its block is on the disk.
- **No result is looked at.** `allocSSDBuf` uses what `LogOut`, `HashTab_Insert`,
  `HashTab_Delete` and the second `pop_freebuf` return without a test. That is
  right only if no earlier sequence of calls leads to the failing case.
- **Links shared by lists.** A node of LRU_rw, PAUL or MOST has one pair of links
  and moves between lists; a wrong order of writes links two lists.
- **Cycles and periods.** PAUL's and MOST's state lives across calls: counters, open zones, zones that
  are left out for a while. What goes wrong needs several cycles of calls.
- **Windows that move while they are walked.** `flushFIFO` invalidates slots
  inside its walk, which moves the head and the tail it walks between.
- **Descriptors of pipes.** A pipe ends when its last writer is gone, and children
  inherit ends; who holds what decides whether the processes end.
- **Rings.** The window of the cost model and the FIFO of the simulator go round;
  what leaves at one end has to leave an index, a pool and several sums as well.
- **Starting and dying with others.** The first process initialises the shared
  list, the others must not use it before; any of them may die holding a lock.

The places where each of these bites are in `PROJECT.json` under `hazards`.

## 2. The modules

| Module | Models | Kind |
|---|---|---|
| `BlockStore` | what a cache and a disk promise: one array of blocks, requests in order | abstract |
| `EvictStrategy` | what the cache needs from any strategy | abstract |
| `TagMap` | what the cache and the simulator need from their hash tables | abstract |
| `SsdCache` | `cache.c` | component |
| `MCSsdCache` | symmetry for `SsdCache` | instance |
| `Walks` | the nodes met when links are followed from one end, for a bounded number of steps | helper |
| `HashTab` | `hashtable_utils.c`, implements `TagMap` | component |
| `InnerTable` | `inner_ssd_buf_table.c`, implements `TagMap` | component |
| `Tables` | either table under the calls of its user | composition |
| `LruOrder` | least recently used, per class; implements `EvictStrategy` | abstract |
| `LruPrivate`, `LruRw` | `lru_private.c`, `lru_rw.c`, implement `LruOrder` | component |
| `SharedLru` | `shmlib.c` and `lru.c`, implements `ListOrder` | component |
| `LruStrategies` | each of the three under the calls of its users | composition |
| `DespLists` | the pointer writes all strategies by zones repeat | component |
| `ListOrder` | lists ranked by use, a batch is the old end of one | abstract |
| `ZoneSort` | `qsort_zone` | algorithm |
| `Paul` | `paul.c` over sequences, implements `EvictStrategy` | component |
| `MCPaul`, `PaulHistory` | symmetry, the sort on bounded arrays; the open zones of the last cycle | instance |
| `ZoneStrategy` | what MOST and PORE and their variants share: descriptors, lists, counters, calls | component |
| `Most`, `MostRw`, `Pore`, `PorePlus`, `PorePlusV2` | `most.c`, `most_rw.c`, `pore.c`, `pore_plus.c`, `pore_plus_v2.c` | component |
| `LoserTree` | `losertree4pore.c`, used by `Pore` | component |
| `ZoneStrategies` | each of the five under the calls of the cache; implements `ListOrder` and `EvictStrategy` | composition |
| `MCZoneStrategies` | symmetry, the loser tree on bounded inputs | instance |
| `CostModel` | `costmodel.c`, implements `EvictWindow` | component |
| `EvictWindow` | the last evictions, and which of them were a mistake | abstract |
| `SmrSimulator` | `simulator_v2.c`, implements `BlockStore` | component |
| `HrcPipes` | the fork loop and the pipes | component |
| `SsdCacheProofs` | theorems about `SsdCache` and `HrcPipes` | proofs |
| `SmrSimulatorProofs` | theorems about `SmrSimulator` and `Tables` | proofs |
| `LruStrategiesProofs`, `PaulProofs`, `CostModelProofs` | theorems about the modules in their names | proofs |
| `ZoneListsProofs` | what the strategies by zones share: links, counters, heat, stamps, the sorted zones, the loser tree | proofs |
| `ZoneStrategiesProofs` | the five searches for a victim, and the theorems about `ZoneStrategies` | proofs |
| `ListTheorems` | what these share: induction over numbers, sequences without repetitions, linked lists and chains, the quicksort | proofs |

The composition is by contract. `SsdCache` is written over the *abstract*
strategy (`Strategy == INSTANCE EvictStrategy`) and the *abstract* table
(`TagMap`). In one direction the cache is shown to call them only as they allow
(`CallsStrategyCorrectly`, `CallsTableCorrectly`: checked and proved); in the
other each implementation is shown to behave as they say, under every order of
calls they allow (`IsEvictStrategy`, `ImplementsTagMap`). So a result about
`SsdCache` holds for each strategy and for the real hash table, and no product
of the state spaces is explored. `Paul` uses sequences where the code has
links; `ZoneStrategies` runs the same pointer writes (`DespLists`) for the
other strategies by zones and shows that they come to sequences
(`ImplementsListOrder`). The cost model is called as `SsdCache` calls it: a
miss calls a block back, an eviction registers it (`NoDoubleRegistration` of
`SsdCache` is what `CostModel` rests on). The simulator implements the same
`BlockStore` as the cache, so the disk the cache is written over may be the
simulator.

A program is started with one strategy and uses one hash table for each
purpose. `LruStrategies`, `ZoneStrategies` and `Tables` therefore choose one
component in their initial states and keep it.

### SsdCache

One process, one request at a time. `op` is the request, `pc` the place in it.
A step ends where a device is used, for a device call that fails ends the
process there, and nothing else can get in between. `victims` is what is left
of the batch, `cur` the descriptor at work, `found` the result of the lookup,
`buf` the page last read.

| Action | Code |
|---|---|
| `Request` | entry of `read_block`, `write_block` |
| `Hit` | `allocSSDBuf` when the table finds the block: flags, counters, `HitIn` |
| `MissFree`, `MissFull` | the free list has a descriptor, or not; with the call back of the cost model |
| `LogOut` | the choice of the victim type and `Strategy_Desp_LogOut` |
| `EvictClean`, `FlushRead`, `FlushWrite` | one turn of the eviction loop, for a clean or a dirty victim; `Release` is what they share after the flush |
| `Evicted` | the rest of the miss after the loop (`Install`) |
| `WriteSsd`, `ReadSsd`, `ReadHdd`, `FillSsd` | the device calls of `write_block` and `read_block` |
| `DeviceError` | `dev_pread`, `dev_pwrite` end the process |

`Contents` is the refinement mapping to `BlockStore`: for each block the slot
of the descriptor that is being flushed or that the table names, unless that
slot is still to be filled, otherwise the disk.

### The strategies

`LruRw` and `LruPrivate` keep the links of the code and execute its pointer
writes in the order of the source. The classes a caller asks for and the order
of calls are those the cache makes. `ok` becomes FALSE where the code would end
the process or follow NULL. `Recency` maps the lists to `LruOrder`.

`Paul` keeps each list as a sequence, the page counters, the stamps, the open
zones, the counters of the cycle and `activate_after_n_cycles`. `LogOut(t)` is
all of `LogOut_PAUL`, the choice of the class and a new cycle included.
`random_pick`, which decides by chance between the classes, is a free choice.

`ZoneStrategy` holds what the five files repeat: `links` (the operators of
`DespLists` over them), the counters per zone, stamps, heat, the calls of the
cache. Each strategy adds its `Init`, `LogIn`, `HitIn` and `LogOut`, under names
that end in its own as those of the C functions do (`LogOut_most_rw`); `period`
holds the static variables of its `LogOut`. `alive` becomes FALSE where the
code would follow NULL, end the process or go round a loop for ever. `Pore`
plays its victims through `LoserTree`, with the values the tree was told.
The branches for PORE and PORE_PLUS in the dispatch of `cache.c` are commented
out; they are modelled under the calls `cache.c` makes of the others.

`SharedLru` has a program counter per process and one step per write to the
shared memory, so that a process can die between any two of them. `lockFile`
and `chkFile` are the file and its link of `SHM_lock_n_check()`, `mutex` the
robust mutex, `owner` what the callers take each descriptor for.

### CostModel

`WindowArray` with its head and tail, `HashIndex` as a chain per code, the pool
as its length, and the counters as one record. `Reg_EvictBlk` and
`TryCallBack` are the whole of `CM_Reg_EvictBlk()` and `CM_TryCallBack()`;
`T_rand_Reg` and `T_hitmiss_Reg` register times; `CHOOSE_Type` is `CM_CHOOSE()`
with the costs computed as the code does, divisions by counts plus one
included, and `random_pick()` as the set of types it may return.

### SmrSimulator

`Request` and `AppendBlock` are `simu_smr_write` before and after the flush,
`ReadBand`, `Collect` and `WriteBand` the three parts of `flushFIFO`, `Collect`
one turn of its loop. Geometry (`Start`, `Size`, `BandNum`, `OffsetInBand`,
`ActualBandSize`) is computed as the code does, `>=` and `>` included.

### HrcPipes

`readEnds` and `writeEnds` say who holds each pipe end. `Fork` copies them,
`ParentCloses` and `ChildCloses` close what the code closes. `Write`,
`WriteFails` and `Replay`, `Stop` are the two sides of a pipe; `MainFails` and
`HelperFails` are the exits in the middle.

## 3. What is checked

| Run | Question | Instance | Distinct states |
|---|---|---|---|
| `cache_safety` | Does the metadata stay consistent and the cache behave as one array of blocks, with batches, any victim type and failing devices? | 3 descriptors, batches of 2, 4 blocks, 2 values, symmetry of blocks | 544,946 |
| `cache_liveness` | Is every request answered? | 2 descriptors, 3 blocks, a strategy that ignores the type, devices that work, no symmetry | 168,073 |
| `tables` | Do the chains of both tables implement maps, and is the pool never dry? | 3 descriptors (a FIFO of 2), keys 0, 1, 3, 6 | 26,462 |
| `cost_model` | Does the balancer remember the last evictions and no others, and choose by them? | ring of 3, blocks 0, 1, 3, reads of 1 or 2, one time for the others | 146,640 |
| `hrc_pipes` | Do the helpers replay the same requests and do all processes end? | 3 helpers, pipes of 2 records, 3 lines | 18,098 |
| `lru` | Do the three linked lists implement LRU? | LRU_private 4 and LRU_rw 3 descriptors, batches of 2, stamps to 7; shared list: 3 processes, one of which may die, 3 descriptors, symmetry of both | 77,100 |
| `zone_strategies` | Are the lists of the five strategies sound, do they evict what they say, and does any call get lost? | 3 descriptors, 3 zones of 2 blocks, periods of 3, batches of 2, stamps to 5, symmetry of descriptors | 194,963 |
| `paul` | Are PAUL's lists, cycles and choices what it says? | 3 descriptors, 3 zones of 2 blocks, cycles of 4, batches of 2, stamps to 7, symmetry of descriptors | 247,481 |
| `paul_two_cycles` | Does a zone stay out for two cycles? | 2 descriptors, 2 zones | violated |
| `paul_gives_up` | Does a new cycle always find a victim? | as `paul` | violated |
| `simulator` | Is the simulated disk an array of blocks, and does a flush end? | FIFO of 4, two band sizes (2 and 3), blocks 1, 3, 4 used | 298,947 |
| `simulator_boundary` | Is the whole band written back at the boundary of two sizes? | FIFO of 2, blocks 1, 2, 4 used | violated |

### The properties

`cache_safety`
- `CacheInv`: the inductive invariant of the proofs. Its parts: `HashMatchesTags`
  (the table finds exactly the valid descriptors, under their own tags, except
  the one that is being written back), `FreeOrValid` (each descriptor is valid
  or free, and free once), `StrategyMatchesFlags` (the strategy ranks the valid
  descriptors that are not on their way out, and holds as dirty those whose
  flag says so), `CleanIsOnDisk` (a clean block may be dropped without a
  write), `RequestOnTrack` (what a request may count on at each step) and
  `NothingUnwritten` (no page that was never written is read).
- `CountersMatchFlags`: the two counters, by which the victim type is chosen,
  count what they say.
- `LogOutAnswerable`: the strategy is never asked for a class that is empty, and
  only when the cache is full.
- `NoDoubleRegistration`: the cost model never gets a block twice without a call
  back between, as its comment demands.
- `ImplementsBlockStore`, `CallsStrategyCorrectly`, `CallsTableCorrectly`: the
  three refinements described above.

`cache_liveness`: `RequestsReturn`, every request is answered; and no deadlock, so
that no state is left in which a call has no outcome the code is ready for.

`tables`: `ItemsConserved` (each item is in one chain, for one block, or in
the pool, and the pool is never found empty) and `ImplementsTagMap`. The FIFO is
taken to hold at least one block: one that holds none finds its pool empty at the
first insertion.

`cost_model`: `CountersMatchWindow` (counters and sums are those of the items in
the rings), `IndexMatchesWindow` (one entry for each item that was not called
back, no bucket lost, none missing), `ChoiceFromWindow` (dirty is chosen only with a
called-back clean item in the window; clean, when such an item costs anything,
only with a dirty item there), `ImplementsWindow`.

`hrc_pipes`: `SamePrefix` (sent = served, up to the request in hand),
`CleanStopIsComplete` (a helper that stops by itself has replayed all),
`HelpersOutliveNobody`, `MainIsNeverStuck`.

`lru`: the lists read forwards and backwards are the same and hold what is
cached (`ListsMatchCache`; no exit is reached; the shared list as long as
nobody died with writes to make), `CreatedOnce` (the shared memory is
initialised once and not used before), `ImplementsLru`, and `IsEvictStrategy`
for the two that the cache is linked with.

`zone_strategies`
- `ListsSound`: links, page counters, DIRTY bits, zone heat and the cache's own
  flags say the same.
- `NeverLost`: no call follows NULL, ends the process or loops for ever, except in
  the two cases of section 5 that the property names. It says most about MOST,
  PORE and PORE_PLUS, for which it has no exception. For MOST_RW the exception is
  the condition of the crash itself; for PORE_PLUS_V2 it is a condition on blocks
  and stamps, outside of which the search succeeds.
- `ImplementsListOrder`: the links come to lists ranked by use, and each batch is
  the old end of one of them.
- `IsEvictStrategy`, for all five; MOST_RW honours the type it is asked for. Here
  and in `lru` and `paul` a call that handed out nothing would pass as a step that
  changes nothing. In `lru` `ImplementsLru` would see it; for the strategies by zones
  the proofs show that each `LogOut` which is not one of the lost calls hands out
  a block (`Leaving`).
- `NewPeriodTakesFullest` (MOST, MOST_RW; a period is new when its zone is
  another or when the count of its victims starts again), `WholeZoneLeaves` (PORE_PLUS),
  `EvictsOldestKnown` (PORE by what its tree was told, PORE_PLUS_V2),
  `DirtyOnlyByName` (MOST_RW: "Any" takes clean blocks only, as long as there
  are any, for the stamps it compares are never set).
- `MCZoneStrategies` also has TLC compare the loser tree with the minimum for up to
  five paths (`LoserTreeMerges`).

`paul`: `ListsMatchFlags`, `CycleEnds` (a cycle overruns its length by less than a
batch; with length 0, which `main.c` takes, every batch is a cycle),
`ColdestZonesOpen`, `OldestOfOpenZones`, `IsEvictStrategy`. `MCPaul` also
has TLC sort every array of up to 5 zones with scores 0 to 3 (`ZoneSortSorts`).

`simulator`: `HeadIsValid` (the slot at the head, whose tag leads a flush, is
valid), `TableMatchesFifo` (the table names the newest and only valid version),
`FlushMakesRoom`, `ImplementsBlockStore`, `RequestsReturn`.

A definition commented as a *faulty variant* (`Install_KeepsTag` beside `Install`)
is not part of a model. It is a plausible mistake in the code the definition
below it translates; with it in place TLC finds the property violated that
`PROJECT.json` names under `mutants`, so that each property is known to depend on
what the code does.

### Why the instances are large enough

- The cache: with 3 descriptors and batches of 2 a batch leaves one descriptor
  behind, may mix clean and dirty victims, and is shorter than asked when a
  class has one member. 4 blocks leave one uncached. `Balancer` and `Typed`
  TRUE include the default build's behaviours: the balancer may also leave
  the type at "Any". Two values tell a lost write from a kept one. The proofs of
  section 4 drop these bounds.
- The hash tables: keys 0, 3 and 6 share a bucket of 3 and 1 has its own, so an
  item is deleted at the head, in the middle and at the end of a chain; under the
  FIFO's code 0 and 6 collide, and 1 and 3.
- The cost model: the smallest ring that is full with items in it goes round; 0
  and 3 share a chain of the index, and three blocks are more than the ring
  holds, so an item also leaves it without being called back. Two read times
  show whether the right one leaves the sum.
- The LRU lists: a list of 3 or 4 has head, middle and tail. The stamp only grows
  and only its order matters; 7 calls fill, hit, evict and refill the cache. With
  three processes, two are left to meet after one died at any write.
- The strategies by zones: 3 zones of 2 blocks and 3 descriptors give empty, half
  full and full zones, ties included; periods of 3 and batches of 2 let a batch
  run over the end of a period; 5 stamped calls fill the cache and hit, evict and
  enter again. That is few for the strategies whose victims leave one by one:
  PORE_PLUS_V2 comes to three evictions at most, so neither its choosing phase
  (`Evicted_Blk_Cnt` reaching the size of the cache) nor the end of its period by
  length is among the states, and a sixth call makes the run several times as long.
  The theorems of section 4 have none of these bounds.
- PAUL: 3 zones allow more candidates than the `MaxOpen` = 2 that may be open. With
  7 stamps a cycle of 4 reaches its length, and several cycles follow each other,
  for a cycle also ends when its open zones are empty.
- The simulator: a FIFO of 4 wraps after 5 appends with old versions inside. Blocks
  3 and 4 share a band of size 3, block 1 is in the band of size 2. Only block 4
  is written with different values: the simulator moves values and never looks
  at them, and a value of block 4 that is lost, old or in a wrong place shows in
  what reads of 1, 3 and 4 return.
  Block 2, the first of the larger size class, is in `simulator_boundary`
  instead: with it the last block of a band is lost (section 5).
- The pipes: three helpers give a first, a middle and a last one, so that a
  middle one holds ends of another's pipe; 2 records under 3 lines fill it.

### Bounds

`MaxStamp` (LRU_rw, PAUL, the strategies by zones) stops the calls when the
stamp reaches it; `MaxProgress` the evictions of a period of MOST and MOST_RW
that never ends; `MaxDeaths` the processes that die; `Lines` is the length of
the trace; `RoomInZone` keeps a zone's cached blocks within its size; `Used` and
`Marked` choose the blocks of the simulator's requests; `ReadTimes`,
`WriteTimes` and `MissTimes` what the disks may take. Counters that the code
only compares with a limit stop at that limit (`PorePlusV2`). All other state is
finite by the code. `CHECK_DEADLOCK FALSE` is there where the system may stop:
failing devices (`cache_safety`, `simulator`), calls that are lost and the
bounds on stamps and periods (`paul`, `zone_strategies`, `lru`), processes that
wait for a dead one (`lru`), and the end of all processes (`hrc_pipes`).

### Fairness

`SsdCache` and `SmrSimulator` assume weak fairness of `Serve`, the steps of a
request that is under way: one process executes its own code and devices that
do not fail answer. Nothing obliges a caller to make a request or a device to
fail. `HrcPipes` assumes weak fairness of each process: the operating system
schedules every process that is not blocked in a pipe or in `wait`. A failure
is never forced. `SharedLru` has no fairness and no liveness property: a
process that dies with the lock file keeps the others waiting for ever, which
is what the code does.

## 4. What is proved

The theorems hold for every value of the constants that satisfies the
assumptions named in the modules (`CacheAssumption`, `HashTabAssumption`,
`LruStrategiesAssumption`, `PaulAssumption`, `DespListsAssumption`,
`ZoneStrategyAssumption`, `PorePlusAssumption`, `CostModelAssumption`,
`SimulatorAssumption`, `UsedAssumption`, `HrcAssumption`, and a `NoOpAssumption`
in the cache and in the simulator), with failures included. Where a theorem
needs more it says so itself (`FirstsUnused`, below).

| Module | Theorem | Statement |
|---|---|---|
| `SsdCacheProofs` | `TypeCorrect` | `Spec => []TypeOK` |
| | `CacheInvariant` | `Spec => []CacheInv` |
| | `CacheImplementsStore` | `Spec => ImplementsBlockStore` |
| | `CacheCallsStrategyCorrectly` | `Spec => CallsStrategyCorrectly` |
| | `CacheCallsTableCorrectly` | `Spec => CallsTableCorrectly` |
| | `CountersCorrect` | `Spec => []CountersMatchFlags` |
| | `VictimsAvailable` | `Spec => []LogOutAnswerable` |
| | `RegisteredOnce` | `Spec => []NoDoubleRegistration` |
| | `SameWorkload` | `HrcSpec => []SamePrefix` |
| | `CleanStop` | `HrcSpec => []CleanStopIsComplete` |
| `SmrSimulatorProofs` | `TablesInvariant` | `TablesSpec => []TableInv` |
| | `ItemsKept` | `TablesSpec => []ItemsConserved` |
| | `TablesAreMaps` | `TablesSpec => ImplementsTagMap` |
| `LruStrategiesProofs` | `InitialisedOnce` | `Spec => []CreatedOnce` |
| | `LruInvariant` | `Spec => []LruInv` |
| | `LruLists` | `Spec => []ListsMatchCache` |
| | `LruIsEvictStrategy` | `Spec => IsEvictStrategy` |
| `PaulProofs` | `PaulInvariant` | `Spec => []PaulInv` |
| | `PaulLists` | `Spec => []ListsMatchFlags` |
| | `PaulCycles` | `Spec => []CycleEnds` |
| | `PaulOldest` | `Spec => OldestOfOpenZones` |
| | `PaulColdest` | `Spec => ColdestZonesOpen` |
| | `PaulIsEvictStrategy` | `Spec => IsEvictStrategy` |
| `ZoneStrategiesProofs` | `ZoneInvariant` | `Spec => []ZoneInv` |
| | `ZoneListsSound` | `Spec => []ListsSound` |
| | `ZonesNeverLost` | `Spec => []NeverLost` |
| | `ZonesImplementListOrder` | `Spec => ImplementsListOrder` |
| | `ZonesAreEvictStrategies` | `Spec => IsEvictStrategy` |
| | `ZonesTakeFullest` | `Spec => NewPeriodTakesFullest` |
| | `ZonesDirtyOnlyByName` | `Spec => DirtyOnlyByName` |
| | `ZonesEvictOldestKnown` | `Spec => EvictsOldestKnown` |
| | `ZonesLeaveWhole` | `Spec => WholeZoneLeaves` |
| `CostModelProofs` | `BalancerInvariant` | `Spec => [](BalancerInv /\ ChoiceFromWindow)` |
| | `BalancerCounts` | `Spec => []CountersMatchWindow` |
| | `BalancerIndex` | `Spec => []IndexMatchesWindow` |
| | `BalancerChoices` | `Spec => []ChoiceFromWindow` |
| | `BalancerIsWindow` | `Spec => ImplementsWindow` |
| `SmrSimulatorProofs` | `SimulatorTypes` | `Spec => []TypeOK` |
| | `HeadValid` | `Spec => []HeadIsValid` |
| | `TableSound` | `Spec => []TableMatchesFifo` |
| | `RoomMade` | `Spec => []FlushMakesRoom` |
| | `DiskIsArray` | `FirstsUnused` gives `Spec => ImplementsBlockStore` |
| | `WholeBands` | `FirstsUnused` gives `Spec => WholeBandFlushed` |

Together with the contracts of section 2 these close the argument for the cache
with any of the strategies: `SsdCache` calls a strategy and a table as
`EvictStrategy` and `TagMap` allow, the strategies and the hash table answer as
they demand, and the cache is then an array of blocks, for every size
(LRU_private: of at least one batch; PORE_PLUS: of at least five blocks; PAUL:
until it gives up, MOST_RW and PORE_PLUS_V2: until they are lost, section 5).

**The cache.** None of the interesting invariants is inductive alone. That a read
returns the last write (`ImplementsBlockStore`) needs `CleanIsOnDisk` when a
clean victim is dropped. This needs the table and the tags to agree
(`HashMatchesTags`), or else a write to the disk could change the copy of
another clean descriptor. This needs that a descriptor is free or valid
(`FreeOrValid`), or an installation would overwrite a tag in use. And that the
victims are valid, and not the descriptor being filled, needs the strategy to
hold exactly the valid descriptors (`StrategyMatchesFlags`) and the request to
be where it thinks it is (`RequestOnTrack`): above all, that the missed block is
in nobody's table until it is installed, and that the free list is not empty
after a batch. `CacheInv` is the conjunction.

`InvInit` and `InvNext` show it inductive, one step per action, with `FreePop`,
`FreePush`, `InstallInv` and `ReleaseInv` for what several actions share. The
refinements then go step by step: each action of `SsdCache` is a step of the
abstract module or leaves its state as it was (`StoreNext`, `StrategyNext`,
`TableNext`). The counters are proved last, from `CacheInv` and the cardinality
lemmas of finite sets, and from them that the strategy can answer.

**The hash tables.** `TableInv` says that there is a set of items in use such that
each chain is the head of its bucket with the items in use of its code, and the
free chain is the rest; and that no two items in use have the same key or the
same descriptor. The second part keeps the pool from running dry: there are as
many items as descriptors (blocks of the FIFO), so one that is not in the table
yet leaves an item over (`RoomForDesp`, `RoomForBlock`). The chains are followed
in both tables with the same lemmas, since `HashTab_Delete` and
`ssdtableDelete` both write the link of the node before the one they take out.

**The LRU lists.** `LruInv` has a part for each of the three components. For LRU_private
and LRU_rw: each list, read from its head and from its tail, is a sequence
without repetitions of the descriptors of its class, and the links of all
others lead nowhere. A batch is a repetition of one round, so what it does
comes by induction over the rounds (`Repetition`). For the shared list, whose
writes another process may see half done, `SharedInv` speaks of the list that the
process inside *will leave* (`Settled`): the writes still to make, made. Only
the holder of the mutex has writes to make; a death with some left sets `torn`,
and the claim ends there. `StartInv`: a link without memory means that its maker
holds the lock file, alive or dead. So no second process comes to
`SHM_alloc()`, and nobody attaches before the first did.

**PAUL.** `PaulInv` is `ListsInv` (each list holds the descriptors of its class in
the order of their stamps, the page counters are the lengths), `DespsInv`
(stamps of cached descriptors are distinct and past, the DIRTY flags PAUL sets are
those of the cache) and `CycleInv`. Order by distinct stamps is what makes
a list a sequence without repetitions (`SortedIsInjective`) and the tail of a zone its
oldest block (`Tails`). A batch is then the oldest part of one zone
(`OldestLeave`), of that open zone whose tail is the oldest (`FrozenZone`): this is
`OldestOfOpenZones`. That `get_FrozenOpZone_Seq()` may fail is
in the model (section 5): the theorems include the histories that end there.
`ColdestZonesOpen` rests on the quicksort: that the array it leaves is a
permutation, and in order, is `QsortIs` in `ListTheorems`, by induction on the
length of the part that is sorted, with the invariant of the two ends that meet.

**The strategies by zones.** `ZoneInv` is `BaseInv`, which all five share, and
`PeriodInv`, one formula for the static variables of each. `BaseInv` says that the
links are those of sequences, one for each zone and one for the clean blocks
(`Chained`, in `ListsInv`), that counters (`CountsInv`) and heat (`HeatInv`) are sums
over their members, and that a list is in the order of its stamps where the
strategy sets any (`StampInv`). `EnterBase`, `HitBase` and `OutBase` show that it is
kept by a block that enters, one that is used, and a batch that leaves from the end
of a list; each call of each strategy is then shown to be one of the three, or
the call that is lost (`Calls`). That a batch is such an end comes by
induction over the tails taken (`TakeTailsIs`).

What differs is the search for a victim. MOST and MOST_RW take the first zone of the
sorted ones, which has a block because some zone has (`FirstOfSorted`): hence a
period never begins with an empty zone unless there is no dirty block. PORE_PLUS
has to have victims left for as long as a period goes on: unless it takes clean
blocks only, there is a zone whose turn it is, and that zone and all after it have
dirty blocks (`HasVictims`). `PorePlusPeriod` keeps that between the calls; a new
period has it because the low bound is not 0. PORE_PLUS_V2 has no such
promise between calls, and keeps only that it is lost nowhere else than where its
search passes over a block (`FindsNoZone_plus_v2`).

PORE asks its loser tree. For a tree with n places `Played` says that there is a
winner W for each place, inner or leaf: the loser of a place and its winner are the
winners of the two places below. A replay climbs from one leaf to the top and
keeps this (the invariant of the climb holds the one value that is on its way
up); the creation is n replays over a tree of placeholders. From `Played` the
top is the least of all leaves. `PorePeriod` adds what the leaves say: each is of an open zone,
its value was the stamp of that zone's tail when the tree was told, and stamps
only grow, so it is at most the stamp of any block that is there now
(`Merges`). Asking again ends: each answer that is out of date replaces
one path by a value of now or ends it, which can happen once for each open zone.

**The cost model.** `BalancerInv` relates the ring to everything kept beside it. Its
index (`IndexInv`) has an entry for just the items that were not called back,
and no such item is of a block in the cache: that is why an eviction never
brings a second entry for a block, which holds only because the cache registers
no block twice (`RegisteredOnce`). The counters and sums (`CountersAre`,
`SumsItsTimes`) are those of the items in the rings when one enters and one
leaves. The choice (`ChoiceFromWindow`) is no part of what is inductive; it
follows from the arithmetic of the costs at the step that makes it.

**The simulator.** `FifoInv` adds to the two properties that a flush starts with a
full FIFO and `WalkInv`: the walk is between head and tail, nothing of its band
is behind it, and as long as the FIFO is still full the walk is at the head and
the head is of the band. The last part is what makes room: the first slot the
walk looks at is taken out, so the head moves. All positions are measured from
the head (`Ahead`); `AheadIs`, `AheadOfAfter` and `AheadOfSlot` reduce the
remainders of the code to sums, and `InvalidateMoves` says what the loop of
`invalidDespInFIFO()` does to the head. The division of the disk into bands is
not used up to here: these results hold for any.

Types and the array of blocks need the bands: which blocks are in one, that their
offsets differ, and that a flush stays inside it (`BandIs`, `SameBand`, `InBand`).
The length that `GetSMRActualBandSizeFromSSD()` returns is at most that of the
band, which is enough for the types, and just that of the band except for the
first block of a size class (`ActualSizeIs`, and section 5). `DiskIsArray` and
`WholeBands` are therefore stated under `FirstsUnused`, which excludes requests
for these `Classes - 1` blocks and no others. `simulator_boundary` shows that the hypothesis
is needed, and the run `simulator` that it can be met.

**The pipes.** `PipeInv` says of each helper that what it replayed and what is in
its pipe is all that was served, or lacks exactly the last request, depending on
whether the loop over the helpers has reached it (`LoopInv`); and that EOF is
the last record of a pipe if it is in it at all, and that the main process
holds the write end of each pipe as long as it runs (`EndInv`). The second part
is why an end of file is not taken for the end of the trace. `HeadMoves` is the
one fact about sequences that a replay needs: the head of the pipe moves to the
end of what was replayed, and their concatenation stays.

**Induction.** The library's induction theorems take an operator for a parameter, which
the provers cannot instantiate. `ListTheorems` therefore states induction of a
*set* of numbers (`LeastNat`, `NatInduct`) and gets from it that a function may be
defined by steps (`Iteration`, `Repetition`, `NumberIteration`). With these the
walk along the links (`WalkIs`), the batches, the writes to the shared list, the
starts of the size classes, the sums of the cost model, the quicksort and the climb
through the loser tree can be reasoned about.
For linked lists it says what pushing in front and taking out do (`FrontList`, `TakenList`), for chains the same and appending (`ChainPush`,
`ChainPop`, `ChainAppend`, `ChainUnlink`).

Only model-checked:

- the liveness properties (`RequestsReturn`, `MainIsNeverStuck` and
  `HelpersOutliveNobody`): fairness and ENABLED are outside the proof system's reach;
- `ImplementsLru`: the *order* in the LRU lists. `LruOrder` states a batch with
  `SelectSeq`, whose definition the prover cannot expand. For the shared list the
  same property says that it implements `ListOrder`.

## 5. What the code does differently from what it says

- **PAUL gives up** (`paul_gives_up`, `paul.c:255`). A zone that was open in the last
  cycle is left out of the next. If the zones with dirty blocks are exactly
  those (one zone is enough), no zone is opened, `get_FrozenOpZone_Seq()` is
  negative right after `start_new_cycle()`, and `usr_error("FLAG_EVICT_DIRTYZONE
  error")` ends the process with dirty blocks in the cache.
- **Two cycles are one** (`paul_two_cycles`, `paul.c:518`). "Deactivate the zone for the
  next 2 cycles": `extractNonEmptyZoneId()` counts the number down at the start
  of a cycle before it is looked at, so a zone is back in the second cycle.
- **Last megabyte of a band** (`simulator_boundary`, `simulator_v2.c:475`).
  `GetSMRActualBandSizeFromSSD()` compares with `>=` where its two companions
  compare with `>`. For the first block of a size class it returns the size of
  the class before. A flush led by that block collects and invalidates all of
  the band's blocks in the FIFO and writes the band without its last megabyte.

`CycleEnds` states what holds instead of the comment at `paul.c:32`: a cycle may run
over `Cycle_Length` by up to one batch less one, since the length is looked at
before a batch. For a length of 0 the progress is never below the length, and
each batch ends a cycle; hence the `Max({Cycle_Length, 1})` in it.

Behaviours of the code that the properties make room for:

- **MOST_RW without dirty blocks** (`most_rw.c:130`). A period that starts when the
  cache is all clean has no zone; the next call in the same period, whatever it
  asks for, follows NULL. `NeverLost` names it as the only way MOST_RW is lost.
- **"Any" in MOST_RW** (`most_rw.c:151`) compares stamps that nothing sets and
  always takes a clean block (`DirtyOnlyByName`).
- **Periods of MOST and MOST_RW** end when `PeriodProgress % Cycle_Length == 0`. A
  batch that is shorter than asked can put the progress out of step, and the
  period then goes on until a later multiple is met, or the zone is empty.
- **PORE's tree** is told of a new tail only for the zone that won last, so it may
  hold old stamps; `EvictsOldestKnown` speaks of what it was told.
- **PORE_PLUS in a small cache**: for fewer than five blocks its low bound is 0, and
  a period without clean blocks starts over for ever (assumed away in
  `PorePlusAssumption`).
- **PORE_PLUS_V2** (`pore_plus_v2.c:597`) starts its search at `StampGlobal` and
  compares with `<`. When the only dirty block of the open zones is the one used
  last, or there is none, it finds no zone and starts periods for ever
  (`FindsNoZone_plus_v2`, in `NeverLost`). `clearDesp()` runs before the heat of the
  victim is taken from its zone, so the heat of a zone never decreases
  (`ListsSound` allows more).
- **The window of the cost model** has `NBLOCK_SSD_CACHE / 16` places: none for a cache
  of fewer than 16 blocks, where the remainders divide by 0, and none that can be
  used below 32 (`CostModelAssumption`). `random_pick()` divides by 0 when no
  clean block was called back, and then always says clean. `ChoiceFromWindow`, and
  with it `BalancerChoices`, leaves this case out: it asks for a reason to take the
  clean class only where a clean block was called back and costs something.
- **A process that dies** inside the shared list leaves it half written; the robust
  mutex is made consistent, the list is not (`torn`). One that dies with the
  lock file keeps all later ones from starting. `hasBeenDeleted()` is also true
  of a descriptor that is alone in the list.

## 6. Abstractions

- **Free list**: a stack as in the code, as a sequence of descriptors.
- **Victims**: a set, because the order of a batch does not matter to the cache.
- **Balancer**: in `SsdCache`, `CM_CHOOSE` may name either type or, while too few blocks
  were evicted, not be asked; in the default build `Balancer` is FALSE and the
  type is "Any". Its arithmetic is in `CostModel`, with costs multiplied out so
  that the fractions of the code are compared as integers.
- **Device calls** transfer the whole block or fail. `dev_pread()` and `dev_pwrite()`
  (`cache.c:667`, `687`) and the calls of `simulator_v2.c` test only for a result
  below 0: a short count goes on as if all had been transferred, and this is
  outside the models.
- **Device failures** end the process, so the model stops; nothing is persistent
  and there is no restart to model: the table of descriptors is in memory only.
- **LRU_private** needs a cache of at least one batch (`Grain \in 1 .. NPrivate`): its
  loop takes `EVICT_DITRY_GRAIN` nodes without looking for the end.
- **PAUL**: stamps are distinct, so the set of open zones has no order that matters,
  and `OpenZoneSet` is a set; `activate_after_n_cycles`, which the code does not
  initialise, starts at zero, as fresh pages from `malloc` do.
- **Strategies by zones**: variables a strategy keeps and never reads are left out
  (heat and stamps of MOST, heat of MOST_RW). `PorePlusV2` may choose either
  class where the cost model decides.
- **Slots out of use** in the rings of `CostModel` are reset, as are the scratch
  variables of a flush, so that what is never read again does not multiply states.
- **Simulator**: the build with disk I/O and without `SIMULATOR_AIO`, requests of one
  block, as those of the cache are. `pthread_mutex` makes a request one section.
  The loop of `invalidDespInFIFO()` is stated by where it stops.
- **Pipes**: records of 64 bytes are below `PIPE_BUF`, so they are written whole; the
  capacity is counted in records.
- **Shared list**: descriptors are entered, hit and unloaded as `allocSSDBuf()` would
  do it in several processes. `Unload_LRUBuf()` is called only while the list has a
  descriptor: it does not look itself, and of an empty list it would take the
  element in front of the array. Several processes that each hold what they
  unloaded could come to that, and nothing in `lru.c` keeps them from it; the program as built starts one process with
  lists of its own and uses `shmlib.c` with `MULTIUSER` only.

## 7. Not modelled

- `CACHE_PROPORTIOIN_STATIC`, `NO_READ_CACHE`, `NO_CACHE` and `MULTIUSER` of `cache.c`:
  switched off in `statusDef.h`; `ResizeCacheUsage()` has no caller. `SHM_free()` and
  the macros that put the cache's own tables into shared memory, likewise.
- The simulator's requests of several blocks, `SIMULATOR_AIO` and `SIMU_NO_DISK_IO`.
- `pv3.c` (an earlier `paul.c` with the same names), `oldpore.c`, `maxcold.c`, `scan.c`,
  `clock.c`, `lruofband.c`, `WA.c`: not linked, and OLDPORE is accepted as a name
  without a branch in the dispatch.
- `smr-simulator.c`, `simulator_logfifo.c`, `emulator_hm.c`, `freelist.c`: predecessors of
  the simulator that nothing calls, the first two commented out as a whole.
- Reading arguments and the trace, timers, reports, statistics, the monitor, shell
  scripts and recorded results: input and output.

## 8. Plan

The order of the modules so far: the cache with its abstract store and strategy,
its proofs, the hash tables, the LRU lists, PAUL, the simulator, the pipes; then
the other strategies by zones, the cost model, the shared list; then the proofs
about simulator, pipes, hash tables, LRU lists, PAUL and cost model, and last the
quicksort, the loser tree and the strategies by zones. What is left, most
important first:

1. **The order in the LRU lists**: `ImplementsLru`, with the batch of `LruOrder` stated
   without `SelectSeq`, and `Recency` of LRU_rw as the order of the stamps; and
   that `LruOrder` implements `EvictStrategy` for itself.
2. **Short transfers** of the devices, as a third outcome of the device steps of
   `SsdCache` and `SmrSimulator`.
3. **The static partition of the cache** (`CACHE_PROPORTIOIN_STATIC`) as a constant of
   `SsdCache`, should it be switched on.
4. **The older strategies**, should one of them be linked again: `ZoneStrategy` is made for
   more of them.
