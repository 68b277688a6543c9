------------------------ MODULE LruStrategiesProofs ------------------------
(***************************************************************************)
(* The LRU lists, for any number of descriptors, any batch size and any    *)
(* number of processes: the start of the processes that share one list     *)
(* (shmlib.c, strategy/lru.c), the links of LRU_private, of LRU_rw and of  *)
(* the shared list, and what the cache asks of the two it uses.            *)
(***************************************************************************)
EXTENDS LruStrategies, ListTheorems

States == {"start", "check", "alloc", "get", "attached", "idle", "inside", "dead"}

\* Where a process has the lock file.
Starting == {"check", "alloc", "get", "attached"}

\* The file and its link are what keeps the others out: a link without memory
\* means that its maker is still at it, or is dead and has left the lock file.
StartInv ==
  /\ pc \in [Procs -> States] /\ created \in {0, 1} /\ chkFile \in BOOLEAN
  /\ \A p \in Procs : pc[p] \in Starting => lockFile = p
  /\ \A p \in Procs : pc[p] = "alloc" => created = 0 /\ chkFile
  /\ \A p \in Procs : pc[p] \in {"get", "attached", "idle", "inside"} => created = 1
  /\ chkFile /\ created = 0 =>
       \E q \in Procs : lockFile = q /\ pc[q] \in {"alloc", "dead"}
  /\ created = 1 => chkFile

LEMMA StartInit == Init => StartInv
  <1> SUFFICES ASSUME Init PROVE StartInv
    OBVIOUS
  <1>1. /\ created = 0 /\ chkFile = FALSE
        /\ pc = [p \in Procs |-> "start"]
    BY DEF Init, SHARED!Init
  <1>2. /\ pc \in [Procs -> States] /\ created \in {0, 1} /\ created # 1
        /\ \A p \in Procs : pc[p] = "start"
    BY <1>1 DEF States
  <1>3. chkFile \in BOOLEAN /\ ~chkFile
    BY <1>1
  <1> QED
    BY <1>2, <1>3 DEF StartInv, Starting

\* What all steps outside SHM_lock_n_check(), SHM_unlock() and the allocation do.
LEMMA StartKept ==
  ASSUME StartInv, NEW p \in Procs, UNCHANGED <<created, chkFile, lockFile>>,
         NEW from, NEW to \in States \ Starting, from \notin Starting,
         pc[p] = from, pc' = [pc EXCEPT ![p] = to],
         to \in {"idle", "inside"} => created = 1, from # "dead"
  PROVE  StartInv'
  <1>1. /\ pc' \in [Procs -> States] /\ pc'[p] = to
        /\ \A q \in Procs \ {p} : pc'[q] = pc[q]
    BY DEF StartInv, States
  <1>2. \A q \in Procs : pc'[q] \in {"alloc"} \cup Starting => q # p /\ pc'[q] = pc[q]
    BY <1>1 DEF Starting
  <1>3. chkFile /\ created = 0 =>
          \E q \in Procs : lockFile = q /\ pc'[q] \in {"alloc", "dead"}
    <2> SUFFICES ASSUME chkFile, created = 0
                 PROVE \E q \in Procs : lockFile = q /\ pc'[q] \in {"alloc", "dead"}
      OBVIOUS
    <2>1. PICK q \in Procs : lockFile = q /\ pc[q] \in {"alloc", "dead"}
      BY DEF StartInv
    <2>2. q # p
      BY <2>1 DEF Starting
    <2> QED
      BY <1>1, <2>1, <2>2
  <1> QED
    BY <1>1, <1>2, <1>3 DEF StartInv, States, Starting

LEMMA StartNext == StartInv /\ [Next]_vars => StartInv'
  <1> SUFFICES ASSUME StartInv, [Next]_vars PROVE StartInv'
    OBVIOUS
  <1>u. CASE UNCHANGED sharedVars
    BY <1>u DEF sharedVars, StartInv
  <1>n. CASE SHARED!Next
    <2> PICK p \in Procs :
          \/ SHARED!LockFile(p) \/ SHARED!Check(p) \/ SHARED!Alloc(p) \/ SHARED!Get(p)
          \/ SHARED!UnlockFile(p) \/ SHARED!Unload_LRUBuf(p) \/ SHARED!Write(p)
          \/ SHARED!Leave(p) \/ SHARED!Die(p)
          \/ \E d \in SharedDesps : SHARED!hitInLRUBuffer(p, d) \/ SHARED!insertLRUBuffer(p, d)
      BY <1>n DEF SHARED!Next
    <2>0. Nobody \notin Procs
      BY LruStrategiesAssumption
    <2>1. CASE SHARED!LockFile(p)
      BY <2>0, <2>1 DEF SHARED!LockFile, SHARED!Goes, StartInv, States, Starting
    <2>2. CASE SHARED!Check(p)
      <3>1. /\ pc[p] = "check" /\ lockFile = p /\ lockFile' = lockFile
            /\ created' = created /\ chkFile' = TRUE
            /\ pc' = [pc EXCEPT ![p] = IF chkFile THEN "get" ELSE "alloc"]
        BY <2>2 DEF SHARED!Check, SHARED!Goes, StartInv, Starting
      <3>2. CASE chkFile
        <4>1. created = 1
          BY <3>1, <3>2 DEF StartInv
        <4> QED
          BY <3>1, <3>2, <4>1 DEF StartInv, States, Starting
      <3>3. CASE ~chkFile
        <4>1. created = 0 /\ pc' = [pc EXCEPT ![p] = "alloc"]
          BY <3>1, <3>3 DEF StartInv
        <4>2. pc'[p] = "alloc" /\ \A q \in Procs \ {p} : pc'[q] = pc[q]
          BY <4>1 DEF StartInv
        <4> QED
          BY <3>1, <4>1, <4>2 DEF StartInv, States, Starting
      <3> QED
        BY <3>2, <3>3
    <2>3. CASE SHARED!Alloc(p)
      BY <2>3 DEF SHARED!Alloc, SHARED!SHM_alloc, SHARED!Goes, StartInv, States, Starting
    <2>4. CASE SHARED!Get(p)
      BY <2>4 DEF SHARED!Get, SHARED!Goes, StartInv, States, Starting
    <2>5. CASE SHARED!UnlockFile(p)
      BY <2>0, <2>5 DEF SHARED!UnlockFile, SHARED!Goes, StartInv, States, Starting
    <2>6. CASE SHARED!Unload_LRUBuf(p)
      BY <2>6, StartKept DEF SHARED!Unload_LRUBuf, SHARED!Enter, SHARED!Goes, StartInv, States, Starting
    <2>7. CASE SHARED!Write(p)
      BY <2>7 DEF SHARED!Write, StartInv
    <2>8. CASE SHARED!Leave(p)
      BY <2>8, StartKept DEF SHARED!Leave, SHARED!Goes, StartInv, States, Starting
    <2>9. CASE SHARED!Die(p)
      BY <2>9 DEF SHARED!Die, StartInv, States, Starting
    <2>10. ASSUME NEW d \in SharedDesps,
                  SHARED!hitInLRUBuffer(p, d) \/ SHARED!insertLRUBuffer(p, d)
           PROVE  StartInv'
      <3>1. \E ws : SHARED!Enter(p, ws)
        BY <2>10 DEF SHARED!hitInLRUBuffer, SHARED!insertLRUBuffer
      <3> QED
        BY <3>1, StartKept DEF SHARED!Enter, SHARED!Goes, StartInv, States, Starting
    <2> QED
      BY <2>1, <2>2, <2>3, <2>4, <2>5, <2>6, <2>7, <2>8, <2>9, <2>10
  <1> QED
    BY <1>u, <1>n DEF Next, vars, sharedVars

\* The shared memory is initialised once, by one process, before any other one
\* attaches to it (SHM_lock_n_check()), also when that process or any other dies.
THEOREM InitialisedOnce == Spec => []CreatedOnce
  <1>1. StartInv => CreatedOnce
    BY DEF StartInv, CreatedOnce, SHARED!CreatedOnce
  <1> QED
    BY <1>1, StartInit, StartNext, PTL DEF Spec

-----------------------------------------------------------------------------
(***************************************************************************)
(* LRU_private: one list through all cached descriptors.                   *)
(***************************************************************************)
PrivateList(l) == [first |-> l.head, last |-> l.tail, next |-> l.next, pre |-> l.last]

\* List l has these descriptors, and the links of all others are cleared.
PrivateHas(l, members) ==
  /\ l \in PRIVATE!Lists
  /\ ListOf(PrivateList(l), members, PRIVATE!Nil, PRIVATE!Desps)
  /\ Unlinked(PrivateList(l), PRIVATE!Desps \ members, PRIVATE!Nil)

PrivateInv == PRIVATE!TypeOK /\ PrivateHas(lru, valid)

LEMMA PrivateNames ==
  /\ PRIVATE!Nil \notin PRIVATE!Desps
  /\ IsFiniteSet(PRIVATE!Desps) /\ Cardinality(PRIVATE!Desps) = NPrivate
  /\ \A s : PRIVATE!ToSet(s) = ToSet(s) /\ PRIVATE!IsInjective(s) = IsInjective(s)
            /\ PRIVATE!Reverse(s) = Reverse(s)
  <1>1. PRIVATE!Nil \notin PRIVATE!Desps
    BY DEF PRIVATE!Nil, PRIVATE!Desps
  <1>2. IsFiniteSet(PRIVATE!Desps) /\ Cardinality(PRIVATE!Desps) = NPrivate
    <2>1. NPrivate \in Nat
      BY LruStrategiesAssumption
    <2> QED
      BY <2>1, FS_Interval DEF PRIVATE!Desps
  <1>3. \A s : PRIVATE!ToSet(s) = ToSet(s) /\ PRIVATE!IsInjective(s) = IsInjective(s)
               /\ PRIVATE!Reverse(s) = Reverse(s)
    BY DEF PRIVATE!ToSet, ToSet, PRIVATE!IsInjective, IsInjective, PRIVATE!Reverse, Reverse
  <1> QED
    BY <1>1, <1>2, <1>3

LEMMA PrivateAdd ==
  ASSUME NEW l, NEW members, PrivateHas(l, members), NEW d \in PRIVATE!Desps \ members
  PROVE  PrivateHas(PRIVATE!addToLRUHead(l, d), members \cup {d})
  <1> DEFINE D == PRIVATE!Desps
             nil == PRIVATE!Nil
             l2 == PRIVATE!addToLRUHead(l, d)
  <1>1. l \in PRIVATE!Lists /\ nil \notin D
    BY PrivateNames DEF PrivateHas
  <1>2. /\ l.head = nil <=> members = {}
        /\ l.tail = nil <=> members = {}
        /\ members # {} => l.head \in members
        /\ members \subseteq D
    BY <1>1, ListOfEnds DEF PrivateHas, PrivateList
  <1>3. l.next[d] = nil /\ l.last[d] = nil
    BY DEF PrivateHas, Unlinked, PrivateList
  <1>4. l2 \in PRIVATE!Lists
    BY <1>1, <1>2 DEF PRIVATE!Lists, PRIVATE!addToLRUHead
  <1>5. PutInFront(PrivateList(l), PrivateList(l2), d, nil, D)
    BY <1>1, <1>2, <1>3 DEF PRIVATE!Lists, PRIVATE!addToLRUHead, PutInFront, PrivateList
  <1> HIDE DEF l2
  <1>6. /\ ListOf(PrivateList(l2), members \cup {d}, nil, D)
        /\ SameLinks(PrivateList(l), PrivateList(l2), (D \ members) \ {d})
    BY <1>1, <1>5, FrontListOf DEF PrivateHas
  <1> QED
    BY <1>4, <1>6 DEF PrivateHas, Unlinked, SameLinks, l2

\* deleteFromLRU(), write by write.
LEMMA PrivateDeleted ==
  ASSUME NEW l \in PRIVATE!Lists, NEW d \in PRIVATE!Desps
  PROVE  /\ PRIVATE!deleteFromLRU(l, d) \in PRIVATE!Lists
         /\ l.next[d] # d /\ l.last[d] # d =>
              TakenOut(PrivateList(l), PrivateList(PRIVATE!deleteFromLRU(l, d)), d,
                       PRIVATE!Nil, PRIVATE!Desps)
  <1> DEFINE D == PRIVATE!Desps
             nil == PRIVATE!Nil
             older == l.next[d]
             newer == l.last[d]
             l1 == IF newer # nil THEN [l EXCEPT !.next[newer] = older]
                                  ELSE [l EXCEPT !.head = older]
             l2 == IF older # nil THEN [l1 EXCEPT !.last[older] = newer]
                                  ELSE [l1 EXCEPT !.tail = newer]
             l3 == [l2 EXCEPT !.last[d] = nil, !.next[d] = nil]
  <1>0. nil \notin D /\ d \in D
    BY PrivateNames
  <1>1. older \in D \cup {nil} /\ newer \in D \cup {nil}
    BY DEF PRIVATE!Lists
  <1>2. PRIVATE!deleteFromLRU(l, d) = l3
    BY DEF PRIVATE!deleteFromLRU
  <1>3. /\ l1 \in PRIVATE!Lists
        /\ l1.head = (IF newer = nil THEN older ELSE l.head) /\ l1.tail = l.tail
        /\ l1.last = l.last
        /\ \A e \in D : l1.next[e] = IF e = newer THEN older ELSE l.next[e]
    <2> HIDE DEF older, newer
    <2>1. CASE newer # nil
      BY <1>0, <1>1, <2>1 DEF PRIVATE!Lists
    <2>2. CASE newer = nil
      BY <1>0, <1>1, <2>2 DEF PRIVATE!Lists
    <2> QED
      BY <2>1, <2>2
  <1> HIDE DEF l1
  <1>4. /\ l2 \in PRIVATE!Lists
        /\ l2.tail = (IF older = nil THEN newer ELSE l1.tail) /\ l2.head = l1.head
        /\ l2.next = l1.next
        /\ \A e \in D : l2.last[e] = IF e = older THEN newer ELSE l1.last[e]
    <2> HIDE DEF older, newer
    <2>1. CASE older # nil
      BY <1>0, <1>1, <1>3, <2>1 DEF PRIVATE!Lists
    <2>2. CASE older = nil
      BY <1>0, <1>1, <1>3, <2>2 DEF PRIVATE!Lists
    <2> QED
      BY <2>1, <2>2
  <1> HIDE DEF l2
  <1>5. /\ l3 \in PRIVATE!Lists /\ l3.head = l2.head /\ l3.tail = l2.tail
        /\ l3.last[d] = nil /\ l3.next[d] = nil
        /\ \A e \in D \ {d} : l3.last[e] = l2.last[e] /\ l3.next[e] = l2.next[e]
    BY <1>0, <1>4 DEF PRIVATE!Lists
  <1> HIDE DEF l3
  <1>6. older # d /\ newer # d => TakenOut(PrivateList(l), PrivateList(l3), d, nil, D)
    BY <1>0, <1>3, <1>4, <1>5 DEF TakenOut, PrivateList
  <1> QED
    BY <1>2, <1>5, <1>6

LEMMA PrivateDelete ==
  ASSUME NEW l, NEW members, PrivateHas(l, members), NEW d \in members
  PROVE  PrivateHas(PRIVATE!deleteFromLRU(l, d), members \ {d})
  <1> DEFINE D == PRIVATE!Desps
             nil == PRIVATE!Nil
             l2 == PRIVATE!deleteFromLRU(l, d)
  <1>1. l \in PRIVATE!Lists /\ nil \notin D
    BY PrivateNames DEF PrivateHas
  <1>2. members \subseteq D
    BY <1>1, ListOfEnds DEF PrivateHas
  <1>3. /\ l.next[d] \in (members \ {d}) \cup {nil}
        /\ l.last[d] \in (members \ {d}) \cup {nil}
    BY <1>1, ListOfLinks DEF PrivateHas, PrivateList
  <1>a. l.next[d] # d /\ l.last[d] # d /\ d \in D
    BY <1>1, <1>2, <1>3
  <1>4. l2 \in PRIVATE!Lists
    BY <1>1, <1>a, PrivateDeleted
  <1>5. TakenOut(PrivateList(l), PrivateList(l2), d, nil, D)
    BY <1>1, <1>a, PrivateDeleted
  <1> HIDE DEF l2
  <1>6. /\ ListOf(PrivateList(l2), members \ {d}, nil, D)
        /\ SameLinks(PrivateList(l), PrivateList(l2), D \ members)
        /\ PrivateList(l2).next[d] = nil /\ PrivateList(l2).pre[d] = nil
    BY <1>1, <1>5, TakenListOf DEF PrivateHas
  <1> QED
    BY <1>4, <1>6 DEF PrivateHas, Unlinked, SameLinks, l2

\* A state of the loop of Unload_Buf_LRU_private() after k rounds.
PrivateRounds(acc, k) ==
  /\ acc.out \in Seq(PRIVATE!Desps) /\ IsInjective(acc.out) /\ Len(acc.out) = k
  /\ PrivateHas(acc.l, PRIVATE!Desps \ ToSet(acc.out))

\* While it has taken fewer than all of them there is a tail.
LEMMA PrivateRound ==
  ASSUME NEW acc, NEW k \in Nat, k < NPrivate, PrivateRounds(acc, k)
  PROVE  acc.l.tail \in PRIVATE!Desps /\ PrivateRounds(PRIVATE!TakeTail(acc), k + 1)
  <1> DEFINE D == PRIVATE!Desps
             left == D \ ToSet(acc.out)
             d == acc.l.tail
             acc2 == PRIVATE!TakeTail(acc)
  <1>1. acc.out \in Seq(D) /\ IsInjective(acc.out) /\ Len(acc.out) = k /\ PrivateHas(acc.l, left)
    BY DEF PrivateRounds
  <1>2. left # {}
    <2> SUFFICES ASSUME left = {} PROVE FALSE
      OBVIOUS
    <2>1. D \subseteq ToSet(acc.out)
      OBVIOUS
    <2>2. IsFiniteSet(ToSet(acc.out)) /\ Cardinality(ToSet(acc.out)) = k
      BY <1>1, ToSetFinite
    <2>3. Cardinality(D) <= k
      BY <2>1, <2>2, FS_Subset
    <2> QED
      BY <2>3, PrivateNames, LruStrategiesAssumption
  <1>3. d \in left
    <2> HIDE DEF left
    <2>1. PrivateList(acc.l).last \in left
      BY <1>1, <1>2, ListOfEnds, PrivateNames DEF PrivateHas
    <2> QED
      BY <2>1 DEF PrivateList
  <1>4. acc2.l = PRIVATE!deleteFromLRU(acc.l, d) /\ acc2.out = Append(acc.out, d)
    BY DEF PRIVATE!TakeTail
  <1> HIDE DEF acc2
  <1>5. PrivateHas(acc2.l, left \ {d})
    BY <1>1, <1>3, <1>4, PrivateDelete
  <1>6. acc2.out \in Seq(D) /\ IsInjective(acc2.out) /\ Len(acc2.out) = k + 1
    <2>1. d \in D /\ d \notin ToSet(acc.out)
      BY <1>3
    <2> HIDE DEF d
    <2>2. /\ Append(acc.out, d) \in Seq(D) /\ IsInjective(Append(acc.out, d))
          /\ Len(Append(acc.out, d)) = Len(acc.out) + 1
      BY <1>1, <2>1, AppendNew
    <2> QED
      BY <1>1, <1>4, <2>2
  <1>7. ToSet(acc2.out) = ToSet(acc.out) \cup {d}
    BY <1>1, <1>3, <1>4, AppendSet
  <1>8. left \ {d} = D \ ToSet(acc2.out)
    BY <1>7
  <1> QED
    BY <1>3, <1>5, <1>6, <1>8 DEF PrivateRounds, acc2

PrivateRoundsIs(f) ==
  f = [k \in 0 .. Grain |-> IF k = 0 THEN [l |-> lru, out |-> << >>]
                            ELSE PRIVATE!TakeTail(f[k - 1])]

LEMMA PrivateBatch ==
  ASSUME PrivateInv, valid = PRIVATE!Desps
  PROVE  PrivateRounds((CHOOSE f : PrivateRoundsIs(f))[Grain], Grain)
  <1> DEFINE D == PRIVATE!Desps
             S == [l : PRIVATE!Lists, out : Seq(D)]
             start == [l |-> lru, out |-> << >>]
             round == [acc \in S |-> IF acc.l.tail = PRIVATE!Nil THEN acc ELSE PRIVATE!TakeTail(acc)]
             batch == CHOOSE f : PrivateRoundsIs(f)
  <1>g. Grain \in Nat /\ NPrivate \in Nat /\ Grain <= NPrivate
    BY LruStrategiesAssumption
  <1>1. PrivateRounds(start, 0) /\ start \in S
    <2>1. << >> \in Seq(D) /\ IsInjective(<< >>) /\ Len(<< >>) = 0 /\ ToSet(<< >>) = {}
      BY DEF IsInjective, ToSet
    <2>2. PrivateHas(lru, D \ ToSet(<< >>)) /\ lru \in PRIVATE!Lists
      BY <2>1 DEF PrivateInv, PrivateHas
    <2> QED
      BY <2>1, <2>2 DEF PrivateRounds
  <1>2. round \in [S -> S]
    <2> SUFFICES ASSUME NEW acc \in S, acc.l.tail # PRIVATE!Nil
                 PROVE PRIVATE!TakeTail(acc) \in S
      OBVIOUS
    <2>1. acc.l \in PRIVATE!Lists /\ acc.l.tail \in D /\ acc.out \in Seq(D)
      BY DEF PRIVATE!Lists
    <2>2. PRIVATE!deleteFromLRU(acc.l, acc.l.tail) \in PRIVATE!Lists
      BY <2>1, PrivateDeleted
    <2> QED
      BY <2>1, <2>2 DEF PRIVATE!TakeTail
  <1> HIDE DEF round, start
  <1>3. PICK g \in [Nat -> S] : g[0] = start /\ \A n \in Nat : g[n + 1] = round[g[n]]
    <2> HIDE DEF S
    <2>1. \E g : Repeats(g, start, round, S)
      BY <1>1, <1>2, Repetition
    <2> QED
      BY <2>1 DEF Repeats
  <1>4. ASSUME NEW n \in Nat, n < Grain, PrivateRounds(g[n], n)
        PROVE  g[n + 1] = PRIVATE!TakeTail(g[n]) /\ PrivateRounds(g[n + 1], n + 1)
    <2>1. g[n].l.tail \in D /\ PrivateRounds(PRIVATE!TakeTail(g[n]), n + 1)
      BY <1>4, <1>g, PrivateRound
    <2>2. g[n + 1] = PRIVATE!TakeTail(g[n])
      BY <1>3, <2>1, PrivateNames DEF round
    <2> QED
      BY <2>1, <2>2
  <1> HIDE DEF S
  <1> DEFINE T == {n \in Nat : n <= Grain => PrivateRounds(g[n], n)}
  <1>5. \A n \in Nat : n <= Grain => PrivateRounds(g[n], n)
    <2>1. 0 \in T
      BY <1>1, <1>3
    <2>2. \A n \in Nat : n \in T => n + 1 \in T
      BY <1>4, <1>g
    <2>3. Nat \subseteq T
      <3> HIDE DEF T
      <3> QED
        BY <2>1, <2>2, NatInduct
    <2> QED
      BY <2>3
  <1> HIDE DEF T
  <1> DEFINE h == [k \in 0 .. Grain |-> g[k]]
  <1>6. PrivateRoundsIs(h)
    <2>1. ASSUME NEW k \in 0 .. Grain
          PROVE  g[k] = IF k = 0 THEN start ELSE PRIVATE!TakeTail(h[k - 1])
      <3>1. CASE k = 0
        BY <1>3, <3>1
      <3>2. CASE k # 0
        <4>1. k - 1 \in Nat /\ k - 1 < Grain /\ (k - 1) + 1 = k /\ k - 1 \in 0 .. Grain
          BY <1>g, <3>2
        <4>2. g[k] = PRIVATE!TakeTail(g[k - 1])
          BY <1>4, <1>5, <4>1
        <4>3. h[k - 1] = g[k - 1]
          BY <4>1
        <4> QED
          BY <3>2, <4>2, <4>3
      <3> QED
        BY <3>1, <3>2
    <2> QED
      BY <2>1 DEF PrivateRoundsIs, start
  <1> HIDE DEF h
  <1>7. PrivateRoundsIs(batch)
    BY <1>6
  <1> HIDE DEF batch
  <1>8. \A k \in 0 .. Grain : batch[k] = IF k = 0 THEN start ELSE PRIVATE!TakeTail(batch[k - 1])
    BY <1>7 DEF PrivateRoundsIs, start
  <1> DEFINE U == {n \in Nat : n <= Grain => batch[n] = g[n]}
  <1>9. \A n \in Nat : n <= Grain => batch[n] = g[n]
    <2>1. 0 \in U
      BY <1>3, <1>8, <1>g
    <2>2. ASSUME NEW n \in Nat, n \in U PROVE n + 1 \in U
      <3> SUFFICES ASSUME n + 1 <= Grain PROVE batch[n + 1] = g[n + 1]
        OBVIOUS
      <3>1. n < Grain /\ n <= Grain /\ n + 1 \in 0 .. Grain /\ n + 1 # 0 /\ (n + 1) - 1 = n
        BY <1>g
      <3>2. g[n + 1] = PRIVATE!TakeTail(g[n])
        BY <1>4, <1>5, <3>1
      <3>3. batch[n + 1] = PRIVATE!TakeTail(batch[n])
        BY <1>8, <3>1
      <3> QED
        BY <2>2, <3>1, <3>2, <3>3
    <2>3. Nat \subseteq U
      <3> HIDE DEF U
      <3> QED
        BY <2>1, <2>2, NatInduct
    <2> QED
      BY <2>3
  <1>10. batch[Grain] = g[Grain] /\ PrivateRounds(g[Grain], Grain)
    BY <1>5, <1>9, <1>g
  <1> QED
    BY <1>10 DEF batch

LEMMA PrivateLogOut ==
  ASSUME PrivateInv, NEW t \in PRIVATE!VictimTypes, PRIVATE!LogOut(t)
  PROVE  /\ evicted' \in Seq(PRIVATE!Desps) /\ IsInjective(evicted') /\ Len(evicted') = Grain
         /\ PrivateHas(lru', PRIVATE!Desps \ ToSet(evicted'))
         /\ valid = PRIVATE!Desps /\ valid' = valid \ ToSet(evicted')
         /\ dirty' = dirty \ ToSet(evicted') /\ asked' = t
         /\ t \in {"Clean", "Any"} => valid # dirty
         /\ t \in {"Dirty", "Any"} => dirty # {}
  <1> DEFINE batch == CHOOSE f : PrivateRoundsIs(f)
  <1>1. /\ valid = PRIVATE!Desps /\ asked' = t
        /\ t \in {"Clean", "Any"} => valid # dirty
        /\ t \in {"Dirty", "Any"} => dirty # {}
        /\ lru' = batch[Grain].l /\ evicted' = batch[Grain].out
        /\ valid' = valid \ PRIVATE!ToSet(evicted')
        /\ dirty' = dirty \ PRIVATE!ToSet(evicted')
    BY DEF PRIVATE!LogOut, PrivateRoundsIs
  <1>2. PrivateRounds(batch[Grain], Grain)
    BY <1>1, PrivateBatch
  <1> HIDE DEF batch
  <1>3. /\ evicted' \in Seq(PRIVATE!Desps) /\ IsInjective(evicted') /\ Len(evicted') = Grain
        /\ PrivateHas(lru', PRIVATE!Desps \ ToSet(evicted'))
    BY <1>1, <1>2 DEF PrivateRounds
  <1> QED
    BY <1>1, <1>3, PrivateNames

LEMMA PrivateInit == PRIVATE!Init => PrivateInv
  <1> SUFFICES ASSUME PRIVATE!Init PROVE PrivateInv
    OBVIOUS
  <1>1. /\ lru = [next |-> [d \in PRIVATE!Desps |-> PRIVATE!Nil],
                  last |-> [d \in PRIVATE!Desps |-> PRIVATE!Nil],
                  head |-> PRIVATE!Nil, tail |-> PRIVATE!Nil]
        /\ evicted = << >> /\ asked = "Any" /\ valid = {} /\ dirty = {}
    BY DEF PRIVATE!Init
  <1>2. lru \in PRIVATE!Lists
    BY <1>1 DEF PRIVATE!Lists
  <1>3. evicted \in Seq(PRIVATE!Desps) /\ IsInjective(evicted)
    BY <1>1 DEF IsInjective
  <1>4. PRIVATE!TypeOK
    BY <1>1, <1>2, <1>3, PrivateNames DEF PRIVATE!TypeOK, PRIVATE!VictimTypes
  <1>5. PrivateList(lru).first = PRIVATE!Nil /\ PrivateList(lru).last = PRIVATE!Nil
    BY <1>1 DEF PrivateList
  <1>6. ListOf(PrivateList(lru), {}, PRIVATE!Nil, PRIVATE!Desps)
    BY <1>5, ListOfNone
  <1>7. Unlinked(PrivateList(lru), PRIVATE!Desps, PRIVATE!Nil)
    BY <1>1 DEF PrivateList, Unlinked
  <1> QED
    BY <1>1, <1>2, <1>4, <1>6, <1>7 DEF PrivateInv, PrivateHas

LEMMA PrivateNext ==
  ASSUME PrivateInv, PRIVATE!Next
  PROVE  PrivateInv'
  <1> DEFINE D == PRIVATE!Desps
  <1>1. /\ lru \in PRIVATE!Lists /\ PrivateHas(lru, valid)
        /\ evicted \in Seq(D) /\ IsInjective(evicted) /\ asked \in PRIVATE!VictimTypes
        /\ valid \subseteq D /\ dirty \subseteq valid
    BY PrivateNames DEF PrivateInv, PRIVATE!TypeOK
  <1>2. ASSUME NEW d \in D, NEW isDirty \in BOOLEAN, PRIVATE!LogIn(d, isDirty)
        PROVE  PrivateInv'
    <2>1. /\ d \notin valid /\ valid' = valid \cup {d} /\ dirty' \subseteq dirty \cup {d}
          /\ lru' = PRIVATE!addToLRUHead(lru, d)
          /\ evicted' = evicted /\ asked' = asked
      BY <1>2 DEF PRIVATE!LogIn
    <2>2. PrivateHas(lru', valid')
      BY <1>1, <2>1, PrivateAdd
    <2> QED
      BY <1>1, <2>1, <2>2, PrivateNames DEF PrivateInv, PRIVATE!TypeOK, PrivateHas
  <1>3. ASSUME NEW d \in D, NEW isDirty \in BOOLEAN, PRIVATE!HitIn(d, isDirty)
        PROVE  PrivateInv'
    <2>1. /\ d \in valid /\ valid' = valid /\ dirty' \subseteq dirty \cup {d}
          /\ lru' = PRIVATE!addToLRUHead(PRIVATE!deleteFromLRU(lru, d), d)
          /\ evicted' = evicted /\ asked' = asked
      BY <1>3 DEF PRIVATE!HitIn, PRIVATE!moveToLRUHead
    <2> DEFINE l2 == PRIVATE!deleteFromLRU(lru, d)
    <2>2. PrivateHas(l2, valid \ {d})
      BY <1>1, <2>1, PrivateDelete
    <2> HIDE DEF l2
    <2>3. PrivateHas(PRIVATE!addToLRUHead(l2, d), (valid \ {d}) \cup {d})
      BY <2>2, PrivateAdd
    <2>4. (valid \ {d}) \cup {d} = valid'
      BY <2>1
    <2>5. PrivateHas(lru', valid')
      BY <2>1, <2>3, <2>4 DEF l2
    <2> QED
      BY <1>1, <2>1, <2>5, PrivateNames DEF PrivateInv, PRIVATE!TypeOK, PrivateHas
  <1>4. ASSUME NEW t \in PRIVATE!VictimTypes, PRIVATE!LogOut(t)
        PROVE  PrivateInv'
    <2>1. /\ evicted' \in Seq(D) /\ IsInjective(evicted')
          /\ PrivateHas(lru', D \ ToSet(evicted'))
          /\ valid = D /\ valid' = valid \ ToSet(evicted')
          /\ dirty' = dirty \ ToSet(evicted') /\ asked' = t
      BY <1>4, PrivateLogOut
    <2> QED
      BY <1>1, <2>1, PrivateNames DEF PrivateInv, PRIVATE!TypeOK, PrivateHas
  <1> QED
    BY <1>2, <1>3, <1>4 DEF PRIVATE!Next

LEMMA PrivateSound == PrivateInv => PRIVATE!ListMatchesCache
  <1> SUFFICES ASSUME PrivateInv PROVE PRIVATE!ListMatchesCache
    OBVIOUS
  <1> DEFINE D == PRIVATE!Desps
             nil == PRIVATE!Nil
             l == PrivateList(lru)
  <1>1. /\ lru \in PRIVATE!Lists /\ valid \subseteq D /\ PRIVATE!TypeOK
        /\ ListOf(l, valid, nil, D) /\ Unlinked(l, D \ valid, nil)
    BY DEF PrivateInv, PRIVATE!TypeOK, PrivateHas
  <1>2. /\ DOMAIN l.next = D /\ DOMAIN l.pre = D
        /\ l.first = lru.head /\ l.last = lru.tail /\ l.next = lru.next /\ l.pre = lru.last
    BY <1>1 DEF PRIVATE!Lists, PrivateList
  <1> HIDE DEF l
  <1>3. NPrivate \in Nat /\ Cardinality(D) <= NPrivate + 1
    BY PrivateNames, LruStrategiesAssumption
  <1>4. PICK s \in Seq(D) : /\ ListIs(l, s, valid, nil, D)
                            /\ Walk(l.first, l.next, nil, NPrivate) = s
                            /\ Walk(l.last, l.pre, nil, NPrivate) = Reverse(s)
    <2>1. PICK s \in Seq(D) : ListIs(l, s, valid, nil, D)
      BY <1>1 DEF ListOf
    <2>2. Walk(l.first, l.next, nil, NPrivate) = s
      BY <1>2, <1>3, <2>1, ListShown, PrivateNames
    <2>3. Walk(l.last, l.pre, nil, NPrivate) = Reverse(s)
      BY <1>2, <1>3, <2>1, ListShown, PrivateNames
    <2> QED
      BY <2>1, <2>2, <2>3
  <1>5. IsInjective(s) /\ ToSet(s) = valid
    BY <1>4 DEF ListIs
  <1>6. /\ PRIVATE!Recency = Walk(lru.head, lru.next, nil, NPrivate)
        /\ PRIVATE!Chain(lru.tail, lru.last) = Walk(lru.tail, lru.last, nil, NPrivate)
    BY DEF PRIVATE!Recency, PRIVATE!Chain, PRIVATE!Walk, Walk, PRIVATE!Last, Last
  <1>7. PRIVATE!Recency = s /\ PRIVATE!Chain(lru.tail, lru.last) = Reverse(s)
    BY <1>2, <1>4, <1>6
  <1>8. \A d \in D \ valid : lru.next[d] = nil /\ lru.last[d] = nil
    BY <1>1, <1>2 DEF Unlinked
  <1> QED
    BY <1>1, <1>5, <1>7, <1>8, PrivateNames DEF PRIVATE!ListMatchesCache

-----------------------------------------------------------------------------
(***************************************************************************)
(* LRU_rw: a list of the clean and one of the dirty descriptors, through   *)
(* the same nodes.                                                         *)
(***************************************************************************)
RwList(l, c) ==
  [first |-> l.ctrl[c].first, last |-> l.ctrl[c].last,
   next |-> [d \in RW!Desps |-> l.node[d].next],
   pre |-> [d \in RW!Desps |-> l.node[d].last]]

\* The lists of l have the members of each class.
RwLists(l, members) ==
  \A c \in RW!Classes : ListOf(RwList(l, c), members[c], RW!Nil, RW!Desps)

\* Each descriptor is in at most one of them; the links of those in none are
\* cleared.
RwHas(l, members) ==
  /\ l \in RW!Lists /\ l.ok
  /\ RwLists(l, members)
  /\ members \in [RW!Classes -> SUBSET RW!Desps]
  /\ members["clean"] \cap members["dirty"] = {}
  /\ \A d \in RW!Desps \ (members["clean"] \cup members["dirty"]) :
       l.node[d].next = RW!Nil /\ l.node[d].last = RW!Nil

ByFlag(all, dirties) ==
  [c \in RW!Classes |-> IF c = "dirty" THEN dirties ELSE all \ dirties]

RwInv == RW!TypeOK /\ RwHas(lru, ByFlag(valid, dirty))

LEMMA RwNames ==
  /\ RW!Nil \notin RW!Desps /\ RW!Classes = {"clean", "dirty"}
  /\ IsFiniteSet(RW!Desps) /\ Cardinality(RW!Desps) = NRw
  /\ \A s : RW!ToSet(s) = ToSet(s) /\ RW!IsInjective(s) = IsInjective(s)
            /\ RW!Reverse(s) = Reverse(s)
  <1>1. RW!Nil \notin RW!Desps /\ RW!Classes = {"clean", "dirty"}
    BY DEF RW!Nil, RW!Desps, RW!Classes
  <1>2. IsFiniteSet(RW!Desps) /\ Cardinality(RW!Desps) = NRw
    <2>1. NRw \in Nat
      BY LruStrategiesAssumption
    <2> QED
      BY <2>1, FS_Interval DEF RW!Desps
  <1>3. \A s : RW!ToSet(s) = ToSet(s) /\ RW!IsInjective(s) = IsInjective(s)
               /\ RW!Reverse(s) = Reverse(s)
    BY DEF RW!ToSet, ToSet, RW!IsInjective, IsInjective, RW!Reverse, Reverse
  <1> QED
    BY <1>1, <1>2, <1>3

\* What the lists of l say about one class, and about the link of a node.
LEMMA RwEnds ==
  ASSUME NEW l, NEW members, RwHas(l, members), NEW c \in RW!Classes
  PROVE  /\ l.ctrl[c].first = RW!Nil <=> members[c] = {}
         /\ l.ctrl[c].last = RW!Nil <=> members[c] = {}
         /\ members[c] # {} => l.ctrl[c].first \in members[c] /\ l.ctrl[c].last \in members[c]
  <1>1. ListOf(RwList(l, c), members[c], RW!Nil, RW!Desps)
    BY DEF RwHas, RwLists
  <1>2. /\ RwList(l, c).first = RW!Nil <=> members[c] = {}
        /\ RwList(l, c).last = RW!Nil <=> members[c] = {}
        /\ members[c] # {} => RwList(l, c).first \in members[c] /\ RwList(l, c).last \in members[c]
    BY <1>1, ListOfEnds, RwNames
  <1> QED
    BY <1>2 DEF RwList

LEMMA RwLinks ==
  ASSUME NEW l, NEW members, RwHas(l, members), NEW c \in RW!Classes, NEW d \in members[c]
  PROVE  /\ l.node[d].next \in (members[c] \ {d}) \cup {RW!Nil}
         /\ l.node[d].last \in (members[c] \ {d}) \cup {RW!Nil}
         /\ l.node[d].last = RW!Nil <=> l.ctrl[c].first = d
         /\ l.node[d].next = RW!Nil <=> l.ctrl[c].last = d
  <1>1. ListOf(RwList(l, c), members[c], RW!Nil, RW!Desps) /\ d \in RW!Desps
    BY DEF RwHas, RwLists
  <1> DEFINE w == RwList(l, c)
  <1>2. /\ w.first = l.ctrl[c].first /\ w.last = l.ctrl[c].last
        /\ w.next[d] = l.node[d].next /\ w.pre[d] = l.node[d].last
    BY <1>1 DEF RwList
  <1> HIDE DEF w
  <1>3. /\ w.next[d] \in (members[c] \ {d}) \cup {RW!Nil}
        /\ w.pre[d] \in (members[c] \ {d}) \cup {RW!Nil}
        /\ w.pre[d] = RW!Nil <=> w.first = d
        /\ w.next[d] = RW!Nil <=> w.last = d
    BY <1>1, ListOfLinks, RwNames DEF w
  <1> QED
    BY <1>2, <1>3

\* A list that has its ends and the links of its nodes as before.
LEMMA RwKept ==
  ASSUME NEW l, NEW l2, NEW c, NEW members, ListOf(RwList(l, c), members, RW!Nil, RW!Desps),
         members \subseteq RW!Desps, l2.ctrl[c] = l.ctrl[c],
         \A e \in members : l2.node[e].next = l.node[e].next /\ l2.node[e].last = l.node[e].last
  PROVE  ListOf(RwList(l2, c), members, RW!Nil, RW!Desps)
  <1>1. RwList(l2, c).first = RwList(l, c).first /\ RwList(l2, c).last = RwList(l, c).last
    BY DEF RwList
  <1>2. SameLinks(RwList(l, c), RwList(l2, c), members)
    BY DEF RwList, SameLinks
  <1> QED
    BY <1>1, <1>2, ListOfKept

LEMMA RwAdd ==
  ASSUME NEW l, NEW members, RwHas(l, members), NEW c \in RW!Classes,
         NEW d \in RW!Desps \ (members["clean"] \cup members["dirty"])
  PROVE  RwHas(RW!addToLRUHead(l, d, c), [members EXCEPT ![c] = @ \cup {d}])
  <1> DEFINE D == RW!Desps
             nil == RW!Nil
             l2 == RW!addToLRUHead(l, d, c)
             m2 == [members EXCEPT ![c] = @ \cup {d}]
             head == l.ctrl[c].first
  <1>1. /\ l \in RW!Lists /\ l.ok /\ nil \notin D /\ RW!Classes = {"clean", "dirty"}
        /\ members \in [RW!Classes -> SUBSET D]
        /\ members["clean"] \cap members["dirty"] = {}
        /\ l.node[d].next = nil /\ l.node[d].last = nil
    BY RwNames DEF RwHas
  <1>2. /\ head = nil <=> members[c] = {}
        /\ l.ctrl[c].last = nil <=> members[c] = {}
        /\ members[c] # {} => head \in members[c]
        /\ head \in D \cup {nil} /\ head # d
    BY <1>1, RwEnds DEF RW!Lists, RW!Ctrl
  <1> HIDE DEF head
  <1>3. /\ l2 \in RW!Lists /\ l2.ok
        /\ l2.ctrl[c] = [first |-> d, last |-> IF head = nil THEN d ELSE l.ctrl[c].last]
        /\ \A b \in RW!Classes \ {c} : l2.ctrl[b] = l.ctrl[b]
        /\ l2.node[d].next = head /\ l2.node[d].last = nil
        /\ head # nil => l2.node[head].last = d
        /\ \A e \in D \ {d} : /\ l2.node[e].next = l.node[e].next
                              /\ e # head => l2.node[e].last = l.node[e].last
    <2>1. CASE head = nil
      <3>1. l2 = [l EXCEPT !.ctrl[c] = [first |-> d, last |-> d]]
        BY <2>1 DEF RW!addToLRUHead, head
      <3> HIDE DEF l2
      <3>2. /\ l2 \in RW!Lists /\ l2.ok /\ l2.node = l.node
            /\ l2.ctrl[c] = [first |-> d, last |-> d]
            /\ \A b \in RW!Classes \ {c} : l2.ctrl[b] = l.ctrl[b]
        BY <1>1, <3>1 DEF RW!Lists, RW!Ctrl
      <3> QED
        BY <1>1, <2>1, <3>2
    <2>2. CASE head # nil
      <3> DEFINE n1 == [l.node EXCEPT ![d].next = head]
                 n2 == [n1 EXCEPT ![d].last = nil]
                 n3 == [n2 EXCEPT ![head].last = d]
                 ctrl2 == [l.ctrl EXCEPT ![c].first = d]
      <3>1. head \in D /\ head # d
        BY <1>2, <2>2
      <3>2. l2 = [node |-> n3, ctrl |-> ctrl2, ok |-> l.ok]
        BY <1>1, <2>2 DEF RW!addToLRUHead, RW!Lists, head
      <3> HIDE DEF l2
      <3>3. n1 \in [D -> RW!Node] /\ n1[d].next = head
            /\ \A e \in D : n1[e].last = l.node[e].last /\ (e # d => n1[e].next = l.node[e].next)
        BY <1>1, <3>1 DEF RW!Lists, RW!Node
      <3> HIDE DEF n1
      <3>4. n2 \in [D -> RW!Node] /\ n2[d].last = nil
            /\ \A e \in D : n2[e].next = n1[e].next /\ (e # d => n2[e].last = n1[e].last)
        BY <1>1, <3>1, <3>3 DEF RW!Node
      <3> HIDE DEF n2
      <3>5. n3 \in [D -> RW!Node] /\ n3[head].last = d
            /\ \A e \in D : n3[e].next = n2[e].next /\ (e # head => n3[e].last = n2[e].last)
        BY <1>1, <3>1, <3>4 DEF RW!Node
      <3> HIDE DEF n3
      <3>6. /\ ctrl2 \in [RW!Classes -> RW!Ctrl]
            /\ ctrl2[c] = [first |-> d, last |-> l.ctrl[c].last]
            /\ \A b \in RW!Classes \ {c} : ctrl2[b] = l.ctrl[b]
        BY <1>1 DEF RW!Lists, RW!Ctrl
      <3> HIDE DEF ctrl2
      <3>7. l2.node = n3 /\ l2.ctrl = ctrl2 /\ l2.ok = l.ok /\ l2 \in RW!Lists
        BY <1>1, <3>2, <3>5, <3>6 DEF RW!Lists
      <3> QED
        BY <1>1, <2>2, <3>1, <3>3, <3>4, <3>5, <3>6, <3>7
    <2> QED
      BY <2>1, <2>2
  <1> HIDE DEF l2
  <1>4. PutInFront(RwList(l, c), RwList(l2, c), d, nil, D)
    <2>1. head \in D \cup {nil}
      BY <1>2
    <2> QED
      BY <1>1, <1>2, <1>3, <2>1 DEF PutInFront, RwList, head
  <1>5. ListOf(RwList(l2, c), members[c] \cup {d}, nil, D)
    <2>1. d \in D \ members[c] /\ ListOf(RwList(l, c), members[c], nil, D)
      BY <1>1 DEF RwHas, RwLists
    <2> QED
      BY <1>1, <1>4, <2>1, FrontListOf
  <1>6. ASSUME NEW b \in RW!Classes \ {c}
        PROVE  ListOf(RwList(l2, b), members[b], nil, D)
    <2>1. head \notin members[b] /\ d \notin members[b] /\ members[b] \subseteq D
      BY <1>1, <1>2
    <2>2. ListOf(RwList(l, b), members[b], nil, D)
      BY DEF RwHas, RwLists
    <2> QED
      BY <1>3, <2>1, <2>2, RwKept
  <1>7. /\ m2 \in [RW!Classes -> SUBSET D] /\ m2["clean"] \cap m2["dirty"] = {}
        /\ m2["clean"] \cup m2["dirty"] = members["clean"] \cup members["dirty"] \cup {d}
        /\ m2[c] = members[c] \cup {d} /\ \A b \in RW!Classes \ {c} : m2[b] = members[b]
    BY <1>1
  <1> HIDE DEF m2
  <1>8. RwLists(l2, m2)
    BY <1>5, <1>6, <1>7 DEF RwLists
  <1>9. ASSUME NEW e \in D \ (m2["clean"] \cup m2["dirty"])
        PROVE  l2.node[e].next = nil /\ l2.node[e].last = nil
    <2>1. e \in D \ {d} /\ e # head /\ e \notin members["clean"] \cup members["dirty"]
      BY <1>1, <1>2, <1>7
    <2> QED
      BY <1>3, <2>1 DEF RwHas
  <1> QED
    BY <1>3, <1>7, <1>8, <1>9 DEF RwHas, l2, m2

\* deleteFromLRU() finds the end it has to move in the list of the node.
LEMMA RwDelete ==
  ASSUME NEW l, NEW members, RwHas(l, members), NEW c \in RW!Classes, NEW d \in members[c]
  PROVE  RwHas(RW!deleteFromLRU(l, d), [members EXCEPT ![c] = @ \ {d}])
  <1> DEFINE D == RW!Desps
             nil == RW!Nil
             older == l.node[d].next
             newer == l.node[d].last
             l1 == IF newer # nil THEN [l EXCEPT !.node[newer].next = older]
                                  ELSE RW!SetFirst(l, d, older)
             l2 == IF older # nil THEN [l1 EXCEPT !.node[older].last = newer]
                                  ELSE RW!SetLast(l1, d, newer)
             l3 == [l2 EXCEPT !.node[d].next = nil, !.node[d].last = nil]
             m2 == [members EXCEPT ![c] = @ \ {d}]
  <1>1. /\ l \in RW!Lists /\ l.ok /\ nil \notin D /\ RW!Classes = {"clean", "dirty"}
        /\ members \in [RW!Classes -> SUBSET D]
        /\ members["clean"] \cap members["dirty"] = {} /\ d \in D
    BY RwNames DEF RwHas
  <1>2. /\ older \in (members[c] \ {d}) \cup {nil} /\ newer \in (members[c] \ {d}) \cup {nil}
        /\ newer = nil <=> l.ctrl[c].first = d
        /\ older = nil <=> l.ctrl[c].last = d
    BY RwLinks
  <1>3. ASSUME NEW b \in RW!Classes \ {c}
        PROVE  l.ctrl[b].first # d /\ l.ctrl[b].last # d /\ d \notin members[b]
    <2>1. d \notin members[b]
      BY <1>1
    <2>2. l.ctrl[b].first # d /\ l.ctrl[b].last # d
      BY <1>1, <2>1, RwEnds
    <2> QED
      BY <2>1, <2>2
  <1>4. RW!deleteFromLRU(l, d) = l3
    BY DEF RW!deleteFromLRU
  <1>o. older \in D \cup {nil} /\ newer \in D \cup {nil} /\ older # d /\ newer # d
    BY <1>1, <1>2
  <1> HIDE DEF older, newer
  <1>5. /\ l1 \in RW!Lists /\ l1.ok
        /\ l1.ctrl[c] = [first |-> IF newer = nil THEN older ELSE l.ctrl[c].first,
                         last |-> l.ctrl[c].last]
        /\ \A b \in RW!Classes \ {c} : l1.ctrl[b] = l.ctrl[b]
        /\ \A e \in D : /\ l1.node[e].next = IF e = newer THEN older ELSE l.node[e].next
                        /\ l1.node[e].last = l.node[e].last
    <2>1. CASE newer # nil
      <3> DEFINE n1 == [l.node EXCEPT ![newer].next = older]
      <3>1. l1 = [l EXCEPT !.node = n1]
        BY <1>1, <2>1 DEF RW!Lists
      <3> HIDE DEF l1
      <3>2. n1 \in [D -> RW!Node]
            /\ \A e \in D : /\ n1[e].next = IF e = newer THEN older ELSE l.node[e].next
                            /\ n1[e].last = l.node[e].last
        BY <1>1, <1>o, <2>1 DEF RW!Lists, RW!Node
      <3> HIDE DEF n1
      <3>3. l1 \in RW!Lists /\ l1.ok /\ l1.node = n1 /\ l1.ctrl = l.ctrl
        BY <1>1, <3>1, <3>2 DEF RW!Lists
      <3>4. l.ctrl[c] = [first |-> l.ctrl[c].first, last |-> l.ctrl[c].last]
        BY <1>1 DEF RW!Lists, RW!Ctrl
      <3> QED
        BY <2>1, <3>2, <3>3, <3>4
    <2>2. CASE newer = nil
      <3>1. l.ctrl[c].first = d /\ \A b \in RW!Classes \ {c} : l.ctrl[b].first # d
        BY <1>2, <1>3, <2>2
      <3>2. l1 = [l EXCEPT !.ctrl[c].first = older]
        BY <1>1, <2>2, <3>1 DEF RW!SetFirst
      <3> HIDE DEF l1
      <3>3. /\ l1 \in RW!Lists /\ l1.ok /\ l1.node = l.node
            /\ l1.ctrl[c] = [first |-> older, last |-> l.ctrl[c].last]
            /\ \A b \in RW!Classes \ {c} : l1.ctrl[b] = l.ctrl[b]
        BY <1>1, <1>o, <3>2 DEF RW!Lists, RW!Ctrl
      <3>4. \A e \in D : e # newer
        BY <1>1, <2>2
      <3> QED
        BY <2>2, <3>3, <3>4
    <2> QED
      BY <2>1, <2>2
  <1> HIDE DEF l1
  <1>6. /\ l2 \in RW!Lists /\ l2.ok
        /\ l2.ctrl[c] = [first |-> l1.ctrl[c].first,
                         last |-> IF older = nil THEN newer ELSE l.ctrl[c].last]
        /\ \A b \in RW!Classes \ {c} : l2.ctrl[b] = l.ctrl[b]
        /\ \A e \in D : /\ l2.node[e].next = l1.node[e].next
                        /\ l2.node[e].last = IF e = older THEN newer ELSE l.node[e].last
    <2>1. CASE older # nil
      <3> DEFINE n1 == [l1.node EXCEPT ![older].last = newer]
      <3>1. l2 = [l1 EXCEPT !.node = n1]
        BY <1>5, <2>1 DEF RW!Lists
      <3> HIDE DEF l2
      <3>2. n1 \in [D -> RW!Node]
            /\ \A e \in D : /\ n1[e].last = IF e = older THEN newer ELSE l1.node[e].last
                            /\ n1[e].next = l1.node[e].next
        BY <1>5, <1>o, <2>1 DEF RW!Lists, RW!Node
      <3> HIDE DEF n1
      <3>3. l2 \in RW!Lists /\ l2.ok /\ l2.node = n1 /\ l2.ctrl = l1.ctrl
        BY <1>5, <3>1, <3>2 DEF RW!Lists
      <3> QED
        BY <1>5, <2>1, <3>2, <3>3
    <2>2. CASE older = nil
      <3>1. l1.ctrl[c].last = d /\ \A b \in RW!Classes \ {c} : l1.ctrl[b].last # d
        BY <1>2, <1>3, <1>5, <2>2
      <3>2. l2 = [l1 EXCEPT !.ctrl[c].last = newer]
        BY <1>1, <2>2, <3>1 DEF RW!SetLast
      <3> HIDE DEF l2
      <3>3. /\ l2 \in RW!Lists /\ l2.ok /\ l2.node = l1.node
            /\ l2.ctrl[c] = [first |-> l1.ctrl[c].first, last |-> newer]
            /\ \A b \in RW!Classes \ {c} : l2.ctrl[b] = l1.ctrl[b]
        BY <1>5, <1>o, <3>2 DEF RW!Lists, RW!Ctrl
      <3>4. \A e \in D : e # older
        BY <1>1, <2>2
      <3> QED
        BY <1>5, <2>2, <3>3, <3>4
    <2> QED
      BY <2>1, <2>2
  <1> HIDE DEF l2
  <1>7. /\ l3 \in RW!Lists /\ l3.ok /\ l3.ctrl = l2.ctrl
        /\ l3.node[d].next = nil /\ l3.node[d].last = nil
        /\ \A e \in D \ {d} : /\ l3.node[e].next = l2.node[e].next
                              /\ l3.node[e].last = l2.node[e].last
    <2> DEFINE n1 == [l2.node EXCEPT ![d].next = nil]
               n2 == [n1 EXCEPT ![d].last = nil]
    <2>1. l3 = [l2 EXCEPT !.node = n2]
      BY <1>1, <1>6 DEF RW!Lists
    <2> HIDE DEF l3
    <2>2. n1 \in [D -> RW!Node] /\ n1[d].next = nil /\ \A e \in D \ {d} : n1[e] = l2.node[e]
      BY <1>1, <1>6 DEF RW!Lists, RW!Node
    <2> HIDE DEF n1
    <2>3. n2 \in [D -> RW!Node] /\ n2[d].next = n1[d].next /\ n2[d].last = nil
          /\ \A e \in D \ {d} : n2[e] = n1[e]
      BY <1>1, <2>2 DEF RW!Node
    <2> HIDE DEF n2
    <2>4. l3 \in RW!Lists /\ l3.ok /\ l3.node = n2 /\ l3.ctrl = l2.ctrl
      BY <1>6, <2>1, <2>3 DEF RW!Lists
    <2> QED
      BY <2>2, <2>3, <2>4
  <1> HIDE DEF l3
  <1>8. TakenOut(RwList(l, c), RwList(l3, c), d, nil, D)
    BY <1>1, <1>2, <1>5, <1>6, <1>7 DEF TakenOut, RwList, older, newer
  <1>9. ListOf(RwList(l3, c), members[c] \ {d}, nil, D)
    <2>1. ListOf(RwList(l, c), members[c], nil, D)
      BY DEF RwHas, RwLists
    <2> QED
      BY <1>1, <1>8, <2>1, TakenListOf
  <1>10. ASSUME NEW b \in RW!Classes \ {c}
         PROVE  ListOf(RwList(l3, b), members[b], nil, D)
    <2>1. /\ older \notin members[b] /\ newer \notin members[b] /\ d \notin members[b]
          /\ members[b] \subseteq D
      BY <1>1, <1>2
    <2>2. ListOf(RwList(l, b), members[b], nil, D)
      BY DEF RwHas, RwLists
    <2>3. l3.ctrl[b] = l.ctrl[b]
      BY <1>6, <1>7
    <2>4. \A e \in members[b] : l3.node[e].next = l.node[e].next /\ l3.node[e].last = l.node[e].last
      BY <1>5, <1>6, <1>7, <2>1
    <2> QED
      BY <2>1, <2>2, <2>3, <2>4, RwKept
  <1>11. /\ m2 \in [RW!Classes -> SUBSET D] /\ m2["clean"] \cap m2["dirty"] = {}
         /\ m2["clean"] \cup m2["dirty"] = (members["clean"] \cup members["dirty"]) \ {d}
         /\ m2[c] = members[c] \ {d} /\ \A b \in RW!Classes \ {c} : m2[b] = members[b]
    BY <1>1
  <1> HIDE DEF m2
  <1>12. RwLists(l3, m2)
    BY <1>9, <1>10, <1>11 DEF RwLists
  <1>13. ASSUME NEW e \in D \ (m2["clean"] \cup m2["dirty"])
         PROVE  l3.node[e].next = nil /\ l3.node[e].last = nil
    <2>1. CASE e = d
      BY <1>7, <2>1
    <2>2. CASE e # d
      <3>1. e \in D \ {d} /\ e # older /\ e # newer /\ e \notin members["clean"] \cup members["dirty"]
        BY <1>1, <1>2, <1>11, <2>2
      <3> QED
        BY <1>5, <1>6, <1>7, <3>1 DEF RwHas
    <2> QED
      BY <2>1, <2>2
  <1>14. l3 \in RW!Lists /\ l3.ok
    BY <1>7
  <1> QED
    BY <1>4, <1>11, <1>12, <1>13, <1>14 DEF RwHas, m2

\* A state of the loop of Unload_Buf_LRU_rw() over class c after k rounds.
RwTaken(acc, c, members) ==
  /\ acc.out \in Seq(RW!Desps) /\ IsInjective(acc.out) /\ ToSet(acc.out) \subseteq members[c]
  /\ RwHas(acc.l, [members EXCEPT ![c] = @ \ ToSet(acc.out)])

RwRounds(acc, k, c, members) ==
  /\ RwTaken(acc, c, members) /\ Len(acc.out) <= k
  /\ k > 0 /\ members[c] # {} => Len(acc.out) > 0

LEMMA RwRound ==
  ASSUME NEW members \in [RW!Classes -> SUBSET RW!Desps], NEW c \in RW!Classes,
         NEW out, NEW l, RwTaken([l |-> l, out |-> out], c, members)
  PROVE  LET acc == [l |-> l, out |-> out]
             acc2 == RW!TakeTail(acc, c)
         IN  /\ acc2 \in [l : RW!Lists, out : Seq(RW!Desps)] /\ RwTaken(acc2, c, members)
             /\ Len(acc2.out) \in Len(out) .. Len(out) + 1
             /\ members[c] # {} => Len(acc2.out) > 0
  <1> DEFINE D == RW!Desps
             nil == RW!Nil
             left == members[c] \ ToSet(out)
             m == [members EXCEPT ![c] = @ \ ToSet(out)]
             victim == l.ctrl[c].last
             acc == [l |-> l, out |-> out]
             acc2 == RW!TakeTail(acc, c)
  <1>1. /\ out \in Seq(D) /\ IsInjective(out) /\ ToSet(out) \subseteq members[c]
        /\ RwHas(l, m) /\ l \in RW!Lists /\ Len(out) \in Nat
    BY DEF RwTaken, RwHas
  <1>2. m \in [RW!Classes -> SUBSET D] /\ m[c] = left /\ nil \notin D /\ left \subseteq D
    BY RwNames
  <1>3. (victim = nil <=> left = {}) /\ (left # {} => victim \in left)
    BY <1>1, <1>2, RwEnds
  <1>4. CASE victim = nil
    <2>1. acc2 = acc
      BY <1>4 DEF RW!TakeTail
    <2>2. members[c] # {} => Len(out) > 0
      <3>1. out = << >> => ToSet(out) = {}
        BY DEF ToSet
      <3> QED
        BY <1>1, <1>3, <1>4, <3>1
    <2> QED
      BY <1>1, <2>1, <2>2
  <1>5. CASE victim # nil
    <2> DEFINE l2 == RW!deleteFromLRU(l, victim)
               out2 == Append(out, victim)
    <2>1. victim \in left /\ victim \in D /\ victim \notin ToSet(out)
      BY <1>2, <1>3, <1>5
    <2>2. acc2 = [l |-> l2, out |-> out2]
      BY <1>5 DEF RW!TakeTail
    <2> HIDE DEF victim, acc2
    <2>3. RwHas(l2, [m EXCEPT ![c] = @ \ {victim}])
      BY <1>1, <1>2, <2>1, RwDelete
    <2>4. out2 \in Seq(D) /\ IsInjective(out2) /\ Len(out2) = Len(out) + 1
      BY <1>1, <2>1, AppendNew
    <2>5. ToSet(out2) = ToSet(out) \cup {victim}
      BY <1>1, <2>1, AppendSet
    <2> HIDE DEF l2, out2
    <2>6. [m EXCEPT ![c] = @ \ {victim}] = [members EXCEPT ![c] = @ \ ToSet(out2)]
      <3>1. left \ {victim} = members[c] \ ToSet(out2)
        BY <2>5
      <3> QED
        BY <1>2, <3>1
    <2>7. RwHas(l2, [members EXCEPT ![c] = @ \ ToSet(out2)]) /\ l2 \in RW!Lists
      BY <2>3, <2>6 DEF RwHas
    <2>8. ToSet(out2) \subseteq members[c]
      BY <1>1, <2>1, <2>5
    <2>9. acc2.l = l2 /\ acc2.out = out2 /\ acc2 \in [l : RW!Lists, out : Seq(D)]
      BY <2>2, <2>4, <2>7
    <2>10. RwTaken(acc2, c, members)
      BY <2>4, <2>7, <2>8, <2>9 DEF RwTaken
    <2> QED
      BY <1>1, <2>4, <2>9, <2>10 DEF acc2
  <1> QED
    BY <1>4, <1>5

RwRoundsIs(f, c) ==
  f = [k \in 0 .. Grain |-> IF k = 0 THEN [l |-> lru, out |-> << >>]
                            ELSE RW!TakeTail(f[k - 1], c)]

LEMMA RwBatch ==
  ASSUME NEW members, RwHas(lru, members), NEW c \in RW!Classes
  PROVE  RwRounds((CHOOSE f : RwRoundsIs(f, c))[Grain], Grain, c, members)
  <1> DEFINE D == RW!Desps
             S == {acc \in [l : RW!Lists, out : Seq(D)] : RwTaken(acc, c, members)}
             start == [l |-> lru, out |-> << >>]
             round == [acc \in S |-> RW!TakeTail(acc, c)]
             batch == CHOOSE f : RwRoundsIs(f, c)
  <1>g. Grain \in Nat
    BY LruStrategiesAssumption
  <1>m. members \in [RW!Classes -> SUBSET D]
    BY DEF RwHas
  <1>1. start \in S /\ Len(start.out) = 0
    <2>1. << >> \in Seq(D) /\ IsInjective(<< >>) /\ ToSet(<< >>) = {}
      BY DEF IsInjective, ToSet
    <2>2. [members EXCEPT ![c] = @ \ ToSet(<< >>)] = members /\ lru \in RW!Lists
      <3>1. members[c] \ ToSet(<< >>) = members[c]
        BY <2>1
      <3> QED
        BY <1>m, <3>1 DEF RwHas
    <2>3. RwTaken(start, c, members)
      BY <2>1, <2>2 DEF RwTaken
    <2> QED
      BY <2>1, <2>2, <2>3
  <1>2. ASSUME NEW acc \in S
        PROVE  /\ RW!TakeTail(acc, c) \in S
               /\ Len(RW!TakeTail(acc, c).out) \in Len(acc.out) .. Len(acc.out) + 1
               /\ members[c] # {} => Len(RW!TakeTail(acc, c).out) > 0
    <2>1. acc = [l |-> acc.l, out |-> acc.out] /\ RwTaken(acc, c, members)
      OBVIOUS
    <2>2. PICK l, out : acc = [l |-> l, out |-> out] /\ acc.out = out
      BY <2>1
    <2> DEFINE acc2 == RW!TakeTail(acc, c)
    <2>3. /\ acc2 \in [l : RW!Lists, out : Seq(D)] /\ RwTaken(acc2, c, members)
          /\ Len(acc2.out) \in Len(out) .. Len(out) + 1
          /\ members[c] # {} => Len(acc2.out) > 0
      BY <1>m, <2>1, <2>2, RwRound
    <2> QED
      BY <2>2, <2>3
  <1>3. round \in [S -> S] /\ \A acc \in S : round[acc] = RW!TakeTail(acc, c)
    BY <1>2
  <1> HIDE DEF round, start
  <1>4. PICK g \in [Nat -> S] : g[0] = start /\ \A n \in Nat : g[n + 1] = round[g[n]]
    <2> HIDE DEF S
    <2>1. \E g : Repeats(g, start, round, S)
      BY <1>1, <1>3, Repetition
    <2> QED
      BY <2>1 DEF Repeats
  <1>s. \A acc \in S : Len(acc.out) \in Nat /\ RwTaken(acc, c, members)
    OBVIOUS
  <1> HIDE DEF S
  <1>5. ASSUME NEW n \in Nat
        PROVE  /\ g[n] \in S /\ g[n + 1] = RW!TakeTail(g[n], c)
               /\ Len(g[n + 1].out) <= Len(g[n].out) + 1
               /\ members[c] # {} => Len(g[n + 1].out) > 0
    <2>1. g[n] \in S /\ Len(g[n].out) \in Nat
      BY <1>4, <1>s
    <2>2. g[n + 1] = RW!TakeTail(g[n], c)
      BY <1>3, <1>4, <2>1
    <2>3. /\ Len(RW!TakeTail(g[n], c).out) \in Len(g[n].out) .. Len(g[n].out) + 1
          /\ members[c] # {} => Len(RW!TakeTail(g[n], c).out) > 0
      BY <1>2, <2>1
    <2> QED
      BY <2>1, <2>2, <2>3
  <1> DEFINE T == {n \in Nat : Len(g[n].out) <= n}
  <1>6. \A n \in Nat : Len(g[n].out) <= n
    <2>1. 0 \in T
      BY <1>1, <1>4
    <2>2. ASSUME NEW n \in Nat, n \in T PROVE n + 1 \in T
      <3>1. Len(g[n].out) \in Nat /\ Len(g[n + 1].out) \in Nat
        BY <1>5, <1>s
      <3>2. Len(g[n + 1].out) <= Len(g[n].out) + 1 /\ Len(g[n].out) <= n
        BY <1>5, <2>2
      <3>3. Len(g[n + 1].out) <= n + 1
        BY <3>1, <3>2
      <3> QED
        BY <3>3
    <2>3. Nat \subseteq T
      <3> HIDE DEF T
      <3> QED
        BY <2>1, <2>2, NatInduct
    <2> QED
      BY <2>3
  <1> HIDE DEF T
  <1> DEFINE h == [k \in 0 .. Grain |-> g[k]]
  <1>7. RwRoundsIs(h, c)
    <2>1. ASSUME NEW k \in 0 .. Grain
          PROVE  g[k] = IF k = 0 THEN start ELSE RW!TakeTail(h[k - 1], c)
      <3>1. CASE k = 0
        BY <1>4, <3>1
      <3>2. CASE k # 0
        <4>1. k - 1 \in Nat /\ (k - 1) + 1 = k /\ k - 1 \in 0 .. Grain
          BY <1>g, <3>2
        <4>2. g[k] = RW!TakeTail(g[k - 1], c)
          BY <1>5, <4>1
        <4>3. h[k - 1] = g[k - 1]
          BY <4>1
        <4> QED
          BY <3>2, <4>2, <4>3
      <3> QED
        BY <3>1, <3>2
    <2> QED
      BY <2>1 DEF RwRoundsIs, start
  <1> HIDE DEF h
  <1>8. RwRoundsIs(batch, c)
    BY <1>7
  <1> HIDE DEF batch
  <1>9. \A k \in 0 .. Grain : batch[k] = IF k = 0 THEN start ELSE RW!TakeTail(batch[k - 1], c)
    BY <1>8 DEF RwRoundsIs, start
  <1> DEFINE U == {n \in Nat : n <= Grain => batch[n] = g[n]}
  <1>10. \A n \in Nat : n <= Grain => batch[n] = g[n]
    <2>1. 0 \in U
      BY <1>4, <1>9, <1>g
    <2>2. ASSUME NEW n \in Nat, n \in U PROVE n + 1 \in U
      <3> SUFFICES ASSUME n + 1 <= Grain PROVE batch[n + 1] = g[n + 1]
        OBVIOUS
      <3>1. n <= Grain /\ n + 1 \in 0 .. Grain /\ n + 1 # 0 /\ (n + 1) - 1 = n
        BY <1>g
      <3>2. g[n + 1] = RW!TakeTail(g[n], c)
        BY <1>5
      <3>3. batch[n + 1] = RW!TakeTail(batch[n], c)
        BY <1>9, <3>1
      <3> QED
        BY <2>2, <3>1, <3>2, <3>3
    <2>3. Nat \subseteq U
      <3> HIDE DEF U
      <3> QED
        BY <2>1, <2>2, NatInduct
    <2> QED
      BY <2>3
  <1>11. batch[Grain] = g[Grain]
    BY <1>10, <1>g
  <1>12. RwTaken(g[Grain], c, members) /\ Len(g[Grain].out) <= Grain
    BY <1>5, <1>6, <1>g, <1>s
  <1>13. Grain > 0 /\ members[c] # {} => Len(g[Grain].out) > 0
    <2> SUFFICES ASSUME Grain > 0, members[c] # {} PROVE Len(g[Grain].out) > 0
      OBVIOUS
    <2>1. PICK k \in Nat : k + 1 = Grain
      <3>1. Grain - 1 \in Nat /\ (Grain - 1) + 1 = Grain
        BY <1>g
      <3> QED
        BY <3>1
    <2> QED
      BY <1>5, <2>1
  <1> QED
    BY <1>11, <1>12, <1>13 DEF RwRounds, batch

LEMMA RwLogOut ==
  ASSUME RwInv, NEW t \in RW!VictimTypes, RW!LogOut(t)
  PROVE  LET c == RW!EvictClass(t)
             all == ByFlag(valid, dirty)
         IN  /\ c \in RW!Classes /\ (t = "Clean" => c = "clean") /\ (t = "Dirty" => c = "dirty")
             /\ evicted' \in Seq(RW!Desps) /\ IsInjective(evicted')
             /\ Len(evicted') <= Grain /\ (Grain > 0 => Len(evicted') > 0)
             /\ ToSet(evicted') \subseteq all[c]
             /\ RwHas(lru', [all EXCEPT ![c] = @ \ ToSet(evicted')])
             /\ valid = RW!Desps /\ valid' = valid \ ToSet(evicted')
             /\ dirty' = dirty \ ToSet(evicted') /\ asked' = t /\ StampGlobal' = StampGlobal
             /\ t \in {"Clean", "Any"} => valid # dirty
             /\ t \in {"Dirty", "Any"} => dirty # {}
  <1> DEFINE c == RW!EvictClass(t)
             all == ByFlag(valid, dirty)
             batch == CHOOSE f : RwRoundsIs(f, c)
  <1>1. /\ valid = RW!Desps /\ asked' = t /\ StampGlobal' = StampGlobal
        /\ t \in {"Clean", "Any"} => valid # dirty
        /\ t \in {"Dirty", "Any"} => dirty # {}
        /\ lru' = batch[Grain].l /\ evicted' = batch[Grain].out
        /\ valid' = valid \ RW!ToSet(evicted')
        /\ dirty' = dirty \ RW!ToSet(evicted')
    BY DEF RW!LogOut, RwRoundsIs
  <1>2. c \in RW!Classes /\ (t = "Clean" => c = "clean") /\ (t = "Dirty" => c = "dirty")
    BY RwNames DEF RW!EvictClass, RW!ClassOf
  <1>3. all[c] # {}
    <2>1. dirty \subseteq valid
      BY DEF RwInv, RW!TypeOK
    <2>2. t = "Any" \/ t = "Clean" \/ t = "Dirty"
      BY DEF RW!VictimTypes
    <2> QED
      BY <1>1, <1>2, <2>1, <2>2, RwNames DEF ByFlag
  <1> HIDE DEF c, all
  <1>4. RwRounds(batch[Grain], Grain, c, all)
    BY <1>2, RwBatch DEF RwInv, all
  <1> HIDE DEF batch
  <1>5. /\ evicted' \in Seq(RW!Desps) /\ IsInjective(evicted')
        /\ Len(evicted') <= Grain /\ (Grain > 0 => Len(evicted') > 0)
        /\ ToSet(evicted') \subseteq all[c]
        /\ RwHas(lru', [all EXCEPT ![c] = @ \ ToSet(evicted')])
    BY <1>1, <1>3, <1>4 DEF RwRounds, RwTaken
  <1> QED
    BY <1>1, <1>2, <1>5, RwNames DEF c, all

LEMMA RwStamp ==
  ASSUME NEW l, NEW members, RwHas(l, members), NEW d \in RW!Desps, NEW n \in 0 .. MaxStamp
  PROVE  RwHas([l EXCEPT !.node[d].stamp = n], members)
  <1> DEFINE l2 == [l EXCEPT !.node[d].stamp = n]
             n2 == [l.node EXCEPT ![d].stamp = n]
  <1>1. l \in RW!Lists /\ l.ok /\ members \in [RW!Classes -> SUBSET RW!Desps]
    BY DEF RwHas
  <1>2. l2 = [l EXCEPT !.node = n2]
    BY <1>1 DEF RW!Lists
  <1> HIDE DEF l2
  <1>3. /\ n2 \in [RW!Desps -> RW!Node]
        /\ \A e \in RW!Desps : n2[e].next = l.node[e].next /\ n2[e].last = l.node[e].last
    BY <1>1 DEF RW!Lists, RW!Node
  <1> HIDE DEF n2
  <1>4. l2 \in RW!Lists /\ l2.ok /\ l2.ctrl = l.ctrl /\ l2.node = n2
    BY <1>1, <1>2, <1>3 DEF RW!Lists
  <1>5. ASSUME NEW c \in RW!Classes
        PROVE  ListOf(RwList(l2, c), members[c], RW!Nil, RW!Desps)
    <2>1. ListOf(RwList(l, c), members[c], RW!Nil, RW!Desps) /\ members[c] \subseteq RW!Desps
      BY <1>1 DEF RwHas, RwLists
    <2> QED
      BY <1>3, <1>4, <2>1, RwKept
  <1>6. RwLists(l2, members)
    BY <1>5 DEF RwLists
  <1> QED
    BY <1>3, <1>4, <1>6 DEF RwHas, l2

LEMMA RwInit == RW!Init => RwInv
  <1> SUFFICES ASSUME RW!Init PROVE RwInv
    OBVIOUS
  <1> DEFINE D == RW!Desps
             nil == RW!Nil
             all == ByFlag(valid, dirty)
  <1>0. MaxStamp \in Nat
    BY LruStrategiesAssumption
  <1>1. /\ lru = [node |-> [d \in D |-> [next |-> nil, last |-> nil, stamp |-> 0]],
                  ctrl |-> [c \in RW!Classes |-> [first |-> nil, last |-> nil]],
                  ok   |-> TRUE]
        /\ StampGlobal = 0 /\ evicted = << >> /\ asked = "Any" /\ valid = {} /\ dirty = {}
    BY DEF RW!Init
  <1>2. lru \in RW!Lists /\ lru.ok
    BY <1>0, <1>1 DEF RW!Lists, RW!Node, RW!Ctrl
  <1>3. evicted \in Seq(D) /\ IsInjective(evicted)
    BY <1>1 DEF IsInjective
  <1>4. RW!TypeOK
    BY <1>0, <1>1, <1>2, <1>3, RwNames DEF RW!TypeOK, RW!VictimTypes
  <1>5. ASSUME NEW c \in RW!Classes PROVE ListOf(RwList(lru, c), all[c], nil, D)
    <2>1. RwList(lru, c).first = nil /\ RwList(lru, c).last = nil /\ all[c] = {}
      BY <1>1 DEF RwList, ByFlag
    <2> QED
      BY <2>1, ListOfNone
  <1>6. RwLists(lru, all)
    BY <1>5 DEF RwLists
  <1>7. all \in [RW!Classes -> SUBSET D] /\ all["clean"] \cap all["dirty"] = {}
    BY <1>1, RwNames DEF ByFlag
  <1>8. \A d \in D : lru.node[d].next = nil /\ lru.node[d].last = nil
    BY <1>1
  <1> QED
    BY <1>2, <1>4, <1>6, <1>7, <1>8 DEF RwInv, RwHas

LEMMA RwNext ==
  ASSUME RwInv, RW!Next
  PROVE  RwInv'
  <1> DEFINE D == RW!Desps
             all == ByFlag(valid, dirty)
  <1>0. MaxStamp \in Nat
    BY LruStrategiesAssumption
  <1>1. /\ lru \in RW!Lists /\ RwHas(lru, all) /\ StampGlobal \in 0 .. MaxStamp
        /\ evicted \in Seq(D) /\ IsInjective(evicted) /\ asked \in RW!VictimTypes
        /\ valid \subseteq D /\ dirty \subseteq valid
    BY RwNames DEF RwInv, RW!TypeOK
  <1>2. /\ all["clean"] = valid \ dirty /\ all["dirty"] = dirty
        /\ all \in [RW!Classes -> SUBSET D] /\ RW!Classes = {"clean", "dirty"}
    BY <1>1, RwNames DEF ByFlag
  <1>3. ASSUME RW!TypeOK', RwHas(lru', ByFlag(valid', dirty'))
        PROVE  RwInv'
    BY <1>3 DEF RwInv, ByFlag, RwHas, RwLists, RwList
  <1>4. ASSUME NEW d \in D, NEW isDirty \in BOOLEAN, RW!LogIn(d, isDirty)
        PROVE  RwInv'
    <2> DEFINE c == RW!ClassOf(isDirty)
               l2 == RW!addToLRUHead(lru, d, c)
    <2>1. /\ d \notin valid /\ valid' = valid \cup {d}
          /\ dirty' = IF isDirty THEN dirty \cup {d} ELSE dirty
          /\ evicted' = evicted /\ asked' = asked
          /\ StampGlobal' = StampGlobal + 1 /\ StampGlobal < MaxStamp
          /\ lru' = [l2 EXCEPT !.node[d].stamp = StampGlobal']
      BY <1>4 DEF RW!LogIn, RW!Stamp
    <2>2. StampGlobal' \in 0 .. MaxStamp
      BY <1>0, <1>1, <2>1
    <2>3. c \in RW!Classes /\ (isDirty => c = "dirty") /\ (~isDirty => c = "clean")
      BY <1>2 DEF RW!ClassOf
    <2>4. RwHas(l2, [all EXCEPT ![c] = @ \cup {d}])
      <3>1. d \in D \ (all["clean"] \cup all["dirty"])
        BY <1>1, <1>2, <2>1
      <3> QED
        BY <1>1, <2>3, <3>1, RwAdd
    <2>5. [all EXCEPT ![c] = @ \cup {d}] = ByFlag(valid', dirty')
      <3> DEFINE m2 == [all EXCEPT ![c] = @ \cup {d}]
      <3>1. m2 \in [RW!Classes -> SUBSET D] /\ ByFlag(valid', dirty') \in [RW!Classes -> SUBSET D]
        BY <1>1, <1>2, <2>1 DEF ByFlag
      <3>2. m2["clean"] = ByFlag(valid', dirty')["clean"]
        BY <1>1, <1>2, <2>1, <2>3 DEF ByFlag
      <3>3. m2["dirty"] = ByFlag(valid', dirty')["dirty"]
        BY <1>1, <1>2, <2>1, <2>3 DEF ByFlag
      <3> QED
        BY <1>2, <3>1, <3>2, <3>3
    <2> HIDE DEF l2, all
    <2>6. RwHas(lru', ByFlag(valid', dirty'))
      BY <2>1, <2>2, <2>4, <2>5, RwStamp
    <2>7. RW!TypeOK'
      BY <1>1, <2>1, <2>2, <2>6, RwNames DEF RW!TypeOK, RwHas
    <2> QED
      BY <1>3, <2>6, <2>7
  <1>5. ASSUME NEW d \in D, NEW isWrite \in BOOLEAN, RW!HitIn(d, isWrite)
        PROVE  RwInv'
    <2> DEFINE old == IF d \in dirty THEN "dirty" ELSE "clean"
               m1 == [all EXCEPT ![old] = @ \ {d}]
               c == RW!ClassOf(d \in dirty')
               m2 == [m1 EXCEPT ![c] = @ \cup {d}]
               l1 == RW!deleteFromLRU(lru, d)
               l2 == RW!addToLRUHead(l1, d, c)
    <2>1. /\ d \in valid /\ valid' = valid
          /\ dirty' = IF isWrite THEN dirty \cup {d} ELSE dirty
          /\ evicted' = evicted /\ asked' = asked
          /\ StampGlobal' = StampGlobal + 1 /\ StampGlobal < MaxStamp
          /\ lru' = [l2 EXCEPT !.node[d].stamp = StampGlobal']
      BY <1>5 DEF RW!HitIn, RW!Stamp, RW!moveToLRUHead
    <2>2. StampGlobal' \in 0 .. MaxStamp
      BY <1>0, <1>1, <2>1
    <2>3. old \in RW!Classes /\ d \in all[old]
      BY <1>2, <2>1
    <2>4. RwHas(l1, m1)
      BY <1>1, <2>3, RwDelete
    <2>5. /\ c \in RW!Classes /\ (d \in dirty' => c = "dirty") /\ (d \notin dirty' => c = "clean")
      BY <1>2 DEF RW!ClassOf
    <2>6. /\ m1 \in [RW!Classes -> SUBSET D]
          /\ m1["clean"] = (valid \ dirty) \ {d} /\ m1["dirty"] = dirty \ {d}
      BY <1>2, <2>3
    <2>7. RwHas(l2, m2)
      <3>1. d \in D \ (m1["clean"] \cup m1["dirty"])
        BY <2>6
      <3> HIDE DEF m1, c, l1
      <3> QED
        BY <2>4, <2>5, <3>1, RwAdd
    <2>8. m2 = ByFlag(valid', dirty')
      <3> HIDE DEF m1, c
      <3>1. m2 \in [RW!Classes -> SUBSET D] /\ ByFlag(valid', dirty') \in [RW!Classes -> SUBSET D]
        BY <1>1, <2>1, <2>5, <2>6 DEF ByFlag
      <3>2. m2["clean"] = ByFlag(valid', dirty')["clean"]
        BY <1>1, <1>2, <2>1, <2>5, <2>6 DEF ByFlag
      <3>3. m2["dirty"] = ByFlag(valid', dirty')["dirty"]
        <4>1. ByFlag(valid', dirty')["dirty"] = dirty'
          BY <1>2 DEF ByFlag
        <4>2. m2["dirty"] = IF d \in dirty' THEN (dirty \ {d}) \cup {d} ELSE dirty \ {d}
          BY <1>2, <2>5, <2>6
        <4>3. d \in dirty' => dirty' = (dirty \ {d}) \cup {d}
          BY <2>1
        <4>4. d \notin dirty' => dirty' = dirty \ {d}
          BY <2>1
        <4> QED
          BY <4>1, <4>2, <4>3, <4>4
      <3> QED
        BY <1>2, <3>1, <3>2, <3>3
    <2> HIDE DEF l2, m2, all
    <2>9. RwHas(lru', ByFlag(valid', dirty'))
      BY <2>1, <2>2, <2>7, <2>8, RwStamp
    <2>10. RW!TypeOK'
      BY <1>1, <2>1, <2>2, <2>9, RwNames DEF RW!TypeOK, RwHas
    <2> QED
      BY <1>3, <2>9, <2>10
  <1>6. ASSUME NEW t \in RW!VictimTypes, RW!LogOut(t)
        PROVE  RwInv'
    <2>1. PICK c \in RW!Classes :
            /\ evicted' \in Seq(D) /\ IsInjective(evicted')
            /\ ToSet(evicted') \subseteq all[c]
            /\ RwHas(lru', [all EXCEPT ![c] = @ \ ToSet(evicted')])
            /\ valid = D /\ valid' = valid \ ToSet(evicted')
            /\ dirty' = dirty \ ToSet(evicted') /\ asked' = t /\ StampGlobal' = StampGlobal
      BY <1>6, RwLogOut
    <2> DEFINE m2 == [all EXCEPT ![c] = @ \ ToSet(evicted')]
    <2>2. m2 = ByFlag(valid', dirty')
      <3>1. m2 \in [RW!Classes -> SUBSET D] /\ ByFlag(valid', dirty') \in [RW!Classes -> SUBSET D]
        BY <1>1, <1>2, <2>1 DEF ByFlag
      <3>2. m2["clean"] = ByFlag(valid', dirty')["clean"]
        BY <1>1, <1>2, <2>1 DEF ByFlag
      <3>3. m2["dirty"] = ByFlag(valid', dirty')["dirty"]
        BY <1>1, <1>2, <2>1 DEF ByFlag
      <3> QED
        BY <1>2, <3>1, <3>2, <3>3
    <2>3. RwHas(lru', ByFlag(valid', dirty'))
      BY <2>1, <2>2
    <2>4. RW!TypeOK'
      BY <1>1, <2>1, <2>3, RwNames DEF RW!TypeOK, RwHas
    <2> QED
      BY <1>3, <2>3, <2>4
  <1> QED
    BY <1>4, <1>5, <1>6 DEF RW!Next

LEMMA RwSound == RwInv => RW!ListsMatchCache
  <1> SUFFICES ASSUME RwInv PROVE RW!ListsMatchCache
    OBVIOUS
  <1> DEFINE D == RW!Desps
             nil == RW!Nil
             all == ByFlag(valid, dirty)
  <1>1. /\ lru \in RW!Lists /\ lru.ok /\ RW!TypeOK /\ RwLists(lru, all)
        /\ valid \subseteq D /\ dirty \subseteq valid
        /\ \A d \in D \ (all["clean"] \cup all["dirty"]) :
             lru.node[d].next = nil /\ lru.node[d].last = nil
    BY DEF RwInv, RW!TypeOK, RwHas
  <1>2. all["clean"] = valid \ dirty /\ all["dirty"] = dirty
    BY RwNames DEF ByFlag
  <1>3. NRw \in Nat /\ Cardinality(D) <= NRw + 1
    BY RwNames, LruStrategiesAssumption
  <1> HIDE DEF all
  <1>4. ASSUME NEW c \in RW!Classes
        PROVE  /\ RW!BackList(c) = Reverse(RW!List(c)) /\ IsInjective(RW!List(c))
               /\ ToSet(RW!List(c)) = all[c]
    <2> DEFINE l == RwList(lru, c)
    <2>1. DOMAIN l.next = D /\ DOMAIN l.pre = D
      BY DEF RwList
    <2>2. PICK s \in Seq(D) : ListIs(l, s, all[c], nil, D)
      BY <1>1 DEF RwLists, ListOf
    <2>4a. /\ l.first = lru.ctrl[c].first /\ l.next = [d \in D |-> lru.node[d].next]
           /\ l.last = lru.ctrl[c].last /\ l.pre = [d \in D |-> lru.node[d].last]
      BY DEF RwList
    <2>4b. \A start, follow : RW!Chain(start, follow) = Walk(start, follow, nil, NRw)
      BY DEF RW!Chain, RW!Walk, Walk, RW!Last, Last
    <2>5. RW!List(c) = Walk(l.first, l.next, nil, NRw)
      <3> HIDE DEF l
      <3> QED
        BY <2>4a, <2>4b, ZenonT(30) DEF RW!List
    <2>6. RW!BackList(c) = Walk(l.last, l.pre, nil, NRw)
      <3> HIDE DEF l
      <3> QED
        BY <2>4a, <2>4b, ZenonT(30) DEF RW!BackList
    <2> HIDE DEF l
    <2>3. Walk(l.first, l.next, nil, NRw) = s
      BY <1>3, <2>1, <2>2, ListShown, RwNames
    <2>4. Walk(l.last, l.pre, nil, NRw) = Reverse(s)
      BY <1>3, <2>1, <2>2, ListShown, RwNames
    <2> QED
      BY <2>2, <2>3, <2>4, <2>5, <2>6 DEF ListIs
  <1> QED
    BY <1>1, <1>2, <1>4, RwNames DEF RW!ListsMatchCache

-----------------------------------------------------------------------------
(***************************************************************************)
(* The shared LRU: what a sequence of writes makes of the list.            *)
(***************************************************************************)
SharedEnds == SharedDesps \cup {NoDesp}

SharedLists ==
  [next_lru : [SharedDesps -> SharedEnds], last_lru : [SharedDesps -> SharedEnds],
   first : SharedEnds, last : SharedEnds]

Writes == [field : {"next_lru", "last_lru", "first", "last"}, of : SharedEnds, value : SharedEnds]

LEMMA PutIs ==
  ASSUME NEW field \in {"next_lru", "last_lru", "first", "last"},
         NEW d \in SharedEnds, NEW value \in SharedEnds
  PROVE  SHARED!Put(field, d, value) \in Writes
  BY DEF SHARED!Put, Writes

\* The list after one write, field by field.
LEMMA WrittenIs ==
  ASSUME NEW l \in SharedLists, NEW v \in SharedEnds
  PROVE  /\ SHARED!Written(l, SHARED!Put("first", NoDesp, v)) = [l EXCEPT !.first = v]
         /\ SHARED!Written(l, SHARED!Put("last", NoDesp, v)) = [l EXCEPT !.last = v]
         /\ \A d \in SharedDesps :
              /\ SHARED!Written(l, SHARED!Put("next_lru", d, v)) = [l EXCEPT !.next_lru[d] = v]
              /\ SHARED!Written(l, SHARED!Put("last_lru", d, v)) = [l EXCEPT !.last_lru[d] = v]
  <1>0. NoDesp \notin SharedDesps
    BY LruStrategiesAssumption
  <1>1. SHARED!Written(l, SHARED!Put("first", NoDesp, v)) = [l EXCEPT !.first = v]
    BY DEF SHARED!Written, SHARED!Put
  <1>2. SHARED!Written(l, SHARED!Put("last", NoDesp, v)) = [l EXCEPT !.last = v]
    BY DEF SHARED!Written, SHARED!Put
  <1>3. ASSUME NEW d \in SharedDesps
        PROVE  SHARED!Written(l, SHARED!Put("next_lru", d, v)) = [l EXCEPT !.next_lru[d] = v]
    BY <1>0 DEF SHARED!Written, SHARED!Put
  <1>4. ASSUME NEW d \in SharedDesps
        PROVE  SHARED!Written(l, SHARED!Put("last_lru", d, v)) = [l EXCEPT !.last_lru[d] = v]
    BY <1>0 DEF SHARED!Written, SHARED!Put
  <1> QED
    BY <1>1, <1>2, <1>3, <1>4

LEMMA WrittenType ==
  ASSUME NEW l \in SharedLists, NEW w \in Writes
  PROVE  SHARED!Written(l, w) \in SharedLists
  <1>1. w.field \in {"next_lru", "last_lru", "first", "last"} /\ w.of \in SharedEnds /\ w.value \in SharedEnds
    BY DEF Writes
  <1>2. CASE w.field = "first"
    <2>1. SHARED!Written(l, w) = [l EXCEPT !.first = w.value]
      BY <1>2 DEF SHARED!Written
    <2> QED
      BY <1>1, <2>1 DEF SharedLists
  <1>3. CASE w.field = "last"
    <2>1. SHARED!Written(l, w) = [l EXCEPT !.last = w.value]
      BY <1>3 DEF SHARED!Written
    <2> QED
      BY <1>1, <2>1 DEF SharedLists
  <1>4. CASE w.of = NoDesp /\ w.field \notin {"first", "last"}
    BY <1>4 DEF SHARED!Written
  <1>5. CASE w.of # NoDesp /\ w.field = "next_lru"
    <2>1. SHARED!Written(l, w) = [l EXCEPT !.next_lru[w.of] = w.value]
      BY <1>5 DEF SHARED!Written
    <2> QED
      BY <1>1, <2>1 DEF SharedLists
  <1>6. CASE w.of # NoDesp /\ w.field = "last_lru"
    <2>1. SHARED!Written(l, w) = [l EXCEPT !.last_lru[w.of] = w.value]
      BY <1>6 DEF SHARED!Written
    <2> QED
      BY <1>1, <2>1 DEF SharedLists
  <1> QED
    BY <1>1, <1>2, <1>3, <1>4, <1>5, <1>6

\* The lists between the writes.
WritesBy(f, l, ws) ==
  f[0] = l /\ \A k \in 1 .. Len(ws) : f[k] = SHARED!Written(f[k - 1], ws[k])

WritesTo(f, l, ws) == f \in [0 .. Len(ws) -> SharedLists] /\ WritesBy(f, l, ws)

LEMMA WritesToOne ==
  ASSUME NEW l, NEW ws \in Seq(Writes), NEW f, WritesTo(f, l, ws), NEW g, WritesBy(g, l, ws)
  PROVE  g[Len(ws)] = f[Len(ws)]
  <1> DEFINE T == {n \in Nat : n <= Len(ws) => f[n] = g[n]}
  <1>1. 0 \in T
    BY DEF WritesTo, WritesBy
  <1>2. ASSUME NEW n \in Nat, n \in T PROVE n + 1 \in T
    <2> SUFFICES ASSUME n + 1 <= Len(ws) PROVE f[n + 1] = g[n + 1]
      OBVIOUS
    <2>1. n + 1 \in 1 .. Len(ws) /\ (n + 1) - 1 = n /\ n <= Len(ws)
      OBVIOUS
    <2> QED
      BY <1>2, <2>1 DEF WritesTo, WritesBy
  <1>3. Len(ws) \in T
    <2> HIDE DEF T
    <2> QED
      BY <1>1, <1>2, NatInduct
  <1> QED
    BY <1>3

LEMMA AllWrittenIs ==
  ASSUME NEW l \in SharedLists, NEW ws \in Seq(Writes)
  PROVE  \E f : WritesTo(f, l, ws) /\ SHARED!AllWritten(l, ws) = f[Len(ws)]
  <1> DEFINE S == SharedLists
             step == [n \in Nat |-> [x \in S |-> IF n + 1 \in 1 .. Len(ws)
                                                 THEN SHARED!Written(x, ws[n + 1]) ELSE x]]
             Eqn(f) == f = [k \in 0 .. Len(ws) |-> IF k = 0 THEN l
                                                    ELSE SHARED!Written(f[k - 1], ws[k])]
             after == CHOOSE f : Eqn(f)
  <1>n. Len(ws) \in Nat /\ \A k \in 1 .. Len(ws) : ws[k] \in Writes
    OBVIOUS
  <1>1. step \in [Nat -> [S -> S]]
    BY <1>n, WrittenType
  <1>2. PICK g : g \in [Nat -> S] /\ g[0] = l /\ \A n \in Nat : g[n + 1] = step[n][g[n]]
    <2> HIDE DEF S, step
    <2>0. l \in S
      BY DEF S
    <2>1. \E g : Iterates(g, l, step, S)
      BY <1>1, <2>0, Iteration
    <2> QED
      BY <2>1 DEF Iterates
  <1> DEFINE h == [k \in 0 .. Len(ws) |-> g[k]]
  <1>3. ASSUME NEW k \in 1 .. Len(ws) PROVE g[k] = SHARED!Written(g[k - 1], ws[k])
    <2>1. k - 1 \in Nat /\ (k - 1) + 1 = k
      BY <1>n
    <2>2. g[k] = step[k - 1][g[k - 1]] /\ g[k - 1] \in S
      BY <1>2, <2>1
    <2> QED
      BY <2>1, <2>2
  <1> HIDE DEF step
  <1>4. WritesTo(h, l, ws)
    <2>1. h \in [0 .. Len(ws) -> SharedLists] /\ h[0] = l
      BY <1>2, <1>n
    <2>2. ASSUME NEW k \in 1 .. Len(ws) PROVE h[k] = SHARED!Written(h[k - 1], ws[k])
      <3>1. k - 1 \in 0 .. Len(ws) /\ k \in 0 .. Len(ws)
        BY <1>n
      <3> QED
        BY <1>3, <3>1
    <2> QED
      BY <2>1, <2>2 DEF WritesTo, WritesBy
  <1>5. Eqn(h)
    <2>1. ASSUME NEW k \in 0 .. Len(ws)
          PROVE  g[k] = IF k = 0 THEN l ELSE SHARED!Written(h[k - 1], ws[k])
      <3>1. k # 0 => k \in 1 .. Len(ws) /\ k - 1 \in 0 .. Len(ws)
        BY <1>n
      <3> QED
        BY <1>2, <1>3, <3>1
    <2> QED
      BY <2>1
  <1> HIDE DEF h
  <1>6. Eqn(after)
    <2> HIDE DEF Eqn
    <2> QED
      BY <1>5
  <1>7. SHARED!AllWritten(l, ws) = after[Len(ws)]
    BY DEF SHARED!AllWritten
  <1> HIDE DEF after
  <1>8. after[0] = l /\ \A k \in 1 .. Len(ws) : after[k] = SHARED!Written(after[k - 1], ws[k])
    BY <1>6, <1>n
  <1>9. after[Len(ws)] = h[Len(ws)]
    <2>1. WritesBy(after, l, ws)
      BY <1>8 DEF WritesBy
    <2> QED
      BY <1>4, <2>1, WritesToOne
  <1> QED
    BY <1>4, <1>7, <1>9

LEMMA AllWrittenNone ==
  ASSUME NEW l \in SharedLists
  PROVE  SHARED!AllWritten(l, << >>) = l
  <1>1. << >> \in Seq(Writes) /\ Len(<< >>) = 0
    OBVIOUS
  <1>2. PICK f : WritesTo(f, l, << >>) /\ SHARED!AllWritten(l, << >>) = f[Len(<< >>)]
    BY <1>1, AllWrittenIs
  <1> QED
    BY <1>1, <1>2 DEF WritesTo, WritesBy

LEMMA AllWrittenType ==
  ASSUME NEW l \in SharedLists, NEW ws \in Seq(Writes)
  PROVE  SHARED!AllWritten(l, ws) \in SharedLists
  <1>1. PICK f : WritesTo(f, l, ws) /\ SHARED!AllWritten(l, ws) = f[Len(ws)]
    BY AllWrittenIs
  <1>2. Len(ws) \in 0 .. Len(ws)
    OBVIOUS
  <1> QED
    BY <1>1, <1>2 DEF WritesTo, WritesBy

\* One write after the other, or in two parts, comes to the same list.
LEMMA AllWrittenHead ==
  ASSUME NEW l \in SharedLists, NEW ws \in Seq(Writes), ws # << >>
  PROVE  /\ SHARED!AllWritten(l, ws) = SHARED!AllWritten(SHARED!Written(l, Head(ws)), Tail(ws))
         /\ SHARED!Written(l, Head(ws)) \in SharedLists /\ Tail(ws) \in Seq(Writes)
  <1> DEFINE l2 == SHARED!Written(l, Head(ws))
             n == Len(ws)
             rest == Tail(ws)
  <1>1. /\ n \in Nat \ {0} /\ Head(ws) = ws[1] /\ Head(ws) \in Writes
        /\ rest \in Seq(Writes) /\ Len(rest) = n - 1
        /\ \A k \in 1 .. n - 1 : rest[k] = ws[k + 1]
    OBVIOUS
  <1>2. l2 \in SharedLists
    BY <1>1, WrittenType
  <1>3. PICK f : WritesTo(f, l, ws) /\ SHARED!AllWritten(l, ws) = f[n]
    BY AllWrittenIs
  <1>4. PICK g : WritesTo(g, l2, rest) /\ SHARED!AllWritten(l2, rest) = g[n - 1]
    BY <1>1, <1>2, AllWrittenIs
  <1> HIDE DEF n, rest
  <1> DEFINE h == [k \in 0 .. n - 1 |-> f[k + 1]]
  <1>5. h[0] = l2
    <2>1. 1 \in 1 .. Len(ws) /\ f[1] = SHARED!Written(f[1 - 1], ws[1]) /\ f[0] = l
      BY <1>1, <1>3 DEF WritesTo, WritesBy, n
    <2> QED
      BY <1>1, <2>1
  <1>6. ASSUME NEW k \in 1 .. Len(rest) PROVE h[k] = SHARED!Written(h[k - 1], rest[k])
    <2>1. /\ k + 1 \in 1 .. Len(ws) /\ (k + 1) - 1 = k /\ (k - 1) + 1 = k
          /\ k \in 0 .. n - 1 /\ k - 1 \in 0 .. n - 1 /\ rest[k] = ws[k + 1]
      BY <1>1 DEF n
    <2>2. f[k + 1] = SHARED!Written(f[k], ws[k + 1])
      BY <1>3, <2>1 DEF WritesTo, WritesBy
    <2> QED
      BY <2>1, <2>2
  <1>7. h[n - 1] = f[n]
    BY <1>1
  <1> HIDE DEF h, l2
  <1>8. h[n - 1] = g[n - 1]
    <2>0. WritesBy(h, l2, rest)
      BY <1>5, <1>6 DEF WritesBy
    <2>1. h[Len(rest)] = g[Len(rest)]
      BY <1>1, <1>4, <2>0, WritesToOne
    <2> QED
      BY <1>1, <2>1
  <1> QED
    BY <1>1, <1>2, <1>3, <1>4, <1>7, <1>8 DEF l2, rest

LEMMA AllWrittenParts ==
  ASSUME NEW l \in SharedLists, NEW a \in Seq(Writes), NEW b \in Seq(Writes)
  PROVE  SHARED!AllWritten(l, a \o b) = SHARED!AllWritten(SHARED!AllWritten(l, a), b)
  <1> DEFINE l2 == SHARED!AllWritten(l, a)
             both == a \o b
             m == Len(a)
             n == Len(b)
  <1>1. /\ m \in Nat /\ n \in Nat /\ both \in Seq(Writes) /\ Len(both) = m + n
        /\ \A k \in 1 .. m + n : both[k] = IF k <= m THEN a[k] ELSE b[k - m]
    OBVIOUS
  <1>2. PICK f : WritesTo(f, l, a) /\ l2 = f[m]
    BY AllWrittenIs
  <1>3. l2 \in SharedLists
    BY AllWrittenType
  <1>4. PICK g : WritesTo(g, l2, b) /\ SHARED!AllWritten(l2, b) = g[n]
    BY <1>3, AllWrittenIs
  <1>5. PICK h : WritesTo(h, l, both) /\ SHARED!AllWritten(l, both) = h[m + n]
    BY <1>1, AllWrittenIs
  <1> HIDE DEF l2, both, m, n
  <1> DEFINE j == [k \in 0 .. m + n |-> IF k <= m THEN f[k] ELSE g[k - m]]
  <1>6. j[0] = l
    BY <1>1, <1>2 DEF WritesTo, WritesBy
  <1>7. ASSUME NEW k \in 1 .. Len(both) PROVE j[k] = SHARED!Written(j[k - 1], both[k])
    <2>1. k \in 0 .. m + n /\ k - 1 \in 0 .. m + n
      BY <1>1
    <2>2. CASE k <= m
      <3>1. k \in 1 .. Len(a) /\ k - 1 <= m
        BY <1>1, <2>2 DEF m
      <3> QED
        BY <1>1, <1>2, <2>1, <2>2, <3>1 DEF WritesTo, WritesBy
    <2>3. CASE ~(k <= m)
      <3>1. k - m \in 1 .. Len(b) /\ (k - m) - 1 = (k - 1) - m
        BY <1>1, <2>3 DEF n
      <3>2. g[k - m] = SHARED!Written(g[(k - 1) - m], b[k - m])
        BY <1>4, <3>1 DEF WritesTo, WritesBy
      <3>3. j[k - 1] = g[(k - 1) - m]
        <4>1. CASE k - 1 <= m
          <5>1. k - 1 = m
            BY <1>1, <2>3, <4>1
          <5>2. g[0] = f[m]
            BY <1>2, <1>4 DEF WritesTo, WritesBy
          <5> QED
            BY <1>1, <2>1, <5>1, <5>2
        <4>2. CASE ~(k - 1 <= m)
          BY <2>1, <4>2
        <4> QED
          BY <4>1, <4>2
      <3>4. j[k] = g[k - m] /\ both[k] = b[k - m]
        BY <1>1, <2>1, <2>3
      <3> HIDE DEF j
      <3> QED
        BY <3>2, <3>3, <3>4
    <2> QED
      BY <2>2, <2>3
  <1>8. j[m + n] = g[n]
    <2>1. CASE n = 0
      <3>1. g[0] = f[m]
        BY <1>2, <1>4 DEF WritesTo, WritesBy
      <3> QED
        BY <1>1, <2>1, <3>1
    <2>2. CASE n # 0
      <3>1. ~(m + n <= m) /\ (m + n) - m = n /\ m + n \in 0 .. m + n
        BY <1>1, <2>2
      <3> QED
        BY <3>1
    <2> QED
      BY <2>1, <2>2
  <1> HIDE DEF j
  <1>9. j[Len(both)] = h[Len(both)]
    <2>1. WritesBy(j, l, both)
      BY <1>6, <1>7 DEF WritesBy
    <2> QED
      BY <1>1, <1>5, <2>1, WritesToOne
  <1> QED
    BY <1>1, <1>4, <1>5, <1>8, <1>9 DEF both, l2

LEMMA TwoWritten ==
  ASSUME NEW l \in SharedLists, NEW w1 \in Writes, NEW w2 \in Writes
  PROVE  SHARED!AllWritten(l, <<w1, w2>>) = SHARED!Written(SHARED!Written(l, w1), w2)
  <1>1. /\ <<w1, w2>> \in Seq(Writes) /\ <<w1, w2>> # << >>
        /\ Head(<<w1, w2>>) = w1 /\ Tail(<<w1, w2>>) = <<w2>>
        /\ <<w2>> \in Seq(Writes) /\ <<w2>> # << >>
        /\ Head(<<w2>>) = w2 /\ Tail(<<w2>>) = << >>
    OBVIOUS
  <1> DEFINE l1 == SHARED!Written(l, w1)
             l2 == SHARED!Written(l1, w2)
  <1>2. l1 \in SharedLists
    BY WrittenType
  <1>3. SHARED!AllWritten(l, <<w1, w2>>) = SHARED!AllWritten(l1, <<w2>>)
    BY <1>1, AllWrittenHead
  <1> HIDE DEF l1
  <1>4. l2 \in SharedLists
    BY <1>2, WrittenType
  <1>5. SHARED!AllWritten(l1, <<w2>>) = SHARED!AllWritten(l2, << >>)
    BY <1>1, <1>2, AllWrittenHead
  <1> HIDE DEF l2
  <1>6. SHARED!AllWritten(l2, << >>) = l2
    BY <1>4, AllWrittenNone
  <1> QED
    BY <1>3, <1>5, <1>6 DEF l1, l2

LEMMA FourWritten ==
  ASSUME NEW l \in SharedLists, NEW w1 \in Writes, NEW w2 \in Writes,
         NEW w3 \in Writes, NEW w4 \in Writes
  PROVE  SHARED!AllWritten(l, <<w1, w2, w3, w4>>)
           = SHARED!Written(SHARED!Written(SHARED!Written(SHARED!Written(l, w1), w2), w3), w4)
  <1> DEFINE l1 == SHARED!Written(l, w1)
             l2 == SHARED!Written(l1, w2)
  <1>1. <<w1, w2>> \in Seq(Writes) /\ <<w3, w4>> \in Seq(Writes)
        /\ <<w1, w2, w3, w4>> = <<w1, w2>> \o <<w3, w4>>
    OBVIOUS
  <1>2. SHARED!AllWritten(l, <<w1, w2>>) = l2
    BY TwoWritten
  <1>3. l2 \in SharedLists
    BY WrittenType
  <1> HIDE DEF l2
  <1>4. SHARED!AllWritten(l, <<w1, w2>> \o <<w3, w4>>) = SHARED!AllWritten(l2, <<w3, w4>>)
    BY <1>1, <1>2, AllWrittenParts
  <1>5. SHARED!AllWritten(l2, <<w3, w4>>) = SHARED!Written(SHARED!Written(l2, w3), w4)
    BY <1>3, TwoWritten
  <1> QED
    BY <1>1, <1>4, <1>5 DEF l2

-----------------------------------------------------------------------------
SharedList(l) == [first |-> l.first, last |-> l.last, next |-> l.next_lru, pre |-> l.last_lru]

\* List l has these descriptors, and the links of all others are cleared.
SharedHas(l, members) ==
  /\ ListOf(SharedList(l), members, NoDesp, SharedDesps)
  /\ Unlinked(SharedList(l), SharedDesps \ members, NoDesp)

LEMMA SharedWrites ==
  ASSUME NEW l \in SharedLists, NEW d \in SharedDesps
  PROVE  /\ SHARED!addToLRUHead(l, d) \in Seq(Writes)
         /\ SHARED!deleteFromLRU(l, d) \in Seq(Writes)
         /\ SHARED!moveToLRUHead(l, d) \in Seq(Writes)
  <1>1. /\ l.first \in SharedEnds /\ l.last \in SharedEnds /\ d \in SharedEnds /\ NoDesp \in SharedEnds
        /\ l.next_lru[d] \in SharedEnds /\ l.last_lru[d] \in SharedEnds
    BY DEF SharedLists, SharedEnds
  <1>2. SHARED!addToLRUHead(l, d) \in Seq(Writes)
    BY <1>1, PutIs DEF SHARED!addToLRUHead
  <1>3. SHARED!deleteFromLRU(l, d) \in Seq(Writes)
    BY <1>1, PutIs DEF SHARED!deleteFromLRU
  <1> DEFINE l2 == SHARED!AllWritten(l, SHARED!deleteFromLRU(l, d))
  <1>4. l2 \in SharedLists
    BY <1>3, AllWrittenType
  <1>5. SHARED!moveToLRUHead(l, d) = SHARED!deleteFromLRU(l, d) \o SHARED!addToLRUHead(l2, d)
    BY DEF SHARED!moveToLRUHead
  <1> HIDE DEF l2
  <1>6. l2.first \in SharedEnds /\ l2.last \in SharedEnds
    BY <1>4 DEF SharedLists
  <1>7. SHARED!addToLRUHead(l2, d) \in Seq(Writes)
    BY <1>1, <1>6, PutIs DEF SHARED!addToLRUHead
  <1> QED
    BY <1>2, <1>3, <1>5, <1>7

LEMMA SharedAdd ==
  ASSUME NEW l \in SharedLists, NEW members, SharedHas(l, members),
         NEW d \in SharedDesps \ members
  PROVE  SharedHas(SHARED!AllWritten(l, SHARED!addToLRUHead(l, d)), members \cup {d})
  <1> DEFINE l2 == SHARED!AllWritten(l, SHARED!addToLRUHead(l, d))
  <1>0. NoDesp \notin SharedDesps
    BY LruStrategiesAssumption
  <1>1. /\ SharedList(l).first = NoDesp <=> members = {}
        /\ SharedList(l).last = NoDesp <=> members = {}
        /\ members # {} => SharedList(l).first \in members
        /\ members \subseteq SharedDesps
    BY <1>0, ListOfEnds DEF SharedHas
  <1>2. /\ l.first = NoDesp <=> members = {}
        /\ l.last = NoDesp <=> members = {}
        /\ members # {} => l.first \in members
        /\ l.next_lru[d] = NoDesp /\ l.last_lru[d] = NoDesp
        /\ l.first \in SharedEnds /\ d \in SharedEnds /\ NoDesp \in SharedEnds
    BY <1>1 DEF SharedHas, Unlinked, SharedList, SharedLists, SharedEnds
  <1>3. /\ l2.first = d /\ l2.last = IF members = {} THEN d ELSE l.last
        /\ l2.next_lru[d] = l.first /\ l2.last_lru[d] = NoDesp
        /\ l.first # NoDesp => l2.last_lru[l.first] = d
        /\ \A e \in SharedDesps \ {d} : /\ l2.next_lru[e] = l.next_lru[e]
                                        /\ e # l.first => l2.last_lru[e] = l.last_lru[e]
    <2>1. CASE members = {}
      <3> DEFINE w1 == SHARED!Put("first", NoDesp, d)
                 w2 == SHARED!Put("last", NoDesp, d)
                 l1 == [l EXCEPT !.first = d]
      <3>1. SHARED!addToLRUHead(l, d) = <<w1, w2>>
        BY <1>2, <2>1 DEF SHARED!addToLRUHead
      <3>2. w1 \in Writes /\ w2 \in Writes
        BY <1>2, PutIs
      <3>3. SHARED!Written(l, w1) = l1 /\ l1 \in SharedLists
        BY <1>2, WrittenIs DEF SharedLists
      <3>4. SHARED!Written(l1, w2) = [l1 EXCEPT !.last = d]
        <4> HIDE DEF l1
        <4> QED
          BY <1>2, <3>3, WrittenIs
      <3>5. l2 = [l1 EXCEPT !.last = d]
        <4> HIDE DEF l1, w1, w2
        <4> QED
          BY <3>1, <3>2, <3>3, <3>4, TwoWritten
      <3> QED
        BY <1>2, <2>1, <3>5 DEF SharedLists
    <2>2. CASE members # {}
      <3> DEFINE w1 == SHARED!Put("next_lru", d, l.first)
                 w2 == SHARED!Put("last_lru", d, NoDesp)
                 w3 == SHARED!Put("last_lru", l.first, d)
                 w4 == SHARED!Put("first", NoDesp, d)
                 l1 == [l EXCEPT !.next_lru[d] = l.first]
                 l3 == [l1 EXCEPT !.last_lru[d] = NoDesp]
                 l4 == [l3 EXCEPT !.last_lru[l.first] = d]
      <3>0. l.first \in members /\ l.first \in SharedDesps
        BY <1>1, <1>2, <2>2
      <3>1. SHARED!addToLRUHead(l, d) = <<w1, w2, w3, w4>>
        BY <1>2, <2>2 DEF SHARED!addToLRUHead
      <3>2. w1 \in Writes /\ w2 \in Writes /\ w3 \in Writes /\ w4 \in Writes
        <4>1. w1 \in Writes /\ w2 \in Writes
          BY <1>2, PutIs
        <4>2. w3 \in Writes /\ w4 \in Writes
          BY <1>2, PutIs
        <4> QED
          BY <4>1, <4>2
      <3>a. SHARED!Written(l, w1) = l1
        <4>1. \A h \in SharedDesps :
                SHARED!Written(l, SHARED!Put("next_lru", h, l.first)) = [l EXCEPT !.next_lru[h] = l.first]
          BY <1>2, WrittenIs, SMTT(20)
        <4> QED
          BY <4>1
      <3>3. SHARED!Written(l, w1) = l1 /\ l1 \in SharedLists
        <4> HIDE DEF w1, l1
        <4> QED
          BY <3>2, <3>a, WrittenType
      <3>5. l1.next_lru = [l.next_lru EXCEPT ![d] = l.first] /\ l1.last_lru = l.last_lru
            /\ l1.first = l.first /\ l1.last = l.last
        BY DEF SharedLists
      <3> HIDE DEF l1
      <3>b. SHARED!Written(l1, w2) = l3
        BY <1>2, <3>3, WrittenIs
      <3>6. SHARED!Written(l1, w2) = l3 /\ l3 \in SharedLists
        <4> HIDE DEF w2, l3
        <4> QED
          BY <3>2, <3>3, <3>b, WrittenType
      <3>7. l3.last_lru = [l1.last_lru EXCEPT ![d] = NoDesp] /\ l3.next_lru = l1.next_lru
            /\ l3.first = l1.first /\ l3.last = l1.last
        BY <3>3 DEF SharedLists
      <3> HIDE DEF l3
      <3>c. SHARED!Written(l3, w3) = l4
        <4>1. \A h \in SharedDesps :
                SHARED!Written(l3, SHARED!Put("last_lru", h, d)) = [l3 EXCEPT !.last_lru[h] = d]
          BY <1>2, <3>6, WrittenIs
        <4> QED
          BY <3>0, <4>1
      <3>8. SHARED!Written(l3, w3) = l4 /\ l4 \in SharedLists
        <4> HIDE DEF w3, l4
        <4> QED
          BY <3>2, <3>6, <3>c, WrittenType
      <3>9. l4.last_lru = [l3.last_lru EXCEPT ![l.first] = d] /\ l4.next_lru = l3.next_lru
            /\ l4.first = l3.first /\ l4.last = l3.last
        BY <3>6 DEF SharedLists
      <3> HIDE DEF l4
      <3>10. SHARED!Written(l4, w4) = [l4 EXCEPT !.first = d]
        BY <1>2, <3>8, WrittenIs
      <3>11. l2 = [l4 EXCEPT !.first = d]
        <4> HIDE DEF w1, w2, w3, w4
        <4> QED
          BY <3>1, <3>2, <3>3, <3>6, <3>8, <3>10, FourWritten
      <3> HIDE DEF l2
      <3>12. l2.first = d /\ l2.last = l.last /\ l2.next_lru = l4.next_lru /\ l2.last_lru = l4.last_lru
        BY <3>5, <3>7, <3>8, <3>9, <3>11 DEF SharedLists
      <3>13. l.next_lru \in [SharedDesps -> SharedEnds] /\ l.last_lru \in [SharedDesps -> SharedEnds]
        BY DEF SharedLists
      <3>14. l.first # d
        BY <3>0
      <3> QED
        BY <2>2, <3>0, <3>5, <3>7, <3>9, <3>12, <3>13, <3>14
    <2> QED
      BY <2>1, <2>2
  <1> HIDE DEF l2
  <1>4. PutInFront(SharedList(l), SharedList(l2), d, NoDesp, SharedDesps)
    BY <1>2, <1>3 DEF PutInFront, SharedList
  <1>5. /\ ListOf(SharedList(l2), members \cup {d}, NoDesp, SharedDesps)
        /\ SameLinks(SharedList(l), SharedList(l2), (SharedDesps \ members) \ {d})
    BY <1>0, <1>4, FrontListOf DEF SharedHas
  <1> QED
    BY <1>5 DEF SharedHas, Unlinked, SameLinks, l2

LEMMA SharedDelete ==
  ASSUME NEW l \in SharedLists, NEW members, SharedHas(l, members), NEW d \in members
  PROVE  SharedHas(SHARED!AllWritten(l, SHARED!deleteFromLRU(l, d)), members \ {d})
  <1> DEFINE older == l.next_lru[d]
             newer == l.last_lru[d]
             w1 == IF newer # NoDesp THEN SHARED!Put("next_lru", newer, older)
                                     ELSE SHARED!Put("first", NoDesp, older)
             w2 == IF older # NoDesp THEN SHARED!Put("last_lru", older, newer)
                                     ELSE SHARED!Put("last", NoDesp, newer)
             w3 == SHARED!Put("next_lru", d, NoDesp)
             w4 == SHARED!Put("last_lru", d, NoDesp)
             l1 == SHARED!Written(l, w1)
             l2 == SHARED!Written(l1, w2)
             l3 == SHARED!Written(l2, w3)
             l4 == SHARED!Written(l3, w4)
  <1>0. NoDesp \notin SharedDesps
    BY LruStrategiesAssumption
  <1>1. members \subseteq SharedDesps /\ d \in SharedDesps
    <2>1. members \subseteq SharedDesps
      BY <1>0, ListOfEnds DEF SharedHas
    <2> QED
      BY <2>1
  <1>2. /\ SharedList(l).next[d] \in (members \ {d}) \cup {NoDesp}
        /\ SharedList(l).pre[d] \in (members \ {d}) \cup {NoDesp}
    BY <1>0, ListOfLinks DEF SharedHas
  <1>3. older \in (members \ {d}) \cup {NoDesp} /\ newer \in (members \ {d}) \cup {NoDesp}
    BY <1>2 DEF SharedList
  <1>4. SHARED!deleteFromLRU(l, d) = <<w1, w2, w3, w4>>
    BY DEF SHARED!deleteFromLRU
  <1>5. /\ older \in SharedEnds /\ newer \in SharedEnds /\ d \in SharedEnds /\ NoDesp \in SharedEnds
        /\ (older # NoDesp => older \in SharedDesps) /\ (newer # NoDesp => newer \in SharedDesps)
        /\ older # d /\ newer # d
    BY <1>0, <1>1, <1>3 DEF SharedEnds
  <1> HIDE DEF older, newer
  <1>6. w1 \in Writes /\ w2 \in Writes /\ w3 \in Writes /\ w4 \in Writes
    BY <1>5, PutIs
  <1>7. /\ l1 \in SharedLists
        /\ l1.first = (IF newer = NoDesp THEN older ELSE l.first) /\ l1.last = l.last
        /\ \A e \in SharedDesps :
             /\ l1.next_lru[e] = IF e = newer THEN older ELSE l.next_lru[e]
             /\ l1.last_lru[e] = l.last_lru[e]
    <2>0. l1 \in SharedLists
      <3> HIDE DEF w1
      <3> QED
        BY <1>6, WrittenType
    <2>1. CASE newer # NoDesp
      <3>1. \A e \in SharedDesps :
              SHARED!Written(l, SHARED!Put("next_lru", e, older)) = [l EXCEPT !.next_lru[e] = older]
        BY <1>5, WrittenIs
      <3>2. l1 = [l EXCEPT !.next_lru[newer] = older]
        BY <1>5, <2>1, <3>1
      <3> HIDE DEF l1
      <3> QED
        BY <1>5, <2>0, <2>1, <3>2 DEF SharedLists
    <2>2. CASE newer = NoDesp
      <3>1. l1 = [l EXCEPT !.first = older]
        BY <1>5, <2>2, WrittenIs
      <3> HIDE DEF l1
      <3> QED
        BY <1>0, <2>0, <2>2, <3>1 DEF SharedLists
    <2> QED
      BY <2>1, <2>2
  <1> HIDE DEF l1
  <1>8. /\ l2 \in SharedLists
        /\ l2.last = (IF older = NoDesp THEN newer ELSE l1.last) /\ l2.first = l1.first
        /\ \A e \in SharedDesps :
             /\ l2.last_lru[e] = IF e = older THEN newer ELSE l1.last_lru[e]
             /\ l2.next_lru[e] = l1.next_lru[e]
    <2>0. l2 \in SharedLists
      <3> HIDE DEF w2
      <3> QED
        BY <1>6, <1>7, WrittenType
    <2>1. CASE older # NoDesp
      <3>1. \A e \in SharedDesps :
              SHARED!Written(l1, SHARED!Put("last_lru", e, newer)) = [l1 EXCEPT !.last_lru[e] = newer]
        BY <1>5, <1>7, WrittenIs
      <3>2. l2 = [l1 EXCEPT !.last_lru[older] = newer]
        BY <1>5, <2>1, <3>1
      <3>3. l1 \in SharedLists
        BY <1>7
      <3> HIDE DEF l2
      <3> QED
        BY <1>5, <2>0, <2>1, <3>2, <3>3 DEF SharedLists
    <2>2. CASE older = NoDesp
      <3>1. l2 = [l1 EXCEPT !.last = newer]
        BY <1>5, <1>7, <2>2, WrittenIs
      <3>3. l1 \in SharedLists
        BY <1>7
      <3> HIDE DEF l2
      <3> QED
        BY <1>0, <2>0, <2>2, <3>1, <3>3 DEF SharedLists
    <2> QED
      BY <2>1, <2>2
  <1> HIDE DEF l2
  <1>9. /\ l3 \in SharedLists /\ l3.first = l2.first /\ l3.last = l2.last
        /\ l3.next_lru[d] = NoDesp /\ l3.last_lru = l2.last_lru
        /\ \A e \in SharedDesps \ {d} : l3.next_lru[e] = l2.next_lru[e]
    <2>1. l2 \in SharedLists
      BY <1>8
    <2>2. l3 = [l2 EXCEPT !.next_lru[d] = NoDesp]
      BY <1>1, <1>5, <2>1, WrittenIs
    <2>3. l3 \in SharedLists
      <3> HIDE DEF w3
      <3> QED
        BY <1>6, <2>1, WrittenType
    <2> HIDE DEF l3
    <2> QED
      BY <1>1, <2>1, <2>2, <2>3 DEF SharedLists
  <1> HIDE DEF l3
  <1>10. /\ l4 \in SharedLists /\ l4.first = l3.first /\ l4.last = l3.last
         /\ l4.last_lru[d] = NoDesp /\ l4.next_lru = l3.next_lru
         /\ \A e \in SharedDesps \ {d} : l4.last_lru[e] = l3.last_lru[e]
    <2>1. l3 \in SharedLists
      BY <1>9
    <2>2. l4 = [l3 EXCEPT !.last_lru[d] = NoDesp]
      BY <1>1, <1>5, <2>1, WrittenIs
    <2>3. l4 \in SharedLists
      <3> HIDE DEF w4
      <3> QED
        BY <1>6, <2>1, WrittenType
    <2> HIDE DEF l4
    <2> QED
      BY <1>1, <2>1, <2>2, <2>3 DEF SharedLists
  <1>11. SHARED!AllWritten(l, SHARED!deleteFromLRU(l, d)) = l4
    <2> HIDE DEF w1, w2, w3, w4
    <2> QED
      BY <1>4, <1>6, FourWritten DEF l1, l2, l3
  <1> HIDE DEF l4
  <1>12. TakenOut(SharedList(l), SharedList(l4), d, NoDesp, SharedDesps)
    BY <1>1, <1>5, <1>7, <1>8, <1>9, <1>10 DEF TakenOut, SharedList, older, newer
  <1>13. /\ ListOf(SharedList(l4), members \ {d}, NoDesp, SharedDesps)
         /\ SameLinks(SharedList(l), SharedList(l4), SharedDesps \ members)
         /\ SharedList(l4).next[d] = NoDesp /\ SharedList(l4).pre[d] = NoDesp
    <2>1. ListOf(SharedList(l), members, NoDesp, SharedDesps)
      BY DEF SharedHas
    <2>2. ListOf(SharedList(l4), members \ {d}, NoDesp, SharedDesps)
      BY <1>0, <1>12, <2>1, TakenListOf
    <2>3. SameLinks(SharedList(l), SharedList(l4), SharedDesps \ members)
      BY <1>0, <1>12, <2>1, TakenListOf
    <2> QED
      BY <1>12, <2>2, <2>3 DEF TakenOut
  <1> QED
    BY <1>11, <1>13 DEF SharedHas, Unlinked, SameLinks

LEMMA SharedMove ==
  ASSUME NEW l \in SharedLists, NEW members, SharedHas(l, members), NEW d \in members
  PROVE  SharedHas(SHARED!AllWritten(l, SHARED!moveToLRUHead(l, d)), members)
  <1> DEFINE l1 == SHARED!AllWritten(l, SHARED!deleteFromLRU(l, d))
             l2 == SHARED!AllWritten(l1, SHARED!addToLRUHead(l1, d))
  <1>0. NoDesp \notin SharedDesps
    BY LruStrategiesAssumption
  <1>1. members \subseteq SharedDesps /\ d \in SharedDesps
    <2>1. members \subseteq SharedDesps
      BY <1>0, ListOfEnds DEF SharedHas
    <2> QED
      BY <2>1
  <1>2. l1 \in SharedLists /\ SharedHas(l1, members \ {d})
    BY <1>1, SharedWrites, SharedDelete, AllWrittenType
  <1>3. SHARED!moveToLRUHead(l, d) = SHARED!deleteFromLRU(l, d) \o SHARED!addToLRUHead(l1, d)
    BY DEF SHARED!moveToLRUHead
  <1>6. SHARED!deleteFromLRU(l, d) \in Seq(Writes)
    BY <1>1, SharedWrites
  <1>7. l1 = SHARED!AllWritten(l, SHARED!deleteFromLRU(l, d))
    OBVIOUS
  <1> HIDE DEF l1
  <1>4. SHARED!AllWritten(l, SHARED!moveToLRUHead(l, d)) = l2
    <2>1. SHARED!addToLRUHead(l1, d) \in Seq(Writes)
      BY <1>1, <1>2, SharedWrites
    <2> QED
      BY <1>3, <1>6, <1>7, <2>1, AllWrittenParts
  <1>5. SharedHas(l2, (members \ {d}) \cup {d})
    BY <1>1, <1>2, SharedAdd
  <1>8. (members \ {d}) \cup {d} = members
    OBVIOUS
  <1> QED
    BY <1>4, <1>5, <1>8

-----------------------------------------------------------------------------
(***************************************************************************)
(* The shared LRU under its mutex: while no process died with writes to    *)
(* make, the list that the process inside will leave has the descriptors   *)
(* that were inserted and not unloaded since.                              *)
(***************************************************************************)
InList == {d \in SharedDesps : owner[d] = Listed}

SharedInv ==
  /\ shm \in SharedLists /\ todo \in [Procs -> Seq(Writes)]
  /\ owner \in [SharedDesps -> {Free, Listed} \cup Procs]
  /\ mutex \in Procs \cup {Nobody} /\ torn \in BOOLEAN
  /\ \A p \in Procs : /\ pc[p] = "inside" => mutex = p
                      /\ todo[p] # << >> => pc[p] = "inside"
  /\ created = 0 => InList = {}
  /\ ~torn => SharedHas(SHARED!Settled, InList)

LEMMA EmptyListIs == SHARED!EmptyList \in SharedLists /\ SharedHas(SHARED!EmptyList, {})
  <1> DEFINE l == SHARED!EmptyList
  <1>1. l \in SharedLists
    BY DEF SharedLists, SharedEnds, SHARED!EmptyList
  <1>2. SharedList(l).first = NoDesp /\ SharedList(l).last = NoDesp
    BY DEF SHARED!EmptyList, SharedList
  <1>3. Unlinked(SharedList(l), SharedDesps, NoDesp)
    BY DEF SHARED!EmptyList, SharedList, Unlinked
  <1> HIDE DEF l
  <1>4. ListOf(SharedList(l), {}, NoDesp, SharedDesps)
    BY <1>2, ListOfNone
  <1> QED
    BY <1>1, <1>3, <1>4 DEF SharedHas, l

LEMMA SharedInit == Init => SharedInv
  <1> SUFFICES ASSUME Init PROVE SharedInv
    OBVIOUS
  <1>1. /\ shm = SHARED!EmptyList /\ mutex = Nobody /\ torn = FALSE
        /\ pc = [p \in Procs |-> "start"] /\ todo = [p \in Procs |-> << >>]
        /\ owner = [d \in SharedDesps |-> Free]
    BY DEF Init, SHARED!Init
  <1>2. InList = {}
    BY <1>1, LruStrategiesAssumption DEF InList
  <1>3. SHARED!Settled = SHARED!EmptyList
    BY <1>1 DEF SHARED!Settled
  <1>4. shm \in SharedLists /\ SharedHas(SHARED!Settled, InList)
    BY <1>1, <1>2, <1>3, EmptyListIs
  <1>5. todo \in [Procs -> Seq(Writes)] /\ owner \in [SharedDesps -> {Free, Listed} \cup Procs]
    BY <1>1
  <1>6. \A p \in Procs : pc[p] # "inside" /\ todo[p] = << >>
    BY <1>1
  <1>7. mutex \in Procs \cup {Nobody} /\ torn \in BOOLEAN
    BY <1>1
  <1> QED
    BY <1>2, <1>4, <1>5, <1>6, <1>7 DEF SharedInv

\* A step of a process that is not inside, and does not come in.
LEMMA SharedKept ==
  ASSUME SharedInv, StartInv, NEW p \in Procs, UNCHANGED <<shm, todo, owner, mutex, torn>>,
         NEW to, pc' = [pc EXCEPT ![p] = to], pc[p] # "inside", to # "inside",
         created = 1 => created' = 1, created' \in {0, 1}
  PROVE  SharedInv'
  <1>1. SHARED!Settled' = SHARED!Settled /\ InList' = InList
    BY DEF SHARED!Settled, InList
  <1>2. \A q \in Procs : /\ pc'[q] = "inside" => pc[q] = "inside"
                         /\ pc[q] = "inside" => pc'[q] = "inside"
    BY DEF StartInv
  <1>3. created' = 0 => created = 0
    BY DEF StartInv
  <1>4. ~torn' => SharedHas(SHARED!Settled', InList')
    BY <1>1 DEF SharedInv
  <1> QED
    BY <1>1, <1>2, <1>3, <1>4 DEF SharedInv

\* The mutex can be had: its last owner has no writes to make.
LEMMA SettledNow ==
  ASSUME SharedInv, SHARED!CanLock
  PROVE  SHARED!Settled = shm
  <1>1. mutex = Nobody \/ (mutex \in Procs /\ pc[mutex] = "dead")
    BY DEF SHARED!CanLock, SHARED!Dead
  <1>2. CASE mutex = Nobody
    BY <1>2 DEF SHARED!Settled
  <1>3. CASE mutex \in Procs /\ pc[mutex] = "dead" /\ mutex # Nobody
    <2>1. todo[mutex] = << >>
      BY <1>3 DEF SharedInv
    <2>2. SHARED!Settled = SHARED!AllWritten(shm, << >>)
      BY <1>3, <2>1 DEF SHARED!Settled
    <2> QED
      BY <2>2, AllWrittenNone DEF SharedInv
  <1> QED
    BY <1>1, <1>2, <1>3

LEMMA SharedEnter ==
  ASSUME SharedInv, StartInv, NEW p \in Procs, NEW ws \in Seq(Writes), SHARED!Enter(p, ws),
         owner' \in [SharedDesps -> {Free, Listed} \cup Procs],
         ~torn => SharedHas(SHARED!AllWritten(shm, ws), InList')
  PROVE  SharedInv'
  <1>1. /\ pc[p] = "idle" /\ pc' = [pc EXCEPT ![p] = "inside"]
        /\ mutex' = p /\ todo' = [todo EXCEPT ![p] = ws]
        /\ UNCHANGED <<shm, created, torn>> /\ SHARED!CanLock
    BY DEF SHARED!Enter, SHARED!Goes
  <1>2. p # Nobody /\ pc \in [Procs -> States] /\ created = 1 /\ todo \in [Procs -> Seq(Writes)]
    BY <1>1, LruStrategiesAssumption DEF StartInv, SharedInv
  <1>3. todo'[p] = ws /\ todo' \in [Procs -> Seq(Writes)]
    BY <1>1, <1>2
  <1>4. SHARED!Settled' = SHARED!AllWritten(shm, ws)
    <2>1. mutex' = p /\ p # Nobody /\ shm' = shm
      BY <1>1, <1>2
    <2>2. SHARED!Settled' = SHARED!AllWritten(shm, todo'[p])
      BY ONLY <2>1 DEF SHARED!Settled, SHARED!AllWritten, SHARED!Written
    <2> QED
      BY <1>3, <2>2
  <1>5. \A q \in Procs \ {p} : pc[q] # "inside" /\ pc'[q] = pc[q] /\ todo'[q] = todo[q]
    <2>1. mutex = Nobody \/ (mutex \in Procs /\ pc[mutex] = "dead")
      BY <1>1 DEF SHARED!CanLock, SHARED!Dead
    <2>2. \A q \in Procs : pc[q] # "inside"
      BY <2>1, LruStrategiesAssumption DEF SharedInv
    <2> QED
      BY <1>1, <1>2, <2>2
  <1>6. pc'[p] = "inside"
    BY <1>1, <1>2
  <1>7. \A q \in Procs : /\ pc'[q] = "inside" => mutex' = q
                         /\ todo'[q] # << >> => pc'[q] = "inside"
    BY <1>1, <1>5, <1>6 DEF SharedInv
  <1>8. ~torn' => SharedHas(SHARED!Settled', InList')
    BY <1>1, <1>4
  <1> QED
    BY <1>1, <1>2, <1>3, <1>7, <1>8 DEF SharedInv

LEMMA SharedAlloc ==
  ASSUME SharedInv, StartInv, NEW p \in Procs, SHARED!Alloc(p)
  PROVE  SharedInv'
  <1>1. /\ pc[p] = "alloc" /\ pc' = [pc EXCEPT ![p] = "attached"] /\ created' = created + 1
        /\ mutex' = Nobody /\ shm' = SHARED!EmptyList /\ UNCHANGED <<todo, owner, torn>>
    BY DEF SHARED!Alloc, SHARED!Goes, SHARED!SHM_alloc, SHARED!SHM_mutex_init
  <1>2. created = 0 /\ pc \in [Procs -> States] /\ \A q \in Procs : pc[q] # "inside"
    BY <1>1 DEF StartInv
  <1>3. \A q \in Procs : todo[q] = << >> /\ pc'[q] # "inside"
    BY <1>1, <1>2 DEF SharedInv
  <1>4. InList' = {}
    BY <1>1, <1>2 DEF SharedInv, InList
  <1>5. SHARED!Settled' = SHARED!EmptyList
    BY <1>1 DEF SHARED!Settled
  <1>6. shm' \in SharedLists /\ SharedHas(SHARED!Settled', InList')
    BY <1>1, <1>4, <1>5, EmptyListIs
  <1>7. created' # 0
    BY <1>1, <1>2
  <1> QED
    BY <1>1, <1>3, <1>6, <1>7 DEF SharedInv

LEMMA SharedUnload ==
  ASSUME SharedInv, StartInv, NEW p \in Procs, SHARED!Unload_LRUBuf(p)
  PROVE  SharedInv'
  <1> DEFINE d == shm.last
             ws == SHARED!deleteFromLRU(shm, d)
  <1>0. NoDesp \notin SharedDesps /\ p # Listed
    BY LruStrategiesAssumption
  <1>1. d # NoDesp /\ SHARED!Enter(p, ws) /\ owner' = [owner EXCEPT ![d] = p]
    BY DEF SHARED!Unload_LRUBuf
  <1>2. shm \in SharedLists /\ d \in SharedDesps /\ owner \in [SharedDesps -> {Free, Listed} \cup Procs]
    BY <1>1 DEF SharedInv, SharedLists, SharedEnds
  <1>3. ws \in Seq(Writes) /\ owner' \in [SharedDesps -> {Free, Listed} \cup Procs]
    BY <1>1, <1>2, SharedWrites
  <1>4. InList' = InList \ {d}
    BY <1>0, <1>1, <1>2 DEF InList
  <1>5. ASSUME ~torn PROVE SharedHas(SHARED!AllWritten(shm, ws), InList')
    <2>1. SharedHas(shm, InList)
      BY <1>1, <1>5, SettledNow DEF SharedInv, SHARED!Enter
    <2>2. ListOf(SharedList(shm), InList, NoDesp, SharedDesps)
      BY <2>1 DEF SharedHas
    <2>3. SharedList(shm).last = d
      BY DEF SharedList
    <2> HIDE DEF d
    <2>4. d \in InList
      BY <1>0, <1>1, <2>2, <2>3, ListOfEnds
    <2> QED
      BY <1>2, <1>4, <2>1, <2>4, SharedDelete
  <1> HIDE DEF ws
  <1> QED
    BY <1>1, <1>3, <1>5, SharedEnter

LEMMA SharedHit ==
  ASSUME SharedInv, StartInv, NEW p \in Procs, NEW d \in SharedDesps, SHARED!hitInLRUBuffer(p, d)
  PROVE  SharedInv'
  <1> DEFINE ws == IF SHARED!hasBeenDeleted(shm, d) THEN << >> ELSE SHARED!moveToLRUHead(shm, d)
  <1>1. SHARED!Enter(p, ws) /\ owner' = owner
    BY DEF SHARED!hitInLRUBuffer
  <1>2. shm \in SharedLists /\ owner' \in [SharedDesps -> {Free, Listed} \cup Procs]
    BY <1>1 DEF SharedInv
  <1>3. ws \in Seq(Writes)
    BY <1>2, SharedWrites
  <1>4. InList' = InList
    BY <1>1 DEF InList
  <1>5. ASSUME ~torn PROVE SharedHas(SHARED!AllWritten(shm, ws), InList')
    <2>1. SharedHas(shm, InList)
      BY <1>1, <1>5, SettledNow DEF SharedInv, SHARED!Enter
    <2>2. CASE SHARED!hasBeenDeleted(shm, d)
      BY <1>2, <1>4, <2>1, <2>2, AllWrittenNone
    <2>3. CASE ~SHARED!hasBeenDeleted(shm, d)
      <3>1. d \in InList
        BY <2>1, <2>3 DEF SharedHas, Unlinked, SharedList, SHARED!hasBeenDeleted
      <3> QED
        BY <1>2, <1>4, <2>1, <2>3, <3>1, SharedMove
    <2> QED
      BY <2>2, <2>3
  <1> HIDE DEF ws
  <1> QED
    BY <1>1, <1>2, <1>3, <1>5, SharedEnter

LEMMA SharedInsert ==
  ASSUME SharedInv, StartInv, NEW p \in Procs, NEW d \in SharedDesps, SHARED!insertLRUBuffer(p, d)
  PROVE  SharedInv'
  <1> DEFINE ws == SHARED!addToLRUHead(shm, d)
  <1>0. p # Listed /\ Free # Listed
    BY LruStrategiesAssumption
  <1>1. SHARED!Enter(p, ws) /\ owner' = [owner EXCEPT ![d] = Listed] /\ owner[d] \in {Free, p}
    BY DEF SHARED!insertLRUBuffer
  <1>2. shm \in SharedLists /\ owner \in [SharedDesps -> {Free, Listed} \cup Procs]
    BY DEF SharedInv
  <1>3. ws \in Seq(Writes) /\ owner' \in [SharedDesps -> {Free, Listed} \cup Procs]
    BY <1>1, <1>2, SharedWrites
  <1>4. InList' = InList \cup {d} /\ d \in SharedDesps \ InList
    BY <1>0, <1>1, <1>2 DEF InList
  <1>5. ASSUME ~torn PROVE SharedHas(SHARED!AllWritten(shm, ws), InList')
    <2>1. SharedHas(shm, InList)
      BY <1>1, <1>5, SettledNow DEF SharedInv, SHARED!Enter
    <2> QED
      BY <1>2, <1>4, <2>1, SharedAdd
  <1> HIDE DEF ws
  <1> QED
    BY <1>1, <1>3, <1>5, SharedEnter

LEMMA SharedWrite ==
  ASSUME SharedInv, StartInv, NEW p \in Procs, SHARED!Write(p)
  PROVE  SharedInv'
  <1> DEFINE ws == todo[p]
  <1>1. /\ pc[p] = "inside" /\ ws # << >> /\ todo' = [todo EXCEPT ![p] = Tail(ws)]
        /\ shm' = SHARED!Written(shm, Head(ws))
        /\ UNCHANGED <<created, mutex, pc, owner, torn>>
    BY DEF SHARED!Write
  <1>2. /\ mutex = p /\ p # Nobody /\ shm \in SharedLists /\ todo \in [Procs -> Seq(Writes)]
        /\ ws \in Seq(Writes)
    BY <1>1, LruStrategiesAssumption DEF SharedInv
  <1>3. /\ SHARED!AllWritten(shm, ws) = SHARED!AllWritten(shm', Tail(ws))
        /\ shm' \in SharedLists /\ Tail(ws) \in Seq(Writes)
    BY <1>1, <1>2, AllWrittenHead
  <1>4. todo'[p] = Tail(ws) /\ todo' \in [Procs -> Seq(Writes)]
        /\ \A q \in Procs \ {p} : todo'[q] = todo[q]
    BY <1>1, <1>2, <1>3
  <1>5. SHARED!Settled = SHARED!AllWritten(shm, ws)
    BY <1>2 DEF SHARED!Settled
  <1>6. SHARED!Settled' = SHARED!AllWritten(shm', Tail(ws))
    <2>0. mutex' = p /\ p # Nobody
      BY <1>1, <1>2
    <2>1. SHARED!Settled' = SHARED!AllWritten(shm', todo'[p])
      BY ONLY <2>0 DEF SHARED!Settled, SHARED!AllWritten, SHARED!Written
    <2> QED
      BY <1>4, <2>1
  <1>7. InList' = InList
    BY <1>1 DEF InList
  <1>8. ~torn' => SharedHas(SHARED!Settled', InList')
    BY <1>1, <1>3, <1>5, <1>6, <1>7 DEF SharedInv
  <1>9. \A q \in Procs : todo'[q] # << >> => pc'[q] = "inside"
    BY <1>1, <1>4 DEF SharedInv
  <1> QED
    BY <1>1, <1>3, <1>4, <1>7, <1>8, <1>9 DEF SharedInv

LEMMA SharedLeave ==
  ASSUME SharedInv, StartInv, NEW p \in Procs, SHARED!Leave(p)
  PROVE  SharedInv'
  <1>1. /\ pc[p] = "inside" /\ pc' = [pc EXCEPT ![p] = "idle"] /\ todo[p] = << >>
        /\ mutex' = Nobody /\ UNCHANGED <<shm, created, todo, owner, torn>>
    BY DEF SHARED!Leave, SHARED!Goes
  <1>2. mutex = p /\ p # Nobody /\ shm \in SharedLists /\ pc \in [Procs -> States]
    BY <1>1, LruStrategiesAssumption DEF SharedInv, StartInv
  <1>3. SHARED!Settled = shm /\ SHARED!Settled' = shm
    BY <1>1, <1>2, AllWrittenNone DEF SHARED!Settled
  <1>4. InList' = InList
    BY <1>1 DEF InList
  <1>5. ~torn' => SharedHas(SHARED!Settled', InList')
    BY <1>1, <1>3, <1>4 DEF SharedInv
  <1>6. \A q \in Procs : pc'[q] # "inside" /\ todo[q] = << >>
    BY <1>1, <1>2 DEF SharedInv
  <1> QED
    BY <1>1, <1>4, <1>5, <1>6 DEF SharedInv

LEMMA SharedDie ==
  ASSUME SharedInv, StartInv, NEW p \in Procs, SHARED!Die(p)
  PROVE  SharedInv'
  <1>1. /\ pc' = [pc EXCEPT ![p] = "dead"] /\ torn' = (torn \/ todo[p] # << >>)
        /\ todo' = [todo EXCEPT ![p] = << >>] /\ UNCHANGED <<shm, created, mutex, owner>>
    BY DEF SHARED!Die
  <1>2. todo \in [Procs -> Seq(Writes)] /\ torn \in BOOLEAN /\ pc \in [Procs -> States]
    BY DEF SharedInv, StartInv
  <1>3. /\ todo' \in [Procs -> Seq(Writes)] /\ torn' \in BOOLEAN
        /\ todo'[p] = << >> /\ pc'[p] = "dead"
        /\ \A q \in Procs \ {p} : todo'[q] = todo[q] /\ pc'[q] = pc[q]
    BY <1>1, <1>2
  <1>4. InList' = InList
    BY <1>1 DEF InList
  <1>5. ASSUME ~torn' PROVE SharedHas(SHARED!Settled', InList')
    <2>1. ~torn /\ todo[p] = << >>
      BY <1>1, <1>5
    <2>2. todo' = todo
      BY <1>1, <1>2, <2>1
    <2>3. SHARED!Settled' = SHARED!Settled
      BY <1>1, <2>2 DEF SHARED!Settled
    <2> QED
      BY <1>4, <2>1, <2>3 DEF SharedInv
  <1>6. \A q \in Procs : /\ pc'[q] = "inside" => mutex = q
                         /\ todo'[q] # << >> => pc'[q] = "inside"
    BY <1>3 DEF SharedInv
  <1> QED
    BY <1>1, <1>3, <1>4, <1>5, <1>6 DEF SharedInv

LEMMA SharedNext ==
  ASSUME SharedInv, StartInv, SHARED!Next
  PROVE  SharedInv'
  <1> PICK p \in Procs :
        \/ SHARED!LockFile(p) \/ SHARED!Check(p) \/ SHARED!Alloc(p) \/ SHARED!Get(p)
        \/ SHARED!UnlockFile(p) \/ SHARED!Unload_LRUBuf(p) \/ SHARED!Write(p)
        \/ SHARED!Leave(p) \/ SHARED!Die(p)
        \/ \E d \in SharedDesps : SHARED!hitInLRUBuffer(p, d) \/ SHARED!insertLRUBuffer(p, d)
    BY DEF SHARED!Next
  <1>0. created \in {0, 1}
    BY DEF StartInv
  <1>1. CASE SHARED!LockFile(p)
    BY <1>0, <1>1, SharedKept DEF SHARED!LockFile, SHARED!Goes
  <1>2. CASE SHARED!Check(p)
    <2>1. /\ pc[p] = "check" /\ UNCHANGED <<shm, todo, owner, mutex, torn, created>>
          /\ pc' = [pc EXCEPT ![p] = IF chkFile THEN "get" ELSE "alloc"]
      BY <1>2 DEF SHARED!Check, SHARED!Goes
    <2>2. pc[p] # "inside" /\ (IF chkFile THEN "get" ELSE "alloc") # "inside"
      BY <2>1
    <2> QED
      BY <1>0, <2>1, <2>2, SharedKept
  <1>3. CASE SHARED!Get(p)
    BY <1>0, <1>3, SharedKept DEF SHARED!Get, SHARED!Goes
  <1>4. CASE SHARED!UnlockFile(p)
    BY <1>0, <1>4, SharedKept DEF SHARED!UnlockFile, SHARED!Goes
  <1> QED
    BY <1>1, <1>2, <1>3, <1>4, SharedAlloc, SharedUnload, SharedHit, SharedInsert,
       SharedWrite, SharedLeave, SharedDie

LEMMA SharedSound == SharedInv => SHARED!SharedListSound
  <1> SUFFICES ASSUME SharedInv, ~torn
               PROVE  /\ SHARED!Chain(SHARED!Settled.last, SHARED!Settled.last_lru)
                           = SHARED!Reverse(SHARED!Recency)
                      /\ SHARED!ToSet(SHARED!Recency) = InList
                      /\ \A d \in SharedDesps \ InList : SHARED!hasBeenDeleted(SHARED!Settled, d)
    BY DEF SHARED!SharedListSound, InList
  <1> DEFINE l == SharedList(SHARED!Settled)
             n == Cardinality(SharedDesps)
  <1>1. /\ NoDesp \notin SharedDesps /\ IsFiniteSet(SharedDesps) /\ n \in Nat /\ n <= n + 1
        /\ \A s : SHARED!ToSet(s) = ToSet(s) /\ SHARED!Reverse(s) = Reverse(s)
    <2>1. NoDesp \notin SharedDesps /\ IsFiniteSet(SharedDesps)
      BY LruStrategiesAssumption
    <2>2. n \in Nat
      BY <2>1, FS_CardinalityType
    <2>3. \A s : SHARED!ToSet(s) = ToSet(s) /\ SHARED!Reverse(s) = Reverse(s)
      BY DEF SHARED!ToSet, ToSet, SHARED!Reverse, Reverse
    <2> QED
      BY <2>1, <2>2, <2>3
  <1>2. SharedHas(SHARED!Settled, InList)
    BY DEF SharedInv
  <1>3. SHARED!Settled \in SharedLists
    <2>1. shm \in SharedLists /\ mutex \in Procs \cup {Nobody} /\ todo \in [Procs -> Seq(Writes)]
      BY DEF SharedInv
    <2>2. mutex # Nobody => todo[mutex] \in Seq(Writes)
      BY <2>1
    <2> QED
      BY <2>1, <2>2, AllWrittenType DEF SHARED!Settled
  <1>4. /\ ListOf(l, InList, NoDesp, SharedDesps) /\ Unlinked(l, SharedDesps \ InList, NoDesp)
        /\ l.next = SHARED!Settled.next_lru /\ l.pre = SHARED!Settled.last_lru
        /\ l.first = SHARED!Settled.first /\ l.last = SHARED!Settled.last
        /\ DOMAIN l.next = SharedDesps /\ DOMAIN l.pre = SharedDesps
    BY <1>2, <1>3 DEF SharedHas, SharedList, SharedLists
  <1>6. /\ SHARED!Recency = Walk(SHARED!Settled.first, SHARED!Settled.next_lru, NoDesp, n)
        /\ SHARED!Chain(SHARED!Settled.last, SHARED!Settled.last_lru)
             = Walk(SHARED!Settled.last, SHARED!Settled.last_lru, NoDesp, n)
    <2>1. SHARED!Cardinality(SharedDesps) = n
      BY DEF SHARED!Cardinality, Cardinality
    <2> QED
      BY <2>1 DEF SHARED!Recency, SHARED!Chain, SHARED!Walk, Walk, SHARED!Last, Last
  <1> HIDE DEF l, n
  <1>5. PICK s \in Seq(SharedDesps) : /\ ToSet(s) = InList
                                      /\ Walk(l.first, l.next, NoDesp, n) = s
                                      /\ Walk(l.last, l.pre, NoDesp, n) = Reverse(s)
    <2>1. PICK s \in Seq(SharedDesps) : ListIs(l, s, InList, NoDesp, SharedDesps)
      BY <1>4 DEF ListOf
    <2>0. Cardinality(SharedDesps) <= n + 1
      BY <1>1 DEF n
    <2>2. Walk(l.first, l.next, NoDesp, n) = s
      BY <1>1, <1>4, <2>0, <2>1, ListShown
    <2>3. Walk(l.last, l.pre, NoDesp, n) = Reverse(s)
      BY <1>1, <1>4, <2>0, <2>1, ListShown
    <2> QED
      BY <2>1, <2>2, <2>3 DEF ListIs
  <1>7. \A d \in SharedDesps \ InList : SHARED!hasBeenDeleted(SHARED!Settled, d)
    BY <1>4 DEF Unlinked, SHARED!hasBeenDeleted
  <1> QED
    BY <1>1, <1>4, <1>5, <1>6, <1>7

-----------------------------------------------------------------------------
(***************************************************************************)
(* The three together.                                                     *)
(***************************************************************************)
LruInv ==
  /\ which \in {"private", "rw", "shared"}
  /\ which = "private" => PrivateInv
  /\ which = "rw" => RwInv
  /\ SharedInv /\ StartInv

LEMMA LruInit == Init => LruInv
  <1> SUFFICES ASSUME Init PROVE LruInv
    OBVIOUS
  <1>1. SharedInv /\ StartInv
    BY SharedInit, StartInit
  <1>2. CASE which = "private" /\ PRIVATE!Init
    BY <1>1, <1>2, PrivateInit DEF LruInv
  <1>3. CASE which \in {"rw", "shared"} /\ RW!Init
    BY <1>1, <1>3, RwInit DEF LruInv
  <1> QED
    BY <1>2, <1>3 DEF Init

LEMMA LruNext == LruInv /\ [Next]_vars => LruInv'
  <1> SUFFICES ASSUME LruInv, [Next]_vars PROVE LruInv'
    OBVIOUS
  <1>0. SharedInv /\ StartInv /\ StartInv' /\ which \in {"private", "rw", "shared"}
    BY StartNext DEF LruInv
  <1>1. which' = which
    BY DEF Next, vars
  <1>2. UNCHANGED sharedVars => SharedInv'
    BY <1>0 DEF SharedInv, sharedVars, SHARED!Settled, InList
  <1>3. CASE UNCHANGED vars
    <2>1. UNCHANGED rwVars /\ UNCHANGED sharedVars
      BY <1>3 DEF vars
    <2>2. PrivateInv => PrivateInv'
      BY <2>1 DEF rwVars, PrivateInv, PrivateHas, PRIVATE!TypeOK
    <2>3. RwInv => RwInv'
      BY <2>1 DEF rwVars, RwInv, RwHas, ByFlag, RW!TypeOK
    <2> QED
      BY <1>0, <1>1, <1>2, <2>1, <2>2, <2>3 DEF LruInv
  <1>4. CASE which = "private" /\ PRIVATE!Next /\ UNCHANGED sharedVars
    <2>1. PrivateInv'
      BY <1>4, PrivateNext DEF LruInv
    <2> QED
      BY <1>0, <1>1, <1>2, <1>4, <2>1 DEF LruInv
  <1>5. CASE which = "rw" /\ RW!Next /\ UNCHANGED sharedVars
    <2>1. RwInv'
      BY <1>5, RwNext DEF LruInv
    <2> QED
      BY <1>0, <1>1, <1>2, <1>5, <2>1 DEF LruInv
  <1>6. CASE which = "shared" /\ SHARED!Next
    <2>1. SharedInv'
      BY <1>0, <1>6, SharedNext
    <2> QED
      BY <1>0, <1>1, <1>6, <2>1 DEF LruInv
  <1> QED
    BY <1>3, <1>4, <1>5, <1>6 DEF Next

\* The inductive invariant of the three strategies: under LRU_private and LRU_rw
\* the links form the lists of the descriptors that the cache holds, and under
\* the shared LRU the list the process inside is about to leave.
THEOREM LruInvariant == Spec => []LruInv
  BY LruInit, LruNext, PTL DEF Spec

\* Whatever the calls, however many descriptors and processes there are, and
\* wherever a process dies with no write to make, the links of each strategy form
\* the lists it takes them for (addToLRUHead(), deleteFromLRU(), moveToLRUHead()
\* of lru_private.c, lru_rw.c and lru.c), from both ends, with what the cache
\* takes to be in them, and no other descriptor keeps a link.
THEOREM LruLists == Spec => []ListsMatchCache
  <1>1. LruInv => ListsMatchCache
    BY PrivateSound, RwSound, SharedSound DEF LruInv, ListsMatchCache
  <1> QED
    BY <1>1, LruInvariant, PTL

-----------------------------------------------------------------------------
LEMMA PrivateCalls ==
  ASSUME PrivateInv, PRIVATE!Next
  PROVE  LET batch == valid \ valid'
         IN  IF batch # {} THEN PRIVATE!Calls!LogOut(asked', batch) ELSE PRIVATE!Calls!Next
  <1> DEFINE batch == valid \ valid'
  <1>1. dirty \subseteq valid /\ valid \subseteq PRIVATE!Desps
    BY DEF PrivateInv, PRIVATE!TypeOK
  <1>2. ASSUME NEW d \in PRIVATE!Desps, NEW isDirty \in BOOLEAN, PRIVATE!LogIn(d, isDirty)
        PROVE  batch = {} /\ PRIVATE!Calls!Next
    <2>1. d \notin valid /\ valid' = valid \cup {d} /\ dirty' = IF isDirty THEN dirty \cup {d} ELSE dirty
      BY <1>2 DEF PRIVATE!LogIn
    <2>2. PRIVATE!Calls!LogIn(d, isDirty)
      BY <1>1, <2>1 DEF PRIVATE!Calls!LogIn, PRIVATE!Calls!Resident, PRIVATE!Calls!Classify
    <2> QED
      BY <2>1, <2>2 DEF PRIVATE!Calls!Next
  <1>3. ASSUME NEW d \in PRIVATE!Desps, NEW isWrite \in BOOLEAN, PRIVATE!HitIn(d, isWrite)
        PROVE  batch = {} /\ PRIVATE!Calls!Next
    <2>1. d \in valid /\ valid' = valid /\ dirty' = IF isWrite THEN dirty \cup {d} ELSE dirty
      BY <1>3 DEF PRIVATE!HitIn
    <2> DEFINE isDirty == d \in dirty'
    <2>2. PRIVATE!Calls!HitIn(d, isDirty) /\ isDirty \in BOOLEAN
      BY <1>1, <2>1 DEF PRIVATE!Calls!HitIn, PRIVATE!Calls!Resident, PRIVATE!Calls!Classify
    <2> HIDE DEF isDirty
    <2> QED
      BY <2>1, <2>2 DEF PRIVATE!Calls!Next
  <1>4. ASSUME NEW t \in PRIVATE!VictimTypes, PRIVATE!LogOut(t)
        PROVE  batch # {} /\ PRIVATE!Calls!LogOut(asked', batch)
    <2>1. /\ evicted' \in Seq(PRIVATE!Desps) /\ IsInjective(evicted') /\ Len(evicted') = Grain
          /\ valid = PRIVATE!Desps /\ valid' = valid \ ToSet(evicted')
          /\ dirty' = dirty \ ToSet(evicted') /\ asked' = t
          /\ t \in {"Clean", "Any"} => valid # dirty
          /\ t \in {"Dirty", "Any"} => dirty # {}
      BY <1>4, PrivateLogOut
    <2>2. ToSet(evicted') \subseteq valid /\ Grain > 0 /\ Grain \in Nat
      BY <2>1, LruStrategiesAssumption DEF ToSet
    <2>3. batch = ToSet(evicted')
      BY <2>1, <2>2
    <2>4. PRIVATE!Calls!Cardinality(batch) <= Grain
      <3>1. Cardinality(ToSet(evicted')) = Len(evicted')
        BY <2>1, ToSetFinite
      <3>2. PRIVATE!Calls!Cardinality(ToSet(evicted')) = Cardinality(ToSet(evicted'))
        BY DEF PRIVATE!Calls!Cardinality, Cardinality
      <3>3. Len(evicted') = Grain /\ Grain <= Grain
        BY <2>1, <2>2
      <3> HIDE DEF batch
      <3> QED
        BY <2>3, <3>1, <3>2, <3>3
    <2>5. batch # {}
      <3>1. 1 \in 1 .. Len(evicted') /\ evicted' \in Seq(PRIVATE!Desps)
        BY <2>1, <2>2
      <3>2. evicted'[1] \in ToSet(evicted')
        BY <3>1, InToSet
      <3> QED
        BY <2>3, <3>2
    <2>6. valid \ dirty # {} \/ t = "Dirty"
      BY <1>1, <2>1, <1>4 DEF PRIVATE!VictimTypes
    <2>7. PRIVATE!Calls!Answerable(asked')
      BY <1>1, <2>1, <2>6 DEF PRIVATE!Calls!Answerable, PRIVATE!Calls!Resident
    <2>8. batch \subseteq PRIVATE!Calls!Candidates(asked')
      BY <1>1, <2>2, <2>3 DEF PRIVATE!Calls!Candidates, PRIVATE!Calls!Resident
    <2> QED
      BY <2>1, <2>3, <2>4, <2>5, <2>7, <2>8 DEF PRIVATE!Calls!LogOut
  <1> QED
    BY <1>2, <1>3, <1>4 DEF PRIVATE!Next

\* The two lists of LRU_rw are what its calls are answered from.
RwShown ==
  /\ RW!ToSet(RW!List("clean")) = valid \ dirty
  /\ RW!ToSet(RW!List("dirty")) = dirty
  /\ dirty \subseteq valid /\ valid \subseteq RW!Desps

LEMMA RwSets == RwInv => RwShown
  BY RwSound DEF RW!ListsMatchCache, RW!TypeOK, RwShown

LEMMA RwSetsNext == RwInv' => RwShown'
  BY RwSets, PTL

LEMMA RwCalls ==
  ASSUME RwInv, RwInv', RW!Next
  PROVE  LET batch == valid \ valid'
         IN  IF batch # {} THEN RW!Calls!LogOut(asked', batch) ELSE RW!Calls!Next
  <1> DEFINE batch == valid \ valid'
             clean == RW!ToSet(RW!List("clean"))
             dirties == RW!ToSet(RW!List("dirty"))
  <1>1. /\ clean = valid \ dirty /\ dirties = dirty
        /\ clean' = valid' \ dirty' /\ dirties' = dirty'
        /\ dirty \subseteq valid /\ valid \subseteq RW!Desps
    BY RwSets, RwSetsNext DEF RwShown
  <1> HIDE DEF clean, dirties
  <1>2. ASSUME NEW d \in RW!Desps, NEW isDirty \in BOOLEAN, RW!LogIn(d, isDirty)
        PROVE  batch = {} /\ RW!Calls!Next
    <2>1. d \notin valid /\ valid' = valid \cup {d} /\ dirty' = IF isDirty THEN dirty \cup {d} ELSE dirty
      BY <1>2 DEF RW!LogIn
    <2>2. /\ d \notin clean \cup dirties
          /\ clean' = IF isDirty THEN clean \ {d} ELSE clean \cup {d}
          /\ dirties' = IF isDirty THEN dirties \cup {d} ELSE dirties \ {d}
      BY <1>1, <2>1
    <2>3. RW!Calls!LogIn(d, isDirty)
      BY <2>2 DEF RW!Calls!LogIn, RW!Calls!Resident, RW!Calls!Classify, clean, dirties
    <2> QED
      BY <2>1, <2>3 DEF RW!Calls!Next
  <1>3. ASSUME NEW d \in RW!Desps, NEW isWrite \in BOOLEAN, RW!HitIn(d, isWrite)
        PROVE  batch = {} /\ RW!Calls!Next
    <2>1. d \in valid /\ valid' = valid /\ dirty' = IF isWrite THEN dirty \cup {d} ELSE dirty
      BY <1>3 DEF RW!HitIn
    <2> DEFINE isDirty == d \in dirty'
    <2>2. /\ d \in clean \cup dirties /\ (d \in dirties => isDirty) /\ isDirty \in BOOLEAN
          /\ clean' = IF isDirty THEN clean \ {d} ELSE clean \cup {d}
          /\ dirties' = IF isDirty THEN dirties \cup {d} ELSE dirties \ {d}
      BY <1>1, <2>1
    <2> HIDE DEF isDirty
    <2>3. RW!Calls!HitIn(d, isDirty)
      BY <2>2 DEF RW!Calls!HitIn, RW!Calls!Resident, RW!Calls!Classify, clean, dirties
    <2> QED
      BY <2>1, <2>2, <2>3 DEF RW!Calls!Next
  <1>4. ASSUME NEW t \in RW!VictimTypes, RW!LogOut(t)
        PROVE  batch # {} /\ RW!Calls!LogOut(asked', batch)
    <2>1. PICK c \in RW!Classes :
            /\ (t = "Clean" => c = "clean") /\ (t = "Dirty" => c = "dirty")
            /\ evicted' \in Seq(RW!Desps) /\ IsInjective(evicted')
            /\ Len(evicted') <= Grain /\ (Grain > 0 => Len(evicted') > 0)
            /\ ToSet(evicted') \subseteq ByFlag(valid, dirty)[c]
            /\ valid = RW!Desps /\ valid' = valid \ ToSet(evicted')
            /\ dirty' = dirty \ ToSet(evicted') /\ asked' = t
            /\ t \in {"Clean", "Any"} => valid # dirty
            /\ t \in {"Dirty", "Any"} => dirty # {}
      BY <1>4, RwLogOut
    <2>2. /\ c = "clean" => ToSet(evicted') \subseteq clean
          /\ c = "dirty" => ToSet(evicted') \subseteq dirties
          /\ c \in {"clean", "dirty"}
      BY <1>1, <2>1, RwNames DEF ByFlag
    <2>3. batch = ToSet(evicted') /\ Grain > 0 /\ Grain \in Nat
      BY <1>1, <2>1, <2>2, LruStrategiesAssumption
    <2>4. RW!Calls!Cardinality(batch) <= Grain
      <3>1. Cardinality(ToSet(evicted')) = Len(evicted')
        BY <2>1, ToSetFinite
      <3>2. RW!Calls!Cardinality(ToSet(evicted')) = Cardinality(ToSet(evicted'))
        BY DEF RW!Calls!Cardinality, Cardinality
      <3> QED
        BY <2>1, <2>3, <3>1, <3>2
    <2>5. batch # {}
      <3>1. 1 \in 1 .. Len(evicted')
        BY <2>1, <2>3
      <3> QED
        BY <2>1, <2>3, <3>1, InToSet
    <2>7. RW!Calls!Answerable(asked')
      <3>1. /\ clean \cup dirties = RW!Desps
            /\ asked' \in {"Clean", "Any"} => clean # {}
            /\ asked' \in {"Dirty", "Any"} => dirties # {}
        BY <1>1, <2>1
      <3> QED
        BY <3>1 DEF RW!Calls!Answerable, RW!Calls!Resident, clean, dirties
    <2>8. batch \subseteq RW!Calls!Candidates(asked')
      <3>1. /\ asked' = "Clean" => batch \subseteq clean
            /\ asked' = "Dirty" => batch \subseteq dirties
            /\ batch \subseteq clean \cup dirties
        BY <2>1, <2>2, <2>3
      <3> HIDE DEF batch
      <3> QED
        BY <3>1 DEF RW!Calls!Candidates, RW!Calls!Resident, clean, dirties
    <2>9. clean' = clean \ batch /\ dirties' = dirties \ batch
      BY <1>1, <2>1, <2>3
    <2> HIDE DEF batch
    <2> QED
      BY <2>4, <2>5, <2>7, <2>8, <2>9 DEF RW!Calls!LogOut, clean, dirties
  <1> QED
    BY <1>2, <1>3, <1>4 DEF RW!Next

\* LRU_private and LRU_rw answer the calls of allocSSDBuf() as the cache needs
\* it: they hold as clean and dirty what it holds, every batch has between one and
\* EVICT_DITRY_GRAIN distinct descriptors, and LRU_rw takes it from the class asked for.
THEOREM LruIsEvictStrategy == Spec => IsEvictStrategy
  <1> DEFINE Step ==
        LET batch == valid \ valid'
        IN  IF which = "private"
            THEN IF batch # {} THEN PRIVATE!Calls!LogOut(asked', batch)
                 ELSE PRIVATE!Calls!Next \/ UNCHANGED PRIVATE!Calls!vars
            ELSE which = "rw" =>
                 IF batch # {} THEN RW!Calls!LogOut(asked', batch)
                 ELSE RW!Calls!Next \/ UNCHANGED RW!Calls!vars
  <1>1. Init => (which = "private" => PRIVATE!Calls!Init) /\ (which = "rw" => RW!Calls!Init)
    <2> SUFFICES ASSUME Init
                 PROVE  (which = "private" => PRIVATE!Calls!Init) /\ (which = "rw" => RW!Calls!Init)
      OBVIOUS
    <2>1. CASE which = "private" /\ PRIVATE!Init
      BY <2>1 DEF PRIVATE!Init, PRIVATE!Calls!Init
    <2>2. CASE which \in {"rw", "shared"} /\ RW!Init
      <3>1. valid = {} /\ dirty = {}
        BY <2>2 DEF RW!Init
      <3>2. RW!ToSet(RW!List("clean")) = {} /\ RW!ToSet(RW!List("dirty")) = {}
        BY <2>2, <3>1, RwInit, RwSets DEF RwShown
      <3> QED
        BY <2>2, <3>2 DEF RW!Calls!Init
    <2> QED
      BY <2>1, <2>2 DEF Init
  <1>2. LruInv /\ LruInv' /\ [Next]_vars => [Step]_vars
    <2> SUFFICES ASSUME LruInv, LruInv', Next PROVE Step
      OBVIOUS
    <2>1. which \in {"private", "rw", "shared"} /\ which' = which
      BY DEF LruInv, Next
    <2>2. CASE which = "private"
      <3>1. PRIVATE!Next /\ PrivateInv
        BY <2>2 DEF Next, LruInv
      <3> QED
        BY <2>2, <3>1, PrivateCalls
    <2>3. CASE which = "rw"
      <3>1. RW!Next /\ RwInv /\ RwInv'
        BY <2>1, <2>3 DEF Next, LruInv
      <3> QED
        BY <2>3, <3>1, RwCalls
    <2> QED
      BY <2>1, <2>2, <2>3
  <1> QED
    BY <1>1, <1>2, LruInvariant, PTL DEF Spec, IsEvictStrategy
=============================================================================
