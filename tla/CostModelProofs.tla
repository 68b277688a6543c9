-------------------------- MODULE CostModelProofs --------------------------
(***************************************************************************)
(* The balancer's window (strategy/costmodel.c), for any length of it and  *)
(* any blocks and times: the counters and sums that the costs are made of  *)
(* are those of the items in the ring, the hash index has just those that  *)
(* were not called back and never runs out of buckets, and the whole is    *)
(* the list of the last evictions.                                         *)
(***************************************************************************)
EXTENDS CostModel, ListTheorems

-----------------------------------------------------------------------------
\* Going round the slots.
LEMMA AfterIs ==
  ASSUME NEW s \in Slots
  PROVE  After(s) \in Slots /\ After(s) = IF s = TS_WindowSize - 1 THEN 0 ELSE s + 1
  BY CostModelAssumption DEF After, Slots

\* How many slots are in a ring, and which.
Held(head, tail) == IF head <= tail THEN tail - head ELSE tail - head + TS_WindowSize

Place(head, i) == IF head + i <= TS_WindowSize THEN head + i - 1
                                               ELSE head + i - 1 - TS_WindowSize

LEMMA RingIs ==
  ASSUME NEW head \in Slots, NEW tail \in Slots
  PROVE  LET ring == InRing(head, tail)
         IN  /\ ring \in Seq(Slots) /\ Len(ring) = Held(head, tail)
             /\ Held(head, tail) \in 0 .. TS_WindowSize - 1
             /\ \A i \in 1 .. Len(ring) : ring[i] = Place(head, i)
             /\ IsInjective(ring) /\ tail \notin ToSet(ring)
             /\ Len(ring) = TS_WindowSize - 1 <=> head = After(tail)
  <1> DEFINE n == Held(head, tail)
             ring == InRing(head, tail)
  <1>1. n \in 0 .. TS_WindowSize - 1 /\ (tail - head) % TS_WindowSize = n
    BY CostModelAssumption DEF Slots, Held
  <1>2. ASSUME NEW i \in 1 .. TS_WindowSize
        PROVE  (head + i - 1) % TS_WindowSize = Place(head, i) /\ Place(head, i) \in Slots
    BY CostModelAssumption DEF Slots, Place
  <1> HIDE DEF n
  <1>i. \A i \in 1 .. n : i \in 1 .. TS_WindowSize
    BY <1>1, CostModelAssumption
  <1>3. ring = [i \in 1 .. n |-> Place(head, i)]
    <2>1. ring = [i \in 1 .. n |-> (head + i - 1) % TS_WindowSize]
      BY <1>1 DEF InRing
    <2> HIDE DEF ring
    <2> QED
      BY <1>i, <1>2, <2>1
  <1> HIDE DEF ring
  <1>4. \A i \in 1 .. n : ring[i] = Place(head, i) /\ Place(head, i) \in Slots
    BY <1>i, <1>2, <1>3
  <1>5. ring \in Seq(Slots) /\ Len(ring) = n /\ DOMAIN ring = 1 .. n
    <2>1. n \in Nat
      BY <1>1, CostModelAssumption
    <2> QED
      BY <1>3, <1>4, <2>1
  <1>6. IsInjective(ring)
    BY <1>1, <1>4, <1>5, CostModelAssumption, SMTT(20) DEF IsInjective, Place, Slots
  <1>7. ASSUME tail \in ToSet(ring) PROVE FALSE
    <2>1. PICK i \in 1 .. n : ring[i] = tail
      BY <1>5, <1>7, InToSet
    <2>2. Place(head, i) = tail
      BY <1>4, <2>1
    <2> QED
      BY <1>1, <2>1, <2>2, CostModelAssumption DEF Place, Held, Slots, n
  <1>8. n = TS_WindowSize - 1 <=> head = After(tail)
    BY AfterIs, CostModelAssumption DEF Held, Slots, n
  <1> QED
    BY <1>1, <1>4, <1>5, <1>6, <1>7, <1>8 DEF n, ring

\* One more item in a ring that has room for it.
LEMMA RingGrows ==
  ASSUME NEW head \in Slots, NEW tail \in Slots, head # After(tail)
  PROVE  InRing(head, After(tail)) = Append(InRing(head, tail), tail)
  <1> DEFINE old == InRing(head, tail)
             new == InRing(head, After(tail))
             added == Append(old, tail)
  <1>1. After(tail) \in Slots
    BY AfterIs
  <1>2. Held(head, After(tail)) = Held(head, tail) + 1
    BY AfterIs, CostModelAssumption DEF Held, Slots
  <1>3. Place(head, Held(head, tail) + 1) = tail
    BY CostModelAssumption DEF Held, Place, Slots
  <1>4. /\ old \in Seq(Slots) /\ Len(old) = Held(head, tail) /\ Len(old) \in Nat
        /\ \A i \in 1 .. Len(old) : old[i] = Place(head, i)
    BY RingIs
  <1>5. /\ new \in Seq(Slots) /\ Len(new) = Held(head, After(tail))
        /\ \A i \in 1 .. Len(new) : new[i] = Place(head, i)
    BY <1>1, RingIs
  <1> HIDE DEF old, new
  <1>6. /\ added \in Seq(Slots) /\ Len(added) = Len(old) + 1
        /\ \A i \in 1 .. Len(old) : added[i] = old[i]
        /\ added[Len(old) + 1] = tail
    BY <1>4
  <1> HIDE DEF added
  <1>7. \A i \in 1 .. Len(new) : new[i] = added[i]
    BY <1>2, <1>3, <1>4, <1>5, <1>6
  <1>8. new = added
    BY <1>2, <1>4, <1>5, <1>6, <1>7
  <1> QED
    BY <1>8 DEF old, new, added

\* The oldest item leaves a ring.
LEMMA RingShrinks ==
  ASSUME NEW head \in Slots, NEW tail \in Slots, head # tail
  PROVE  /\ InRing(head, tail) # << >> /\ InRing(head, tail)[1] = head
         /\ Len(InRing(head, tail)) > 0
         /\ InRing(After(head), tail) = Tail(InRing(head, tail))
  <1> DEFINE old == InRing(head, tail)
             new == InRing(After(head), tail)
             rest == Tail(old)
  <1>1. After(head) \in Slots
    BY AfterIs
  <1>2. Held(After(head), tail) = Held(head, tail) - 1 /\ Held(head, tail) > 0
    BY AfterIs, CostModelAssumption DEF Held, Slots
  <1>3. /\ Place(head, 1) = head
        /\ \A i \in 1 .. Held(head, tail) - 1 : Place(head, i + 1) = Place(After(head), i)
    BY AfterIs, CostModelAssumption DEF Held, Place, Slots
  <1>4. /\ old \in Seq(Slots) /\ Len(old) = Held(head, tail) /\ Len(old) \in Nat
        /\ \A i \in 1 .. Len(old) : old[i] = Place(head, i)
    BY RingIs
  <1>5. /\ new \in Seq(Slots) /\ Len(new) = Held(After(head), tail)
        /\ \A i \in 1 .. Len(new) : new[i] = Place(After(head), i)
    BY <1>1, RingIs
  <1> HIDE DEF old, new
  <1>6. old # << >> /\ old[1] = head
    BY <1>2, <1>3, <1>4
  <1>7. /\ rest \in Seq(Slots) /\ Len(rest) = Len(old) - 1
        /\ \A i \in 1 .. Len(old) - 1 : rest[i] = old[i + 1]
    BY <1>4, <1>6
  <1> HIDE DEF rest
  <1>8. \A i \in 1 .. Len(new) : new[i] = rest[i]
    BY <1>2, <1>3, <1>4, <1>5, <1>7
  <1>9. new = rest
    BY <1>2, <1>4, <1>5, <1>7, <1>8
  <1> QED
    BY <1>2, <1>4, <1>6, <1>9 DEF old, new, rest

-----------------------------------------------------------------------------
\* The sum of a sequence: the last of its partial sums.
PartialSums(s) ==
  {f \in [0 .. Len(s) -> Nat] : f[0] = 0 /\ \A k \in 1 .. Len(s) : f[k] = f[k - 1] + s[k]}

LEMMA TotalIs ==
  ASSUME NEW s \in Seq(Nat)
  PROVE  \E f \in PartialSums(s) : Total(s) = f[Len(s)]
  <1> DEFINE step == [k \in Nat |-> [n \in Nat |-> n + (IF k + 1 \in 1 .. Len(s) THEN s[k + 1] ELSE 0)]]
             Sums(f) == f = [k \in 0 .. Len(s) |-> IF k = 0 THEN 0 ELSE f[k - 1] + s[k]]
             sum == CHOOSE f : Sums(f)
  <1>1. \A k \in 1 .. Len(s) : s[k] \in Nat
    OBVIOUS
  <1>n. Len(s) \in Nat
    OBVIOUS
  <1>2. step \in [Nat -> [Nat -> Nat]]
    BY <1>1
  <1>3. PICK g \in [Nat -> Nat] : g[0] = 0 /\ \A n \in Nat : g[n + 1] = step[n][g[n]]
    <2> HIDE DEF step
    <2> QED
      BY <1>2, NumberIteration
  <1>4. \A n \in Nat : n + 1 \in 1 .. Len(s) => g[n + 1] = g[n] + s[n + 1]
    BY <1>1, <1>3
  <1> HIDE DEF step
  <1> DEFINE h == [k \in 0 .. Len(s) |-> g[k]]
  <1>5. ASSUME NEW k \in 1 .. Len(s) PROVE g[k] = g[k - 1] + s[k]
    <2>1. k - 1 \in Nat /\ (k - 1) + 1 = k
      BY <1>n
    <2> QED
      BY <1>4, <2>1
  <1>6. Sums(h)
    <2>1. ASSUME NEW k \in 0 .. Len(s)
          PROVE  g[k] = IF k = 0 THEN 0 ELSE h[k - 1] + s[k]
      <3>1. CASE k = 0
        BY <1>3, <3>1
      <3>2. CASE k # 0
        <4>1. k \in 1 .. Len(s) /\ k - 1 \in 0 .. Len(s)
          BY <1>n, <3>2
        <4> QED
          BY <1>5, <3>2, <4>1
      <3> QED
        BY <3>1, <3>2
    <2> QED
      BY <2>1
  <1> HIDE DEF h
  <1>7. Sums(sum)
    <2> HIDE DEF Sums
    <2> QED
      BY <1>6
  <1>8. Total(s) = sum[Len(s)]
    BY DEF Total
  <1> HIDE DEF sum
  <1>9. /\ DOMAIN sum = 0 .. Len(s) /\ sum = [k \in 0 .. Len(s) |-> sum[k]]
        /\ \A k \in 0 .. Len(s) : sum[k] = IF k = 0 THEN 0 ELSE sum[k - 1] + s[k]
    BY <1>7
  <1> HIDE DEF Sums
  <1>0. 0 \in 0 .. Len(s) /\ \A k \in 1 .. Len(s) : k \in 0 .. Len(s) /\ k # 0
    BY <1>n
  <1>s. sum[0] = 0 /\ \A k \in 1 .. Len(s) : sum[k] = sum[k - 1] + s[k]
    BY <1>9, <1>0
  <1> DEFINE T == {n \in Nat : n \in 0 .. Len(s) => sum[n] \in Nat}
  <1>a. 0 \in T
    BY <1>s
  <1>b. ASSUME NEW n \in Nat, n \in T PROVE n + 1 \in T
    <2> SUFFICES ASSUME n + 1 \in 0 .. Len(s) PROVE sum[n + 1] \in Nat
      OBVIOUS
    <2>1. n \in 0 .. Len(s) /\ n + 1 \in 1 .. Len(s) /\ (n + 1) - 1 = n
      BY <1>n
    <2>2. sum[n] \in Nat
      BY <1>b, <2>1
    <2>3. sum[n + 1] = sum[n] + s[n + 1]
      BY <1>s, <2>1
    <2>4. s[n + 1] \in Nat
      BY <1>1, <2>1
    <2>5. \A i, j \in Nat : i + j \in Nat
      OBVIOUS
    <2> QED
      BY <2>2, <2>3, <2>4, <2>5
  <1>c. Nat \subseteq T
    <2> HIDE DEF T
    <2> QED
      BY <1>a, <1>b, NatInduct
  <1>d. \A k \in 0 .. Len(s) : sum[k] \in Nat
    BY <1>c, <1>n
  <1>e. sum \in [0 .. Len(s) -> Nat]
    BY <1>9, <1>d
  <1> QED
    BY <1>8, <1>s, <1>e DEF PartialSums

\* Two sums that grow alike.
LEMMA SumsAlike ==
  ASSUME NEW m \in Nat, NEW f \in [0 .. m -> Nat], NEW g \in [0 .. m -> Nat],
         \A k \in 1 .. m : f[k] - f[k - 1] = g[k] - g[k - 1]
  PROVE  f[m] - f[0] = g[m] - g[0]
  <1> DEFINE T == {n \in Nat : n \in 0 .. m => f[n] - f[0] = g[n] - g[0]}
  <1>1. 0 \in T
    OBVIOUS
  <1>2. ASSUME NEW n \in Nat, n \in T PROVE n + 1 \in T
    <2> SUFFICES ASSUME n + 1 \in 0 .. m PROVE f[n + 1] - f[0] = g[n + 1] - g[0]
      OBVIOUS
    <2>1. /\ n \in 0 .. m /\ n + 1 \in 1 .. m /\ (n + 1) - 1 = n /\ 0 \in 0 .. m
          /\ f[n] - f[0] = g[n] - g[0]
      BY <1>2
    <2>2. f[n + 1] - f[n] = g[n + 1] - g[n]
      BY <2>1
    <2>3. \A k \in 0 .. m : f[k] \in Nat /\ g[k] \in Nat
      OBVIOUS
    <2>4. /\ f[n] \in Nat /\ g[n] \in Nat /\ f[0] \in Nat /\ g[0] \in Nat
          /\ f[n + 1] \in Nat /\ g[n + 1] \in Nat
      BY <2>1, <2>3
    <2> DEFINE a == f[0]
               b == f[n]
               c == f[n + 1]
               x == g[0]
               y == g[n]
               z == g[n + 1]
    <2>5. b - a = y - x /\ c - b = z - y
      BY <2>1, <2>2
    <2>6. a \in Nat /\ b \in Nat /\ c \in Nat /\ x \in Nat /\ y \in Nat /\ z \in Nat
      BY <2>4
    <2> HIDE DEF a, b, c, x, y, z
    <2>7. c - a = z - x
      BY <2>5, <2>6
    <2> QED
      BY <2>7 DEF a, c, x, z
  <1>3. Nat \subseteq T
    <2> HIDE DEF T
    <2> QED
      BY <1>1, <1>2, NatInduct
  <1> QED
    BY <1>3

LEMMA TotalType ==
  ASSUME NEW s \in Seq(Nat)
  PROVE  Total(s) \in Nat
  <1>1. PICK f \in PartialSums(s) : Total(s) = f[Len(s)]
    BY TotalIs
  <1>2. Len(s) \in 0 .. Len(s)
    OBVIOUS
  <1> QED
    BY <1>1, <1>2 DEF PartialSums

LEMMA TotalOfNone ==
  ASSUME NEW s \in Seq(Nat), \A i \in 1 .. Len(s) : s[i] = 0
  PROVE  Total(s) = 0
  <1>1. PICK f \in PartialSums(s) : Total(s) = f[Len(s)]
    BY TotalIs
  <1> DEFINE m == Len(s)
             g == [k \in 0 .. m |-> 0]
  <1>2. m \in Nat
    OBVIOUS
  <1>3. /\ f \in [0 .. m -> Nat] /\ f[0] = 0
        /\ \A k \in 1 .. m : f[k] = f[k - 1] + s[k] /\ s[k] = 0 /\ k - 1 \in 0 .. m
    BY <1>2 DEF PartialSums
  <1>4. Total(s) = f[m]
    BY <1>1
  <1> HIDE DEF m
  <1>5. \A k \in 1 .. m : f[k] - f[k - 1] = g[k] - g[k - 1]
    BY <1>2, <1>3, SMTT(20)
  <1>6. g \in [0 .. m -> Nat] /\ g[m] = 0 /\ g[0] = 0
    BY <1>2
  <1> HIDE DEF g
  <1>7. f[m] - f[0] = g[m] - g[0]
    BY <1>2, <1>3, <1>5, <1>6, SumsAlike
  <1>8. f[m] \in Nat
    BY <1>2, <1>3
  <1> QED
    BY <1>3, <1>4, <1>6, <1>7, <1>8

LEMMA TotalOfAppend ==
  ASSUME NEW s \in Seq(Nat), NEW x \in Nat
  PROVE  Total(Append(s, x)) = Total(s) + x
  <1> DEFINE t == Append(s, x)
             m == Len(s)
  <1>1. /\ t \in Seq(Nat) /\ Len(t) = m + 1 /\ m \in Nat
        /\ \A i \in 1 .. m : t[i] = s[i]
        /\ t[m + 1] = x
    OBVIOUS
  <1>2. PICK f \in PartialSums(s) : Total(s) = f[m]
    BY TotalIs
  <1> HIDE DEF t
  <1>3. PICK g \in PartialSums(t) : Total(t) = g[m + 1]
    BY <1>1, TotalIs
  <1>4. /\ f \in [0 .. m -> Nat] /\ f[0] = 0
        /\ \A k \in 1 .. m : f[k] = f[k - 1] + s[k]
    BY DEF PartialSums
  <1>5. /\ g \in [0 .. m + 1 -> Nat] /\ g[0] = 0
        /\ \A k \in 1 .. m + 1 : g[k] = g[k - 1] + t[k]
    BY <1>1 DEF PartialSums
  <1> DEFINE h == [k \in 0 .. m |-> g[k]]
  <1> HIDE DEF m
  <1>6. h \in [0 .. m -> Nat] /\ h[0] = 0 /\ h[m] = g[m]
    BY <1>1, <1>5
  <1>7. ASSUME NEW k \in 1 .. m PROVE f[k] - f[k - 1] = h[k] - h[k - 1]
    <2>1. k \in 0 .. m /\ k - 1 \in 0 .. m /\ k \in 1 .. m + 1
      BY <1>1
    <2>2. f[k] = f[k - 1] + s[k] /\ g[k] = g[k - 1] + s[k] /\ s[k] \in Nat
      BY <1>1, <1>4, <1>5, <2>1, SMTT(20) DEF m
    <2>3. h[k] = g[k] /\ h[k - 1] = g[k - 1]
      BY <2>1
    <2>4. f[k - 1] \in Nat /\ h[k - 1] \in Nat
      BY <1>4, <1>6, <2>1
    <2> QED
      BY <2>2, <2>3, <2>4
  <1> HIDE DEF h
  <1>8. f[m] - f[0] = h[m] - h[0]
    BY <1>1, <1>4, <1>6, <1>7, SumsAlike
  <1>9. g[m + 1] = g[m] + x
    <2>1. m + 1 \in 1 .. m + 1 /\ (m + 1) - 1 = m
      BY <1>1
    <2> QED
      BY <1>1, <1>5, <2>1
  <1>10. f[m] \in Nat /\ g[m] \in Nat
    BY <1>1, <1>4, <1>5
  <1> QED
    BY <1>2, <1>3, <1>4, <1>6, <1>8, <1>9, <1>10 DEF t

LEMMA TotalOfTail ==
  ASSUME NEW s \in Seq(Nat), Len(s) > 0
  PROVE  Total(s) = s[1] + Total(Tail(s))
  <1> DEFINE t == Tail(s)
             m == Len(t)
  <1>1. /\ t \in Seq(Nat) /\ Len(s) = m + 1 /\ m \in Nat
        /\ \A i \in 1 .. m : t[i] = s[i + 1]
        /\ s[1] \in Nat
    <2>1. s # << >>
      OBVIOUS
    <2> QED
      BY <2>1
  <1> HIDE DEF t
  <1>2. PICK f \in PartialSums(s) : Total(s) = f[m + 1]
    BY <1>1, TotalIs
  <1>3. PICK g \in PartialSums(t) : Total(t) = g[m]
    BY <1>1, TotalIs
  <1>4. /\ f \in [0 .. m + 1 -> Nat] /\ f[0] = 0
        /\ \A k \in 1 .. m + 1 : f[k] = f[k - 1] + s[k]
    BY <1>1 DEF PartialSums
  <1>5. /\ g \in [0 .. m -> Nat] /\ g[0] = 0
        /\ \A k \in 1 .. m : g[k] = g[k - 1] + t[k]
    BY <1>1 DEF PartialSums
  <1> DEFINE h == [k \in 0 .. m |-> f[k + 1]]
  <1> HIDE DEF m
  <1>6. h \in [0 .. m -> Nat] /\ h[0] = f[1] /\ h[m] = f[m + 1]
    <2>1. \A k \in 0 .. m : k + 1 \in 0 .. m + 1
      BY <1>1
    <2> QED
      BY <1>1, <1>4, <2>1
  <1>7. ASSUME NEW k \in 1 .. m PROVE g[k] - g[k - 1] = h[k] - h[k - 1]
    <2>1. /\ k \in 0 .. m /\ k - 1 \in 0 .. m /\ k + 1 \in 1 .. m + 1
          /\ (k + 1) - 1 = k /\ (k - 1) + 1 = k
      BY <1>1
    <2>5. g[k] = g[k - 1] + t[k]
      BY <1>5
    <2>6. f[k + 1] = f[k] + s[k + 1]
      BY <1>4, <2>1
    <2>7. s[k + 1] = t[k] /\ t[k] \in Nat
      BY <1>1, SMTT(20) DEF m
    <2>2. g[k] = g[k - 1] + t[k] /\ f[k + 1] = f[k] + t[k]
      BY <2>5, <2>6, <2>7
    <2>3. h[k] = f[k + 1] /\ h[k - 1] = f[k]
      BY <2>1
    <2>4. g[k - 1] \in Nat /\ h[k - 1] \in Nat
      BY <1>5, <1>6, <2>1
    <2> QED
      BY <2>2, <2>3, <2>4, <2>7, SMTT(20)
  <1> HIDE DEF h
  <1>8. g[m] - g[0] = h[m] - h[0]
    BY <1>1, <1>5, <1>6, <1>7, SumsAlike
  <1>9. f[1] = s[1] /\ f[1] \in Nat
    BY <1>1, <1>4
  <1>10. g[m] \in Nat /\ f[m + 1] \in Nat
    BY <1>1, <1>4, <1>5
  <1> QED
    BY <1>2, <1>3, <1>5, <1>6, <1>8, <1>9, <1>10 DEF t

-----------------------------------------------------------------------------
\* What is stored for the slots of a ring, the oldest first.
InOrder(v, head, tail) ==
  [i \in 1 .. Len(InRing(head, tail)) |-> v[InRing(head, tail)[i]]]

Stored(V, v, head, tail) == v \in [Slots -> V] /\ head \in Slots /\ tail \in Slots

LEMMA InOrderIs ==
  ASSUME NEW V, NEW v, NEW head, NEW tail, Stored(V, v, head, tail)
  PROVE  LET ring == InRing(head, tail)
             list == InOrder(v, head, tail)
         IN  /\ list \in Seq(V) /\ Len(list) = Len(ring)
             /\ \A i \in 1 .. Len(ring) : ring[i] \in Slots /\ list[i] = v[ring[i]]
  <1> DEFINE ring == InRing(head, tail)
             list == InOrder(v, head, tail)
  <1>1. ring \in Seq(Slots)
    BY RingIs DEF Stored
  <1> HIDE DEF ring
  <1>2. Len(ring) \in Nat /\ \A i \in 1 .. Len(ring) : ring[i] \in Slots
    BY <1>1
  <1>3. list = [i \in 1 .. Len(ring) |-> v[ring[i]]]
    BY DEF InOrder, ring
  <1> HIDE DEF list
  <1>4. list \in Seq(V) /\ Len(list) = Len(ring) /\ \A i \in 1 .. Len(ring) : list[i] = v[ring[i]]
    BY <1>2, <1>3 DEF Stored
  <1> QED
    BY <1>2, <1>4 DEF ring, list

\* One more value is stored: in a ring that has room for it, which then ends at
\* next, or in the place of the oldest of a full one, which then starts there.
Grows(V, v, w, head, tail, next) ==
  /\ v \in [Slots -> V] /\ w \in [Slots -> V]
  /\ head \in Slots /\ tail \in Slots /\ next \in Slots
  /\ next = After(tail) /\ head # next
  /\ \A s \in Slots \ {tail} : w[s] = v[s]

Turns(V, v, w, head, tail, next) ==
  /\ v \in [Slots -> V] /\ w \in [Slots -> V]
  /\ head \in Slots /\ tail \in Slots /\ next \in Slots
  /\ head = After(tail) /\ next = After(head)
  /\ \A s \in Slots \ {head, tail} : w[s] = v[s]

LEMMA InOrderGrows ==
  ASSUME NEW V, NEW v, NEW w, NEW head, NEW tail, NEW next, Grows(V, v, w, head, tail, next)
  PROVE  InOrder(w, head, next) = Append(InOrder(v, head, tail), w[tail])
  <1> DEFINE old == InOrder(v, head, tail)
             new == InOrder(w, head, next)
             before == InRing(head, tail)
             after == InRing(head, next)
             added == Append(old, w[tail])
  <1>0. /\ v \in [Slots -> V] /\ w \in [Slots -> V]
        /\ head \in Slots /\ tail \in Slots /\ next \in Slots
        /\ next = After(tail) /\ head # next
    BY DEF Grows
  <1>s. Stored(V, v, head, tail) /\ Stored(V, w, head, next)
    BY <1>0 DEF Stored
  <1>2. before \in Seq(Slots) /\ Len(before) \in Nat /\ tail \notin ToSet(before)
    BY <1>0, RingIs
  <1>3. /\ old \in Seq(V) /\ Len(old) = Len(before)
        /\ \A i \in 1 .. Len(before) : before[i] \in Slots /\ old[i] = v[before[i]]
    BY <1>s, InOrderIs
  <1>4. /\ new \in Seq(V) /\ Len(new) = Len(after)
        /\ \A i \in 1 .. Len(after) : after[i] \in Slots /\ new[i] = w[after[i]]
    BY <1>s, InOrderIs
  <1>5. \A i \in 1 .. Len(before) : before[i] # tail
    BY <1>2, InToSet
  <1>6. after = Append(before, tail)
    BY <1>0, RingGrows
  <1> HIDE DEF before, after, old, new
  <1>7. /\ Len(after) = Len(before) + 1 /\ after[Len(before) + 1] = tail
        /\ \A i \in 1 .. Len(before) : after[i] = before[i]
    BY <1>2, <1>6
  <1>8. w[tail] \in V
    BY <1>0
  <1>9. /\ added \in Seq(V) /\ Len(added) = Len(before) + 1
        /\ \A i \in 1 .. Len(before) : added[i] = old[i]
        /\ added[Len(before) + 1] = w[tail]
    BY <1>2, <1>3, <1>8
  <1> HIDE DEF added
  <1>10. ASSUME NEW i \in 1 .. Len(new) PROVE new[i] = added[i]
    <2>1. CASE i = Len(before) + 1
      BY <1>4, <1>7, <1>9, <2>1
    <2>2. CASE i # Len(before) + 1
      <3>1. i \in 1 .. Len(before) /\ i \in 1 .. Len(after)
        BY <1>2, <1>4, <1>7, <2>2
      <3>2. w[before[i]] = v[before[i]]
        BY <1>3, <1>5, <3>1 DEF Grows
      <3> QED
        BY <1>3, <1>4, <1>7, <1>9, <3>1, <3>2
    <2> QED
      BY <2>1, <2>2
  <1>11. new = added
    BY <1>2, <1>4, <1>7, <1>9, <1>10
  <1> QED
    BY <1>11 DEF new, added, old

LEMMA InOrderTurns ==
  ASSUME NEW V, NEW v, NEW w, NEW head, NEW tail, NEW next, Turns(V, v, w, head, tail, next)
  PROVE  /\ InOrder(w, next, head) = Append(Tail(InOrder(v, head, tail)), w[tail])
         /\ Len(InOrder(v, head, tail)) > 0 /\ InOrder(v, head, tail)[1] = v[head]
  <1> DEFINE old == InOrder(v, head, tail)
             new == InOrder(w, next, head)
             before == InRing(head, tail)
             after == InRing(next, head)
             kept == Tail(old)
             added == Append(kept, w[tail])
  <1>0. /\ v \in [Slots -> V] /\ w \in [Slots -> V]
        /\ head \in Slots /\ tail \in Slots /\ next \in Slots
        /\ head = After(tail) /\ next = After(head)
    BY DEF Turns
  <1>s. Stored(V, v, head, tail) /\ Stored(V, w, next, head)
    BY <1>0 DEF Stored
  <1>2. /\ before \in Seq(Slots) /\ Len(before) \in Nat /\ tail \notin ToSet(before)
        /\ IsInjective(before)
    BY <1>0, RingIs
  <1>3. /\ old \in Seq(V) /\ Len(old) = Len(before)
        /\ \A i \in 1 .. Len(before) : before[i] \in Slots /\ old[i] = v[before[i]]
    BY <1>s, InOrderIs
  <1>4. /\ new \in Seq(V) /\ Len(new) = Len(after)
        /\ \A i \in 1 .. Len(after) : after[i] \in Slots /\ new[i] = w[after[i]]
    BY <1>s, InOrderIs
  <1>5. \A i \in 1 .. Len(before) : before[i] # tail
    BY <1>2, InToSet
  <1>6. head # tail /\ next # head
    BY <1>0, AfterIs, CostModelAssumption DEF Slots
  <1>7. /\ before # << >> /\ before[1] = head /\ Len(before) > 0
        /\ InRing(next, tail) = Tail(before)
    BY <1>0, <1>6, RingShrinks
  <1>8. after = Append(Tail(before), tail)
    BY <1>0, <1>6, <1>7, RingGrows
  <1> HIDE DEF before, after, old, new
  <1>9. /\ Len(after) = Len(before) /\ after[Len(before)] = tail
        /\ \A i \in 1 .. Len(before) - 1 : after[i] = before[i + 1]
    BY <1>2, <1>7, <1>8
  <1>10. old # << >>
    BY <1>3, <1>7
  <1>11. /\ kept \in Seq(V) /\ Len(kept) = Len(before) - 1
         /\ \A i \in 1 .. Len(before) - 1 : kept[i] = old[i + 1]
    BY <1>3, <1>10
  <1> HIDE DEF kept
  <1>12. w[tail] \in V
    BY <1>0
  <1>13. /\ added \in Seq(V) /\ Len(added) = Len(before)
         /\ \A i \in 1 .. Len(before) - 1 : added[i] = kept[i]
         /\ added[Len(before)] = w[tail]
    BY <1>2, <1>11, <1>12
  <1> HIDE DEF added
  <1>14. ASSUME NEW i \in 1 .. Len(new) PROVE new[i] = added[i]
    <2>1. CASE i = Len(before)
      BY <1>4, <1>9, <1>13, <2>1
    <2>2. CASE i # Len(before)
      <3>1. i \in 1 .. Len(before) - 1 /\ i + 1 \in 1 .. Len(before) /\ i + 1 # 1
            /\ 1 \in 1 .. Len(before) /\ i \in 1 .. Len(after)
        BY <1>2, <1>4, <1>9, <2>2
      <3>2. before[i + 1] # head
        BY <1>2, <1>7, <3>1 DEF IsInjective
      <3>3. before[i + 1] \in Slots \ {head, tail}
        BY <1>3, <1>5, <3>1, <3>2
      <3>4. w[before[i + 1]] = v[before[i + 1]]
        BY <3>3 DEF Turns
      <3>5. new[i] = w[before[i + 1]]
        BY <1>4, <1>9, <3>1
      <3>6. added[i] = v[before[i + 1]]
        BY <1>3, <1>11, <1>13, <3>1
      <3> QED
        BY <3>4, <3>5, <3>6
    <2> QED
      BY <2>1, <2>2
  <1>15. new = added
    BY <1>4, <1>9, <1>13, <1>14
  <1>16. Len(old) > 0 /\ old[1] = v[head]
    BY <1>2, <1>3, <1>7
  <1> QED
    BY <1>15, <1>16 DEF new, added, kept, old

\* Their sum after that.
LEMMA TotalGrows ==
  ASSUME NEW v, NEW w, NEW head, NEW tail, NEW next, Grows(Nat, v, w, head, tail, next)
  PROVE  Total(InOrder(w, head, next)) = Total(InOrder(v, head, tail)) + w[tail]
  <1> DEFINE old == InOrder(v, head, tail)
             new == InOrder(w, head, next)
  <1>1. /\ v \in [Slots -> Nat] /\ w \in [Slots -> Nat]
        /\ head \in Slots /\ tail \in Slots
    BY DEF Grows
  <1>2. old \in Seq(Nat) /\ w[tail] \in Nat
    BY <1>1, InOrderIs DEF Stored
  <1>3. new = Append(old, w[tail])
    BY InOrderGrows
  <1> HIDE DEF old, new
  <1>4. Total(new) = Total(old) + w[tail]
    BY <1>2, <1>3, TotalOfAppend
  <1> QED
    BY <1>4 DEF old, new

LEMMA TotalTurns ==
  ASSUME NEW v, NEW w, NEW head, NEW tail, NEW next, Turns(Nat, v, w, head, tail, next)
  PROVE  Total(InOrder(w, next, head)) = Total(InOrder(v, head, tail)) + w[tail] - v[head]
  <1> DEFINE old == InOrder(v, head, tail)
             new == InOrder(w, next, head)
             rest == Tail(old)
  <1>1. /\ v \in [Slots -> Nat] /\ w \in [Slots -> Nat]
        /\ head \in Slots /\ tail \in Slots
    BY DEF Turns
  <1>2. old \in Seq(Nat) /\ w[tail] \in Nat /\ v[head] \in Nat
    BY <1>1, InOrderIs DEF Stored
  <1>3. new = Append(rest, w[tail]) /\ Len(old) > 0 /\ old[1] = v[head]
    BY InOrderTurns
  <1> HIDE DEF old, new
  <1>4. rest \in Seq(Nat) /\ Total(old) = v[head] + Total(rest)
    BY <1>2, <1>3, TotalOfTail
  <1> HIDE DEF rest
  <1>5. Total(rest) \in Nat
    BY <1>4, TotalType
  <1>6. Total(new) = Total(rest) + w[tail]
    BY <1>2, <1>3, <1>4, TotalOfAppend
  <1>7. Total(new) = Total(old) + w[tail] - v[head]
    BY <1>2, <1>4, <1>5, <1>6
  <1> QED
    BY <1>7 DEF old, new

-----------------------------------------------------------------------------
\* What the variables hold.
WDItem == [offset : Int, dirty : BOOLEAN, usetime : Nat, isCallBack : BOOLEAN]

Entry == [key : Nat, itemId : Slots]

CounterNames == {"Evict_Clean", "Evict_Dirty", "CallBack_Clean", "CallBack_Dirty",
                 "Lat_write_sum", "Cnt_write_req", "T_evict_cnt"}

Counters == [CounterNames -> Int]

TimeRing == [slot : [Slots -> Nat], head : Slots, tail : Slots, sum : Int, cnt : Int]

TypeInv ==
  /\ WindowArray \in [Slots -> WDItem] /\ WDArray_Head \in Slots /\ WDArray_Tail \in Slots
  /\ counters \in Counters /\ reads \in TimeRing /\ misses \in TimeRing
  /\ cached \subseteq Blocks

\* The index, said of the slots that have an entry: those of the ring that were
\* not called back.  None of their blocks is in the cache, so an eviction never
\* brings a second entry for a block.
Live == {s \in ToSet(Ring) : ~WindowArray[s].isCallBack}

EntryOf(s) == [key |-> WindowArray[s].offset, itemId |-> s]

Entries == {EntryOf(s) : s \in Live}

\* The chains have the entries E and no others, each under its own code.
Holds(chains, E) ==
  /\ chains \in [Slots -> Seq(Entry)] /\ E \subseteq Entry
  /\ \A code \in Slots :
       /\ IsInjective(chains[code])
       /\ \A e \in Entry : e \in ToSet(chains[code]) <=>
                             e \in E /\ HashMap_KeytoValue(e.key) = code

OneEach(E) == \A e, f \in E : e.key = f.key => e = f

IndexInv ==
  /\ alive /\ nBuckets = TS_WindowSize - Cardinality(Live)
  /\ Holds(HashIndex, Entries)
  /\ \A s \in Live : WindowArray[s].offset \in Blocks \ cached
  /\ \A s, u \in Live : WindowArray[s].offset = WindowArray[u].offset => s = u

-----------------------------------------------------------------------------
LEMMA ConstantsAre ==
  /\ TS_WindowSize \in Nat /\ TS_WindowSize >= 2 /\ 0 \in Slots
  /\ \A b \in Blocks : b \in Nat
  /\ \A t \in ReadTimes \cup WriteTimes \cup MissTimes : t \in Nat
  BY CostModelAssumption DEF Slots

LEMMA RingFacts ==
  ASSUME TypeInv
  PROVE  /\ Ring \in Seq(Slots) /\ Len(Ring) \in 0 .. TS_WindowSize - 1
         /\ DOMAIN Ring = 1 .. Len(Ring)
         /\ IsInjective(Ring) /\ WDArray_Tail \notin ToSet(Ring)
         /\ ToSet(Ring) \subseteq Slots /\ IsFiniteSet(ToSet(Ring))
         /\ Cardinality(ToSet(Ring)) = Len(Ring)
         /\ IsFull_WDArray <=> Len(Ring) = TS_WindowSize - 1
  <1>1. WDArray_Head \in Slots /\ WDArray_Tail \in Slots
    BY DEF TypeInv
  <1>2. /\ Ring \in Seq(Slots) /\ Len(Ring) \in 0 .. TS_WindowSize - 1
        /\ IsInjective(Ring) /\ WDArray_Tail \notin ToSet(Ring)
        /\ IsFull_WDArray <=> Len(Ring) = TS_WindowSize - 1
    BY <1>1, RingIs DEF Ring, IsFull_WDArray
  <1>3. DOMAIN Ring = 1 .. Len(Ring)
    BY <1>2
  <1>4. ToSet(Ring) \subseteq Slots
    BY <1>2, InToSet
  <1>5. IsFiniteSet(ToSet(Ring)) /\ Cardinality(ToSet(Ring)) = Len(Ring)
    BY <1>2, ToSetFinite
  <1> QED
    BY <1>2, <1>3, <1>4, <1>5

\* The sets that are counted, and those whose size is known.
LEMMA Counted ==
  ASSUME TypeInv
  PROVE  /\ \A d \in BOOLEAN : /\ IsFiniteSet(Items(d)) /\ Cardinality(Items(d)) \in Nat
                               /\ IsFiniteSet(Called(d)) /\ Cardinality(Called(d)) \in Nat
                               /\ Items(d) \subseteq ToSet(Ring) /\ Called(d) \subseteq Items(d)
         /\ IsFiniteSet(Live) /\ Cardinality(Live) \in 0 .. Len(Ring)
         /\ Live \subseteq ToSet(Ring)
         /\ Cardinality(Live) = Len(Ring) => Live = ToSet(Ring)
  <1> DEFINE S == ToSet(Ring)
  <1>1. IsFiniteSet(S) /\ Cardinality(S) = Len(Ring)
    BY RingFacts
  <1>2. /\ \A d \in BOOLEAN : Items(d) \subseteq S /\ Called(d) \subseteq S
                               /\ Called(d) \subseteq Items(d)
        /\ Live \subseteq S
    BY DEF Items, Called, Live
  <1>3. \A T \in SUBSET S : /\ IsFiniteSet(T) /\ Cardinality(T) \in Nat
                            /\ Cardinality(T) <= Cardinality(S)
                            /\ Cardinality(T) = Cardinality(S) => T = S
    <2> HIDE DEF S
    <2> QED
      BY <1>1, FS_Subset, FS_CardinalityType
  <1>4. Live \in SUBSET S /\ \A d \in BOOLEAN : Items(d) \in SUBSET S /\ Called(d) \in SUBSET S
    BY <1>2
  <1> QED
    BY <1>1, <1>2, <1>3, <1>4

\* How many there are after one has left a set and one has come.
LEMMA LeftAndCame ==
  ASSUME NEW S, IsFiniteSet(S), NEW r, NEW a, a \notin S, NEW leaves \in BOOLEAN,
         NEW comes \in BOOLEAN, leaves => r \in S
  PROVE  Cardinality((S \ (IF leaves THEN {r} ELSE {})) \cup (IF comes THEN {a} ELSE {}))
           = Cardinality(S) - B(leaves) + B(comes)
  <1> DEFINE T == S \ (IF leaves THEN {r} ELSE {})
  <1>0. Cardinality(S) \in Nat
    BY FS_CardinalityType
  <1>1. IsFiniteSet(T) /\ Cardinality(T) = Cardinality(S) - B(leaves)
    <2>1. CASE leaves
      <3>1. T = S \ {r}
        BY <2>1
      <3>2. IsFiniteSet(S \ {r}) /\ Cardinality(S \ {r}) = Cardinality(S) - 1
        BY <2>1, FS_RemoveElement
      <3> QED
        BY <2>1, <3>1, <3>2 DEF B
    <2>2. CASE ~leaves
      <3>1. T = S
        BY <2>2
      <3> QED
        BY <1>0, <2>2, <3>1 DEF B
    <2> QED
      BY <2>1, <2>2
  <1>2. a \notin T /\ Cardinality(T) \in Nat
    BY <1>1, FS_CardinalityType
  <1> HIDE DEF T
  <1>3. Cardinality(T \cup (IF comes THEN {a} ELSE {})) = Cardinality(T) + B(comes)
    <2>1. CASE comes
      BY <1>1, <1>2, <2>1, FS_AddElement DEF B
    <2>2. CASE ~comes
      <3>1. T \cup (IF comes THEN {a} ELSE {}) = T
        BY <2>2
      <3> QED
        BY <1>2, <2>2, <3>1 DEF B
    <2> QED
      BY <2>1, <2>2
  <1> QED
    BY <1>1, <1>3 DEF T

LEMMA FullHead ==
  ASSUME TypeInv, IsFull_WDArray
  PROVE  WDArray_Head \in ToSet(Ring) /\ Ring[1] = WDArray_Head /\ Len(Ring) > 0
  <1>1. WDArray_Head \in Slots /\ WDArray_Tail \in Slots
    BY DEF TypeInv
  <1>2. WDArray_Head # WDArray_Tail
    BY <1>1, AfterIs, ConstantsAre DEF IsFull_WDArray, Slots
  <1>3. Len(Ring) > 0 /\ Ring[1] = WDArray_Head
    BY <1>1, <1>2, RingShrinks DEF Ring
  <1> QED
    BY <1>3, RingFacts, InToSet

-----------------------------------------------------------------------------
\* An eviction seen from the ring: the oldest item leaves if it is full, the
\* new one comes, the others stay what they are.
NewItem(b, isDirty, usetime) ==
  [offset |-> b, dirty |-> isDirty, usetime |-> usetime, isCallBack |-> FALSE]

LEMMA EvictedRing ==
  ASSUME TypeInv, NEW b \in Blocks, NEW isDirty \in BOOLEAN, NEW usetime \in Nat,
         Reg_EvictBlk(b, isDirty, usetime)
  PROVE  /\ WindowArray' \in [Slots -> WDItem] /\ WDArray_Head' \in Slots
         /\ WDArray_Tail' \in Slots
         /\ Ring' = Append(IF IsFull_WDArray THEN Tail(Ring) ELSE Ring, WDArray_Tail)
         /\ IsFull_WDArray => /\ WDArray_Head \in ToSet(Ring) /\ Ring[1] = WDArray_Head
                              /\ Len(Ring) > 0
         /\ ToSet(Ring)' = (ToSet(Ring) \ (IF IsFull_WDArray THEN {WDArray_Head} ELSE {}))
                              \cup {WDArray_Tail}
         /\ WindowArray'[WDArray_Tail] = NewItem(b, isDirty, usetime)
         /\ \A s \in ToSet(Ring) :
              ~(IsFull_WDArray /\ s = WDArray_Head) => WindowArray'[s] = WindowArray[s]
  <1> DEFINE new == NewItem(b, isDirty, usetime)
  <1>t. WDArray_Head \in Slots /\ WDArray_Tail \in Slots /\ After(WDArray_Tail) \in Slots
        /\ After(WDArray_Head) \in Slots /\ WindowArray \in [Slots -> WDItem]
    BY AfterIs DEF TypeInv
  <1>1. /\ WDArray_Tail' = After(WDArray_Tail)
        /\ WDArray_Head' = IF IsFull_WDArray THEN After(WDArray_Head) ELSE WDArray_Head
        /\ WindowArray' = [s \in Slots |->
                             IF s = WDArray_Tail THEN new
                             ELSE IF IsFull_WDArray /\ s = WDArray_Head THEN Unused
                             ELSE WindowArray[s]]
    BY DEF Reg_EvictBlk, Kept, NewItem
  <1>2. WDArray_Head' \in Slots /\ WDArray_Tail' \in Slots
    BY <1>t, <1>1
  <1>3. WindowArray' \in [Slots -> WDItem]
    <2>1. new \in WDItem /\ Unused \in WDItem
      BY ConstantsAre DEF NewItem, WDItem, Unused
    <2> HIDE DEF new
    <2> QED
      BY <1>t, <1>1, <2>1
  <1>4. /\ WDArray_Tail \notin ToSet(Ring) /\ ToSet(Ring) \subseteq Slots
        /\ Ring \in Seq(Slots) /\ IsInjective(Ring) /\ Len(Ring) \in Nat
    BY RingFacts
  <1>5. /\ WindowArray'[WDArray_Tail] = new
        /\ \A s \in ToSet(Ring) :
             ~(IsFull_WDArray /\ s = WDArray_Head) => WindowArray'[s] = WindowArray[s]
    BY <1>t, <1>1, <1>4
  <1>6. CASE IsFull_WDArray
    <2>1. WDArray_Head # WDArray_Tail /\ After(WDArray_Head) # After(WDArray_Tail)
      BY <1>6, <1>t, AfterIs, ConstantsAre DEF IsFull_WDArray, Slots
    <2>2. /\ Len(Ring) > 0 /\ Ring # << >> /\ Ring[1] = WDArray_Head
          /\ InRing(After(WDArray_Head), WDArray_Tail) = Tail(Ring)
      BY <1>t, <2>1, RingShrinks DEF Ring
    <2>3. Ring' = Append(Tail(Ring), WDArray_Tail)
      <3>1. Ring' = InRing(After(WDArray_Head), After(WDArray_Tail))
        BY <1>1, <1>6 DEF Ring
      <3>2. InRing(After(WDArray_Head), After(WDArray_Tail))
              = Append(InRing(After(WDArray_Head), WDArray_Tail), WDArray_Tail)
        BY <1>t, <2>1, RingGrows
      <3> QED
        BY <2>2, <3>1, <3>2
    <2>4. WDArray_Head \in ToSet(Ring)
      BY <1>4, <2>2, InToSet
    <2>5. ToSet(Ring)' = (ToSet(Ring) \ {WDArray_Head}) \cup {WDArray_Tail}
      <3>1. ToSet(Tail(Ring)) = ToSet(Ring) \ {WDArray_Head}
        BY <1>4, <2>2, TailSet
      <3>2. Tail(Ring) \in Seq(Slots)
        BY <1>4, <2>2
      <3>3. ToSet(Append(Tail(Ring), WDArray_Tail)) = ToSet(Tail(Ring)) \cup {WDArray_Tail}
        <4> DEFINE rest == Tail(Ring)
        <4>2. rest \in Seq(Slots)
          BY <3>2
        <4> HIDE DEF rest
        <4>1. ToSet(Append(rest, WDArray_Tail)) = ToSet(rest) \cup {WDArray_Tail}
          BY <1>t, <4>2, AppendSet
        <4> QED
          BY <4>1 DEF rest
      <3> QED
        BY <2>3, <3>1, <3>3
    <2> QED
      BY <1>2, <1>3, <1>5, <1>6, <2>2, <2>3, <2>4, <2>5
  <1>7. CASE ~IsFull_WDArray
    <2>1. Ring' = Append(Ring, WDArray_Tail)
      BY <1>t, <1>1, <1>7, RingGrows DEF Ring, IsFull_WDArray
    <2>2. ToSet(Ring)' = (ToSet(Ring) \ {}) \cup {WDArray_Tail}
      BY <1>t, <1>4, <2>1, AppendSet
    <2> QED
      BY <1>2, <1>3, <1>5, <1>7, <2>1, <2>2
  <1> QED
    BY <1>6, <1>7

-----------------------------------------------------------------------------
\* The chains after an entry came, after one left, and what is found in them.
LEMMA CodeIsSlot ==
  ASSUME NEW key \in Nat
  PROVE  HashMap_KeytoValue(key) \in Slots
  BY ConstantsAre DEF HashMap_KeytoValue, Slots

LEMMA EntryIs ==
  /\ \A e \in Entry : e.key \in Nat /\ e.itemId \in Slots
                      /\ e = [key |-> e.key, itemId |-> e.itemId]
  /\ \A k \in Nat, s \in Slots : [key |-> k, itemId |-> s] \in Entry
  BY DEF Entry

LEMMA InsertHolds ==
  ASSUME NEW chains, NEW E, Holds(chains, E), NEW free, NEW ok, NEW e \in Entry, e \notin E
  PROVE  LET y == indexInsert_WDItem([index |-> chains, free |-> free, ok |-> ok], e.key, e.itemId)
         IN  /\ Holds(y.index, E \cup {e}) /\ y.free = free - 1
             /\ y.ok = (ok /\ free > 0)
  <1> DEFINE code == HashMap_KeytoValue(e.key)
             chain == <<e>> \o chains[code]
             y == indexInsert_WDItem([index |-> chains, free |-> free, ok |-> ok], e.key, e.itemId)
             after == [chains EXCEPT ![code] = chain]
  <1>1. code \in Slots /\ e = [key |-> e.key, itemId |-> e.itemId]
    BY EntryIs, CodeIsSlot
  <1>2. y.index = after /\ y.free = free - 1 /\ y.ok = (ok /\ free > 0)
    BY <1>1 DEF indexInsert_WDItem
  <1>3. chains[code] \in Seq(Entry) /\ e \notin ToSet(chains[code]) /\ IsInjective(chains[code])
    BY <1>1 DEF Holds
  <1>4. /\ chain \in Seq(Entry) /\ ToSet(chain) = ToSet(chains[code]) \cup {e}
        /\ IsInjective(chain)
    BY <1>3, ConsIs, ConsInjective
  <1> HIDE DEF code, chain
  <1>5. after \in [Slots -> Seq(Entry)] /\ E \cup {e} \subseteq Entry
    BY <1>1, <1>4 DEF Holds
  <1>6. ASSUME NEW c \in Slots
        PROVE  /\ IsInjective(after[c])
               /\ \A f \in Entry : f \in ToSet(after[c]) <=>
                                     f \in E \cup {e} /\ HashMap_KeytoValue(f.key) = c
    <2>1. CASE c = code
      <3>1. after[c] = chain
        BY <1>1, <2>1 DEF Holds
      <3>2. \A f \in Entry : f \in ToSet(chains[code]) <=> f \in E /\ HashMap_KeytoValue(f.key) = c
        BY <1>1, <2>1 DEF Holds
      <3>3. HashMap_KeytoValue(e.key) = c
        BY <2>1 DEF code
      <3> QED
        BY <1>4, <3>1, <3>2, <3>3
    <2>2. CASE c # code
      <3>1. after[c] = chains[c]
        BY <1>1, <2>2 DEF Holds
      <3>2. HashMap_KeytoValue(e.key) # c
        BY <2>2 DEF code
      <3> QED
        BY <3>1, <3>2 DEF Holds
    <2> QED
      BY <2>1, <2>2
  <1> HIDE DEF y
  <1>7. Holds(y.index, E \cup {e})
    BY <1>2, <1>5, <1>6 DEF Holds
  <1> QED
    BY <1>2, <1>7 DEF y

\* Where the entry with a key stands in its chain.
PlaceOf(chain, key) ==
  LET places == {i \in 1 .. Len(chain) : chain[i].key = key}
  IN  IF places # {} THEN Min(places) ELSE 0

LEMMA KeyIsAt ==
  ASSUME NEW chains, NEW E, Holds(chains, E), OneEach(E), NEW key \in Nat
  PROVE  LET chain == chains[HashMap_KeytoValue(key)]
             at == PlaceOf(chain, key)
         IN  /\ \A e \in E : e.key = key => at \in 1 .. Len(chain) /\ chain[at] = e
             /\ (\A e \in E : e.key # key) => at = 0
  <1> DEFINE code == HashMap_KeytoValue(key)
             chain == chains[code]
             places == {i \in 1 .. Len(chain) : chain[i].key = key}
             at == PlaceOf(chain, key)
  <1>1. code \in Slots /\ chain \in Seq(Entry) /\ IsInjective(chain)
    BY CodeIsSlot DEF Holds
  <1>2. at = IF places # {} THEN Min(places) ELSE 0
    BY DEF PlaceOf
  <1>3. \A e \in Entry : e \in ToSet(chain) <=> e \in E /\ HashMap_KeytoValue(e.key) = code
    BY <1>1 DEF Holds
  <1>4. ASSUME NEW e \in E, e.key = key PROVE at \in 1 .. Len(chain) /\ chain[at] = e
    <2>1. e \in Entry /\ e \in ToSet(chain)
      BY <1>3, <1>4 DEF Holds
    <2>2. PICK i \in 1 .. Len(chain) : chain[i] = e
      BY <1>1, <2>1, InToSet
    <2>3. i \in places
      BY <1>4, <2>2
    <2>4. Min(places) \in places
      <3>1. places \subseteq Nat
        OBVIOUS
      <3> HIDE DEF places
      <3> QED
        BY <2>3, <3>1, MinIs
    <2>5. at \in 1 .. Len(chain) /\ chain[at].key = key
      BY <1>2, <2>3, <2>4
    <2>6. chain[at] \in E
      BY <1>1, <1>3, <2>5, InToSet
    <2> QED
      BY <1>4, <2>5, <2>6 DEF OneEach
  <1>5. ASSUME \A e \in E : e.key # key PROVE at = 0
    <2>1. \A i \in 1 .. Len(chain) : chain[i] \in E
      BY <1>1, <1>3, InToSet
    <2>2. places = {}
      BY <1>5, <2>1
    <2> QED
      BY <1>2, <2>2
  <1> QED
    BY <1>4, <1>5

LEMMA RemoveHolds ==
  ASSUME NEW chains, NEW E, Holds(chains, E), OneEach(E), NEW free, NEW ok, NEW e \in E
  PROVE  LET y == indexRemove_WDItem([index |-> chains, free |-> free, ok |-> ok], e.key)
         IN  /\ Holds(y.index, E \ {e}) /\ y.free = free + 1 /\ y.ok = ok
             /\ y = [index |-> y.index, free |-> y.free, ok |-> y.ok]
  <1> DEFINE code == HashMap_KeytoValue(e.key)
             chain == chains[code]
             at == PlaceOf(chain, e.key)
             rest == RemoveAt(chain, at)
             y == indexRemove_WDItem([index |-> chains, free |-> free, ok |-> ok], e.key)
             after == [chains EXCEPT ![code] = rest]
  <1>1. e \in Entry /\ code \in Slots /\ chain \in Seq(Entry) /\ IsInjective(chain)
    BY EntryIs, CodeIsSlot DEF Holds
  <1>2. at \in 1 .. Len(chain) /\ chain[at] = e
    <2>1. e.key \in Nat
      BY <1>1, EntryIs
    <2> QED
      BY <2>1, KeyIsAt
  <1>3. /\ y.index = after /\ y.free = free + 1 /\ y.ok = ok
        /\ y = [index |-> y.index, free |-> y.free, ok |-> y.ok]
    <2>1. at # 0
      BY <1>2
    <2>2. SelectInSeq(chain, LAMBDA f : f.key = e.key) = at
      BY DEF SelectInSeq, PlaceOf
    <2> QED
      BY <2>1, <2>2 DEF indexRemove_WDItem, SelectInSeq, PlaceOf
  <1> HIDE DEF at, y
  <1>4. rest \in Seq(Entry) /\ IsInjective(rest) /\ ToSet(rest) = ToSet(chain) \ {e}
    <2> HIDE DEF chain
    <2> QED
      BY <1>1, <1>2, RemoveAtIs, RemoveAtSet
  <1> HIDE DEF code, rest
  <1>5. after \in [Slots -> Seq(Entry)] /\ E \ {e} \subseteq Entry
    BY <1>1, <1>4 DEF Holds
  <1>6. ASSUME NEW c \in Slots
        PROVE  /\ IsInjective(after[c])
               /\ \A f \in Entry : f \in ToSet(after[c]) <=>
                                     f \in E \ {e} /\ HashMap_KeytoValue(f.key) = c
    <2>1. CASE c = code
      <3>1. after[c] = rest
        BY <1>1, <2>1 DEF Holds
      <3>2. \A f \in Entry : f \in ToSet(chain) <=> f \in E /\ HashMap_KeytoValue(f.key) = c
        BY <1>1, <2>1 DEF Holds
      <3> QED
        BY <1>4, <3>1, <3>2
    <2>2. CASE c # code
      <3>1. after[c] = chains[c]
        BY <1>1, <2>2 DEF Holds
      <3>2. HashMap_KeytoValue(e.key) # c
        BY <2>2 DEF code
      <3> QED
        BY <3>1, <3>2 DEF Holds
    <2> QED
      BY <2>1, <2>2
  <1>7. Holds(y.index, E \ {e})
    BY <1>3, <1>5, <1>6 DEF Holds
  <1> QED
    BY <1>3, <1>7 DEF y

-----------------------------------------------------------------------------
LEMMA HeldMoves ==
  ASSUME NEW head \in Slots, NEW tail \in Slots
  PROVE  IF head = After(tail) THEN Held(After(head), head) = Held(head, tail)
                               ELSE Held(head, After(tail)) = Held(head, tail) + 1
  <1> DEFINE next == After(tail)
             second == After(head)
  <1>1. /\ next \in Slots /\ next = IF tail = TS_WindowSize - 1 THEN 0 ELSE tail + 1
        /\ second \in Slots /\ second = IF head = TS_WindowSize - 1 THEN 0 ELSE head + 1
    BY AfterIs
  <1> HIDE DEF next, second
  <1>2. IF head = next THEN Held(second, head) = Held(head, tail)
                       ELSE Held(head, next) = Held(head, tail) + 1
    BY <1>1, CostModelAssumption DEF Held, Slots
  <1> QED
    BY <1>2 DEF next, second

\* A window of times keeps its sum and its number, in step with what it holds.
SumsItsTimes(r) ==
  /\ r.cnt = Len(InRing(r.head, r.tail))
  /\ r.sum = Total(InOrder(r.slot, r.head, r.tail))

LEMMA RegisteredKeeps ==
  ASSUME NEW r, r \in TimeRing, SumsItsTimes(r), NEW usetime \in Nat
  PROVE  Registered(r, usetime) \in TimeRing /\ SumsItsTimes(Registered(r, usetime))
  <1> DEFINE head == r.head
             tail == r.tail
             v == r.slot
             full == head = After(tail)
             w == [s \in Slots |-> IF s = tail THEN usetime
                                   ELSE IF full /\ s = head THEN 0 ELSE v[s]]
             new == Registered(r, usetime)
  <1>1. /\ head \in Slots /\ tail \in Slots /\ v \in [Slots -> Nat]
        /\ r.sum \in Int /\ r.cnt \in Int
    BY DEF TimeRing
  <1>2. /\ new = [slot |-> w,
                  sum  |-> r.sum + usetime - (IF full THEN v[head] ELSE 0),
                  cnt  |-> r.cnt + 1 - B(full),
                  head |-> IF full THEN After(head) ELSE head,
                  tail |-> After(tail)]
    BY DEF Registered
  <1>3. r.cnt = Len(InRing(head, tail)) /\ r.sum = Total(InOrder(v, head, tail))
    BY DEF SumsItsTimes
  <1>4. After(tail) \in Slots /\ After(head) \in Slots
    BY <1>1, AfterIs
  <1> HIDE DEF head, tail, v
  <1>5. w \in [Slots -> Nat] /\ w[tail] = usetime
    BY <1>1
  <1>6. v[head] \in Nat
    BY <1>1
  <1>7. new \in TimeRing
    <2>1. /\ r.sum + usetime - (IF full THEN v[head] ELSE 0) \in Int
          /\ r.cnt + 1 - B(full) \in Int
          /\ (IF full THEN After(head) ELSE head) \in Slots
      BY <1>1, <1>4, <1>6 DEF B
    <2> HIDE DEF w, full
    <2> QED
      BY <1>2, <1>4, <1>5, <2>1 DEF TimeRing
  <1>8. CASE full
    <2>1. /\ new.slot = w /\ new.head = After(head) /\ new.tail = head
          /\ new.sum = r.sum + usetime - v[head] /\ new.cnt = r.cnt + 1 - 1
      BY <1>2, <1>8 DEF B
    <2>2. Turns(Nat, v, w, head, tail, After(head))
      BY <1>1, <1>4, <1>5, <1>8 DEF Turns
    <2> HIDE DEF new, w
    <2>3. Total(InOrder(w, After(head), head)) = Total(InOrder(v, head, tail)) + w[tail] - v[head]
      BY <2>2, TotalTurns
    <2>4. Len(InRing(After(head), head)) = Len(InRing(head, tail))
      <3>1. Held(After(head), head) = Held(head, tail)
        BY <1>1, <1>8, HeldMoves
      <3> QED
        BY <1>1, <1>4, <3>1, RingIs
    <2> QED
      BY <1>1, <1>3, <1>5, <1>7, <2>1, <2>3, <2>4 DEF SumsItsTimes, new
  <1>9. CASE ~full
    <2>1. /\ new.slot = w /\ new.head = head /\ new.tail = After(tail)
          /\ new.sum = r.sum + usetime - 0 /\ new.cnt = r.cnt + 1 - 0
      BY <1>2, <1>9 DEF B
    <2>2. Grows(Nat, v, w, head, tail, After(tail))
      BY <1>1, <1>4, <1>5, <1>9 DEF Grows
    <2> HIDE DEF new, w
    <2>3. Total(InOrder(w, head, After(tail))) = Total(InOrder(v, head, tail)) + w[tail]
      BY <2>2, TotalGrows
    <2>4. Len(InRing(head, After(tail))) = Len(InRing(head, tail)) + 1
      <3>1. Held(head, After(tail)) = Held(head, tail) + 1
        BY <1>1, <1>9, HeldMoves
      <3> QED
        BY <1>1, <1>4, <3>1, RingIs
    <2> QED
      BY <1>1, <1>3, <1>5, <1>7, <2>1, <2>3, <2>4 DEF SumsItsTimes, new
  <1> QED
    BY <1>8, <1>9

-----------------------------------------------------------------------------
\* The index has one entry for each slot, and different blocks for them.
LEMMA EntriesAre ==
  ASSUME TypeInv, IndexInv
  PROVE  /\ Entries \subseteq Entry /\ OneEach(Entries)
         /\ \A s \in Live : /\ EntryOf(s) \in Entries /\ EntryOf(s).itemId = s
                            /\ EntryOf(s).key = WindowArray[s].offset
                            /\ WindowArray[s].offset \in Nat
         /\ \A e \in Entries : e.itemId \in Live /\ e = EntryOf(e.itemId)
  <1>1. \A s \in Live : /\ EntryOf(s) \in Entries /\ EntryOf(s).itemId = s
                        /\ EntryOf(s).key = WindowArray[s].offset
    BY DEF Entries, EntryOf
  <1>2. \A s \in Live : WindowArray[s].offset \in Nat
    BY ConstantsAre DEF IndexInv
  <1>3. \A e \in Entries : e.itemId \in Live /\ e = EntryOf(e.itemId)
    BY DEF Entries, EntryOf
  <1>4. OneEach(Entries)
    BY <1>1, <1>3 DEF OneEach, IndexInv
  <1>5. Entries \subseteq Entry
    BY DEF IndexInv, Holds
  <1> QED
    BY <1>1, <1>2, <1>3, <1>4, <1>5

\* What a look into the index finds.
LEMMA GetIs ==
  ASSUME TypeInv, IndexInv, NEW b \in Nat
  PROVE  LET item == indexGet_WDItemId(b)
         IN  \/ item \in Live /\ WindowArray[item].offset = b
             \/ item = -1 /\ \A s \in Live : WindowArray[s].offset # b
  <1> DEFINE chain == HashIndex[HashMap_KeytoValue(b)]
             at == PlaceOf(chain, b)
             item == indexGet_WDItemId(b)
  <1>1. item = IF at = 0 THEN -1 ELSE chain[at].itemId
    BY DEF indexGet_WDItemId, SelectInSeq, PlaceOf
  <1>2. Holds(HashIndex, Entries) /\ OneEach(Entries)
    BY EntriesAre DEF IndexInv
  <1>3. /\ \A e \in Entries : e.key = b => at \in 1 .. Len(chain) /\ chain[at] = e
        /\ (\A e \in Entries : e.key # b) => at = 0
    BY <1>2, KeyIsAt
  <1> HIDE DEF at, item, chain
  <1>4. CASE \E s \in Live : WindowArray[s].offset = b
    <2>1. PICK s \in Live : WindowArray[s].offset = b
      BY <1>4
    <2>2. EntryOf(s) \in Entries /\ EntryOf(s).key = b /\ EntryOf(s).itemId = s
      BY <2>1, EntriesAre
    <2>3. at # 0 /\ chain[at] = EntryOf(s)
      BY <1>3, <2>2
    <2>4. item = s
      BY <1>1, <2>2, <2>3
    <2> QED
      BY <2>1, <2>4 DEF item
  <1>5. CASE \A s \in Live : WindowArray[s].offset # b
    <2>1. \A e \in Entries : e.key # b
      BY <1>5, EntriesAre
    <2>2. item = -1
      BY <1>1, <1>3, <2>1
    <2> QED
      BY <1>5, <2>2 DEF item
  <1> QED
    BY <1>4, <1>5

\* The index before the new entry is put in: an item that makes room has left
\* it, and there is a bucket.
Leaves == IsFull_WDArray /\ ~Oldest.isCallBack

LEMMA KeptIndex ==
  ASSUME TypeInv, IndexInv
  PROVE  LET x == Kept.index
         IN  /\ x = [index |-> x.index, free |-> x.free, ok |-> TRUE]
             /\ Holds(x.index, Entries \ (IF Leaves THEN {EntryOf(WDArray_Head)} ELSE {}))
             /\ x.free = nBuckets + B(Leaves) /\ x.free > 1
             /\ Leaves => WDArray_Head \in Live
  <1> DEFINE x == Kept.index
  <1>1. /\ x = IF Leaves THEN indexRemove_WDItem(Index, Oldest.offset) ELSE Index
        /\ Index = [index |-> HashIndex, free |-> nBuckets, ok |-> TRUE]
    BY DEF Kept, Leaves, Unindexed, Index
  <1>2. Holds(HashIndex, Entries) /\ nBuckets = TS_WindowSize - Cardinality(Live)
    BY DEF IndexInv
  <1>3. /\ Cardinality(Live) \in 0 .. Len(Ring) /\ Len(Ring) \in 0 .. TS_WindowSize - 1
        /\ Cardinality(Live) = Len(Ring) => Live = ToSet(Ring)
        /\ IsFull_WDArray <=> Len(Ring) = TS_WindowSize - 1
    BY RingFacts, Counted
  <1>4. nBuckets \in Int /\ nBuckets > 0
    BY <1>2, <1>3, ConstantsAre
  <1>5. IsFull_WDArray => WDArray_Head \in ToSet(Ring)
    BY FullHead
  <1>6. CASE Leaves
    <2>1. WDArray_Head \in Live
      BY <1>5, <1>6 DEF Leaves, Live, Oldest
    <2>2. /\ EntryOf(WDArray_Head) \in Entries /\ OneEach(Entries)
          /\ EntryOf(WDArray_Head).key = Oldest.offset
      BY <2>1, EntriesAre DEF Oldest
    <2>3. /\ Holds(x.index, Entries \ {EntryOf(WDArray_Head)}) /\ x.free = nBuckets + 1
          /\ x.ok = TRUE /\ x = [index |-> x.index, free |-> x.free, ok |-> x.ok]
      <3> DEFINE e == EntryOf(WDArray_Head)
      <3>1. x = indexRemove_WDItem([index |-> HashIndex, free |-> nBuckets, ok |-> TRUE], e.key)
        BY <1>1, <1>6, <2>2
      <3> HIDE DEF e, x
      <3>2. e \in Entries
        BY <2>2 DEF e
      <3>3. /\ Holds(x.index, Entries \ {e}) /\ x.free = nBuckets + 1
            /\ x.ok = TRUE /\ x = [index |-> x.index, free |-> x.free, ok |-> x.ok]
        BY <1>2, <2>2, <3>1, <3>2, RemoveHolds
      <3> QED
        BY <3>3 DEF e
    <2>4. /\ B(Leaves) = 1
          /\ Entries \ (IF Leaves THEN {EntryOf(WDArray_Head)} ELSE {})
               = Entries \ {EntryOf(WDArray_Head)}
      BY <1>6 DEF B
    <2> HIDE DEF x
    <2>5. x.free = nBuckets + B(Leaves) /\ x.free > 1
      BY <1>4, <2>3, <2>4
    <2> QED
      BY <2>1, <2>3, <2>4, <2>5 DEF x
  <1>7. CASE ~Leaves
    <2>1. x = [index |-> HashIndex, free |-> nBuckets, ok |-> TRUE]
      BY <1>1, <1>7
    <2>2. nBuckets > 1
      <3>1. CASE IsFull_WDArray
        <4>1. WDArray_Head \notin Live
          BY <1>7, <3>1 DEF Leaves, Live, Oldest
        <4>2. Cardinality(Live) # Len(Ring)
          BY <1>3, <1>5, <3>1, <4>1
        <4> QED
          BY <1>2, <1>3, <3>1, <4>2, ConstantsAre
      <3>2. CASE ~IsFull_WDArray
        BY <1>2, <1>3, <3>2, ConstantsAre
      <3> QED
        BY <3>1, <3>2
    <2>3. Entries \ (IF Leaves THEN {EntryOf(WDArray_Head)} ELSE {}) = Entries
      BY <1>7
    <2> QED
      BY <1>2, <1>4, <1>7, <2>1, <2>2, <2>3 DEF B
  <1> QED
    BY <1>6, <1>7

\* The slots that are indexed, after an eviction and after a block was called back.
LEMMA LiveEvicted ==
  ASSUME TypeInv, IndexInv, NEW b \in Blocks, NEW isDirty \in BOOLEAN, NEW usetime \in Nat,
         Reg_EvictBlk(b, isDirty, usetime)
  PROVE  LET gone == IF Leaves THEN {WDArray_Head} ELSE {}
         IN  /\ Live' = (Live \ gone) \cup {WDArray_Tail}
             /\ WDArray_Tail \notin Live
             /\ \A s \in Live \ gone : WindowArray'[s] = WindowArray[s]
             /\ WindowArray'[WDArray_Tail].offset = b
             /\ Entries' = (Entries \ (IF Leaves THEN {EntryOf(WDArray_Head)} ELSE {}))
                              \cup {[key |-> b, itemId |-> WDArray_Tail]}
  <1> DEFINE gone == IF Leaves THEN {WDArray_Head} ELSE {}
             ring2 == ToSet(Ring)'
             array2 == WindowArray'
             tail == WDArray_Tail
  <1>1. /\ ring2 = (ToSet(Ring) \ (IF IsFull_WDArray THEN {WDArray_Head} ELSE {})) \cup {tail}
        /\ array2[tail] = NewItem(b, isDirty, usetime)
        /\ \A s \in ToSet(Ring) :
             ~(IsFull_WDArray /\ s = WDArray_Head) => array2[s] = WindowArray[s]
    BY EvictedRing
  <1>2. tail \notin ToSet(Ring) /\ Live = {s \in ToSet(Ring) : ~WindowArray[s].isCallBack}
    BY RingFacts DEF Live
  <1>3. Live' = {s \in ring2 : ~array2[s].isCallBack}
    BY DEF Live
  <1>4. array2[tail].isCallBack = FALSE /\ array2[tail].offset = b
    BY <1>1 DEF NewItem
  <1>5. Leaves <=> IsFull_WDArray /\ ~WindowArray[WDArray_Head].isCallBack
    BY DEF Leaves, Oldest
  <1> HIDE DEF ring2, array2, tail
  <1>6. Live' = (Live \ gone) \cup {tail}
    <2>1. ASSUME NEW s, s \in Live' PROVE s \in (Live \ gone) \cup {tail}
      BY <1>1, <1>2, <1>3, <1>5, <2>1
    <2>2. ASSUME NEW s, s \in (Live \ gone) \cup {tail} PROVE s \in Live'
      BY <1>1, <1>2, <1>3, <1>4, <1>5, <2>2
    <2> QED
      BY <2>1, <2>2
  <1>7. \A s \in Live \ gone : array2[s] = WindowArray[s]
    BY <1>1, <1>2, <1>5
  <1>8. tail \notin Live
    BY <1>2
  <1> DEFINE e == [key |-> b, itemId |-> tail]
             out == IF Leaves THEN {EntryOf(WDArray_Head)} ELSE {}
  <1>9. Entries' = (Entries \ out) \cup {e}
    <2>1. Entries' = {[key |-> array2[s].offset, itemId |-> s] : s \in Live'}
      BY DEF Entries, EntryOf, array2
    <2>2. \A s \in Live : EntryOf(s) = [key |-> WindowArray[s].offset, itemId |-> s]
      BY DEF EntryOf
    <2>3. Entries = {EntryOf(s) : s \in Live}
      BY DEF Entries
    <2>4. ASSUME NEW f, f \in Entries' PROVE f \in (Entries \ out) \cup {e}
      <3>1. PICK s \in Live' : f = [key |-> array2[s].offset, itemId |-> s]
        BY <2>1, <2>4
      <3>2. CASE s = tail
        BY <1>4, <3>1, <3>2
      <3>3. CASE s # tail
        <4>1. s \in Live \ gone
          BY <1>6, <3>3
        <4>2. f = EntryOf(s)
          BY <1>7, <2>2, <3>1, <4>1
        <4>3. f.itemId = s /\ (Leaves => EntryOf(WDArray_Head).itemId = WDArray_Head)
          BY <3>1 DEF EntryOf
        <4>4. f \notin out
          BY <4>1, <4>3
        <4> QED
          BY <2>3, <4>1, <4>2, <4>4
      <3> QED
        BY <3>2, <3>3
    <2>5. ASSUME NEW f, f \in (Entries \ out) \cup {e} PROVE f \in Entries'
      <3>1. CASE f = e
        BY <1>4, <1>6, <2>1, <3>1
      <3>2. CASE f \in Entries \ out
        <4>1. PICK s \in Live : f = EntryOf(s)
          BY <2>3, <3>2
        <4>2. s \in Live \ gone
          BY <3>2, <4>1
        <4>3. f = [key |-> array2[s].offset, itemId |-> s] /\ s \in Live'
          BY <1>6, <1>7, <2>2, <4>1, <4>2
        <4> QED
          BY <2>1, <4>3
      <3> QED
        BY <2>5, <3>1, <3>2
    <2> QED
      BY <2>4, <2>5
  <1> QED
    BY <1>4, <1>6, <1>7, <1>8, <1>9 DEF array2, tail

LEMMA EvictKeepsIndex ==
  ASSUME TypeInv, IndexInv, NEW b \in Blocks, NEW isDirty \in BOOLEAN, NEW usetime \in Nat,
         Reg_EvictBlk(b, isDirty, usetime)
  PROVE  IndexInv'
  <1> DEFINE x == Kept.index
             gone == IF Leaves THEN {WDArray_Head} ELSE {}
             out == IF Leaves THEN {EntryOf(WDArray_Head)} ELSE {}
             e == [key |-> b, itemId |-> WDArray_Tail]
             y == indexInsert_WDItem(x, e.key, e.itemId)
             left == Entries \ out
  <1>1. /\ x = [index |-> x.index, free |-> x.free, ok |-> TRUE]
        /\ Holds(x.index, left)
        /\ x.free = nBuckets + B(Leaves) /\ x.free > 1
        /\ Leaves => WDArray_Head \in Live
    BY KeptIndex
  <1>2. /\ Live' = (Live \ gone) \cup {WDArray_Tail} /\ WDArray_Tail \notin Live
        /\ \A s \in Live \ gone : WindowArray'[s] = WindowArray[s]
        /\ WindowArray'[WDArray_Tail].offset = b
        /\ Entries' = left \cup {e}
    BY LiveEvicted
  <1>3. /\ HashIndex' = y.index /\ nBuckets' = y.free /\ alive' = y.ok
        /\ b \in cached /\ cached' = cached \ {b}
    BY DEF Reg_EvictBlk, Becomes
  <1>4. e \in Entry /\ e \notin left
    <2>1. b \in Nat /\ WDArray_Tail \in Slots
      BY ConstantsAre DEF TypeInv
    <2>2. \A f \in Entries : f.itemId # WDArray_Tail
      BY <1>2, EntriesAre
    <2>3. e.itemId = WDArray_Tail
      OBVIOUS
    <2> QED
      BY <2>1, <2>2, <2>3 DEF Entry
  <1> HIDE DEF x, e, left, y
  <1>5. Holds(y.index, left \cup {e}) /\ y.free = x.free - 1 /\ y.ok = (TRUE /\ x.free > 0)
    <2>1. y = indexInsert_WDItem([index |-> x.index, free |-> x.free, ok |-> TRUE], e.key, e.itemId)
      BY <1>1 DEF y
    <2> DEFINE chains == x.index
               free == x.free
    <2>2. Holds(chains, left)
      BY <1>1
    <2>3. y = indexInsert_WDItem([index |-> chains, free |-> free, ok |-> TRUE], e.key, e.itemId)
      BY <2>1
    <2> HIDE DEF chains, free
    <2>4. Holds(y.index, left \cup {e}) /\ y.free = free - 1 /\ y.ok = (TRUE /\ free > 0)
      BY <1>4, <2>2, <2>3, InsertHolds
    <2> QED
      BY <2>4 DEF free
  <1>6. Holds(HashIndex', Entries')
    BY <1>2, <1>3, <1>5
  <1>7. nBuckets' = TS_WindowSize - Cardinality(Live')
    <2>1. IsFiniteSet(Live) /\ Cardinality(Live) \in Int
      BY Counted, RingFacts
    <2>2. Cardinality((Live \ (IF Leaves THEN {WDArray_Head} ELSE {}))
                        \cup (IF TRUE THEN {WDArray_Tail} ELSE {}))
            = Cardinality(Live) - B(Leaves) + B(TRUE)
      <3>1. Leaves \in BOOLEAN
        BY DEF Leaves, TypeInv, WDItem, Oldest, IsFull_WDArray
      <3> DEFINE leaves == Leaves
                 comes == TRUE
                 S == Live
      <3>2. /\ IsFiniteSet(S) /\ WDArray_Tail \notin S /\ leaves \in BOOLEAN /\ comes \in BOOLEAN
            /\ leaves => WDArray_Head \in S
        BY <1>1, <1>2, <2>1, <3>1
      <3> HIDE DEF leaves, comes, S
      <3>3. Cardinality((S \ (IF leaves THEN {WDArray_Head} ELSE {}))
                          \cup (IF comes THEN {WDArray_Tail} ELSE {}))
              = Cardinality(S) - B(leaves) + B(comes)
        BY <3>2, LeftAndCame
      <3> QED
        BY <3>3 DEF leaves, comes, S
    <2>3. Cardinality(Live') = Cardinality(Live) - B(Leaves) + 1
      BY <1>2, <2>2 DEF B
    <2>4. nBuckets = TS_WindowSize - Cardinality(Live) /\ B(Leaves) \in Int
      BY DEF IndexInv, B
    <2> QED
      BY <1>1, <1>3, <1>5, <2>1, <2>3, <2>4, ConstantsAre
  <1>8. alive' = TRUE
    <2>1. x.free > 0
      <3>1. x.free \in Int
        <4>1. nBuckets \in Int /\ B(Leaves) \in Int
          BY Counted, RingFacts, ConstantsAre DEF IndexInv, B
        <4> QED
          BY <1>1, <4>1
      <3> QED
        BY <1>1, <3>1
    <2> QED
      BY <1>3, <1>5, <2>1
  <1>9. \A s \in Live' : WindowArray'[s].offset \in Blocks \ cached'
    BY <1>2, <1>3 DEF IndexInv
  <1>10. \A s, u \in Live' : WindowArray'[s].offset = WindowArray'[u].offset => s = u
    <2>1. \A s \in Live : WindowArray[s].offset # b
      BY <1>3 DEF IndexInv
    <2>2. \A s, u \in Live : WindowArray[s].offset = WindowArray[u].offset => s = u
      BY DEF IndexInv
    <2> QED
      BY <1>2, <2>1, <2>2
  <1> QED
    BY <1>6, <1>7, <1>8, <1>9, <1>10 DEF IndexInv

\* A block that is missed and is in the index: its item is marked and its entry
\* leaves.
LEMMA CalledBack ==
  ASSUME TypeInv, IndexInv, NEW b \in Blocks, TryCallBack(b)
  PROVE  LET item == indexGet_WDItemId(b)
         IN  \/ /\ item = -1 /\ UNCHANGED <<window, index, counters, alive>>
                /\ \A s \in Live : WindowArray[s].offset # b
             \/ /\ item \in Live /\ item \in Slots /\ WindowArray[item].offset = b
                /\ WindowArray' = [WindowArray EXCEPT ![item].isCallBack = TRUE]
                /\ Becomes(indexRemove_WDItem(Index, b))
                /\ counters' = IF WindowArray[item].dirty
                               THEN [counters EXCEPT !.CallBack_Dirty = @ + 1]
                               ELSE [counters EXCEPT !.CallBack_Clean = @ + 1]
                /\ Ring' = Ring /\ UNCHANGED <<WDArray_Head, WDArray_Tail>>
  <1> DEFINE item == indexGet_WDItemId(b)
  <1>0. b \in Nat
    BY ConstantsAre
  <1>1. \/ item \in Live /\ WindowArray[item].offset = b
        \/ item = -1 /\ \A s \in Live : WindowArray[s].offset # b
    BY <1>0, GetIs
  <1>2. UNCHANGED <<WDArray_Head, WDArray_Tail>>
    BY DEF TryCallBack
  <1>3. Ring' = Ring
    BY <1>2 DEF Ring
  <1>4. IF item = -1 THEN UNCHANGED <<WindowArray, index, counters, alive>>
        ELSE /\ WindowArray' = [WindowArray EXCEPT ![item].isCallBack = TRUE]
             /\ Becomes(indexRemove_WDItem(Index, b))
             /\ counters' = IF WindowArray[item].dirty
                            THEN [counters EXCEPT !.CallBack_Dirty = @ + 1]
                            ELSE [counters EXCEPT !.CallBack_Clean = @ + 1]
    BY DEF TryCallBack
  <1> HIDE DEF item
  <1>5. CASE item = -1
    <2>1. item \notin Slots
      BY <1>5, ConstantsAre DEF Slots
    <2>2. item \notin Live
      BY <2>1, Counted, RingFacts
    <2> QED
      BY <1>1, <1>2, <1>4, <1>5, <2>2 DEF item, window
  <1>6. CASE item # -1
    <2>1. item \in Live /\ item \in Slots
      BY <1>1, <1>6, Counted, RingFacts
    <2> QED
      BY <1>1, <1>2, <1>3, <1>4, <1>6, <2>1 DEF item
  <1> QED
    BY <1>5, <1>6

LEMMA CallBackKeepsIndex ==
  ASSUME TypeInv, IndexInv, NEW b \in Blocks, TryCallBack(b)
  PROVE  IndexInv'
  <1> DEFINE item == indexGet_WDItemId(b)
  <1>0. cached' = cached \cup {b}
    BY DEF TryCallBack
  <1>1. CASE item = -1 /\ UNCHANGED <<window, index, counters, alive>>
               /\ \A s \in Live : WindowArray[s].offset # b
    <2>1. /\ UNCHANGED <<WindowArray, HashIndex, nBuckets, alive>> /\ Ring' = Ring
      BY <1>1 DEF window, index, Ring
    <2>2. Live' = Live /\ Entries' = Entries
      BY <2>1 DEF Live, Entries, EntryOf
    <2> QED
      BY <1>0, <1>1, <2>1, <2>2 DEF IndexInv
  <1>2. CASE /\ item \in Live /\ item \in Slots /\ WindowArray[item].offset = b
             /\ WindowArray' = [WindowArray EXCEPT ![item].isCallBack = TRUE]
             /\ Becomes(indexRemove_WDItem(Index, b))
             /\ Ring' = Ring
    <2> DEFINE e == EntryOf(item)
               x == indexRemove_WDItem(Index, e.key)
    <2> HIDE DEF item
    <2>1. /\ e \in Entries /\ e.key = b /\ e.itemId = item
          /\ \A s \in Live : EntryOf(s).itemId = s /\ EntryOf(s) \in Entries
          /\ \A f \in Entries : f.itemId \in Live /\ f = EntryOf(f.itemId)
      BY <1>2, EntriesAre
    <2>2. HashIndex' = x.index /\ nBuckets' = x.free /\ alive' = x.ok
      BY <1>2, <2>1 DEF Becomes
    <2>3. Holds(HashIndex, Entries) /\ OneEach(Entries) /\ nBuckets = TS_WindowSize - Cardinality(Live)
      BY EntriesAre DEF IndexInv
    <2>4. Holds(x.index, Entries \ {e}) /\ x.free = nBuckets + 1 /\ x.ok = TRUE
      <3>1. x = indexRemove_WDItem([index |-> HashIndex, free |-> nBuckets, ok |-> TRUE], e.key)
        BY DEF Index
      <3> HIDE DEF x, e
      <3>2. e \in Entries
        BY <2>1
      <3>3. /\ Holds(x.index, Entries \ {e}) /\ x.free = nBuckets + 1
            /\ x.ok = TRUE /\ x = [index |-> x.index, free |-> x.free, ok |-> x.ok]
        BY <2>3, <3>1, <3>2, RemoveHolds
      <3> QED
        BY <3>3
    <2>5. /\ \A s \in Slots : WindowArray'[s].offset = WindowArray[s].offset
          /\ WindowArray'[item].isCallBack = TRUE
          /\ \A s \in Slots \ {item} : WindowArray'[s] = WindowArray[s]
      BY <1>2 DEF TypeInv, WDItem
    <2>6. ToSet(Ring) \subseteq Slots /\ ToSet(Ring)' = ToSet(Ring) /\ Live \subseteq ToSet(Ring)
      BY <1>2, RingFacts DEF Live
    <2>7. Live' = Live \ {item}
      <3>1. Live' = {s \in ToSet(Ring) : ~WindowArray'[s].isCallBack}
        BY <2>6 DEF Live
      <3>2. Live = {s \in ToSet(Ring) : ~WindowArray[s].isCallBack}
        BY DEF Live
      <3> QED
        BY <2>5, <2>6, <3>1, <3>2
    <2> HIDE DEF x
    <2>8. Entries' = Entries \ {e}
      <3>1. Entries' = {[key |-> WindowArray'[s].offset, itemId |-> s] : s \in Live'}
        BY DEF Entries, EntryOf
      <3>2. \A s \in Live : [key |-> WindowArray'[s].offset, itemId |-> s] = EntryOf(s)
        BY <2>5, <2>6 DEF EntryOf
      <3>3. Entries = {EntryOf(s) : s \in Live}
        BY DEF Entries
      <3>4. Entries' = {EntryOf(s) : s \in Live \ {item}}
        BY <2>7, <3>1, <3>2
      <3> HIDE DEF e
      <3>5. ASSUME NEW f, f \in Entries' PROVE f \in Entries \ {e}
        BY <2>1, <3>4, <3>5 DEF e
      <3>6. ASSUME NEW f, f \in Entries \ {e} PROVE f \in Entries'
        BY <2>1, <3>4, <3>6 DEF e
      <3> QED
        BY <3>5, <3>6
    <2>9. nBuckets' = TS_WindowSize - Cardinality(Live')
      <3>1. IsFiniteSet(Live) /\ Cardinality(Live) \in Nat
        BY Counted, RingFacts
      <3>2. Cardinality(Live \ {item}) = Cardinality(Live) - 1
        BY <1>2, <3>1, FS_RemoveElement
      <3> QED
        BY <2>2, <2>3, <2>4, <2>7, <3>1, <3>2, ConstantsAre
    <2>10. \A s \in Live' : WindowArray'[s].offset \in Blocks \ cached'
      <3>1. \A s \in Live : WindowArray[s].offset = b => s = item
        BY <1>2 DEF IndexInv
      <3>2. \A s \in Live : WindowArray[s].offset \in Blocks \ cached
        BY DEF IndexInv
      <3> QED
        BY <1>0, <2>5, <2>6, <2>7, <3>1, <3>2
    <2>11. \A s, u \in Live' : WindowArray'[s].offset = WindowArray'[u].offset => s = u
      <3>1. \A s, u \in Live : WindowArray[s].offset = WindowArray[u].offset => s = u
        BY DEF IndexInv
      <3> QED
        BY <2>5, <2>6, <2>7, <3>1
    <2>12. Holds(HashIndex', Entries') /\ alive'
      BY <2>2, <2>4, <2>8
    <2> QED
      BY <2>9, <2>10, <2>11, <2>12 DEF IndexInv
  <1> QED
    BY <1>1, <1>2, CalledBack

-----------------------------------------------------------------------------
\* The counters, one by one.
WriteTimeOf == [s \in Slots |-> B(WindowArray[s].dirty) * WindowArray[s].usetime]

CountersAre ==
  /\ counters.Evict_Clean = Cardinality(Items(FALSE))
  /\ counters.Evict_Dirty = Cardinality(Items(TRUE))
  /\ counters.CallBack_Clean = Cardinality(Called(FALSE))
  /\ counters.CallBack_Dirty = Cardinality(Called(TRUE))
  /\ counters.Lat_write_sum = Total(InOrder(WriteTimeOf, WDArray_Head, WDArray_Tail))
  /\ counters.Cnt_write_req = Cardinality(Items(TRUE))
  /\ counters.T_evict_cnt = Len(Ring)

LEMMA CountersSplit ==
  TypeInv => (CountersMatchWindow <=> CountersAre /\ SumsItsTimes(reads) /\ SumsItsTimes(misses))
  <1> SUFFICES ASSUME TypeInv
               PROVE  CountersMatchWindow <=>
                        CountersAre /\ SumsItsTimes(reads) /\ SumsItsTimes(misses)
    OBVIOUS
  <1>1. \A s \in Slots : WriteTimeOf[s] = B(WindowArray[s].dirty) * WindowArray[s].usetime
    BY DEF WriteTimeOf
  <1>2. \A i \in 1 .. Len(Ring) : Ring[i] \in Slots
    BY RingFacts
  <1>3. InOrder(WriteTimeOf, WDArray_Head, WDArray_Tail)
          = [i \in 1 .. Len(Ring) |-> B(WindowArray[Ring[i]].dirty) * WindowArray[Ring[i]].usetime]
    BY <1>1, <1>2 DEF InOrder, Ring
  <1> DEFINE time == Total(InOrder(WriteTimeOf, WDArray_Head, WDArray_Tail))
             wanted ==
               [Evict_Clean    |-> Cardinality(Items(FALSE)),
                Evict_Dirty    |-> Cardinality(Items(TRUE)),
                CallBack_Clean |-> Cardinality(Called(FALSE)),
                CallBack_Dirty |-> Cardinality(Called(TRUE)),
                Lat_write_sum  |-> time,
                Cnt_write_req  |-> Cardinality(Items(TRUE)),
                T_evict_cnt    |-> Len(Ring)]
  <1>4. counters = wanted <=> CountersAre
    <2>1. counters = [Evict_Clean |-> counters.Evict_Clean, Evict_Dirty |-> counters.Evict_Dirty,
                      CallBack_Clean |-> counters.CallBack_Clean,
                      CallBack_Dirty |-> counters.CallBack_Dirty,
                      Lat_write_sum |-> counters.Lat_write_sum,
                      Cnt_write_req |-> counters.Cnt_write_req,
                      T_evict_cnt |-> counters.T_evict_cnt]
      BY DEF TypeInv, Counters, CounterNames
    <2>2. ASSUME CountersAre PROVE counters = wanted
      BY ONLY <2>1, <2>2 DEF CountersAre
    <2>3. ASSUME counters = wanted PROVE CountersAre
      BY ONLY <2>3 DEF CountersAre
    <2> QED
      BY <2>2, <2>3
  <1>5. CountersMatchWindow <=> counters = wanted /\ \A r \in {reads, misses} : SumsItsTimes(r)
    BY <1>3 DEF CountersMatchWindow, SumsItsTimes, InOrder
  <1> QED
    BY <1>4, <1>5

LEMMA CountersMove ==
  ASSUME NEW c \in Counters, NEW e \in WDItem
  PROVE  /\ Without(c, e) \in Counters /\ With(c, e) \in Counters
         /\ Without(c, e).Evict_Clean = c.Evict_Clean - B(~e.dirty)
         /\ Without(c, e).Evict_Dirty = c.Evict_Dirty - B(e.dirty)
         /\ Without(c, e).CallBack_Clean = c.CallBack_Clean - B(~e.dirty /\ e.isCallBack)
         /\ Without(c, e).CallBack_Dirty = c.CallBack_Dirty - B(e.dirty /\ e.isCallBack)
         /\ Without(c, e).Lat_write_sum = c.Lat_write_sum - B(e.dirty) * e.usetime
         /\ Without(c, e).Cnt_write_req = c.Cnt_write_req - B(e.dirty)
         /\ Without(c, e).T_evict_cnt = c.T_evict_cnt - 1
         /\ With(c, e).Evict_Clean = c.Evict_Clean + B(~e.dirty)
         /\ With(c, e).Evict_Dirty = c.Evict_Dirty + B(e.dirty)
         /\ With(c, e).CallBack_Clean = c.CallBack_Clean
         /\ With(c, e).CallBack_Dirty = c.CallBack_Dirty
         /\ With(c, e).Lat_write_sum = c.Lat_write_sum + B(e.dirty) * e.usetime
         /\ With(c, e).Cnt_write_req = c.Cnt_write_req + B(e.dirty)
         /\ With(c, e).T_evict_cnt = c.T_evict_cnt + 1
  <1> DEFINE dirty == B(e.dirty)
             clean == B(~e.dirty)
             calledDirty == B(e.dirty /\ e.isCallBack)
             calledClean == B(~e.dirty /\ e.isCallBack)
             time == B(e.dirty) * e.usetime
  <1>1. /\ dirty \in Int /\ clean \in Int /\ calledDirty \in Int /\ calledClean \in Int
        /\ time \in Int
    BY DEF B, WDItem
  <1>2. Without(c, e) = [c EXCEPT !.T_evict_cnt = @ - 1, !.Cnt_write_req = @ - dirty,
                           !.Lat_write_sum = @ - time, !.Evict_Dirty = @ - dirty,
                           !.CallBack_Dirty = @ - calledDirty, !.Evict_Clean = @ - clean,
                           !.CallBack_Clean = @ - calledClean]
    BY DEF Without
  <1>3. With(c, e) = [c EXCEPT !.T_evict_cnt = @ + 1, !.Cnt_write_req = @ + dirty,
                        !.Lat_write_sum = @ + time, !.Evict_Dirty = @ + dirty,
                        !.Evict_Clean = @ + clean]
    BY DEF With
  <1> HIDE DEF dirty, clean, calledDirty, calledClean, time
  <1>4. /\ Without(c, e).Evict_Clean = c.Evict_Clean - clean
        /\ Without(c, e).Evict_Dirty = c.Evict_Dirty - dirty
        /\ Without(c, e).CallBack_Clean = c.CallBack_Clean - calledClean
        /\ Without(c, e).CallBack_Dirty = c.CallBack_Dirty - calledDirty
        /\ Without(c, e).Lat_write_sum = c.Lat_write_sum - time
        /\ Without(c, e).Cnt_write_req = c.Cnt_write_req - dirty
        /\ Without(c, e).T_evict_cnt = c.T_evict_cnt - 1
    BY <1>2 DEF Counters, CounterNames
  <1>5. /\ With(c, e).Evict_Clean = c.Evict_Clean + clean
        /\ With(c, e).Evict_Dirty = c.Evict_Dirty + dirty
        /\ With(c, e).CallBack_Clean = c.CallBack_Clean
        /\ With(c, e).CallBack_Dirty = c.CallBack_Dirty
        /\ With(c, e).Lat_write_sum = c.Lat_write_sum + time
        /\ With(c, e).Cnt_write_req = c.Cnt_write_req + dirty
        /\ With(c, e).T_evict_cnt = c.T_evict_cnt + 1
    BY <1>3 DEF Counters, CounterNames
  <1>6. Without(c, e) \in Counters
    <2>1. /\ c.T_evict_cnt - 1 \in Int /\ c.Cnt_write_req - dirty \in Int
          /\ c.Lat_write_sum - time \in Int /\ c.Evict_Dirty - dirty \in Int
          /\ c.CallBack_Dirty - calledDirty \in Int /\ c.Evict_Clean - clean \in Int
          /\ c.CallBack_Clean - calledClean \in Int
      BY <1>1 DEF Counters, CounterNames
    <2> QED
      BY <1>2, <2>1 DEF Counters
  <1>7. With(c, e) \in Counters
    <2>1. /\ c.T_evict_cnt + 1 \in Int /\ c.Cnt_write_req + dirty \in Int
          /\ c.Lat_write_sum + time \in Int /\ c.Evict_Dirty + dirty \in Int
          /\ c.Evict_Clean + clean \in Int
      BY <1>1 DEF Counters, CounterNames
    <2> QED
      BY <1>3, <2>1 DEF Counters
  <1> QED
    BY <1>4, <1>5, <1>6, <1>7 DEF dirty, clean, calledDirty, calledClean, time

\* How the counted sets change when an item is evicted.
LEMMA ItemsEvicted ==
  ASSUME TypeInv, NEW b \in Blocks, NEW isDirty \in BOOLEAN, NEW usetime \in Nat,
         Reg_EvictBlk(b, isDirty, usetime), NEW d \in BOOLEAN
  PROVE  /\ Cardinality(Items(d)')
              = Cardinality(Items(d)) - B(IsFull_WDArray /\ Oldest.dirty = d) + B(isDirty = d)
         /\ Cardinality(Called(d)')
              = Cardinality(Called(d)) - B(IsFull_WDArray /\ Oldest.dirty = d /\ Oldest.isCallBack)
  <1> DEFINE ring2 == ToSet(Ring)'
             array2 == WindowArray'
             head == WDArray_Head
             tail == WDArray_Tail
  <1>1. /\ ring2 = (ToSet(Ring) \ (IF IsFull_WDArray THEN {head} ELSE {})) \cup {tail}
        /\ array2[tail] = NewItem(b, isDirty, usetime)
        /\ \A s \in ToSet(Ring) :
             ~(IsFull_WDArray /\ s = head) => array2[s] = WindowArray[s]
        /\ IsFull_WDArray => head \in ToSet(Ring)
    BY EvictedRing
  <1>2. tail \notin ToSet(Ring)
    BY RingFacts
  <1>3. Items(d)' = {s \in ring2 : array2[s].dirty = d}
    BY DEF Items
  <1>4. Items(d) = {s \in ToSet(Ring) : WindowArray[s].dirty = d}
    BY DEF Items
  <1>5. Called(d)' = {s \in ring2 : array2[s].dirty = d /\ array2[s].isCallBack}
    BY <1>3 DEF Called
  <1>6. Called(d) = {s \in ToSet(Ring) : WindowArray[s].dirty = d /\ WindowArray[s].isCallBack}
    BY <1>4 DEF Called
  <1>7. array2[tail].isCallBack = FALSE /\ array2[tail].dirty = isDirty
    BY <1>1 DEF NewItem
  <1>8. IsFiniteSet(Items(d)) /\ IsFiniteSet(Called(d)) /\ Cardinality(Called(d)) \in Nat
    BY Counted
  <1> DEFINE leaves == IsFull_WDArray /\ Oldest.dirty = d
             called == IsFull_WDArray /\ Oldest.dirty = d /\ Oldest.isCallBack
             comes == isDirty = d
             S == Items(d)
             T == Called(d)
             S2 == Items(d)'
             T2 == Called(d)'
  <1>9. leaves \in BOOLEAN /\ called \in BOOLEAN /\ comes \in BOOLEAN
    <2>1. Oldest \in WDItem
      BY DEF TypeInv, Oldest
    <2> QED
      BY <2>1 DEF WDItem, IsFull_WDArray
  <1>o. Oldest = WindowArray[head]
    BY DEF Oldest
  <1>10. (leaves => head \in S) /\ (called => head \in T) /\ tail \notin S /\ tail \notin T
    BY <1>1, <1>2, <1>4, <1>6, <1>o
  <1> HIDE DEF ring2, array2, head, tail
  <1>11. S2 = (S \ (IF leaves THEN {head} ELSE {})) \cup (IF comes THEN {tail} ELSE {})
    <2>1. ASSUME NEW s, s \in S2
          PROVE  s \in (S \ (IF leaves THEN {head} ELSE {})) \cup (IF comes THEN {tail} ELSE {})
      BY <1>1, <1>2, <1>3, <1>4, <1>7, <1>o, <2>1
    <2>2. ASSUME NEW s, s \in (S \ (IF leaves THEN {head} ELSE {})) \cup (IF comes THEN {tail} ELSE {})
          PROVE  s \in S2
      <3>1. CASE s = tail /\ comes
        BY <1>1, <1>3, <1>7, <3>1
      <3>2. CASE s \in S /\ ~(leaves /\ s = head)
        <4>1. s \in ToSet(Ring) /\ WindowArray[s].dirty = d
          BY <1>4, <3>2
        <4>2. ~(IsFull_WDArray /\ s = head)
          BY <3>2, <4>1, <1>o
        <4> QED
          BY <1>1, <1>3, <4>1, <4>2
      <3> QED
        BY <2>2, <3>1, <3>2
    <2> QED
      BY <2>1, <2>2
  <1>12. T2 = T \ (IF called THEN {head} ELSE {})
    <2>1. ASSUME NEW s, s \in T2 PROVE s \in T \ (IF called THEN {head} ELSE {})
      BY <1>1, <1>2, <1>5, <1>6, <1>7, <1>o, <2>1
    <2>2. ASSUME NEW s, s \in T \ (IF called THEN {head} ELSE {}) PROVE s \in T2
      <3>1. s \in ToSet(Ring) /\ WindowArray[s].dirty = d /\ WindowArray[s].isCallBack
        BY <1>6, <2>2
      <3>2. ~(IsFull_WDArray /\ s = head)
        BY <1>o, <2>2, <3>1
      <3> QED
        BY <1>1, <1>5, <3>1, <3>2
    <2> QED
      BY <2>1, <2>2
  <1> DEFINE none == FALSE
  <1>13. T2 = (T \ (IF called THEN {head} ELSE {})) \cup (IF none THEN {tail} ELSE {})
    BY <1>12
  <1>14. none \in BOOLEAN /\ B(none) = 0
    BY DEF B
  <1> HIDE DEF leaves, called, comes, S, T, S2, T2, none
  <1>15. Cardinality(S2) = Cardinality(S) - B(leaves) + B(comes)
    <2>1. IsFiniteSet(S)
      BY <1>8 DEF S
    <2>2. Cardinality((S \ (IF leaves THEN {head} ELSE {})) \cup (IF comes THEN {tail} ELSE {}))
            = Cardinality(S) - B(leaves) + B(comes)
      BY <1>9, <1>10, <2>1, LeftAndCame
    <2> QED
      BY <1>11, <2>2
  <1>16. Cardinality(T2) = Cardinality(T) - B(called)
    <2>1. IsFiniteSet(T) /\ Cardinality(T) \in Int /\ B(called) \in Int
      BY <1>8 DEF T, B
    <2>2. Cardinality((T \ (IF called THEN {head} ELSE {})) \cup (IF none THEN {tail} ELSE {}))
            = Cardinality(T) - B(called) + B(none)
      BY <1>9, <1>10, <1>14, <2>1, LeftAndCame
    <2> QED
      BY <1>13, <1>14, <2>1, <2>2
  <1> QED
    BY <1>15, <1>16 DEF leaves, called, comes, S, T, S2, T2

\* The time of the writes that are in the window.
LEMMA WriteTimeType == TypeInv => WriteTimeOf \in [Slots -> Nat]
  <1>1. ASSUME NEW d \in BOOLEAN, NEW t \in Nat PROVE B(d) * t \in Nat
    BY DEF B
  <1> QED
    BY <1>1 DEF TypeInv, WDItem, WriteTimeOf

LEMMA WriteTimeEvicted ==
  ASSUME TypeInv, NEW b \in Blocks, NEW isDirty \in BOOLEAN, NEW usetime \in Nat,
         Reg_EvictBlk(b, isDirty, usetime)
  PROVE  Total(InOrder(WriteTimeOf, WDArray_Head, WDArray_Tail))'
           = Total(InOrder(WriteTimeOf, WDArray_Head, WDArray_Tail)) + B(isDirty) * usetime
               - (IF IsFull_WDArray THEN B(Oldest.dirty) * Oldest.usetime ELSE 0)
  <1> DEFINE v == WriteTimeOf
             w == WriteTimeOf'
             head == WDArray_Head
             tail == WDArray_Tail
             old == Total(InOrder(v, head, tail))
             new == Total(InOrder(w, WDArray_Head', WDArray_Tail'))
  <1>1. /\ tail \in Slots /\ head \in Slots /\ After(head) \in Slots /\ After(tail) \in Slots
        /\ WDArray_Tail' = After(tail)
        /\ WDArray_Head' = IF IsFull_WDArray THEN After(head) ELSE head
        /\ WindowArray' = [s \in Slots |->
                             IF s = tail THEN NewItem(b, isDirty, usetime)
                             ELSE IF IsFull_WDArray /\ s = head THEN Unused
                             ELSE WindowArray[s]]
    BY AfterIs DEF TypeInv, Reg_EvictBlk, Kept, NewItem
  <1>2. v \in [Slots -> Nat]
    BY WriteTimeType
  <1>3. w \in [Slots -> Nat]
    <2>1. WindowArray' \in [Slots -> WDItem]
      BY EvictedRing
    <2>2. \A d \in BOOLEAN, t \in Nat : B(d) * t \in Nat
      BY DEF B
    <2>3. w = [s \in Slots |-> B(WindowArray'[s].dirty) * WindowArray'[s].usetime]
      BY DEF WriteTimeOf
    <2>4. \A s \in Slots : WindowArray'[s].dirty \in BOOLEAN /\ WindowArray'[s].usetime \in Nat
      BY <2>1 DEF WDItem
    <2> QED
      BY <2>2, <2>3, <2>4
  <1>4. w[tail] = B(isDirty) * usetime
    BY <1>1 DEF WriteTimeOf, NewItem
  <1>5. \A s \in Slots \ {tail} : ~(IsFull_WDArray /\ s = head) => w[s] = v[s]
    BY <1>1 DEF WriteTimeOf
  <1>6. v[head] = B(Oldest.dirty) * Oldest.usetime
    BY <1>1 DEF WriteTimeOf, Oldest
  <1>7. old \in Nat /\ w[tail] \in Nat
    <2>1. Stored(Nat, v, head, tail)
      BY <1>1, <1>2 DEF Stored
    <2>2. InOrder(v, head, tail) \in Seq(Nat)
      BY <2>1, InOrderIs
    <2> QED
      BY <1>1, <1>3, <2>2, TotalType
  <1>8. IsFull_WDArray <=> head = After(tail)
    BY DEF IsFull_WDArray
  <1> HIDE DEF v, w
  <1>9. CASE IsFull_WDArray
    <2>1. Turns(Nat, v, w, head, tail, After(head))
      BY <1>1, <1>2, <1>3, <1>5, <1>8, <1>9 DEF Turns
    <2>2. Total(InOrder(w, After(head), head)) = old + w[tail] - v[head]
      BY <2>1, TotalTurns
    <2>3. WDArray_Head' = After(head) /\ WDArray_Tail' = head
      BY <1>1, <1>8, <1>9
    <2>4. new = old + w[tail] - v[head]
      BY <2>2, <2>3
    <2> QED
      BY <1>4, <1>6, <1>9, <2>4 DEF v, w
  <1>10. CASE ~IsFull_WDArray
    <2>1. Grows(Nat, v, w, head, tail, After(tail))
      BY <1>1, <1>2, <1>3, <1>5, <1>8, <1>10 DEF Grows
    <2>2. Total(InOrder(w, head, After(tail))) = old + w[tail]
      BY <2>1, TotalGrows
    <2>3. WDArray_Head' = head /\ WDArray_Tail' = After(tail)
      BY <1>1, <1>10
    <2>4. new = old + w[tail] - 0
      BY <1>7, <2>2, <2>3
    <2> QED
      BY <1>4, <1>10, <2>4 DEF v, w
  <1> QED
    BY <1>9, <1>10

LEMMA EvictKeepsCounters ==
  ASSUME TypeInv, CountersAre, NEW b \in Blocks, NEW isDirty \in BOOLEAN, NEW usetime \in Nat,
         Reg_EvictBlk(b, isDirty, usetime)
  PROVE  counters' \in Counters /\ CountersAre'
  <1> DEFINE new == NewItem(b, isDirty, usetime)
             c == Kept.counters
             full == IsFull_WDArray
             time == B(Oldest.dirty) * Oldest.usetime
             newTime == B(isDirty) * usetime
  <1>1. counters' = With(c, new) /\ c = IF full THEN Without(counters, Oldest) ELSE counters
    BY DEF Reg_EvictBlk, Kept, NewItem
  <1>2. /\ Oldest \in WDItem /\ new \in WDItem /\ counters \in Counters
        /\ new.dirty = isDirty /\ new.usetime = usetime
    BY ConstantsAre DEF TypeInv, Oldest, NewItem, WDItem
  <1>3. full \in BOOLEAN /\ Oldest.dirty \in BOOLEAN /\ Oldest.isCallBack \in BOOLEAN
        /\ Oldest.usetime \in Nat
    BY <1>2 DEF WDItem, IsFull_WDArray
  <1>b. \A d \in BOOLEAN : B(d) \in Int /\ B(d) = IF d THEN 1 ELSE 0
    BY DEF B
  <1>t. time \in Int /\ newTime \in Int
    BY <1>3 DEF B
  <1>i. /\ counters.Evict_Clean \in Int /\ counters.Evict_Dirty \in Int
        /\ counters.CallBack_Clean \in Int /\ counters.CallBack_Dirty \in Int
        /\ counters.Lat_write_sum \in Int /\ counters.Cnt_write_req \in Int
        /\ counters.T_evict_cnt \in Int
    BY <1>2 DEF Counters, CounterNames
  <1> HIDE DEF new, c
  <1>4. /\ c \in Counters
        /\ c.Evict_Clean = counters.Evict_Clean - B(full /\ Oldest.dirty = FALSE)
        /\ c.Evict_Dirty = counters.Evict_Dirty - B(full /\ Oldest.dirty = TRUE)
        /\ c.CallBack_Clean = counters.CallBack_Clean
                                - B(full /\ Oldest.dirty = FALSE /\ Oldest.isCallBack)
        /\ c.CallBack_Dirty = counters.CallBack_Dirty
                                - B(full /\ Oldest.dirty = TRUE /\ Oldest.isCallBack)
        /\ c.Lat_write_sum = counters.Lat_write_sum - (IF full THEN time ELSE 0)
        /\ c.Cnt_write_req = counters.Cnt_write_req - B(full /\ Oldest.dirty = TRUE)
        /\ c.T_evict_cnt = counters.T_evict_cnt - B(full)
    <2> HIDE DEF full, time
    <2>1. CASE full
      <3>1. c = Without(counters, Oldest)
        BY <1>1, <2>1
      <3>2. /\ c \in Counters
            /\ c.Evict_Clean = counters.Evict_Clean - B(~Oldest.dirty)
            /\ c.Evict_Dirty = counters.Evict_Dirty - B(Oldest.dirty)
            /\ c.CallBack_Clean = counters.CallBack_Clean - B(~Oldest.dirty /\ Oldest.isCallBack)
            /\ c.CallBack_Dirty = counters.CallBack_Dirty - B(Oldest.dirty /\ Oldest.isCallBack)
            /\ c.Lat_write_sum = counters.Lat_write_sum - B(Oldest.dirty) * Oldest.usetime
            /\ c.Cnt_write_req = counters.Cnt_write_req - B(Oldest.dirty)
            /\ c.T_evict_cnt = counters.T_evict_cnt - 1
        BY <1>2, <3>1, CountersMove
      <3>3. /\ B(full /\ Oldest.dirty = FALSE) = B(~Oldest.dirty)
            /\ B(full /\ Oldest.dirty = TRUE) = B(Oldest.dirty)
            /\ B(full /\ Oldest.dirty = FALSE /\ Oldest.isCallBack)
                 = B(~Oldest.dirty /\ Oldest.isCallBack)
            /\ B(full /\ Oldest.dirty = TRUE /\ Oldest.isCallBack)
                 = B(Oldest.dirty /\ Oldest.isCallBack)
            /\ B(full) = 1
        BY <1>3, <2>1 DEF B
      <3> QED
        BY <2>1, <3>2, <3>3 DEF time
    <2>2. CASE ~full
      <3>1. c = counters
        BY <1>1, <2>2
      <3>2. /\ B(full /\ Oldest.dirty = FALSE) = 0 /\ B(full /\ Oldest.dirty = TRUE) = 0
            /\ B(full /\ Oldest.dirty = FALSE /\ Oldest.isCallBack) = 0
            /\ B(full /\ Oldest.dirty = TRUE /\ Oldest.isCallBack) = 0 /\ B(full) = 0
        BY <2>2 DEF B
      <3> QED
        BY <1>2, <1>i, <2>2, <3>1, <3>2
    <2> QED
      BY <1>3, <2>1, <2>2
  <1>5. /\ counters' \in Counters
        /\ counters'.Evict_Clean = c.Evict_Clean + B(isDirty = FALSE)
        /\ counters'.Evict_Dirty = c.Evict_Dirty + B(isDirty = TRUE)
        /\ counters'.CallBack_Clean = c.CallBack_Clean
        /\ counters'.CallBack_Dirty = c.CallBack_Dirty
        /\ counters'.Lat_write_sum = c.Lat_write_sum + newTime
        /\ counters'.Cnt_write_req = c.Cnt_write_req + B(isDirty = TRUE)
        /\ counters'.T_evict_cnt = c.T_evict_cnt + 1
    <2>1. /\ With(c, new) \in Counters
          /\ With(c, new).Evict_Clean = c.Evict_Clean + B(~new.dirty)
          /\ With(c, new).Evict_Dirty = c.Evict_Dirty + B(new.dirty)
          /\ With(c, new).CallBack_Clean = c.CallBack_Clean
          /\ With(c, new).CallBack_Dirty = c.CallBack_Dirty
          /\ With(c, new).Lat_write_sum = c.Lat_write_sum + B(new.dirty) * new.usetime
          /\ With(c, new).Cnt_write_req = c.Cnt_write_req + B(new.dirty)
          /\ With(c, new).T_evict_cnt = c.T_evict_cnt + 1
      BY <1>2, <1>4, CountersMove
    <2>2. B(isDirty = FALSE) = B(~new.dirty) /\ B(isDirty = TRUE) = B(new.dirty)
          /\ newTime = B(new.dirty) * new.usetime
      BY <1>2 DEF B
    <2> HIDE DEF newTime
    <2> QED
      BY <1>1, <2>1, <2>2
  <1>6. /\ Cardinality(Items(FALSE))' = Cardinality(Items(FALSE))
             - B(full /\ Oldest.dirty = FALSE) + B(isDirty = FALSE)
        /\ Cardinality(Called(FALSE))' = Cardinality(Called(FALSE))
             - B(full /\ Oldest.dirty = FALSE /\ Oldest.isCallBack)
    <2> DEFINE d == FALSE
    <2>1. d \in BOOLEAN
      OBVIOUS
    <2> HIDE DEF d
    <2>2. /\ Cardinality(Items(d)') = Cardinality(Items(d)) - B(full /\ Oldest.dirty = d) + B(isDirty = d)
          /\ Cardinality(Called(d)')
               = Cardinality(Called(d)) - B(full /\ Oldest.dirty = d /\ Oldest.isCallBack)
      BY <2>1, ItemsEvicted
    <2> QED
      BY <2>2 DEF d
  <1>7. /\ Cardinality(Items(TRUE))' = Cardinality(Items(TRUE))
             - B(full /\ Oldest.dirty = TRUE) + B(isDirty = TRUE)
        /\ Cardinality(Called(TRUE))' = Cardinality(Called(TRUE))
             - B(full /\ Oldest.dirty = TRUE /\ Oldest.isCallBack)
    <2> DEFINE d == TRUE
    <2>1. d \in BOOLEAN
      OBVIOUS
    <2> HIDE DEF d
    <2>2. /\ Cardinality(Items(d)') = Cardinality(Items(d)) - B(full /\ Oldest.dirty = d) + B(isDirty = d)
          /\ Cardinality(Called(d)')
               = Cardinality(Called(d)) - B(full /\ Oldest.dirty = d /\ Oldest.isCallBack)
      BY <2>1, ItemsEvicted
    <2> QED
      BY <2>2 DEF d
  <1>8. Total(InOrder(WriteTimeOf, WDArray_Head, WDArray_Tail))'
          = Total(InOrder(WriteTimeOf, WDArray_Head, WDArray_Tail)) + newTime
              - (IF full THEN time ELSE 0)
    BY WriteTimeEvicted
  <1>9. Len(Ring)' = Len(Ring) + 1 - B(full)
    <2>1. Ring' = Append(IF full THEN Tail(Ring) ELSE Ring, WDArray_Tail)
          /\ (full => Len(Ring) > 0)
      BY EvictedRing
    <2>2. Ring \in Seq(Slots) /\ WDArray_Tail \in Slots /\ Len(Ring) \in Nat
      BY RingFacts DEF TypeInv
    <2> DEFINE n == Len(Ring)'
    <2>3. CASE full
      <3>1. Ring # << >>
        BY <2>1, <2>2, <2>3
      <3>2. Tail(Ring) \in Seq(Slots) /\ Len(Tail(Ring)) = Len(Ring) - 1
        BY <2>2, <3>1
      <3>3. n = Len(Tail(Ring)) + 1
        BY <2>1, <2>2, <2>3, <3>2
      <3> HIDE DEF n
      <3> QED
        BY <2>2, <2>3, <3>2, <3>3 DEF B, n
    <2>4. CASE ~full
      <3>1. n = Len(Ring) + 1
        BY <2>1, <2>2, <2>4
      <3> HIDE DEF n
      <3> QED
        BY <2>2, <2>4, <3>1 DEF B, n
    <2> QED
      BY <1>3, <2>3, <2>4
  <1> HIDE DEF full, time, newTime
  <1>10. /\ counters.Evict_Clean = Cardinality(Items(FALSE))
         /\ counters.Evict_Dirty = Cardinality(Items(TRUE))
         /\ counters.CallBack_Clean = Cardinality(Called(FALSE))
         /\ counters.CallBack_Dirty = Cardinality(Called(TRUE))
         /\ counters.Lat_write_sum = Total(InOrder(WriteTimeOf, WDArray_Head, WDArray_Tail))
         /\ counters.Cnt_write_req = Cardinality(Items(TRUE))
         /\ counters.T_evict_cnt = Len(Ring)
    BY DEF CountersAre
  <1>11. /\ counters'.Evict_Clean = Cardinality(Items(FALSE))'
         /\ counters'.Evict_Dirty = Cardinality(Items(TRUE))'
         /\ counters'.Cnt_write_req = Cardinality(Items(TRUE))'
    <2>1. counters'.Evict_Clean = Cardinality(Items(FALSE))'
      BY <1>4, <1>5, <1>6, <1>10, <1>i DEF B
    <2> DEFINE n == Cardinality(Items(TRUE))
               gone == B(full /\ Oldest.dirty = TRUE)
               come == B(isDirty = TRUE)
    <2>4. gone \in Int /\ come \in Int /\ n \in Int
      <3>1. n \in Int
        BY <1>10, <1>i
      <3>2. gone \in Int /\ come \in Int
        BY DEF B
      <3> QED
        BY <3>1, <3>2
    <2>5. /\ counters'.Evict_Dirty = n - gone + come
          /\ counters'.Cnt_write_req = n - gone + come
      BY <1>4, <1>5, <1>10
    <2>6. n' = n - gone + come
      BY <1>7
    <2>2. counters'.Evict_Dirty = Cardinality(Items(TRUE))'
      <3> HIDE DEF gone, come
      <3> QED
        BY <2>5, <2>6
    <2>3. counters'.Cnt_write_req = Cardinality(Items(TRUE))'
      <3> HIDE DEF gone, come
      <3> QED
        BY <2>5, <2>6
    <2> QED
      BY <2>1, <2>2, <2>3
  <1>12. /\ counters'.CallBack_Clean = Cardinality(Called(FALSE))'
         /\ counters'.CallBack_Dirty = Cardinality(Called(TRUE))'
    BY <1>4, <1>5, <1>6, <1>7, <1>10
  <1>13. counters'.Lat_write_sum = Total(InOrder(WriteTimeOf, WDArray_Head, WDArray_Tail))'
    <2> DEFINE old == Total(InOrder(WriteTimeOf, WDArray_Head, WDArray_Tail))
               gone == IF full THEN time ELSE 0
               sum == counters'.Lat_write_sum
    <2>1. old \in Int /\ gone \in Int
      BY <1>10, <1>i, <1>t DEF time
    <2>2. sum = old - gone + newTime
      BY <1>4, <1>5, <1>10
    <2>3. newTime \in Int
      BY <1>t DEF newTime
    <2>4. old - gone + newTime = old + newTime - gone
      <3> HIDE DEF old, gone
      <3> QED
        BY <2>1, <2>3
    <2> QED
      BY <1>8, <2>2, <2>4
  <1>14. counters'.T_evict_cnt = Len(Ring)'
    <2>1. Len(Ring) \in Int /\ B(full) \in Int
      BY <1>10, <1>i DEF B
    <2> QED
      BY <1>4, <1>5, <1>9, <1>10, <2>1
  <1> QED
    BY <1>5, <1>11, <1>12, <1>13, <1>14 DEF CountersAre

\* A block that is missed changes one item of the window, and one counter.
LEMMA CallBackKeepsCounters ==
  ASSUME TypeInv, IndexInv, CountersAre, NEW b \in Blocks, TryCallBack(b)
  PROVE  counters' \in Counters /\ WindowArray' \in [Slots -> WDItem] /\ CountersAre'
  <1> DEFINE item == indexGet_WDItemId(b)
  <1>1. UNCHANGED <<WDArray_Head, WDArray_Tail>> /\ Ring' = Ring
    BY DEF TryCallBack, Ring
  <1>2. CASE UNCHANGED <<window, index, counters, alive>>
    <2>1. UNCHANGED <<WindowArray, counters>>
      BY <1>2 DEF window
    <2>2. \A d \in BOOLEAN : Items(d)' = Items(d) /\ Called(d)' = Called(d)
      BY <1>1, <2>1 DEF Items, Called
    <2>3. Total(InOrder(WriteTimeOf, WDArray_Head, WDArray_Tail))'
            = Total(InOrder(WriteTimeOf, WDArray_Head, WDArray_Tail))
      BY <1>1, <2>1 DEF WriteTimeOf
    <2> QED
      BY <1>1, <2>1, <2>2, <2>3 DEF CountersAre, TypeInv
  <1>3. CASE /\ item \in Live /\ item \in Slots
             /\ WindowArray' = [WindowArray EXCEPT ![item].isCallBack = TRUE]
             /\ counters' = IF WindowArray[item].dirty
                            THEN [counters EXCEPT !.CallBack_Dirty = @ + 1]
                            ELSE [counters EXCEPT !.CallBack_Clean = @ + 1]
    <2> HIDE DEF item
    <2>0. PICK isDirty \in BOOLEAN : isDirty = WindowArray[item].dirty
      BY <1>3 DEF TypeInv, WDItem
    <2>1. /\ WindowArray' \in [Slots -> WDItem]
          /\ \A s \in Slots : /\ WindowArray'[s].dirty = WindowArray[s].dirty
                              /\ WindowArray'[s].usetime = WindowArray[s].usetime
                              /\ s # item => WindowArray'[s] = WindowArray[s]
          /\ WindowArray'[item].isCallBack
      BY <1>3 DEF TypeInv, WDItem
    <2>2. /\ item \in ToSet(Ring) /\ ~WindowArray[item].isCallBack
          /\ ToSet(Ring) \subseteq Slots
      BY <1>3, RingFacts DEF Live
    <2>3. \A d \in BOOLEAN : Items(d)' = Items(d)
      BY <1>1, <2>1, <2>2 DEF Items
    <2>4. \A d \in BOOLEAN : Called(d)' = Called(d) \cup (IF d = isDirty THEN {item} ELSE {})
      <3>1. \A d \in BOOLEAN : Called(d)' = {s \in Items(d) : WindowArray'[s].isCallBack}
        BY <2>3 DEF Called
      <3>2. \A d \in BOOLEAN : Called(d) = {s \in Items(d) : WindowArray[s].isCallBack}
        BY DEF Called
      <3>3. \A d \in BOOLEAN : /\ item \in Items(d) <=> d = isDirty
                               /\ \A s \in Items(d) : s \in Slots
        BY <2>0, <2>2 DEF Items
      <3> QED
        BY <2>1, <3>1, <3>2, <3>3
    <2>5. \A d \in BOOLEAN : /\ IsFiniteSet(Called(d)) /\ Cardinality(Called(d)) \in Nat
                             /\ item \notin Called(d)
      BY <2>2, Counted DEF Called
    <2>6. /\ Cardinality(Called(isDirty)') = Cardinality(Called(isDirty)) + 1
          /\ Cardinality(Called(~isDirty)') = Cardinality(Called(~isDirty))
      <3>1. Called(isDirty)' = Called(isDirty) \cup {item} /\ Called(~isDirty)' = Called(~isDirty)
        BY <2>4
      <3>2. IsFiniteSet(Called(isDirty)) /\ item \notin Called(isDirty)
        BY <2>5
      <3>3. Cardinality(Called(isDirty) \cup {item}) = Cardinality(Called(isDirty)) + 1
        BY <3>2, FS_AddElement
      <3> QED
        BY <3>1, <3>3
    <2>7. Total(InOrder(WriteTimeOf, WDArray_Head, WDArray_Tail))'
            = Total(InOrder(WriteTimeOf, WDArray_Head, WDArray_Tail))
      <3>1. WriteTimeOf' = WriteTimeOf
        BY <2>1 DEF WriteTimeOf
      <3> QED
        BY <1>1, <3>1
    <2>8. /\ counters' \in Counters
          /\ counters'.Evict_Clean = counters.Evict_Clean
          /\ counters'.Evict_Dirty = counters.Evict_Dirty
          /\ counters'.Lat_write_sum = counters.Lat_write_sum
          /\ counters'.Cnt_write_req = counters.Cnt_write_req
          /\ counters'.T_evict_cnt = counters.T_evict_cnt
          /\ isDirty => /\ counters'.CallBack_Dirty = counters.CallBack_Dirty + 1
                        /\ counters'.CallBack_Clean = counters.CallBack_Clean
          /\ ~isDirty => /\ counters'.CallBack_Clean = counters.CallBack_Clean + 1
                         /\ counters'.CallBack_Dirty = counters.CallBack_Dirty
      BY <1>3, <2>0 DEF TypeInv, Counters, CounterNames
    <2>9. /\ counters'.CallBack_Clean = Cardinality(Called(FALSE)')
          /\ counters'.CallBack_Dirty = Cardinality(Called(TRUE)')
      <3>1. /\ counters.CallBack_Clean = Cardinality(Called(FALSE))
            /\ counters.CallBack_Dirty = Cardinality(Called(TRUE))
        BY DEF CountersAre
      <3>2. CASE isDirty
        <4>1. isDirty = TRUE /\ (~isDirty) = FALSE
          BY <3>2
        <4> QED
          BY <2>6, <2>8, <3>1, <3>2, <4>1
      <3>3. CASE ~isDirty
        <4>1. isDirty = FALSE /\ (~isDirty) = TRUE
          BY <3>3
        <4> QED
          BY <2>6, <2>8, <3>1, <3>3, <4>1
      <3> QED
        BY <3>2, <3>3
    <2> QED
      BY <1>1, <2>1, <2>3, <2>7, <2>8, <2>9 DEF CountersAre
  <1> QED
    BY <1>2, <1>3, CalledBack

-----------------------------------------------------------------------------
\* The averages and the costs are numbers that are never negative.
LEMMA CostsAre ==
  ASSUME TypeInv, CountersAre, SumsItsTimes(reads), SumsItsTimes(misses)
  PROVE  /\ Lat_read_avg \in Nat /\ Lat_write_avg \in Nat /\ Lat_evict_avg \in Nat
         /\ counters.Evict_Clean \in Nat /\ counters.Evict_Dirty \in Nat
         /\ counters.CallBack_Clean \in Nat /\ counters.CallBack_Dirty \in Nat
  <1>1. ASSUME NEW r, r \in TimeRing, SumsItsTimes(r)
        PROVE  r.sum \in Nat /\ r.cnt \in Nat
    <2>1. Stored(Nat, r.slot, r.head, r.tail)
      BY <1>1 DEF TimeRing, Stored
    <2>2. /\ InOrder(r.slot, r.head, r.tail) \in Seq(Nat)
          /\ Len(InOrder(r.slot, r.head, r.tail)) = Len(InRing(r.head, r.tail))
      BY <2>1, InOrderIs
    <2>3. Total(InOrder(r.slot, r.head, r.tail)) \in Nat
      BY <2>2, TotalType
    <2>4. Len(InOrder(r.slot, r.head, r.tail)) \in Nat
      BY <2>2
    <2> QED
      BY <1>1, <2>2, <2>3, <2>4 DEF SumsItsTimes
  <1>2. /\ reads.sum \in Nat /\ reads.cnt \in Nat
        /\ misses.sum \in Nat /\ misses.cnt \in Nat
    BY <1>1 DEF TypeInv
  <1>3. counters.Lat_write_sum \in Nat
    <2>1. Stored(Nat, WriteTimeOf, WDArray_Head, WDArray_Tail)
      BY WriteTimeType DEF TypeInv, Stored
    <2>2. InOrder(WriteTimeOf, WDArray_Head, WDArray_Tail) \in Seq(Nat)
      BY <2>1, InOrderIs
    <2> QED
      BY <2>2, TotalType DEF CountersAre
  <1>4. /\ counters.Evict_Clean \in Nat /\ counters.Evict_Dirty \in Nat
        /\ counters.CallBack_Clean \in Nat /\ counters.CallBack_Dirty \in Nat
        /\ counters.Cnt_write_req \in Nat
    BY Counted DEF CountersAre
  <1>5. ASSUME NEW sum \in Nat, NEW cnt \in Nat PROVE sum \div (cnt + 1) \in Nat
    OBVIOUS
  <1> QED
    BY <1>2, <1>3, <1>4, <1>5 DEF Lat_read_avg, Lat_write_avg, Lat_evict_avg

\* What may be chosen, by what is in the window.
LEMMA PicksFromWindow ==
  ASSUME TypeInv, CountersAre, SumsItsTimes(reads), SumsItsTimes(misses), NEW t \in random_pick
  PROVE  /\ t = "Dirty" => Called(FALSE) # {}
         /\ t = "Clean" /\ Called(FALSE) # {} /\ Lat_read_avg + Lat_evict_avg > 0
              => Items(TRUE) # {}
  <1> DEFINE read == Lat_read_avg
             write == Lat_write_avg
             evict == Lat_evict_avg
             ec == counters.Evict_Clean
             ed == counters.Evict_Dirty
             cc == counters.CallBack_Clean
             cd == counters.CallBack_Dirty
             first == CC
             second == CD
  <1>1. read \in Nat /\ write \in Nat /\ evict \in Nat /\ ec \in Nat /\ ed \in Nat /\ cc \in Nat
    BY CostsAre
  <1>2. /\ first = cc * (read + evict) * (ed + 1)
        /\ second = (write * (ed + 1) + cd * evict) * (ec + 1)
    BY DEF CC, CD
  <1>3. /\ t = "Dirty" => first > 0
        /\ t = "Clean" => first = 0 \/ 1000 * first <= 999 * (first + second)
    BY DEF random_pick
  <1>4. cc = 0 <=> Called(FALSE) = {}
    BY Counted, FS_EmptySet DEF CountersAre
  <1>5. ASSUME Items(TRUE) = {} PROVE ed = 0 /\ cd = 0 /\ write = 0
    <2>1. Called(TRUE) = {}
      BY <1>5 DEF Called
    <2>2. ed = 0 /\ cd = 0 /\ counters.Cnt_write_req = 0
      BY <1>5, <2>1, FS_EmptySet DEF CountersAre
    <2>3. counters.Lat_write_sum = 0
      <3> DEFINE times == InOrder(WriteTimeOf, WDArray_Head, WDArray_Tail)
      <3>1. Stored(Nat, WriteTimeOf, WDArray_Head, WDArray_Tail)
        BY WriteTimeType DEF TypeInv, Stored
      <3>2. /\ times \in Seq(Nat) /\ Len(times) = Len(Ring)
            /\ \A i \in 1 .. Len(Ring) : times[i] = WriteTimeOf[Ring[i]]
        BY <3>1, InOrderIs DEF Ring
      <3>3. ASSUME NEW i \in 1 .. Len(Ring) PROVE WriteTimeOf[Ring[i]] = 0
        <4>1. Ring[i] \in ToSet(Ring) /\ Ring[i] \in Slots
          BY RingFacts, InToSet
        <4>2. WindowArray[Ring[i]] \in WDItem /\ WindowArray[Ring[i]].dirty # TRUE
          BY <1>5, <4>1 DEF Items, TypeInv
        <4>3. B(WindowArray[Ring[i]].dirty) = 0 /\ WindowArray[Ring[i]].usetime \in Nat
          BY <4>2 DEF WDItem, B
        <4> QED
          BY <4>1, <4>3 DEF WriteTimeOf
      <3>4. \A i \in 1 .. Len(times) : times[i] = 0
        BY <3>2, <3>3
      <3> HIDE DEF times
      <3>5. Total(times) = 0
        BY <3>2, <3>4, TotalOfNone
      <3> QED
        BY <3>5 DEF CountersAre, times
    <2>4. write = 0
      BY <2>2, <2>3 DEF Lat_write_avg
    <2> QED
      BY <2>2, <2>4
  <1> HIDE DEF read, write, evict, ec, ed, cc, cd, first, second
  <1>6. ASSUME cc = 0 PROVE first = 0
    BY <1>1, <1>2, <1>6
  <1>7. ASSUME cc # 0, read + evict > 0, ed = 0, cd = 0, write = 0
        PROVE  first \in Nat /\ first > 0 /\ second = 0
    <2>1. second = 0
      BY <1>1, <1>2, <1>7
    <2>2. first = cc * (read + evict)
      BY <1>1, <1>2, <1>7
    <2> DEFINE cost == read + evict
    <2>3. cost \in Nat /\ cost > 0
      BY <1>1, <1>7
    <2> HIDE DEF cost
    <2>4. cc * cost > 0 /\ cc * cost \in Nat
      BY <1>1, <1>7, <2>3
    <2> QED
      BY <2>1, <2>2, <2>4 DEF cost
  <1>8. ASSUME t = "Dirty" PROVE Called(FALSE) # {}
    <2>1. first > 0
      BY <1>3, <1>8
    <2>2. first # 0
      BY <2>1
    <2>3. cc # 0
      BY <1>6, <2>2
    <2> QED
      BY <1>4, <2>3
  <1>9. ASSUME t = "Clean", Called(FALSE) # {}, read + evict > 0, Items(TRUE) = {}
        PROVE  FALSE
    <2>1. first \in Nat /\ first > 0 /\ second = 0
      BY <1>4, <1>5, <1>7, <1>9
    <2>2. 1000 * first <= 999 * (first + second)
      BY <1>3, <1>9, <2>1
    <2> QED
      BY <2>1, <2>2
  <1> QED
    BY <1>8, <1>9 DEF read, evict

-----------------------------------------------------------------------------
\* The inductive invariant; the choice is of no use for it.
BalancerInv ==
  /\ TypeInv /\ IndexInv /\ CountersAre
  /\ SumsItsTimes(reads) /\ SumsItsTimes(misses)

LEMMA EmptySet == ToSet(<< >>) = {}
  BY DEF ToSet

LEMMA InitBalancer == Init => BalancerInv /\ ChoiceFromWindow
  <1> SUFFICES ASSUME Init PROVE BalancerInv /\ ChoiceFromWindow
    OBVIOUS
  <1>1. WDArray_Head = 0 /\ WDArray_Tail = 0 /\ 0 \in Slots
    BY ConstantsAre DEF Init
  <1>2. InRing(0, 0) = << >>
    <2>1. InRing(0, 0) \in Seq(Slots) /\ Len(InRing(0, 0)) = 0
      BY <1>1, RingIs DEF Held
    <2> QED
      BY <2>1
  <1>3. Ring = << >> /\ ToSet(Ring) = {}
    <2>1. Ring = << >>
      BY <1>1, <1>2 DEF Ring
    <2> QED
      BY <2>1, EmptySet
  <1>4. Live = {} /\ Entries = {} /\ \A d \in BOOLEAN : Items(d) = {} /\ Called(d) = {}
    BY <1>3 DEF Live, Entries, Items, Called
  <1>5. \A v : InOrder(v, 0, 0) = << >>
    <2> TAKE v
    <2>1. Len(InRing(0, 0)) = 0
      BY <1>2
    <2> QED
      BY <2>1 DEF InOrder
  <1>6. Total(<< >>) = 0
    <2>1. << >> \in Seq(Nat) /\ \A i \in 1 .. Len(<< >>) : << >>[i] = 0
      OBVIOUS
    <2> QED
      BY <2>1, TotalOfNone
  <1>7. TypeInv
    <2>1. counters \in Counters
      BY DEF Init, Counters, CounterNames
    <2>2. EmptyRing \in TimeRing
      BY <1>1 DEF EmptyRing, TimeRing
    <2>3. Unused \in WDItem
      BY DEF Unused, WDItem
    <2> QED
      BY <1>1, <2>1, <2>2, <2>3 DEF Init, TypeInv
  <1>8. IndexInv
    <2>1. Cardinality(Live) = 0
      BY <1>4, FS_EmptySet
    <2>2. nBuckets = TS_WindowSize - Cardinality(Live) /\ alive
      BY <2>1, ConstantsAre DEF Init
    <2>3. Holds(HashIndex, Entries)
      <3>1. HashIndex = [code \in Slots |-> << >>]
        BY DEF Init
      <3>2. << >> \in Seq(Entry) /\ Len(<< >>) = 0
        OBVIOUS
      <3>3. \A code \in Slots : /\ HashIndex[code] = << >>
                                /\ IsInjective(HashIndex[code])
                                /\ \A e : e \notin ToSet(HashIndex[code])
        <4>1. IsInjective(<< >>)
          BY DEF IsInjective
        <4>2. \A e : e \notin ToSet(<< >>)
          BY EmptySet
        <4> QED
          BY <3>1, <4>1, <4>2
      <3>4. HashIndex \in [Slots -> Seq(Entry)]
        BY <3>1, <3>2
      <3> QED
        BY <1>4, <3>3, <3>4 DEF Holds
    <2> QED
      BY <1>4, <2>2, <2>3 DEF IndexInv
  <1>9. CountersAre
    <2>1. /\ counters.Evict_Clean = 0 /\ counters.Evict_Dirty = 0
          /\ counters.CallBack_Clean = 0 /\ counters.CallBack_Dirty = 0
          /\ counters.Lat_write_sum = 0 /\ counters.Cnt_write_req = 0
          /\ counters.T_evict_cnt = 0
      BY DEF Init
    <2>2. /\ Cardinality(Items(FALSE)) = 0 /\ Cardinality(Items(TRUE)) = 0
          /\ Cardinality(Called(FALSE)) = 0 /\ Cardinality(Called(TRUE)) = 0
      BY <1>4, FS_EmptySet
    <2>3. Len(Ring) = 0
      BY <1>3
    <2>4. Total(InOrder(WriteTimeOf, WDArray_Head, WDArray_Tail)) = 0
      BY <1>1, <1>5, <1>6
    <2> QED
      BY <2>1, <2>2, <2>3, <2>4 DEF CountersAre
  <1>10. SumsItsTimes(EmptyRing)
    <2>1. EmptyRing.head = 0 /\ EmptyRing.tail = 0 /\ EmptyRing.sum = 0 /\ EmptyRing.cnt = 0
      BY DEF EmptyRing
    <2> QED
      BY <1>2, <1>5, <1>6, <2>1 DEF SumsItsTimes
  <1>11. reads = EmptyRing /\ misses = EmptyRing /\ chosen = NoChoice
    BY DEF Init
  <1>12. ChoiceFromWindow
    BY <1>11, CostModelAssumption DEF ChoiceFromWindow
  <1> QED
    BY <1>7, <1>8, <1>9, <1>10, <1>11, <1>12 DEF BalancerInv

\* A step that leaves the window, the index and the counters alone.
LEMMA WindowLeftAlone ==
  ASSUME TypeInv, IndexInv, CountersAre,
         UNCHANGED <<window, index, counters, alive, cached>>
  PROVE  /\ WindowArray' \in [Slots -> WDItem] /\ WDArray_Head' \in Slots
         /\ WDArray_Tail' \in Slots /\ counters' \in Counters /\ cached' \subseteq Blocks
         /\ IndexInv' /\ CountersAre'
         /\ Called(FALSE)' = Called(FALSE) /\ Items(TRUE)' = Items(TRUE)
  <1>1. UNCHANGED <<WindowArray, WDArray_Head, WDArray_Tail, HashIndex, nBuckets,
                    counters, alive, cached>>
    BY DEF window, index
  <1>2. Ring' = Ring
    BY <1>1 DEF Ring
  <1>3. \A d \in BOOLEAN : Items(d)' = Items(d) /\ Called(d)' = Called(d)
    BY <1>1, <1>2 DEF Items, Called
  <1>4. Live' = Live /\ Entries' = Entries
    BY <1>1, <1>2 DEF Live, Entries, EntryOf
  <1>5. Total(InOrder(WriteTimeOf, WDArray_Head, WDArray_Tail))'
          = Total(InOrder(WriteTimeOf, WDArray_Head, WDArray_Tail))
    BY <1>1 DEF WriteTimeOf
  <1>6. IndexInv'
    BY <1>1, <1>4 DEF IndexInv
  <1>7. CountersAre'
    BY <1>1, <1>2, <1>3, <1>5 DEF CountersAre
  <1> QED
    BY <1>1, <1>3, <1>6, <1>7 DEF TypeInv

LEMMA EvictKeepsInv ==
  ASSUME BalancerInv, NEW b \in Blocks, NEW isDirty \in BOOLEAN, NEW usetime \in Nat,
         Reg_EvictBlk(b, isDirty, usetime)
  PROVE  BalancerInv' /\ ChoiceFromWindow'
  <1>1. /\ WindowArray' \in [Slots -> WDItem] /\ WDArray_Head' \in Slots
        /\ WDArray_Tail' \in Slots
    BY EvictedRing DEF BalancerInv
  <1>2. counters' \in Counters /\ CountersAre'
    BY EvictKeepsCounters DEF BalancerInv
  <1>3. IndexInv'
    BY EvictKeepsIndex DEF BalancerInv
  <1>4. UNCHANGED <<reads, misses>> /\ chosen' = NoChoice /\ cached' \subseteq Blocks
    BY DEF Reg_EvictBlk, BalancerInv, TypeInv
  <1>5. TypeInv'
    BY <1>1, <1>2, <1>4 DEF TypeInv, BalancerInv
  <1>6. SumsItsTimes(reads)' /\ SumsItsTimes(misses)'
    BY <1>4 DEF BalancerInv
  <1>7. ChoiceFromWindow'
    BY <1>4, CostModelAssumption DEF ChoiceFromWindow
  <1> QED
    BY <1>2, <1>3, <1>5, <1>6, <1>7 DEF BalancerInv

LEMMA StepKeepsInv ==
  BalancerInv /\ ChoiceFromWindow /\ [Next]_vars => BalancerInv' /\ ChoiceFromWindow'
  <1> SUFFICES ASSUME BalancerInv, ChoiceFromWindow, [Next]_vars
               PROVE  BalancerInv' /\ ChoiceFromWindow'
    OBVIOUS
  <1> USE DEF BalancerInv
  <1>1. ASSUME NEW b \in Blocks, TryCallBack(b)
        PROVE  BalancerInv' /\ ChoiceFromWindow'
    <2>1. counters' \in Counters /\ WindowArray' \in [Slots -> WDItem] /\ CountersAre'
      BY <1>1, CallBackKeepsCounters
    <2>2. IndexInv'
      BY <1>1, CallBackKeepsIndex
    <2>3. UNCHANGED <<WDArray_Head, WDArray_Tail, reads, misses>> /\ chosen' = NoChoice
          /\ cached' \subseteq Blocks
      BY <1>1 DEF TryCallBack, TypeInv
    <2>4. TypeInv'
      BY <2>1, <2>3 DEF TypeInv
    <2>5. SumsItsTimes(reads)' /\ SumsItsTimes(misses)'
      BY <2>3
    <2>6. ChoiceFromWindow'
      BY <2>3, CostModelAssumption DEF ChoiceFromWindow
    <2> QED
      BY <2>1, <2>2, <2>4, <2>5, <2>6
  <1>2. ASSUME NEW b \in Blocks, Reg_EvictBlk(b, FALSE, 0)
        PROVE  BalancerInv' /\ ChoiceFromWindow'
    <2> DEFINE isDirty == FALSE
    <2>1. isDirty \in BOOLEAN /\ Reg_EvictBlk(b, isDirty, 0) /\ 0 \in Nat
      BY <1>2
    <2> HIDE DEF isDirty, BalancerInv
    <2> QED
      BY <2>1, EvictKeepsInv
  <1>3. ASSUME NEW b \in Blocks, NEW t \in WriteTimes, Reg_EvictBlk(b, TRUE, t)
        PROVE  BalancerInv' /\ ChoiceFromWindow'
    <2> DEFINE isDirty == TRUE
    <2>1. isDirty \in BOOLEAN /\ Reg_EvictBlk(b, isDirty, t) /\ t \in Nat
      BY <1>3, ConstantsAre
    <2> HIDE DEF isDirty, BalancerInv
    <2> QED
      BY <2>1, EvictKeepsInv
  <1>4. ASSUME NEW t \in ReadTimes, T_rand_Reg(t)
        PROVE  BalancerInv' /\ ChoiceFromWindow'
    <2>1. /\ UNCHANGED <<window, index, counters, alive, cached>> /\ misses' = misses
          /\ reads' = Registered(reads, t) /\ chosen' = NoChoice
      BY <1>4 DEF T_rand_Reg
    <2>2. reads' \in TimeRing /\ SumsItsTimes(reads')
      BY <2>1, ConstantsAre, RegisteredKeeps DEF TypeInv
    <2>3. /\ WindowArray' \in [Slots -> WDItem] /\ WDArray_Head' \in Slots
          /\ WDArray_Tail' \in Slots /\ counters' \in Counters /\ cached' \subseteq Blocks
          /\ IndexInv' /\ CountersAre'
      BY <2>1, WindowLeftAlone
    <2>4. ChoiceFromWindow'
      BY <2>1, CostModelAssumption DEF ChoiceFromWindow
    <2> QED
      BY <2>1, <2>2, <2>3, <2>4 DEF TypeInv
  <1>5. ASSUME NEW t \in MissTimes, T_hitmiss_Reg(t)
        PROVE  BalancerInv' /\ ChoiceFromWindow'
    <2>1. /\ UNCHANGED <<window, index, counters, alive, cached>> /\ reads' = reads
          /\ misses' = Registered(misses, t) /\ chosen' = NoChoice
      BY <1>5 DEF T_hitmiss_Reg
    <2>2. misses' \in TimeRing /\ SumsItsTimes(misses')
      BY <2>1, ConstantsAre, RegisteredKeeps DEF TypeInv
    <2>3. /\ WindowArray' \in [Slots -> WDItem] /\ WDArray_Head' \in Slots
          /\ WDArray_Tail' \in Slots /\ counters' \in Counters /\ cached' \subseteq Blocks
          /\ IndexInv' /\ CountersAre'
      BY <2>1, WindowLeftAlone
    <2>4. ChoiceFromWindow'
      BY <2>1, CostModelAssumption DEF ChoiceFromWindow
    <2> QED
      BY <2>1, <2>2, <2>3, <2>4 DEF TypeInv
  <1>6. ASSUME CHOOSE_Type
        PROVE  BalancerInv' /\ ChoiceFromWindow'
    <2>1. /\ UNCHANGED <<window, index, counters, alive, cached>>
          /\ UNCHANGED <<reads, misses>> /\ chosen' \in random_pick
      BY <1>6 DEF CHOOSE_Type
    <2>2. /\ WindowArray' \in [Slots -> WDItem] /\ WDArray_Head' \in Slots
          /\ WDArray_Tail' \in Slots /\ counters' \in Counters /\ cached' \subseteq Blocks
          /\ IndexInv' /\ CountersAre'
          /\ Called(FALSE)' = Called(FALSE) /\ Items(TRUE)' = Items(TRUE)
      BY <2>1, WindowLeftAlone
    <2>3. /\ chosen' = "Dirty" => Called(FALSE) # {}
          /\ chosen' = "Clean" /\ Called(FALSE) # {} /\ Lat_read_avg + Lat_evict_avg > 0
               => Items(TRUE) # {}
      BY <2>1, PicksFromWindow
    <2>4. Lat_read_avg' = Lat_read_avg /\ Lat_evict_avg' = Lat_evict_avg
      BY <2>1 DEF Lat_read_avg, Lat_evict_avg
    <2>5. ChoiceFromWindow'
      BY <2>2, <2>3, <2>4 DEF ChoiceFromWindow
    <2>6. TypeInv' /\ SumsItsTimes(reads)' /\ SumsItsTimes(misses)'
      BY <2>1, <2>2 DEF TypeInv
    <2> QED
      BY <2>2, <2>5, <2>6
  <1>7. CASE UNCHANGED vars
    <2>1. /\ UNCHANGED <<window, index, counters, alive, cached>>
          /\ UNCHANGED <<reads, misses, chosen>>
      BY <1>7 DEF vars
    <2>2. /\ WindowArray' \in [Slots -> WDItem] /\ WDArray_Head' \in Slots
          /\ WDArray_Tail' \in Slots /\ counters' \in Counters /\ cached' \subseteq Blocks
          /\ IndexInv' /\ CountersAre'
          /\ Called(FALSE)' = Called(FALSE) /\ Items(TRUE)' = Items(TRUE)
      BY <2>1, WindowLeftAlone
    <2>3. Lat_read_avg' = Lat_read_avg /\ Lat_evict_avg' = Lat_evict_avg
      BY <2>1 DEF Lat_read_avg, Lat_evict_avg
    <2>4. ChoiceFromWindow'
      BY <2>1, <2>2, <2>3 DEF ChoiceFromWindow
    <2>5. TypeInv' /\ SumsItsTimes(reads)' /\ SumsItsTimes(misses)'
      BY <2>1, <2>2 DEF TypeInv
    <2> QED
      BY <2>2, <2>4, <2>5
  <1> QED
    BY <1>1, <1>2, <1>3, <1>4, <1>5, <1>6, <1>7 DEF Next

-----------------------------------------------------------------------------
\* What the balancer keeps is kept.
THEOREM BalancerInvariant == Spec => [](BalancerInv /\ ChoiceFromWindow)
  <1>1. Init => BalancerInv /\ ChoiceFromWindow
    BY InitBalancer
  <1>2. BalancerInv /\ ChoiceFromWindow /\ [Next]_vars => BalancerInv' /\ ChoiceFromWindow'
    BY StepKeepsInv
  <1> QED
    BY <1>1, <1>2, PTL DEF Spec

\* The counters are those of the items in the window, however long it is and
\* however often it was gone round.
THEOREM BalancerCounts == Spec => []CountersMatchWindow
  <1>1. BalancerInv => CountersMatchWindow
    BY CountersSplit DEF BalancerInv
  <1> QED
    BY <1>1, BalancerInvariant, PTL

\* CM_CHOOSE() names the dirty class only if the window has a clean block that was
\* called back, and the clean class, where such a block is there and costs
\* anything, only if it has a dirty one.  With no clean block called back nothing
\* need speak for the clean class: random_pick() divides by 0 and names it.
THEOREM BalancerChoices == Spec => []ChoiceFromWindow
  BY BalancerInvariant, PTL

LEMMA IndexSound ==
  ASSUME TypeInv, IndexInv
  PROVE  IndexMatchesWindow
  <1> DEFINE found == UNION {ToSet(HashIndex[code]) : code \in Slots}
  <1>1. Holds(HashIndex, Entries) /\ OneEach(Entries) /\ Entries \subseteq Entry
    BY EntriesAre DEF IndexInv
  <1>2. found = Entries
    <2>1. ASSUME NEW e, e \in found PROVE e \in Entries
      <3>1. PICK code \in Slots : e \in ToSet(HashIndex[code])
        BY <2>1
      <3>2. HashIndex[code] \in Seq(Entry)
        BY <1>1 DEF Holds
      <3>3. e \in Entry
        BY <3>1, <3>2, InToSet
      <3> QED
        BY <1>1, <3>1, <3>3 DEF Holds
    <2>2. ASSUME NEW e, e \in Entries PROVE e \in found
      <3>1. e \in Entry /\ HashMap_KeytoValue(e.key) \in Slots
        BY <1>1, <2>2, EntryIs, CodeIsSlot
      <3>2. e \in ToSet(HashIndex[HashMap_KeytoValue(e.key)])
        BY <1>1, <2>2, <3>1 DEF Holds
      <3> QED
        BY <3>1, <3>2
    <2> QED
      BY <2>1, <2>2
  <1>3. Live = ToSet(Ring) \ (Called(FALSE) \cup Called(TRUE))
    <2>1. \A s \in ToSet(Ring) : WindowArray[s].dirty \in BOOLEAN
      BY RingFacts DEF TypeInv, WDItem
    <2> QED
      BY <2>1 DEF Live, Called, Items
  <1>4. Entries = {[key |-> WindowArray[s].offset, itemId |-> s] :
                      s \in ToSet(Ring) \ (Called(FALSE) \cup Called(TRUE))}
    BY <1>3 DEF Entries, EntryOf
  <1>5. \A code \in Slots :
          /\ IsInjective(HashIndex[code])
          /\ \A e \in ToSet(HashIndex[code]) : HashMap_KeytoValue(e.key) = code
    <2> TAKE code \in Slots
    <2>1. HashIndex[code] \in Seq(Entry) /\ IsInjective(HashIndex[code])
      BY <1>1 DEF Holds
    <2>2. \A e \in ToSet(HashIndex[code]) : e \in Entry
      BY <2>1, InToSet
    <2> QED
      BY <1>1, <2>1, <2>2 DEF Holds
  <1>6. Cardinality(Entries) = Cardinality(Live)
    <2> DEFINE f == [s \in Live |-> EntryOf(s)]
    <2>1. IsFiniteSet(Live)
      BY Counted
    <2>2. \A s \in Live : EntryOf(s).itemId = s /\ EntryOf(s) \in Entries
      BY EntriesAre
    <2>3. f \in Bijection(Live, Entries)
      <3>1. f \in [Live -> Entries]
        BY <2>2
      <3>2. \A s, u \in Live : f[s] = f[u] => s = u
        BY <2>2
      <3>3. \A e \in Entries : \E s \in Live : f[s] = e
        BY EntriesAre
      <3> QED
        BY <3>1, <3>2, <3>3 DEF Bijection, Injection, Surjection, IsInjective
    <2> QED
      BY <2>1, <2>3, FS_Bijection DEF ExistsBijection
  <1>7. /\ nBuckets = TS_WindowSize - Cardinality(Live)
        /\ Cardinality(Live) \in 0 .. Len(Ring) /\ Len(Ring) \in 0 .. TS_WindowSize - 1
    BY Counted, RingFacts DEF IndexInv
  <1>8. nBuckets > 0 /\ nBuckets + Cardinality(Entries) = TS_WindowSize
    BY <1>6, <1>7, ConstantsAre
  <1> QED
    BY <1>1, <1>2, <1>4, <1>5, <1>8 DEF IndexMatchesWindow, OneEach, IndexInv

\* No entry is missing, doubled or left behind, and no bucket is lost: neither
\* exit() nor a bucket beyond the end of the pool is ever reached.
THEOREM BalancerIndex == Spec => []IndexMatchesWindow
  <1>1. BalancerInv => IndexMatchesWindow
    BY IndexSound DEF BalancerInv
  <1> QED
    BY <1>1, BalancerInvariant, PTL

-----------------------------------------------------------------------------
\* The window as the list of the last evictions.
Record(e) == [block |-> e.offset, dirty |-> e.dirty, time |-> e.usetime,
              isCallBack |-> e.isCallBack]

Records == [block : Int, dirty : BOOLEAN, time : Nat, isCallBack : BOOLEAN]

RecordOf == [s \in Slots |-> Record(WindowArray[s])]

Recent == [i \in DOMAIN Ring |->
             LET e == WindowArray[Ring[i]]
             IN  [block |-> e.offset, dirty |-> e.dirty, time |-> e.usetime,
                  isCallBack |-> e.isCallBack]]

LEMMA RecentIs ==
  ASSUME TypeInv
  PROVE  /\ Recent = InOrder(RecordOf, WDArray_Head, WDArray_Tail)
         /\ RecordOf \in [Slots -> Records] /\ Recent \in Seq(Records)
         /\ Len(Recent) = Len(Ring) /\ DOMAIN Recent = 1 .. Len(Ring)
         /\ \A i \in 1 .. Len(Ring) : Recent[i] = Record(WindowArray[Ring[i]])
  <1>1. RecordOf \in [Slots -> Records]
    BY DEF TypeInv, WDItem, RecordOf, Record, Records
  <1>2. \A i \in 1 .. Len(Ring) : Ring[i] \in Slots
    BY RingFacts
  <1>3. Recent = [i \in 1 .. Len(Ring) |-> Record(WindowArray[Ring[i]])]
    BY RingFacts DEF Recent, Record
  <1>4. InOrder(RecordOf, WDArray_Head, WDArray_Tail)
          = [i \in 1 .. Len(Ring) |-> RecordOf[Ring[i]]]
    BY DEF InOrder, Ring
  <1>5. \A i \in 1 .. Len(Ring) : RecordOf[Ring[i]] = Record(WindowArray[Ring[i]])
    BY <1>2 DEF RecordOf
  <1>6. Recent = InOrder(RecordOf, WDArray_Head, WDArray_Tail)
    BY <1>3, <1>4, <1>5
  <1>7. Stored(Records, RecordOf, WDArray_Head, WDArray_Tail)
    BY <1>1 DEF Stored, TypeInv
  <1>8. Recent \in Seq(Records) /\ Len(Recent) = Len(Ring)
    BY <1>6, <1>7, InOrderIs DEF Ring
  <1> QED
    BY <1>1, <1>3, <1>6, <1>8

RecentList ==
  /\ RecordOf \in [Slots -> Records]
  /\ Recent = InOrder(RecordOf, WDArray_Head, WDArray_Tail)
  /\ DOMAIN Recent = 1 .. Len(Ring)
  /\ \A i \in 1 .. Len(Ring) : Recent[i] = Record(WindowArray[Ring[i]])

LEMMA RecentThen == TypeInv' => RecentList'
  <1>1. TypeInv => RecentList
    BY RecentIs DEF RecentList
  <1> QED
    BY <1>1, PTL

LEMMA EvictIsEvict ==
  ASSUME BalancerInv, BalancerInv', NEW b \in Blocks, NEW isDirty \in BOOLEAN,
         NEW t \in Nat, Reg_EvictBlk(b, isDirty, t)
  PROVE  /\ b \in cached /\ cached' = cached \ {b}
         /\ Recent' = Append(IF Len(Recent) = TS_WindowSize - 1 THEN Tail(Recent) ELSE Recent,
                             [block |-> b, dirty |-> isDirty, time |-> t, isCallBack |-> FALSE])
  <1> DEFINE v == RecordOf
             w == RecordOf'
             head == WDArray_Head
             tail == WDArray_Tail
  <1>1. /\ tail \in Slots /\ head \in Slots /\ After(head) \in Slots /\ After(tail) \in Slots
        /\ WDArray_Tail' = After(tail)
        /\ WDArray_Head' = IF IsFull_WDArray THEN After(head) ELSE head
        /\ WindowArray' = [s \in Slots |->
                             IF s = tail THEN NewItem(b, isDirty, t)
                             ELSE IF IsFull_WDArray /\ s = head THEN Unused
                             ELSE WindowArray[s]]
    BY AfterIs DEF BalancerInv, TypeInv, Reg_EvictBlk, Kept, NewItem
  <1>2. /\ v \in [Slots -> Records] /\ Recent = InOrder(v, head, tail) /\ Len(Recent) = Len(Ring)
    BY RecentIs DEF BalancerInv
  <1>3. w \in [Slots -> Records] /\ Recent' = InOrder(w, WDArray_Head', WDArray_Tail')
    BY RecentThen DEF BalancerInv, RecentList
  <1>4. w[tail] = [block |-> b, dirty |-> isDirty, time |-> t, isCallBack |-> FALSE]
    BY <1>1 DEF RecordOf, Record, NewItem
  <1>5. \A s \in Slots \ {tail} : ~(IsFull_WDArray /\ s = head) => w[s] = v[s]
    BY <1>1 DEF RecordOf
  <1>6. IsFull_WDArray <=> head = After(tail)
    BY DEF IsFull_WDArray
  <1>7. IsFull_WDArray <=> Len(Recent) = TS_WindowSize - 1
    BY <1>2, RingFacts DEF BalancerInv
  <1>8. b \in cached /\ cached' = cached \ {b}
    BY DEF Reg_EvictBlk
  <1> HIDE DEF v, w
  <1>9. CASE IsFull_WDArray
    <2>1. Turns(Records, v, w, head, tail, After(head))
      BY <1>1, <1>2, <1>3, <1>5, <1>6, <1>9 DEF Turns
    <2>2. InOrder(w, After(head), head) = Append(Tail(InOrder(v, head, tail)), w[tail])
      BY <2>1, InOrderTurns
    <2> QED
      BY <1>1, <1>2, <1>3, <1>4, <1>6, <1>7, <1>8, <1>9, <2>2
  <1>10. CASE ~IsFull_WDArray
    <2>1. Grows(Records, v, w, head, tail, After(tail))
      BY <1>1, <1>2, <1>3, <1>5, <1>6, <1>10 DEF Grows
    <2>2. InOrder(w, head, After(tail)) = Append(InOrder(v, head, tail), w[tail])
      BY <2>1, InOrderGrows
    <2> QED
      BY <1>1, <1>2, <1>3, <1>4, <1>7, <1>8, <1>10, <2>2
  <1> QED
    BY <1>9, <1>10

LEMMA CallBackIsMiss ==
  ASSUME BalancerInv, BalancerInv', NEW b \in Blocks, TryCallBack(b)
  PROVE  /\ b \notin cached /\ cached' = cached \cup {b}
         /\ Recent' = [i \in DOMAIN Recent |->
                         IF Recent[i].block = b THEN [Recent[i] EXCEPT !.isCallBack = TRUE]
                                                ELSE Recent[i]]
  <1> DEFINE item == indexGet_WDItemId(b)
             n == Len(Ring)
  <1>1. b \notin cached /\ cached' = cached \cup {b} /\ Ring' = Ring
    BY DEF TryCallBack, Ring
  <1>2. /\ DOMAIN Recent = 1 .. n
        /\ \A i \in 1 .. n : Recent[i] = Record(WindowArray[Ring[i]])
    BY RecentIs DEF BalancerInv
  <1>3. /\ DOMAIN Recent' = 1 .. n
        /\ \A i \in 1 .. n : Recent'[i] = Record(WindowArray'[Ring[i]])
    BY <1>1, RecentThen DEF BalancerInv, RecentList
  <1>4. \A i \in 1 .. n : Ring[i] \in ToSet(Ring) /\ Ring[i] \in Slots
    BY RingFacts, InToSet DEF BalancerInv
  <1>5. \A s \in Slots : /\ WindowArray[s] \in WDItem
                         /\ s \in ToSet(Ring) => (s \in Live <=> ~WindowArray[s].isCallBack)
    BY DEF BalancerInv, TypeInv, Live
  <1> DEFINE marked(r) == IF r.block = b THEN [r EXCEPT !.isCallBack = TRUE] ELSE r
  <1>6. ASSUME NEW e \in WDItem, e.isCallBack PROVE marked(Record(e)) = Record(e)
    <2>1. e.isCallBack = TRUE
      BY <1>6 DEF WDItem
    <2> QED
      BY <2>1 DEF Record
  <1>7. ASSUME NEW e \in WDItem, e.offset # b PROVE marked(Record(e)) = Record(e)
    BY <1>7 DEF Record
  <1>8. ASSUME NEW e \in WDItem, e.offset = b
        PROVE  marked(Record(e)) = Record([e EXCEPT !.isCallBack = TRUE])
    BY <1>8 DEF Record, WDItem
  <1>9. ASSUME NEW i \in 1 .. n PROVE Recent'[i] = marked(Recent[i])
    <2> DEFINE s == Ring[i]
    <2>1. /\ s \in ToSet(Ring) /\ s \in Slots /\ WindowArray[s] \in WDItem
          /\ s \in Live <=> ~WindowArray[s].isCallBack
      BY <1>4, <1>5
    <2>2. Recent[i] = Record(WindowArray[s]) /\ Recent'[i] = Record(WindowArray'[s])
      BY <1>2, <1>3
    <2> HIDE DEF s, marked, item, n
    <2>3. CASE UNCHANGED window /\ \A u \in Live : WindowArray[u].offset # b
      <3>1. WindowArray'[s] = WindowArray[s]
        BY <2>3 DEF window
      <3> QED
        BY <1>6, <1>7, <2>1, <2>2, <2>3, <3>1
    <2>4. CASE /\ item \in Live /\ item \in Slots /\ WindowArray[item].offset = b
               /\ WindowArray' = [WindowArray EXCEPT ![item].isCallBack = TRUE]
      <3>1. WindowArray' = [WindowArray EXCEPT ![item] = [@ EXCEPT !.isCallBack = TRUE]]
        BY <2>4
      <3>2. \A u \in Live : WindowArray[u].offset = b => u = item
        BY <2>4 DEF BalancerInv, IndexInv
      <3>3. CASE s = item
        <4>1. WindowArray'[s] = [WindowArray[s] EXCEPT !.isCallBack = TRUE]
          BY <2>1, <3>1, <3>3 DEF BalancerInv, TypeInv
        <4> QED
          BY <1>8, <2>1, <2>2, <2>4, <3>3, <4>1
      <3>4. CASE s # item
        <4>1. WindowArray'[s] = WindowArray[s]
          BY <2>1, <3>1, <3>4 DEF BalancerInv, TypeInv
        <4> QED
          BY <1>6, <1>7, <2>1, <2>2, <3>2, <3>4, <4>1
      <3> QED
        BY <3>3, <3>4
    <2> QED
      BY <2>3, <2>4, CalledBack DEF BalancerInv, item
  <1>10. Recent' = [i \in 1 .. n |-> marked(Recent[i])]
    <2> DEFINE new == Recent'
    <2>1. new = [i \in DOMAIN new |-> new[i]]
      BY DEF Recent
    <2> HIDE DEF new, marked, n
    <2> QED
      BY <1>3, <1>9, <2>1 DEF new
  <1> QED
    BY <1>1, <1>2, <1>10

LEMMA StepIsWindowStep ==
  ASSUME BalancerInv, BalancerInv', [Next]_vars
  PROVE  [Window!Next]_(<<Recent, cached>>)
  <1>1. ASSUME NEW b \in Blocks, TryCallBack(b) PROVE Window!Next
    BY <1>1, CallBackIsMiss DEF Window!Next, Window!Miss, Recent
  <1>2. ASSUME NEW b \in Blocks, NEW isDirty \in BOOLEAN, NEW t \in WriteTimes \cup {0},
               Reg_EvictBlk(b, isDirty, t)
        PROVE  Window!Next
    <2>1. t \in Nat
      BY ConstantsAre
    <2>2. Window!Evict(b, isDirty, t)
      BY <1>2, <2>1, EvictIsEvict DEF Window!Evict, Recent
    <2> QED
      BY <2>2 DEF Window!Next
  <1>3. ASSUME UNCHANGED <<window, cached>>
        PROVE  UNCHANGED <<Recent, cached>>
    BY <1>3 DEF window, Recent, Ring
  <1>4. ASSUME NEW b \in Blocks, Reg_EvictBlk(b, FALSE, 0) PROVE Window!Next
    <2> DEFINE isDirty == FALSE
    <2>1. isDirty \in BOOLEAN /\ 0 \in WriteTimes \cup {0} /\ Reg_EvictBlk(b, isDirty, 0)
      BY <1>4
    <2> HIDE DEF isDirty
    <2> QED
      BY <1>2, <2>1
  <1>5. ASSUME NEW b \in Blocks, NEW t \in WriteTimes, Reg_EvictBlk(b, TRUE, t)
        PROVE  Window!Next
    <2> DEFINE isDirty == TRUE
    <2>1. isDirty \in BOOLEAN /\ t \in WriteTimes \cup {0} /\ Reg_EvictBlk(b, isDirty, t)
      BY <1>5
    <2> HIDE DEF isDirty
    <2> QED
      BY <1>2, <2>1
  <1>6. ASSUME NEW t, T_rand_Reg(t) \/ T_hitmiss_Reg(t) PROVE UNCHANGED <<Recent, cached>>
    BY <1>3, <1>6 DEF T_rand_Reg, T_hitmiss_Reg
  <1>7. ASSUME CHOOSE_Type \/ UNCHANGED vars PROVE UNCHANGED <<Recent, cached>>
    BY <1>3, <1>7 DEF CHOOSE_Type, vars
  <1> QED
    BY <1>1, <1>4, <1>5, <1>6, <1>7 DEF Next

\* The ring with its head and tail, the marks and the index behave as the plain
\* list of the last evictions, in which a missed block is marked.
THEOREM BalancerIsWindow == Spec => ImplementsWindow
  <1>1. Init => Window!Init
    <2> SUFFICES ASSUME Init PROVE Window!Init
      OBVIOUS
    <2>1. Ring = << >>
      <3>1. WDArray_Head = 0 /\ WDArray_Tail = 0 /\ 0 \in Slots
        BY ConstantsAre DEF Init
      <3>2. Ring \in Seq(Slots) /\ Len(Ring) = 0
        BY <3>1, RingIs DEF Ring, Held
      <3> QED
        BY <3>2
    <2>2. Recent = << >>
      BY <2>1 DEF Recent
    <2> QED
      BY <2>2 DEF Init, Window!Init, Recent
  <1>2. BalancerInv /\ BalancerInv' /\ [Next]_vars => [Window!Next]_(<<Recent, cached>>)
    BY StepIsWindowStep
  <1> QED
    BY <1>1, <1>2, BalancerInvariant, PTL DEF Spec, ImplementsWindow, Window!Spec, Recent
=============================================================================
