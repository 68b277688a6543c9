---------------------------- MODULE ListTheorems ----------------------------
(***************************************************************************)
(* What the proofs about lists and counts have in common: induction, the   *)
(* functions that are defined by it, sequences without repetitions, how    *)
(* many elements a set has, linked lists, and the quicksort of zones.      *)
(***************************************************************************)
EXTENDS Walks, ZoneSort, FiniteSets, FiniteSetTheorems,
        WellFoundedInduction, TLAPS

\* A set of numbers that is not empty has a least one.
LEMMA LeastNat ==
  ASSUME NEW T, T \subseteq Nat, T # {}
  PROVE  \E n \in T : \A m \in T : n <= m
  <1>1. PICK n \in T : \A m \in T : ~ (<<m, n>> \in OpToRel(<, Nat))
    BY NatLessThanWellFounded, WFMin
  <1>2. \A m \in T : ~(m < n)
    BY <1>1 DEF OpToRel
  <1> QED
    BY <1>2

\* Induction, said with a set in the place of a predicate.
LEMMA NatInduct ==
  ASSUME NEW T, 0 \in T, \A n \in Nat : n \in T => n + 1 \in T
  PROVE  Nat \subseteq T
  <1> SUFFICES ASSUME Nat \ T # {} PROVE FALSE
    OBVIOUS
  <1>1. PICK n \in Nat \ T : \A m \in Nat \ T : n <= m
    BY LeastNat
  <1>2. n # 0 /\ n - 1 \in Nat
    BY <1>1
  <1>3. n - 1 \in T
    BY <1>1, <1>2
  <1> QED
    BY <1>1, <1>2, <1>3

Iterates(f, base, step, S) ==
  f \in [Nat -> S] /\ f[0] = base /\ \A n \in Nat : f[n + 1] = step[n][f[n]]

\* There is a function that takes the given step from each number to the next.
LEMMA Iteration ==
  ASSUME NEW S, NEW base \in S, NEW step \in [Nat -> [S -> S]]
  PROVE  \E f : Iterates(f, base, step, S)
  <1> DEFINE Upto(g, n) == /\ g \in [Nat -> S] /\ g[0] = base
                           /\ \A k \in 0 .. n - 1 : g[k + 1] = step[k][g[k]]
             T == {n \in Nat : \E g : Upto(g, n)}
             Agree(n) == \A i, j \in Nat : \A g, h :
                           n <= i /\ n <= j /\ Upto(g, i) /\ Upto(h, j) => g[n] = h[n]
             U == {n \in Nat : Agree(n)}
  <1>1. 0 \in T
    <2>1. Upto([k \in Nat |-> base], 0)
      OBVIOUS
    <2> QED BY <2>1
  <1>2. ASSUME NEW n \in Nat, n \in T PROVE n + 1 \in T
    <2>1. PICK g : Upto(g, n)
      BY <1>2
    <2>2. Upto([g EXCEPT ![n + 1] = step[n][g[n]]], n + 1)
      BY <2>1
    <2> HIDE DEF Upto
    <2> QED
      BY <2>2
  <1>3. 0 \in U
    OBVIOUS
  <1>s. ASSUME NEW i \in Nat, NEW n \in Nat, NEW g, n + 1 <= i, Upto(g, i)
        PROVE  g[n + 1] = step[n][g[n]] /\ n <= i
    BY <1>s
  <1>4. ASSUME NEW n \in Nat, n \in U PROVE n + 1 \in U
    <2>1. ASSUME NEW i \in Nat, NEW j \in Nat, NEW g, NEW h, n + 1 <= i, n + 1 <= j,
                 Upto(g, i), Upto(h, j)
          PROVE  g[n + 1] = h[n + 1]
      <3> HIDE DEF Upto
      <3>1. n <= i /\ n <= j
        BY <1>s, <2>1
      <3>2. g[n] = h[n]
        BY <1>4, <2>1, <3>1
      <3> QED
        BY <1>s, <2>1, <3>2
    <2> HIDE DEF Upto
    <2> QED
      BY <2>1
  <1>5. Nat \subseteq T /\ Nat \subseteq U
    <2> HIDE DEF T, U
    <2> QED BY <1>1, <1>2, <1>3, <1>4, NatInduct
  <1> DEFINE G(n) == CHOOSE g : Upto(g, n)
             f == [n \in Nat |-> G(n)[n]]
  <1>6. \A n \in Nat : Upto(G(n), n)
    <2> HIDE DEF Upto
    <2> QED BY <1>5
  <1>7. f \in [Nat -> S] /\ f[0] = base
    <2> HIDE DEF G
    <2> QED BY <1>6
  <1> HIDE DEF G
  <1>8. ASSUME NEW n \in Nat PROVE f[n + 1] = step[n][f[n]]
    <2> HIDE DEF Upto
    <2>1. Upto(G(n), n) /\ Upto(G(n + 1), n + 1)
      BY <1>6
    <2>2. G(n)[n] = G(n + 1)[n]
      BY <1>5, <2>1
    <2>3. G(n + 1)[n + 1] = step[n][G(n + 1)[n]]
      BY <1>s, <2>1
    <2> QED
      BY <2>2, <2>3
  <1> QED
    BY <1>7, <1>8 DEF Iterates

\* The same step each time.
Repeats(f, base, round, S) ==
  f \in [Nat -> S] /\ f[0] = base /\ \A n \in Nat : f[n + 1] = round[f[n]]

LEMMA Repetition ==
  ASSUME NEW S, NEW base \in S, NEW round \in [S -> S]
  PROVE  \E f : Repeats(f, base, round, S)
  <1> DEFINE step == [n \in Nat |-> round]
  <1>1. step \in [Nat -> [S -> S]] /\ \A n \in Nat : step[n] = round
    OBVIOUS
  <1> HIDE DEF step
  <1>2. PICK f \in [Nat -> S] : f[0] = base /\ \A n \in Nat : f[n + 1] = step[n][f[n]]
    <2>1. PICK f : Iterates(f, base, step, S)
      BY <1>1, Iteration
    <2> QED
      BY <2>1 DEF Iterates
  <1> QED
    BY <1>1, <1>2 DEF Repeats

LEMMA NumberIteration ==
  \A base \in Nat : \A step \in [Nat -> [Nat -> Nat]] :
    \E f \in [Nat -> Nat] : f[0] = base /\ \A n \in Nat : f[n + 1] = step[n][f[n]]
  <1> DEFINE S == Nat
  <1>1. \A base \in S : \A step \in [Nat -> [S -> S]] :
          \E f \in [Nat -> S] : f[0] = base /\ \A n \in Nat : f[n + 1] = step[n][f[n]]
    <2> HIDE DEF S
    <2>1. \A base \in S : \A step \in [Nat -> [S -> S]] : \E f : Iterates(f, base, step, S)
      BY Iteration
    <2> QED
      BY <2>1 DEF Iterates
  <1> QED
    BY <1>1 DEF S

-----------------------------------------------------------------------------
\* The least number of a set.
LEMMA MinIs ==
  ASSUME NEW S, S \subseteq Nat, S # {}
  PROVE  Min(S) \in S /\ \A n \in S : Min(S) <= n
  BY LeastNat DEF Min

LEMMA MinOfTwo ==
  ASSUME NEW a \in Nat, NEW b \in Nat
  PROVE  Min({a, b}) = IF a <= b THEN a ELSE b
  BY MinIs

LEMMA InToSet ==
  ASSUME NEW S, NEW s \in Seq(S)
  PROVE  /\ \A i \in 1 .. Len(s) : s[i] \in ToSet(s) /\ s[i] \in S
         /\ \A e \in ToSet(s) : \E i \in 1 .. Len(s) : s[i] = e
         /\ ToSet(s) \subseteq S /\ Len(s) \in Nat
  BY DEF ToSet

\* The sequence without the element at k.
LEMMA RemoveAtIs ==
  ASSUME NEW S, NEW s \in Seq(S), NEW k \in 1 .. Len(s)
  PROVE  LET r == RemoveAt(s, k)
         IN  /\ r \in Seq(S) /\ Len(r) = Len(s) - 1
             /\ \A i \in 1 .. Len(r) : r[i] = IF i < k THEN s[i] ELSE s[i + 1]
  <1>4. /\ SubSeq(s, 1, k - 1) \in Seq(S) /\ Len(SubSeq(s, 1, k - 1)) = k - 1
        /\ \A i \in 1 .. k - 1 : SubSeq(s, 1, k - 1)[i] = s[i]
    OBVIOUS
  <1>5. /\ SubSeq(s, k + 1, Len(s)) \in Seq(S) /\ Len(SubSeq(s, k + 1, Len(s))) = Len(s) - k
        /\ \A i \in 1 .. Len(s) - k : SubSeq(s, k + 1, Len(s))[i] = s[i + k]
    OBVIOUS
  <1> DEFINE front == SubSeq(s, 1, k - 1)
             back == SubSeq(s, k + 1, Len(s))
             rest == RemoveAt(s, k)
  <1>6. front \in Seq(S) /\ back \in Seq(S) /\ rest = front \o back
    BY <1>4, <1>5 DEF RemoveAt
  <1>7. Len(front) = k - 1 /\ Len(back) = Len(s) - k
    BY <1>4, <1>5
  <1> HIDE DEF front, back, rest
  <1>8. rest \in Seq(S) /\ Len(rest) = Len(s) - 1
    <2>1. rest \in Seq(S) /\ Len(rest) = Len(front) + Len(back)
      BY <1>6
    <2> QED
      BY <1>7, <2>1
  <1>9. ASSUME NEW i \in 1 .. Len(rest)
        PROVE  rest[i] = IF i < k THEN s[i] ELSE s[i + 1]
    <2>1. rest[i] = IF i <= k - 1 THEN front[i] ELSE back[i - (k - 1)]
      <3>1. i \in 1 .. Len(front) + Len(back)
        BY <1>7, <1>8
      <3>2. rest[i] = IF i <= Len(front) THEN front[i] ELSE back[i - Len(front)]
        BY <1>6, <3>1
      <3> QED
        BY <1>7, <3>2
    <2>2. CASE i < k
      BY <1>4, <2>1, <2>2 DEF front
    <2>3. CASE ~(i < k)
      <3>1. i - (k - 1) \in 1 .. Len(s) - k
        BY <1>8, <2>3
      <3>2. back[i - (k - 1)] = s[i - (k - 1) + k]
        BY <1>5, <3>1 DEF back
      <3> QED
        BY <2>1, <2>3, <3>2
    <2> QED
      BY <2>2, <2>3
  <1> QED
    BY <1>8, <1>9 DEF rest

\* ... and without the first place of an element, when that is nowhere else.
LEMMA RemoveFirstIs ==
  ASSUME NEW S, NEW s \in Seq(S), IsInjective(s), NEW k \in 1 .. Len(s)
  PROVE  LET r == RemoveFirst(s, s[k])
         IN  /\ r \in Seq(S) /\ Len(r) = Len(s) - 1
             /\ \A i \in 1 .. Len(r) : r[i] = IF i < k THEN s[i] ELSE s[i + 1]
  <1>1. {i \in 1 .. Len(s) : s[i] = s[k]} = {k} /\ Min({k}) = k
    BY DEF IsInjective, Min
  <1>2. SelectInSeq(s, LAMBDA v : v = s[k]) = k
    BY <1>1 DEF SelectInSeq
  <1>3. RemoveFirst(s, s[k]) = RemoveAt(s, k)
    BY <1>2 DEF RemoveFirst
  <1> QED
    BY <1>3, RemoveAtIs

\* What is left of a sequence without repetitions has none, and all but that
\* element.
LEMMA RemoveAtSet ==
  ASSUME NEW S, NEW s \in Seq(S), IsInjective(s), NEW k \in 1 .. Len(s)
  PROVE  LET r == RemoveAt(s, k)
         IN  IsInjective(r) /\ ToSet(r) = ToSet(s) \ {s[k]}
  <1> DEFINE r == RemoveAt(s, k)
  <1>1. /\ r \in Seq(S) /\ Len(r) = Len(s) - 1 /\ Len(s) \in Nat
        /\ \A i \in 1 .. Len(r) : r[i] = IF i < k THEN s[i] ELSE s[i + 1]
    BY RemoveAtIs
  <1> HIDE DEF r
  <1>d. DOMAIN s = 1 .. Len(s) /\ DOMAIN r = 1 .. Len(r)
    BY <1>1
  <1>2. \A i, j \in 1 .. Len(s) : s[i] = s[j] => i = j
    BY <1>d DEF IsInjective
  <1>3. IsInjective(r)
    BY <1>1, <1>2, <1>d DEF IsInjective
  <1>4. ASSUME NEW e \in ToSet(r) PROVE e \in ToSet(s) \ {s[k]}
    <2>1. PICK i \in 1 .. Len(r) : r[i] = e
      BY <1>1, InToSet
    <2>2. \E j \in 1 .. Len(s) : j # k /\ s[j] = e
      BY <1>1, <2>1
    <2> QED
      BY <1>2, <2>2, InToSet
  <1>5. ASSUME NEW e \in ToSet(s) \ {s[k]} PROVE e \in ToSet(r)
    <2>1. PICK j \in 1 .. Len(s) : s[j] = e /\ j # k
      BY InToSet
    <2>2. \E i \in 1 .. Len(r) : r[i] = e
      <3>1. CASE j < k
        BY <1>1, <2>1, <3>1
      <3>2. CASE j > k
        <4>1. j - 1 \in 1 .. Len(r) /\ r[j - 1] = s[(j - 1) + 1]
          BY <1>1, <2>1, <3>2
        <4> QED
          BY <2>1, <4>1
      <3> QED
        BY <2>1, <3>1, <3>2
    <2> QED
      BY <1>1, <2>2, InToSet
  <1> QED
    BY <1>3, <1>4, <1>5 DEF r

\* ... and when it is nowhere at all.
LEMMA RemoveFirstOther ==
  ASSUME NEW S, NEW s \in Seq(S), NEW d, d \notin ToSet(s)
  PROVE  RemoveFirst(s, d) = s
  BY DEF RemoveFirst, ToSet

\* A sequence has as many elements as places, or fewer.
LEMMA ToSetFinite ==
  ASSUME NEW S, NEW s \in Seq(S)
  PROVE  /\ IsFiniteSet(ToSet(s)) /\ Cardinality(ToSet(s)) \in 0 .. Len(s)
         /\ IsInjective(s) => Cardinality(ToSet(s)) = Len(s)
  <1>1. IsFiniteSet(1 .. Len(s)) /\ Cardinality(1 .. Len(s)) = Len(s)
    <2>1. Len(s) \in Nat
      OBVIOUS
    <2> QED
      BY <2>1, FS_Interval, SMTT(20)
  <1>2. s \in Surjection(1 .. Len(s), ToSet(s))
    BY DEF ToSet, Surjection
  <1>3. IsFiniteSet(ToSet(s)) /\ Cardinality(ToSet(s)) <= Len(s)
    BY <1>1, <1>2, FS_Surjection DEF ExistsSurjection
  <1>4. Cardinality(ToSet(s)) \in Nat
    BY <1>3, FS_CardinalityType
  <1>5. ASSUME IsInjective(s) PROVE Cardinality(ToSet(s)) = Len(s)
    <2>1. s \in Bijection(1 .. Len(s), ToSet(s))
      BY <1>2, <1>5 DEF Bijection, Injection, Surjection, IsInjective, ToSet
    <2> QED
      BY <1>1, <2>1, FS_Bijection DEF ExistsBijection
  <1> QED
    BY <1>3, <1>4, <1>5

\* Without repetitions it has no more places than there are elements.
LEMMA InjectiveLen ==
  ASSUME NEW S, IsFiniteSet(S), NEW s \in Seq(S), IsInjective(s)
  PROVE  Len(s) <= Cardinality(S)
  <1>1. ToSet(s) \subseteq S
    BY DEF ToSet
  <1> QED
    BY <1>1, ToSetFinite, FS_Subset

\* A sequence with one element put in front.
LEMMA ConsIs ==
  ASSUME NEW S, NEW s \in Seq(S), NEW d \in S
  PROVE  LET list == <<d>> \o s
         IN  /\ list \in Seq(S) /\ Len(list) = Len(s) + 1 /\ list[1] = d
             /\ \A i \in 1 .. Len(s) : list[i + 1] = s[i]
             /\ \A i \in 2 .. Len(list) : i - 1 \in 1 .. Len(s) /\ list[i] = s[i - 1]
             /\ ToSet(list) = ToSet(s) \cup {d}
  <1> DEFINE list == <<d>> \o s
  <1>1. /\ list \in Seq(S) /\ Len(list) = Len(s) + 1 /\ Len(s) \in Nat
        /\ list[1] = d /\ \A i \in 1 .. Len(s) : list[i + 1] = s[i]
    OBVIOUS
  <1> HIDE DEF list
  <1>2. ASSUME NEW i \in 2 .. Len(list)
        PROVE  i - 1 \in 1 .. Len(s) /\ list[i] = s[i - 1]
    <2>1. i - 1 \in 1 .. Len(s) /\ (i - 1) + 1 = i
      BY <1>1
    <2> QED
      BY <1>1, <2>1
  <1>3. ASSUME NEW e \in ToSet(list) PROVE e \in ToSet(s) \cup {d}
    <2>1. PICK i \in 1 .. Len(list) : list[i] = e
      BY <1>1, InToSet
    <2>2. i = 1 \/ i \in 2 .. Len(list)
      BY <1>1
    <2> QED
      BY <1>1, <1>2, <2>1, <2>2, InToSet
  <1>4. ASSUME NEW e \in ToSet(s) PROVE e \in ToSet(list)
    <2>1. PICK i \in 1 .. Len(s) : s[i] = e
      BY InToSet
    <2>2. i + 1 \in 1 .. Len(list) /\ list[i + 1] = e
      BY <1>1, <2>1
    <2> QED
      BY <1>1, <2>2, InToSet
  <1>5. d \in ToSet(list)
    <2>1. 1 \in 1 .. Len(list)
      BY <1>1
    <2> QED
      BY <1>1, <2>1, InToSet
  <1> QED
    BY <1>1, <1>2, <1>3, <1>4, <1>5 DEF list

LEMMA ConsInjective ==
  ASSUME NEW S, NEW s \in Seq(S), NEW d \in S, IsInjective(s), d \notin ToSet(s)
  PROVE  IsInjective(<<d>> \o s)
  <1> DEFINE list == <<d>> \o s
  <1>1. /\ list \in Seq(S) /\ Len(list) = Len(s) + 1 /\ list[1] = d
        /\ \A i \in 2 .. Len(list) : i - 1 \in 1 .. Len(s) /\ list[i] = s[i - 1]
        /\ Len(s) \in Nat
    BY ConsIs
  <1> HIDE DEF list
  <1>2. \A i, j \in 1 .. Len(s) : s[i] = s[j] => i = j
    BY DEF IsInjective
  <1>3. \A i \in 1 .. Len(s) : s[i] # d
    BY InToSet
  <1>4. ASSUME NEW i \in 1 .. Len(list), NEW j \in 1 .. Len(list), list[i] = list[j]
        PROVE  i = j
    <2>1. CASE i = 1 /\ j # 1
      BY <1>1, <1>3, <1>4, <2>1
    <2>2. CASE i # 1 /\ j = 1
      BY <1>1, <1>3, <1>4, <2>2
    <2>3. CASE i # 1 /\ j # 1
      <3>1. i \in 2 .. Len(list) /\ j \in 2 .. Len(list)
        BY <1>1, <2>3
      <3>2. i - 1 = j - 1
        BY <1>1, <1>2, <1>4, <3>1
      <3> QED
        BY <3>2
    <2> QED
      BY <2>1, <2>2, <2>3
  <1>5. DOMAIN list = 1 .. Len(list)
    BY <1>1
  <1> QED
    BY <1>4, <1>5 DEF IsInjective, list

\* ... or behind.
LEMMA AppendSet ==
  ASSUME NEW S, NEW s \in Seq(S), NEW d \in S
  PROVE  ToSet(Append(s, d)) = ToSet(s) \cup {d}
  <1> DEFINE list == Append(s, d)
  <1>1. /\ list \in Seq(S) /\ Len(list) = Len(s) + 1 /\ Len(s) \in Nat
        /\ list[Len(s) + 1] = d /\ \A i \in 1 .. Len(s) : list[i] = s[i]
    OBVIOUS
  <1> HIDE DEF list
  <1>2. ASSUME NEW e \in ToSet(list) PROVE e \in ToSet(s) \cup {d}
    <2>1. PICK i \in 1 .. Len(list) : list[i] = e
      BY <1>1, InToSet
    <2>2. i \in 1 .. Len(s) \/ i = Len(s) + 1
      BY <1>1
    <2> QED
      BY <1>1, <2>1, <2>2, InToSet
  <1>3. ASSUME NEW e \in ToSet(s) PROVE e \in ToSet(list)
    <2>1. PICK i \in 1 .. Len(s) : s[i] = e
      BY InToSet
    <2>2. i \in 1 .. Len(list) /\ list[i] = e
      BY <1>1, <2>1
    <2> QED
      BY <1>1, <2>2, InToSet
  <1>4. d \in ToSet(list)
    <2>1. Len(s) + 1 \in 1 .. Len(list)
      BY <1>1
    <2> QED
      BY <1>1, <2>1, InToSet
  <1> QED
    BY <1>2, <1>3, <1>4 DEF list

LEMMA AppendNew ==
  ASSUME NEW S, NEW s \in Seq(S), IsInjective(s), NEW d \in S, d \notin ToSet(s)
  PROVE  /\ Append(s, d) \in Seq(S) /\ Len(Append(s, d)) = Len(s) + 1
         /\ IsInjective(Append(s, d))
  <1>1. Append(s, d) \in Seq(S) /\ Len(Append(s, d)) = Len(s) + 1
    OBVIOUS
  <1>2. \A i \in 1 .. Len(s) + 1 : Append(s, d)[i] = IF i = Len(s) + 1 THEN d ELSE s[i]
    OBVIOUS
  <1>3. /\ \A i, j \in 1 .. Len(s) : s[i] = s[j] => i = j
        /\ \A i \in 1 .. Len(s) : s[i] # d
        /\ Len(s) \in Nat
    BY InToSet DEF IsInjective
  <1>4. IsInjective(Append(s, d))
    <2> SUFFICES ASSUME NEW i \in 1 .. Len(s) + 1, NEW j \in 1 .. Len(s) + 1,
                        Append(s, d)[i] = Append(s, d)[j]
                 PROVE  i = j
      BY <1>1 DEF IsInjective
    <2>1. (i = Len(s) + 1 \/ i \in 1 .. Len(s)) /\ (j = Len(s) + 1 \/ j \in 1 .. Len(s))
      BY <1>3
    <2> QED
      BY <1>2, <1>3, <2>1
  <1> QED
    BY <1>1, <1>4

\* Without its first element.
LEMMA TailSet ==
  ASSUME NEW S, NEW s \in Seq(S), IsInjective(s), Len(s) > 0
  PROVE  ToSet(Tail(s)) = ToSet(s) \ {s[1]}
  <1> DEFINE rest == Tail(s)
  <1>1. /\ rest \in Seq(S) /\ Len(rest) = Len(s) - 1 /\ Len(s) \in Nat
        /\ \A i \in 1 .. Len(rest) : rest[i] = s[i + 1]
    <2>1. s # << >>
      OBVIOUS
    <2> QED
      BY <2>1
  <1>2. 1 \in 1 .. Len(s) /\ \A i, j \in 1 .. Len(s) : s[i] = s[j] => i = j
    BY <1>1 DEF IsInjective
  <1> HIDE DEF rest
  <1>3. ASSUME NEW e \in ToSet(rest) PROVE e \in ToSet(s) \ {s[1]}
    <2>1. PICK i \in 1 .. Len(rest) : rest[i] = e
      BY <1>1, InToSet
    <2>2. i + 1 \in 1 .. Len(s) /\ i + 1 # 1 /\ s[i + 1] = e
      BY <1>1, <2>1
    <2> QED
      BY <1>2, <2>2, InToSet
  <1>4. ASSUME NEW e \in ToSet(s) \ {s[1]} PROVE e \in ToSet(rest)
    <2>1. PICK j \in 1 .. Len(s) : s[j] = e /\ j # 1
      BY InToSet
    <2>2. j - 1 \in 1 .. Len(rest) /\ (j - 1) + 1 = j
      BY <1>1, <2>1
    <2>3. rest[j - 1] = e
      BY <1>1, <2>1, <2>2
    <2> QED
      BY <1>1, <2>2, <2>3, InToSet
  <1> QED
    BY <1>3, <1>4 DEF rest

-----------------------------------------------------------------------------
\* Following the links from start shows the elements of s, in that order.
Follows(s, start, follow, nil) ==
  /\ start = IF s = << >> THEN nil ELSE s[1]
  /\ \A i \in 1 .. Len(s) : follow[s[i]] = IF i = Len(s) THEN nil ELSE s[i + 1]

\* A walk that is long enough shows them all.
LEMMA WalkIs ==
  ASSUME NEW D, NEW nil, nil \notin D, NEW follow, DOMAIN follow = D,
         NEW s \in Seq(D), NEW start, Follows(s, start, follow, nil),
         NEW steps \in Nat, Len(s) <= steps + 1
  PROVE  Walk(start, follow, nil, steps) = s
  <1>1. CASE s = << >>
    BY <1>1 DEF Walk, Follows
  <1>2. CASE s # << >>
    <2> DEFINE longer == [path \in Seq(D) |->
                            IF follow[Last(path)] = nil THEN path
                            ELSE Append(path, follow[Last(path)])]
               Steps(f) == f = [k \in 0 .. steps |-> IF k = 0 THEN <<start>> ELSE longer[f[k - 1]]]
               walk == CHOOSE f : Steps(f)
               upto(k) == IF k + 1 <= Len(s) THEN k + 1 ELSE Len(s)
               g == [k \in 0 .. steps |-> SubSeq(s, 1, upto(k))]
    <2>1. /\ Len(s) \in Nat /\ Len(s) > 0 /\ start = s[1] /\ start \in D
          /\ \A i \in 1 .. Len(s) : s[i] \in D
      BY <1>2 DEF Follows
    <2>2. ASSUME NEW n \in 1 .. Len(s)
          PROVE  /\ SubSeq(s, 1, n) \in Seq(D) /\ Len(SubSeq(s, 1, n)) = n
                 /\ Last(SubSeq(s, 1, n)) = s[n]
      <3>1. /\ SubSeq(s, 1, n) \in Seq(D) /\ Len(SubSeq(s, 1, n)) = n
            /\ SubSeq(s, 1, n)[n] = s[n]
        BY <2>1
      <3> QED
        BY <3>1 DEF Last
    <2>3. ASSUME NEW n \in 1 .. Len(s), n # Len(s)
          PROVE  Append(SubSeq(s, 1, n), s[n + 1]) = SubSeq(s, 1, n + 1)
      BY <2>1, <2>3
    <2>4. SubSeq(s, 1, 1) = <<start>> /\ SubSeq(s, 1, Len(s)) = s
      <3>1. /\ SubSeq(s, 1, 1) \in Seq(D) /\ Len(SubSeq(s, 1, 1)) = 1
            /\ SubSeq(s, 1, 1)[1] = start
        BY <2>1, <2>2
      <3>2. SubSeq(s, 1, 1) = <<start>>
        <4>1. \A t \in Seq(D) : Len(t) = 1 => t = <<t[1]>>
          OBVIOUS
        <4> QED
          BY <3>1, <4>1
      <3>3. SubSeq(s, 1, Len(s)) = s
        BY <2>1
      <3> QED
        BY <3>2, <3>3
    <2>5. ASSUME NEW n \in 1 .. Len(s)
          PROVE  longer[SubSeq(s, 1, n)] = SubSeq(s, 1, IF n = Len(s) THEN n ELSE n + 1)
      <3>1. longer[SubSeq(s, 1, n)] = IF follow[s[n]] = nil THEN SubSeq(s, 1, n)
                                      ELSE Append(SubSeq(s, 1, n), follow[s[n]])
        BY <2>2
      <3> HIDE DEF longer
      <3>2. CASE n = Len(s)
        <4>1. follow[s[n]] = nil
          BY <2>1, <3>2 DEF Follows
        <4> QED
          BY <3>1, <3>2, <4>1
      <3>3. CASE n # Len(s)
        <4>1. follow[s[n]] = s[n + 1] /\ s[n + 1] \in D
          BY <2>1, <3>3 DEF Follows
        <4> QED
          BY <3>1, <3>3, <4>1, <2>3
      <3> QED
        BY <3>2, <3>3
    <2> HIDE DEF longer
    <2>6. ASSUME NEW k \in 0 .. steps
          PROVE  g[k] = IF k = 0 THEN <<start>> ELSE longer[g[k - 1]]
      <3>1. CASE k = 0
        BY <2>1, <2>4, <3>1
      <3>2. CASE k # 0
        <4>1. k - 1 \in 0 .. steps /\ upto(k - 1) \in 1 .. Len(s)
              /\ upto(k) = IF upto(k - 1) = Len(s) THEN upto(k - 1) ELSE upto(k - 1) + 1
          BY <2>1, <3>2
        <4>2. g[k] = SubSeq(s, 1, upto(k)) /\ g[k - 1] = SubSeq(s, 1, upto(k - 1))
          BY <4>1
        <4> HIDE DEF upto, g
        <4> QED
          BY <2>5, <3>2, <4>1, <4>2
      <3> QED
        BY <3>1, <3>2
    <2>7. Steps(g)
      <3>1. g = [k \in 0 .. steps |-> g[k]]
        OBVIOUS
      <3> HIDE DEF g
      <3> QED
        BY <2>6, <3>1
    <2>8. Steps(walk)
      <3> HIDE DEF Steps, g
      <3> QED
        BY <2>7
    <2>9. Walk(start, follow, nil, steps) = walk[steps]
      <3>1. start # nil
        BY <2>1
      <3> QED
        BY <3>1 DEF Walk, longer
    <2> HIDE DEF walk
    <2>10. /\ walk[0] = <<start>>
           /\ \A k \in 0 .. steps : k # 0 => walk[k] = longer[walk[k - 1]]
      BY <2>8
    <2> HIDE DEF Steps, g
    <2> DEFINE T == {k \in Nat : k <= steps => walk[k] = g[k]}
    <2>11. 0 \in T
      BY <2>6, <2>10
    <2>12. ASSUME NEW k \in Nat, k \in T PROVE k + 1 \in T
      <3> SUFFICES ASSUME k + 1 <= steps PROVE walk[k + 1] = g[k + 1]
        OBVIOUS
      <3>1. k + 1 \in 0 .. steps /\ k + 1 # 0 /\ (k + 1) - 1 = k /\ k <= steps
        OBVIOUS
      <3> QED
        BY <2>6, <2>10, <2>12, <3>1
    <2>13. walk[steps] = g[steps]
      <3> HIDE DEF T
      <3>1. steps \in T
        BY <2>11, <2>12, NatInduct
      <3> QED
        BY <3>1 DEF T
    <2>14. g[steps] = s
      <3>1. g[steps] = SubSeq(s, 1, upto(steps)) /\ upto(steps) = Len(s)
        BY <2>1 DEF g
      <3> QED
        BY <2>4, <3>1
    <2> QED
      BY <2>9, <2>13, <2>14
  <1> QED
    BY <1>1, <1>2

\* A list linked both ways shows the elements of s from its first one on, and those
\* of s in reverse from its last one on.
Linked(l, s, nil) ==
  /\ l.first = IF s = << >> THEN nil ELSE s[1]
  /\ l.last = IF s = << >> THEN nil ELSE s[Len(s)]
  /\ \A i \in 1 .. Len(s) : /\ l.next[s[i]] = IF i = Len(s) THEN nil ELSE s[i + 1]
                            /\ l.pre[s[i]] = IF i = 1 THEN nil ELSE s[i - 1]

LEMMA ReverseIs ==
  ASSUME NEW D, NEW s \in Seq(D)
  PROVE  /\ Reverse(s) \in Seq(D) /\ Len(Reverse(s)) = Len(s)
         /\ \A i \in 1 .. Len(s) : Reverse(s)[i] = s[Len(s) - i + 1]
         /\ Reverse(s) = << >> <=> s = << >>
  <1>1. Len(s) \in Nat /\ \A i \in 1 .. Len(s) : (Len(s) - i) + 1 \in 1 .. Len(s)
    OBVIOUS
  <1>2. Reverse(s) = [i \in 1 .. Len(s) |-> s[(Len(s) - i) + 1]]
    BY DEF Reverse
  <1>3. Reverse(s) \in Seq(D) /\ Len(Reverse(s)) = Len(s)
    BY <1>1, <1>2
  <1> QED
    BY <1>2, <1>3

LEMMA LinkedWalks ==
  ASSUME NEW D, NEW nil, nil \notin D, NEW l, DOMAIN l.next = D, DOMAIN l.pre = D,
         NEW s \in Seq(D), Linked(l, s, nil), NEW steps \in Nat, Len(s) <= steps + 1
  PROVE  /\ Walk(l.first, l.next, nil, steps) = s
         /\ Walk(l.last, l.pre, nil, steps) = Reverse(s)
  <1>1. Follows(s, l.first, l.next, nil)
    BY DEF Linked, Follows
  <1> DEFINE r == Reverse(s)
  <1>2. /\ r \in Seq(D) /\ Len(r) = Len(s) /\ Len(s) \in Nat
        /\ \A i \in 1 .. Len(s) : r[i] = s[Len(s) - i + 1]
        /\ r = << >> <=> s = << >>
    BY ReverseIs
  <1> HIDE DEF r
  <1>3. l.last = IF r = << >> THEN nil ELSE r[1]
    BY <1>2 DEF Linked
  <1>4. ASSUME NEW i \in 1 .. Len(r)
        PROVE  l.pre[r[i]] = IF i = Len(r) THEN nil ELSE r[i + 1]
    <2> DEFINE j == Len(s) - i + 1
    <2>1. j \in 1 .. Len(s) /\ r[i] = s[j] /\ (j = 1 <=> i = Len(r))
      BY <1>2
    <2>2. i # Len(r) => r[i + 1] = s[j - 1]
      <3>1. i # Len(r) => i + 1 \in 1 .. Len(s) /\ Len(s) - (i + 1) + 1 = j - 1
        BY <1>2
      <3> QED
        BY <1>2, <3>1
    <2> HIDE DEF j
    <2> QED
      BY <2>1, <2>2 DEF Linked
  <1>5. Follows(r, l.last, l.pre, nil)
    BY <1>3, <1>4 DEF Follows
  <1> QED
    BY <1>1, <1>2, <1>5, WalkIs DEF r

\* List l with node d put in front of it.
PutInFront(l, l2, d, nil, D) ==
  /\ l2.first = d /\ l2.last = IF l.first = nil THEN d ELSE l.last
  /\ l2.next[d] = l.first /\ l2.pre[d] = nil
  /\ l.first # nil => l2.pre[l.first] = d
  /\ \A e \in D \ {d} : /\ l2.next[e] = l.next[e]
                        /\ e # l.first => l2.pre[e] = l.pre[e]

LEMMA FrontLinked ==
  ASSUME NEW D, NEW nil, nil \notin D, NEW l, NEW l2, NEW s \in Seq(D), IsInjective(s),
         Linked(l, s, nil), NEW d \in D, d \notin ToSet(s), PutInFront(l, l2, d, nil, D)
  PROVE  Linked(l2, <<d>> \o s, nil)
  <1> DEFINE list == <<d>> \o s
  <1>1. /\ list \in Seq(D) /\ Len(list) = Len(s) + 1 /\ list[1] = d
        /\ \A i \in 1 .. Len(s) : list[i + 1] = s[i]
        /\ \A i \in 2 .. Len(list) : i - 1 \in 1 .. Len(s) /\ list[i] = s[i - 1]
        /\ Len(s) \in Nat
    BY ConsIs
  <1> HIDE DEF list
  <1>2. /\ list # << >> /\ (s = << >> <=> Len(s) = 0)
        /\ \A i \in 1 .. Len(s) : s[i] \in D \ {d}
    BY <1>1, InToSet
  <1>3. l.first = nil <=> s = << >>
    BY <1>2 DEF Linked
  <1>4. l2.first = list[1] /\ l2.last = list[Len(list)]
    BY <1>1, <1>2, <1>3 DEF Linked, PutInFront
  <1>i. \A i, j \in 1 .. Len(s) : s[i] = s[j] => i = j
    BY DEF IsInjective
  <1>5. ASSUME NEW i \in 1 .. Len(list)
        PROVE  /\ l2.next[list[i]] = IF i = Len(list) THEN nil ELSE list[i + 1]
               /\ l2.pre[list[i]] = IF i = 1 THEN nil ELSE list[i - 1]
    <2>1. CASE i = 1
      BY <1>1, <1>2, <1>3, <2>1 DEF Linked, PutInFront
    <2>2. CASE i # 1
      <3> DEFINE j == i - 1
      <3>1. j \in 1 .. Len(s) /\ i = j + 1 /\ list[i] = s[j] /\ s[j] \in D \ {d}
        BY <1>1, <1>2, <2>2
      <3>2. l2.next[s[j]] = l.next[s[j]]
        BY <3>1 DEF PutInFront
      <3>3. l.next[s[j]] = IF j = Len(s) THEN nil ELSE s[j + 1]
        BY <3>1 DEF Linked
      <3>4. i # Len(list) => j + 1 \in 1 .. Len(s) /\ list[i + 1] = s[j + 1]
        BY <1>1, <3>1
      <3>5. l2.next[list[i]] = IF i = Len(list) THEN nil ELSE list[i + 1]
        BY <1>1, <3>1, <3>2, <3>3, <3>4
      <3>6. l2.pre[s[j]] = list[i - 1]
        <4>1. CASE j = 1
          <5>1. l.first = s[j] /\ l.first # nil
            BY <1>2, <3>1, <4>1 DEF Linked
          <5> QED
            BY <1>1, <3>1, <4>1, <5>1 DEF PutInFront
        <4>2. CASE j # 1
          <5>1. l.first = s[1] /\ 1 \in 1 .. Len(s) /\ s[j] # s[1]
            BY <1>1, <1>2, <1>i, <3>1, <4>2 DEF Linked
          <5>2. l2.pre[s[j]] = l.pre[s[j]]
            BY <3>1, <5>1 DEF PutInFront
          <5>3. l.pre[s[j]] = s[j - 1]
            BY <3>1, <4>2 DEF Linked
          <5>4. j - 1 \in 1 .. Len(s) /\ (j - 1) + 1 = i - 1
            BY <1>1, <3>1, <4>2
          <5> QED
            BY <1>1, <5>2, <5>3, <5>4
        <4> QED
          BY <4>1, <4>2
      <3> QED
        BY <2>2, <3>1, <3>5, <3>6
    <2> QED
      BY <2>1, <2>2
  <1> QED
    BY <1>2, <1>4, <1>5 DEF Linked, list

\* List l with node d taken out of it, and its links cleared.
TakenOut(l, l2, d, nil, D) ==
  /\ l2.first = IF l.pre[d] = nil THEN l.next[d] ELSE l.first
  /\ l2.last = IF l.next[d] = nil THEN l.pre[d] ELSE l.last
  /\ l2.next[d] = nil /\ l2.pre[d] = nil
  /\ \A e \in D \ {d} :
       /\ l2.next[e] = IF e = l.pre[d] THEN l.next[d] ELSE l.next[e]
       /\ l2.pre[e] = IF e = l.next[d] THEN l.pre[d] ELSE l.pre[e]

LEMMA TakenLinked ==
  ASSUME NEW D, NEW nil, nil \notin D, NEW l, NEW l2, NEW s \in Seq(D), IsInjective(s),
         Linked(l, s, nil), NEW k \in 1 .. Len(s), NEW d, d = s[k], TakenOut(l, l2, d, nil, D)
  PROVE  /\ Linked(l2, RemoveAt(s, k), nil)
         /\ \A e \in D \ ToSet(s) : l2.next[e] = l.next[e] /\ l2.pre[e] = l.pre[e]
  <1> DEFINE r == RemoveAt(s, k)
             n == Len(s)
  <1>1. /\ r \in Seq(D) /\ Len(r) = n - 1 /\ n \in Nat
        /\ \A i \in 1 .. Len(r) : r[i] = IF i < k THEN s[i] ELSE s[i + 1]
    BY RemoveAtIs
  <1> HIDE DEF r
  <1>2. /\ \A i \in 1 .. n : s[i] \in D /\ s[i] # nil /\ s[i] \in ToSet(s)
        /\ \A i, j \in 1 .. n : s[i] = s[j] => i = j
    BY InToSet DEF IsInjective
  <1>3. /\ s # << >> /\ (r = << >> <=> n = 1)
        /\ \A i \in 1 .. n : (i # n => i + 1 \in 1 .. n) /\ (i # 1 => i - 1 \in 1 .. n)
        /\ 1 \in 1 .. n /\ n \in 1 .. n
    BY <1>1
  <1>4. /\ l.first = s[1] /\ l.last = s[n]
        /\ \A i \in 1 .. n : /\ l.next[s[i]] = IF i = n THEN nil ELSE s[i + 1]
                             /\ l.pre[s[i]] = IF i = 1 THEN nil ELSE s[i - 1]
    BY <1>3 DEF Linked
  <1> HIDE DEF n
  <1>5. /\ l2.first = IF k = 1 THEN l.next[s[k]] ELSE s[1]
        /\ l2.last = IF k = n THEN l.pre[s[k]] ELSE s[n]
    <2> DEFINE before == s[k - 1]
               after == s[k + 1]
    <2>3. /\ l.pre[s[k]] = IF k = 1 THEN nil ELSE before
          /\ l.next[s[k]] = IF k = n THEN nil ELSE after
      BY <1>4 DEF n
    <2>4. (k # n => after # nil) /\ (k # 1 => before # nil)
      BY <1>2, <1>3 DEF n
    <2> HIDE DEF before, after
    <2>1. l.pre[s[k]] = nil <=> k = 1
      BY <2>3, <2>4
    <2>2. l.next[s[k]] = nil <=> k = n
      BY <2>3, <2>4
    <2> QED
      BY <1>4, <2>1, <2>2 DEF TakenOut
  <1>6. l2.first = IF r = << >> THEN nil ELSE r[1]
    <2>1. k = 1 /\ n # 1 => r[1] = s[2]
      BY <1>1
    <2>2. k # 1 => r[1] = s[1]
      BY <1>1 DEF n
    <2> QED
      BY <1>1, <1>3, <1>4, <1>5, <2>1, <2>2 DEF n
  <1>7. l2.last = IF r = << >> THEN nil ELSE r[Len(r)]
    <2>1. n # 1 => Len(r) \in 1 .. Len(r) /\ Len(r) = n - 1
      BY <1>1
    <2>2. k = n /\ n # 1 => r[Len(r)] = s[n - 1]
      BY <1>1, <2>1 DEF n
    <2>3. k # n => r[Len(r)] = s[n] /\ n # 1
      BY <1>1, <2>1 DEF n
    <2> QED
      BY <1>1, <1>3, <1>4, <1>5, <2>1, <2>2, <2>3 DEF n
  <1>8. ASSUME NEW i \in 1 .. n, i # k
        PROVE  /\ l2.next[s[i]] = IF i + 1 = k THEN l.next[s[k]] ELSE l.next[s[i]]
               /\ l2.pre[s[i]] = IF i - 1 = k THEN l.pre[s[k]] ELSE l.pre[s[i]]
    <2>1. s[i] \in D \ {s[k]}
      BY <1>2, <1>8 DEF n
    <2>2. s[i] = l.pre[s[k]] <=> i + 1 = k
      <3>1. k \in 1 .. n /\ l.pre[s[k]] = IF k = 1 THEN nil ELSE s[k - 1]
        BY <1>4 DEF n
      <3>2. k # 1 => k - 1 \in 1 .. n /\ (i = k - 1 <=> i + 1 = k)
        BY <1>1, <3>1
      <3>3. k = 1 => i + 1 # k
        BY <3>1
      <3> QED
        BY <1>2, <3>1, <3>2, <3>3
    <2>3. s[i] = l.next[s[k]] <=> i - 1 = k
      BY <1>1, <1>2, <1>3, <1>4, <1>8 DEF n
    <2> QED
      BY <2>1, <2>2, <2>3 DEF TakenOut
  <1>9. ASSUME NEW i \in 1 .. Len(r)
        PROVE  /\ l2.next[r[i]] = IF i = Len(r) THEN nil ELSE r[i + 1]
               /\ l2.pre[r[i]] = IF i = 1 THEN nil ELSE r[i - 1]
    <2>1. i \in 1 .. n /\ i + 1 \in 1 .. n /\ i \in Nat /\ (i # Len(r) => i + 2 \in 1 .. n)
      BY <1>1
    <2>2. i # Len(r) => i + 1 \in 1 .. Len(r) /\ r[i + 1] = IF i + 1 < k THEN s[i + 1] ELSE s[i + 2]
      BY <1>1
    <2>3. i # 1 => i - 1 \in 1 .. Len(r) /\ r[i - 1] = IF i - 1 < k THEN s[i - 1] ELSE s[i]
      BY <1>1
    <2>4. CASE i < k
      <3>1. r[i] = s[i]
        BY <1>1, <2>4
      <3>2. i # n /\ (i + 1 = k /\ k = n <=> i = Len(r))
        BY <1>1, <2>1, <2>4 DEF n
      <3>3. l2.next[s[i]] = IF i + 1 = k THEN l.next[s[k]] ELSE s[i + 1]
        BY <1>4, <1>8, <2>1, <2>4, <3>2 DEF n
      <3>4. i + 1 = k => l.next[s[k]] = IF k = n THEN nil ELSE s[i + 2]
        BY <1>4, <2>1 DEF n
      <3>5. l2.next[r[i]] = IF i = Len(r) THEN nil ELSE r[i + 1]
        <4>1. CASE i + 1 = k
          BY <1>1, <2>1, <2>2, <3>1, <3>2, <3>3, <3>4, <4>1
        <4>2. CASE i + 1 # k
          <5>1. i + 1 < k /\ i # Len(r)
            BY <1>1, <2>1, <2>4, <3>2, <4>2 DEF n
          <5> QED
            BY <2>2, <3>1, <3>3, <4>2, <5>1
        <4> QED
          BY <4>1, <4>2
      <3>6. l2.pre[s[i]] = IF i = 1 THEN nil ELSE s[i - 1]
        BY <1>1, <1>4, <1>8, <2>1, <2>4 DEF n
      <3> QED
        BY <2>1, <2>3, <2>4, <3>1, <3>5, <3>6 DEF n
    <2>5. CASE ~(i < k)
      <3>1. r[i] = s[i + 1] /\ i + 1 # k /\ (i + 1 = n <=> i = Len(r))
        BY <1>1, <2>1, <2>5 DEF n
      <3>2. l2.next[s[i + 1]] = IF i = Len(r) THEN nil ELSE s[i + 2]
        <4>1. (i + 1) + 1 # k /\ (i + 1) + 1 = i + 2
          BY <2>1, <2>5 DEF n
        <4>2. l2.next[s[i + 1]] = l.next[s[i + 1]]
          BY <1>8, <2>1, <3>1, <4>1
        <4> QED
          BY <1>4, <2>1, <3>1, <4>1, <4>2
      <3>3. l2.pre[s[i + 1]] = IF i = k THEN l.pre[s[k]] ELSE s[i]
        <4>1. (i + 1) - 1 = i /\ i + 1 # 1
          BY <2>1
        <4>2. l2.pre[s[i + 1]] = IF i = k THEN l.pre[s[k]] ELSE l.pre[s[i + 1]]
          BY <1>8, <2>1, <3>1, <4>1
        <4> QED
          BY <1>4, <2>1, <4>1, <4>2
      <3>4. l2.next[r[i]] = IF i = Len(r) THEN nil ELSE r[i + 1]
        <4>1. ~(i + 1 < k)
          BY <2>1, <2>5 DEF n
        <4> QED
          BY <2>2, <3>1, <3>2, <4>1
      <3>5. i = k => l.pre[s[k]] = IF i = 1 THEN nil ELSE s[i - 1]
        BY <1>4 DEF n
      <3>6. l2.pre[r[i]] = IF i = 1 THEN nil ELSE r[i - 1]
        <4>1. CASE i = k
          BY <2>1, <2>3, <3>1, <3>3, <3>5, <4>1
        <4>2. CASE i # k
          <5>1. i > k /\ i # 1 /\ ~(i - 1 < k)
            BY <2>1, <2>5, <4>2 DEF n
          <5> QED
            BY <2>3, <3>1, <3>3, <4>2, <5>1
        <4> QED
          BY <4>1, <4>2
      <3> QED
        BY <3>4, <3>6
    <2> QED
      BY <2>4, <2>5
  <1>10. ASSUME NEW e \in D \ ToSet(s)
         PROVE  l2.next[e] = l.next[e] /\ l2.pre[e] = l.pre[e]
    <2>1. e # s[k] /\ e # l.pre[s[k]] /\ e # l.next[s[k]]
      BY <1>2, <1>3, <1>4 DEF n
    <2> QED
      BY <2>1 DEF TakenOut
  <1> QED
    BY <1>6, <1>7, <1>9, <1>10 DEF Linked, r

\* The nodes of set members, each once, form the list l in the order of s.
ListIs(l, s, members, nil, D) ==
  s \in Seq(D) /\ IsInjective(s) /\ ToSet(s) = members /\ Linked(l, s, nil)

\* The links of these nodes lead nowhere.
Unlinked(l, nodes, nil) == \A e \in nodes : l.next[e] = nil /\ l.pre[e] = nil

LEMMA ListEnds ==
  ASSUME NEW D, NEW nil, nil \notin D, NEW l, NEW s, NEW members, ListIs(l, s, members, nil, D)
  PROVE  /\ l.first = nil <=> members = {}
         /\ l.last = nil <=> members = {}
         /\ s = << >> <=> members = {}
         /\ members # {} => /\ Len(s) \in 1 .. Len(s) /\ 1 \in 1 .. Len(s)
                            /\ l.first = s[1] /\ l.last = s[Len(s)]
                            /\ l.first \in members /\ l.last \in members
         /\ members \subseteq D
  <1>1. s \in Seq(D) /\ ToSet(s) = members /\ Len(s) \in Nat
    BY DEF ListIs
  <1>2. s = << >> => members = {}
    BY <1>1 DEF ToSet
  <1>3. s # << >> => /\ Len(s) \in 1 .. Len(s) /\ 1 \in 1 .. Len(s)
                     /\ s[1] \in members /\ s[Len(s)] \in members
    BY <1>1, InToSet
  <1>4. members \subseteq D
    BY <1>1, InToSet
  <1>5. /\ l.first = IF s = << >> THEN nil ELSE s[1]
        /\ l.last = IF s = << >> THEN nil ELSE s[Len(s)]
    BY DEF ListIs, Linked
  <1> QED
    BY <1>2, <1>3, <1>4, <1>5

LEMMA FrontList ==
  ASSUME NEW D, NEW nil, nil \notin D, NEW l, NEW l2, NEW s, NEW members, NEW d \in D \ members,
         ListIs(l, s, members, nil, D), PutInFront(l, l2, d, nil, D)
  PROVE  ListIs(l2, <<d>> \o s, members \cup {d}, nil, D)
  <1>1. s \in Seq(D) /\ IsInjective(s) /\ ToSet(s) = members /\ Linked(l, s, nil)
    BY DEF ListIs
  <1>2. Linked(l2, <<d>> \o s, nil)
    BY <1>1, FrontLinked
  <1>3. IsInjective(<<d>> \o s)
    BY <1>1, ConsInjective
  <1>4. <<d>> \o s \in Seq(D) /\ ToSet(<<d>> \o s) = members \cup {d}
    BY <1>1, ConsIs
  <1> QED
    BY <1>2, <1>3, <1>4 DEF ListIs

LEMMA TakenList ==
  ASSUME NEW D, NEW nil, nil \notin D, NEW l, NEW l2, NEW s \in Seq(D), NEW members,
         ListIs(l, s, members, nil, D), NEW k \in 1 .. Len(s), NEW d, d = s[k],
         TakenOut(l, l2, d, nil, D)
  PROVE  /\ ListIs(l2, RemoveAt(s, k), members \ {d}, nil, D)
         /\ \A e \in D \ members : l2.next[e] = l.next[e] /\ l2.pre[e] = l.pre[e]
         /\ Len(RemoveAt(s, k)) = Len(s) - 1
  <1>1. s \in Seq(D) /\ IsInjective(s) /\ ToSet(s) = members /\ Linked(l, s, nil)
    BY DEF ListIs
  <1>2. /\ Linked(l2, RemoveAt(s, k), nil)
        /\ \A e \in D \ members : l2.next[e] = l.next[e] /\ l2.pre[e] = l.pre[e]
    <2>1. Linked(l2, RemoveAt(s, k), nil)
      BY <1>1, TakenLinked
    <2>2. \A e \in D \ ToSet(s) : l2.next[e] = l.next[e] /\ l2.pre[e] = l.pre[e]
      BY <1>1, TakenLinked
    <2> QED
      BY <1>1, <2>1, <2>2
  <1>3. RemoveAt(s, k) \in Seq(D) /\ Len(RemoveAt(s, k)) = Len(s) - 1
    BY <1>1, RemoveAtIs
  <1>4. IsInjective(RemoveAt(s, k)) /\ ToSet(RemoveAt(s, k)) = members \ {s[k]}
    BY <1>1, RemoveAtSet
  <1> QED
    BY <1>2, <1>3, <1>4 DEF ListIs

\* A list is as it was when its ends and the links of its nodes are.
LEMMA ListKept ==
  ASSUME NEW D, NEW nil, NEW l, NEW l2, NEW s, NEW members, ListIs(l, s, members, nil, D),
         l2.first = l.first, l2.last = l.last,
         \A e \in members : l2.next[e] = l.next[e] /\ l2.pre[e] = l.pre[e]
  PROVE  ListIs(l2, s, members, nil, D)
  <1>1. s \in Seq(D) /\ IsInjective(s) /\ ToSet(s) = members /\ Linked(l, s, nil)
    BY DEF ListIs
  <1>2. \A i \in 1 .. Len(s) : s[i] \in members
    BY <1>1, InToSet
  <1>3. Linked(l2, s, nil)
    BY <1>1, <1>2 DEF Linked
  <1> QED
    BY <1>1, <1>3 DEF ListIs

\* What a walk over such a list shows from either end.
LEMMA ListShown ==
  ASSUME NEW D, NEW nil, nil \notin D, NEW l, DOMAIN l.next = D, DOMAIN l.pre = D,
         NEW s, NEW members, ListIs(l, s, members, nil, D),
         IsFiniteSet(D), NEW steps \in Nat, Cardinality(D) <= steps + 1
  PROVE  /\ Walk(l.first, l.next, nil, steps) = s
         /\ Walk(l.last, l.pre, nil, steps) = Reverse(s)
  <1>1. s \in Seq(D) /\ IsInjective(s) /\ Linked(l, s, nil) /\ Len(s) \in Nat
    BY DEF ListIs
  <1>2. Len(s) <= Cardinality(D) /\ Cardinality(D) \in Nat
    BY <1>1, InjectiveLen, FS_CardinalityType
  <1>3. Len(s) <= steps + 1
    BY <1>1, <1>2
  <1> QED
    BY <1>1, <1>3, LinkedWalks

\* The same, whatever the order.
ListOf(l, members, nil, D) == \E s \in Seq(D) : ListIs(l, s, members, nil, D)

LEMMA ListOfEnds ==
  ASSUME NEW D, NEW nil, nil \notin D, NEW l, NEW members, ListOf(l, members, nil, D)
  PROVE  /\ l.first = nil <=> members = {}
         /\ l.last = nil <=> members = {}
         /\ members # {} => l.first \in members /\ l.last \in members
         /\ members \subseteq D
  BY ListEnds DEF ListOf

\* Where the links of its nodes lead.
LEMMA ListOfLinks ==
  ASSUME NEW D, NEW nil, nil \notin D, NEW l, NEW members, ListOf(l, members, nil, D),
         NEW d \in members
  PROVE  /\ l.next[d] \in (members \ {d}) \cup {nil} /\ l.pre[d] \in (members \ {d}) \cup {nil}
         /\ l.pre[d] = nil <=> l.first = d
         /\ l.next[d] = nil <=> l.last = d
         /\ l.next[d] = nil /\ l.pre[d] = nil <=> members = {d}
  <1>1. PICK s \in Seq(D) : ListIs(l, s, members, nil, D)
    BY DEF ListOf
  <1>2. IsInjective(s) /\ ToSet(s) = members /\ Linked(l, s, nil) /\ Len(s) \in Nat
    BY <1>1 DEF ListIs
  <1>3. /\ \A i \in 1 .. Len(s) : s[i] \in members /\ s[i] \in D /\ s[i] # nil
        /\ \A i, j \in 1 .. Len(s) : s[i] = s[j] => i = j
    BY <1>2, InToSet DEF IsInjective
  <1>4. PICK k \in 1 .. Len(s) : s[k] = d
    BY <1>2, InToSet
  <1>5. /\ s # << >> /\ l.first = s[1] /\ l.last = s[Len(s)]
        /\ l.next[d] = IF k = Len(s) THEN nil ELSE s[k + 1]
        /\ l.pre[d] = IF k = 1 THEN nil ELSE s[k - 1]
    BY <1>2, <1>4 DEF Linked
  <1>6. /\ k # Len(s) => k + 1 \in 1 .. Len(s) /\ k + 1 # k
        /\ k # 1 => k - 1 \in 1 .. Len(s) /\ k - 1 # k
        /\ 1 \in 1 .. Len(s) /\ Len(s) \in 1 .. Len(s)
    BY <1>2
  <1>7. (k = 1 /\ k = Len(s)) <=> members = {d}
    <2>1. ASSUME k = 1, k = Len(s) PROVE members = {d}
      <3>1. \A e \in members : \E i \in 1 .. Len(s) : s[i] = e
        BY <1>2, InToSet
      <3>2. \A i \in 1 .. Len(s) : i = k
        <4>1. \A i \in 1 .. 1 : i = 1
          OBVIOUS
        <4> QED
          BY <2>1, <4>1
      <3> QED
        BY <1>3, <1>4, <3>1, <3>2
    <2>2. ASSUME members = {d} PROVE k = 1 /\ k = Len(s)
      BY <1>3, <1>4, <1>6, <2>2
    <2> QED
      BY <2>1, <2>2
  <1>8. l.next[d] \in (members \ {d}) \cup {nil} /\ (l.next[d] = nil <=> k = Len(s))
    BY <1>3, <1>4, <1>5, <1>6
  <1>9. l.pre[d] \in (members \ {d}) \cup {nil} /\ (l.pre[d] = nil <=> k = 1)
    BY <1>3, <1>4, <1>5, <1>6
  <1>10. (k = 1 <=> l.first = d) /\ (k = Len(s) <=> l.last = d)
    BY <1>3, <1>4, <1>5, <1>6
  <1> QED
    BY <1>7, <1>8, <1>9, <1>10

\* These nodes are linked in l2 as in l.
SameLinks(l, l2, nodes) ==
  \A e \in nodes : l2.next[e] = l.next[e] /\ l2.pre[e] = l.pre[e]

LEMMA FrontListOf ==
  ASSUME NEW D, NEW nil, nil \notin D, NEW l, NEW l2, NEW members, NEW d \in D \ members,
         ListOf(l, members, nil, D), PutInFront(l, l2, d, nil, D)
  PROVE  /\ ListOf(l2, members \cup {d}, nil, D)
         /\ SameLinks(l, l2, (D \ members) \ {d})
  <1>1. PICK s \in Seq(D) : ListIs(l, s, members, nil, D)
    BY DEF ListOf
  <1>2. ListIs(l2, <<d>> \o s, members \cup {d}, nil, D) /\ <<d>> \o s \in Seq(D)
    BY <1>1, FrontList
  <1>3. l.first \in members \cup {nil}
    BY ListOfEnds
  <1>4. SameLinks(l, l2, (D \ members) \ {d})
    BY <1>3 DEF PutInFront, SameLinks
  <1> QED
    BY <1>2, <1>4 DEF ListOf

LEMMA TakenListOf ==
  ASSUME NEW D, NEW nil, nil \notin D, NEW l, NEW l2, NEW members, NEW d \in members,
         ListOf(l, members, nil, D), TakenOut(l, l2, d, nil, D)
  PROVE  /\ ListOf(l2, members \ {d}, nil, D)
         /\ SameLinks(l, l2, D \ members)
         /\ l2.next[d] = nil /\ l2.pre[d] = nil
  <1>1. PICK s \in Seq(D) : ListIs(l, s, members, nil, D)
    BY DEF ListOf
  <1>2. PICK k \in 1 .. Len(s) : s[k] = d
    BY <1>1, InToSet DEF ListIs
  <1>3. ListIs(l2, RemoveAt(s, k), members \ {d}, nil, D)
    BY <1>1, <1>2, TakenList
  <1>4. SameLinks(l, l2, D \ members)
    <2>1. l.next[d] \in members \cup {nil} /\ l.pre[d] \in members \cup {nil}
      BY ListOfLinks
    <2> QED
      BY <2>1 DEF TakenOut, SameLinks
  <1>5. RemoveAt(s, k) \in Seq(D)
    BY <1>2, RemoveAtIs
  <1> QED
    BY <1>3, <1>4, <1>5 DEF ListOf, TakenOut

LEMMA ListOfKept ==
  ASSUME NEW D, NEW nil, NEW l, NEW l2, NEW members, ListOf(l, members, nil, D),
         l2.first = l.first, l2.last = l.last,
         SameLinks(l, l2, members)
  PROVE  ListOf(l2, members, nil, D)
  BY ListKept DEF ListOf, SameLinks

LEMMA ListOfNone ==
  ASSUME NEW D, NEW nil, NEW l, l.first = nil, l.last = nil
  PROVE  ListOf(l, {}, nil, D)
  <1>1. << >> \in Seq(D) /\ IsInjective(<< >>) /\ ToSet(<< >>) = {} /\ Len(<< >>) = 0
    BY DEF IsInjective, ToSet
  <1>2. Linked(l, << >>, nil)
    BY <1>1 DEF Linked
  <1> QED
    BY <1>1, <1>2 DEF ListOf, ListIs

-----------------------------------------------------------------------------
\* These nodes are chained from start on, each once; a chain has links of one kind.
ChainOf(start, members, follow, nil, D) ==
  \E s \in Seq(D) : IsInjective(s) /\ ToSet(s) = members /\ Follows(s, start, follow, nil)

LEMMA ChainKept ==
  ASSUME NEW D, NEW nil, NEW start, NEW members, NEW follow, NEW follow2,
         ChainOf(start, members, follow, nil, D), \A e \in members : follow2[e] = follow[e]
  PROVE  ChainOf(start, members, follow2, nil, D)
  <1>1. PICK s \in Seq(D) : IsInjective(s) /\ ToSet(s) = members /\ Follows(s, start, follow, nil)
    BY DEF ChainOf
  <1>2. \A i \in 1 .. Len(s) : s[i] \in members
    BY <1>1, InToSet
  <1>3. Follows(s, start, follow2, nil)
    BY <1>1, <1>2 DEF Follows
  <1> QED
    BY <1>1, <1>3 DEF ChainOf

\* The links of a chain: the start has no predecessor, every other node has one,
\* and no two nodes have the same successor.
LEMMA ChainLinks ==
  ASSUME NEW D, NEW nil, nil \notin D, NEW start, NEW members, NEW follow,
         ChainOf(start, members, follow, nil, D)
  PROVE  /\ members \subseteq D
         /\ start = nil <=> members = {}
         /\ start = nil \/ start \in members
         /\ \A e \in members : /\ follow[e] \in (members \ {e, start}) \cup {nil}
                               /\ e = start \/ \E f \in members : follow[f] = e
         /\ \A e, f \in members : follow[e] = follow[f] => e = f
  <1>1. PICK s \in Seq(D) : IsInjective(s) /\ ToSet(s) = members /\ Follows(s, start, follow, nil)
    BY DEF ChainOf
  <1>2. /\ \A i \in 1 .. Len(s) : s[i] \in members /\ s[i] \in D
        /\ \A e \in members : \E i \in 1 .. Len(s) : s[i] = e
        /\ members \subseteq D /\ Len(s) \in Nat
    BY <1>1, InToSet
  <1>3. \A i, j \in 1 .. Len(s) : s[i] = s[j] => i = j
    BY <1>1 DEF IsInjective
  <1>4. /\ s = << >> <=> Len(s) = 0
        /\ start = IF Len(s) = 0 THEN nil ELSE s[1]
        /\ \A i \in 1 .. Len(s) : follow[s[i]] = IF i = Len(s) THEN nil ELSE s[i + 1]
    BY <1>1 DEF Follows
  <1>5. /\ start = nil <=> members = {}
        /\ start = nil \/ start \in members
    <2>1. CASE Len(s) = 0
      BY <2>1, <1>2, <1>4
    <2>2. CASE Len(s) # 0
      <3>1. 1 \in 1 .. Len(s)
        BY <2>2, <1>2
      <3> QED
        BY <3>1, <2>2, <1>2, <1>4
    <2> QED
      BY <2>1, <2>2
  <1>6. ASSUME NEW e \in members
        PROVE  /\ follow[e] \in (members \ {e, start}) \cup {nil}
               /\ e = start \/ \E f \in members : follow[f] = e
    <2>1. PICK i \in 1 .. Len(s) : s[i] = e
      BY <1>2
    <2>4. follow[e] \in (members \ {e, start}) \cup {nil}
      <3>1. CASE i = Len(s)
        BY <3>1, <2>1, <1>4
      <3>2. CASE i # Len(s)
        <4>1. i + 1 \in 1 .. Len(s) /\ i + 1 # i /\ i + 1 # 1 /\ 1 \in 1 .. Len(s) /\ Len(s) # 0
          BY <3>2, <1>2
        <4>2. follow[e] = s[i + 1] /\ s[i + 1] \in members /\ s[i + 1] # s[i] /\ s[i + 1] # s[1]
          BY <4>1, <2>1, <3>2, <1>2, <1>3, <1>4
        <4> QED
          BY <4>1, <4>2, <2>1, <1>4
      <3> QED
        BY <3>1, <3>2
    <2>5. e = start \/ \E f \in members : follow[f] = e
      <3>1. CASE i = 1
        BY <3>1, <2>1, <1>4
      <3>2. CASE i # 1
        <4>1. i - 1 \in 1 .. Len(s) /\ i - 1 # Len(s) /\ (i - 1) + 1 = i
          BY <3>2, <1>2
        <4>2. follow[s[i - 1]] = s[i] /\ s[i - 1] \in members
          BY <4>1, <1>2, <1>4
        <4> QED
          BY <4>2, <2>1
      <3> QED
        BY <3>1, <3>2
    <2> QED
      BY <2>4, <2>5
  <1>7. ASSUME NEW e \in members, NEW f \in members, follow[e] = follow[f]
        PROVE  e = f
    <2>1. PICK i \in 1 .. Len(s) : s[i] = e
      BY <1>2
    <2>2. PICK j \in 1 .. Len(s) : s[j] = f
      BY <1>2
    <2>3. i \in Nat /\ j \in Nat /\ (i # Len(s) => i + 1 \in 1 .. Len(s))
          /\ (j # Len(s) => j + 1 \in 1 .. Len(s))
      BY <1>2
    <2>4. follow[e] = (IF i = Len(s) THEN nil ELSE s[i + 1])
          /\ follow[f] = (IF j = Len(s) THEN nil ELSE s[j + 1])
      BY <2>1, <2>2, <1>4
    <2>5. i = j
      <3>1. CASE i = Len(s)
        BY <3>1, <2>3, <2>4, <1>2, <1>7
      <3>2. CASE j = Len(s)
        BY <3>2, <2>3, <2>4, <1>2, <1>7
      <3>3. CASE i # Len(s) /\ j # Len(s)
        <4>1. s[i + 1] = s[j + 1]
          BY <3>3, <2>4, <1>7
        <4>2. i + 1 = j + 1
          BY <4>1, <3>3, <2>3, <1>3
        <4> QED
          BY <4>2, <2>3
      <3> QED
        BY <3>1, <3>2, <3>3
    <2> QED
      BY <2>1, <2>2, <2>5
  <1> QED
    BY <1>2, <1>5, <1>6, <1>7

\* A node is pushed on the chain.
LEMMA ChainPush ==
  ASSUME NEW D, NEW nil, nil \notin D, NEW start, NEW members, NEW follow, NEW follow2,
         ChainOf(start, members, follow, nil, D), NEW x \in D \ members,
         follow2[x] = start, \A e \in members : follow2[e] = follow[e]
  PROVE  ChainOf(x, members \cup {x}, follow2, nil, D)
  <1>1. PICK s \in Seq(D) : IsInjective(s) /\ ToSet(s) = members /\ Follows(s, start, follow, nil)
    BY DEF ChainOf
  <1> DEFINE list == <<x>> \o s
  <1>2. /\ list \in Seq(D) /\ Len(list) = Len(s) + 1 /\ list[1] = x
        /\ \A i \in 1 .. Len(s) : list[i + 1] = s[i]
        /\ \A i \in 2 .. Len(list) : i - 1 \in 1 .. Len(s) /\ list[i] = s[i - 1]
        /\ ToSet(list) = members \cup {x}
    BY <1>1, ConsIs
  <1>3. IsInjective(list)
    BY <1>1, ConsInjective
  <1>4. Len(s) \in Nat /\ \A i \in 1 .. Len(s) : s[i] \in members
    BY <1>1, InToSet
  <1> HIDE DEF list
  <1>5. Follows(list, x, follow2, nil)
    <2>1. list # << >>
      BY <1>2, <1>4
    <2>2. ASSUME NEW i \in 1 .. Len(list)
          PROVE  follow2[list[i]] = IF i = Len(list) THEN nil ELSE list[i + 1]
      <3>1. CASE i = 1
        <4>1. follow2[list[i]] = start
          BY <3>1, <1>2
        <4>2. CASE s = << >>
          BY <4>1, <4>2, <3>1, <1>1, <1>2 DEF Follows
        <4>3. CASE s # << >>
          <5>1. start = s[1] /\ Len(s) # 0
            BY <4>3, <1>1 DEF Follows
          <5>2. 1 \in 1 .. Len(s) /\ i # Len(list)
            BY <5>1, <3>1, <1>2, <1>4
          <5> QED
            BY <5>1, <5>2, <4>1, <3>1, <1>2
        <4> QED
          BY <4>2, <4>3
      <3>2. CASE i # 1
        <4>1. i \in 2 .. Len(list) /\ i - 1 \in 1 .. Len(s) /\ list[i] = s[i - 1] /\ i \in Nat
          BY <3>2, <1>2, <1>4
        <4>2. follow2[list[i]] = follow[s[i - 1]]
          BY <4>1, <1>4
        <4>3. follow[s[i - 1]] = IF i - 1 = Len(s) THEN nil ELSE s[(i - 1) + 1]
          BY <4>1, <1>1 DEF Follows
        <4>4. i # Len(list) => i \in 1 .. Len(s) /\ list[i + 1] = s[i]
          BY <4>1, <1>2, <1>4
        <4>5. (i - 1) + 1 = i /\ (i - 1 = Len(s) <=> i = Len(list))
          BY <4>1, <1>2, <1>4
        <4> QED
          BY <4>2, <4>3, <4>4, <4>5
      <3> QED
        BY <3>1, <3>2
    <2> QED
      BY <2>1, <2>2, <1>2 DEF Follows
  <1> QED
    BY <1>2, <1>3, <1>5 DEF ChainOf

\* The first node leaves the chain.
LEMMA ChainPop ==
  ASSUME NEW D, NEW nil, nil \notin D, NEW start, NEW members, NEW follow,
         ChainOf(start, members, follow, nil, D), start # nil
  PROVE  ChainOf(follow[start], members \ {start}, follow, nil, D)
  <1>1. PICK s \in Seq(D) : IsInjective(s) /\ ToSet(s) = members /\ Follows(s, start, follow, nil)
    BY DEF ChainOf
  <1> DEFINE rest == Tail(s)
  <1>2. s # << >> /\ start = s[1] /\ Len(s) \in Nat \ {0}
    BY <1>1 DEF Follows
  <1>3. /\ rest \in Seq(D) /\ Len(rest) = Len(s) - 1
        /\ \A i \in 1 .. Len(rest) : rest[i] = s[i + 1]
    BY <1>2
  <1>4. ToSet(rest) = members \ {start}
    BY <1>1, <1>2, TailSet
  <1>d. DOMAIN rest = 1 .. Len(rest)
    BY <1>3
  <1> HIDE DEF rest
  <1>5. \A i, j \in 1 .. Len(s) : s[i] = s[j] => i = j
    BY <1>1 DEF IsInjective
  <1>6. IsInjective(rest)
    <2>1. ASSUME NEW i \in 1 .. Len(rest), NEW j \in 1 .. Len(rest), rest[i] = rest[j]
          PROVE  i = j
      <3>1. s[i + 1] = s[j + 1] /\ i + 1 \in 1 .. Len(s) /\ j + 1 \in 1 .. Len(s)
        BY <2>1, <1>2, <1>3
      <3>2. i + 1 = j + 1
        BY <3>1, <1>5
      <3> QED
        BY <3>2
    <2> QED
      BY <2>1, <1>d DEF IsInjective
  <1>7. \A i \in 1 .. Len(s) : follow[s[i]] = IF i = Len(s) THEN nil ELSE s[i + 1]
    BY <1>1 DEF Follows
  <1>8. Follows(rest, follow[start], follow, nil)
    <2>1. follow[start] = IF rest = << >> THEN nil ELSE rest[1]
      <3>1. 1 \in 1 .. Len(s) /\ (rest = << >> <=> Len(s) = 1)
        BY <1>2, <1>3
      <3>2. rest # << >> => 1 \in 1 .. Len(rest)
        BY <1>2, <1>3
      <3> QED
        BY <3>1, <3>2, <1>2, <1>3, <1>7
    <2>2. ASSUME NEW i \in 1 .. Len(rest)
          PROVE  follow[rest[i]] = IF i = Len(rest) THEN nil ELSE rest[i + 1]
      <3>1. i + 1 \in 1 .. Len(s) /\ rest[i] = s[i + 1] /\ (i + 1 = Len(s) <=> i = Len(rest))
        BY <1>2, <1>3
      <3>2. i # Len(rest) => i + 1 \in 1 .. Len(rest)
        BY <1>2, <1>3
      <3> QED
        BY <3>1, <3>2, <1>3, <1>7
    <2> QED
      BY <2>1, <2>2 DEF Follows
  <1> QED
    BY <1>3, <1>4, <1>6, <1>8 DEF ChainOf

\* A node is linked after the last one.
LEMMA ChainAppend ==
  ASSUME NEW D, NEW nil, nil \notin D, NEW start, NEW members, NEW follow, NEW follow2,
         ChainOf(start, members, follow, nil, D), NEW last \in members, follow[last] = nil,
         NEW x \in D \ members, follow2[last] = x, follow2[x] = nil,
         \A e \in members \ {last} : follow2[e] = follow[e]
  PROVE  ChainOf(start, members \cup {x}, follow2, nil, D)
  <1>1. PICK s \in Seq(D) : IsInjective(s) /\ ToSet(s) = members /\ Follows(s, start, follow, nil)
    BY DEF ChainOf
  <1> DEFINE list == Append(s, x)
             n == Len(s)
  <1>2. /\ \A i \in 1 .. n : s[i] \in members /\ s[i] \in D
        /\ \A e \in members : \E i \in 1 .. n : s[i] = e
        /\ n \in Nat
    BY <1>1, InToSet
  <1>3. /\ list \in Seq(D) /\ Len(list) = n + 1 /\ IsInjective(list)
        /\ ToSet(list) = members \cup {x}
    BY <1>1, AppendNew, AppendSet
  <1>4. \A i \in 1 .. n + 1 : list[i] = IF i = n + 1 THEN x ELSE s[i]
    BY <1>2
  <1> HIDE DEF list, n
  <1>5. /\ \A i, j \in 1 .. n : s[i] = s[j] => i = j
        /\ start = IF s = << >> THEN nil ELSE s[1]
        /\ \A i \in 1 .. n : follow[s[i]] = IF i = n THEN nil ELSE s[i + 1]
    BY <1>1 DEF Follows, IsInjective, n
  <1>6. n # 0 /\ s[n] = last
    <2>1. PICK i \in 1 .. n : s[i] = last
      BY <1>2
    <2>2. i # n => i + 1 \in 1 .. n
      BY <1>2
    <2>3. i = n
      BY <2>1, <2>2, <1>2, <1>5
    <2> QED
      BY <2>1, <2>3, <1>2
  <1>7. Follows(list, start, follow2, nil)
    <2>1. start = IF list = << >> THEN nil ELSE list[1]
      <3>1. 1 \in 1 .. n + 1 /\ 1 # n + 1 /\ list # << >> /\ s # << >>
        BY <1>6, <1>3, <1>2 DEF n
      <3> QED
        BY <3>1, <1>4, <1>5
    <2>2. ASSUME NEW i \in 1 .. n + 1
          PROVE  follow2[list[i]] = IF i = n + 1 THEN nil ELSE list[i + 1]
      <3>1. CASE i = n + 1
        BY <3>1, <1>4
      <3>2. CASE i = n
        <4>1. i # n + 1 /\ i + 1 = n + 1 /\ n + 1 \in 1 .. n + 1 /\ i \in 1 .. n + 1
          BY <3>2, <1>2, <1>6
        <4> QED
          BY <4>1, <3>2, <1>4, <1>6
      <3>3. CASE i # n /\ i # n + 1
        <4>1. i \in 1 .. n /\ i + 1 \in 1 .. n + 1 /\ i + 1 # n + 1 /\ n \in 1 .. n
          BY <3>3, <1>2, <1>6
        <4>2. s[i] \in members /\ s[i] # last
          BY <4>1, <3>3, <1>2, <1>5, <1>6
        <4>3. follow2[s[i]] = s[i + 1]
          BY <4>1, <4>2, <3>3, <1>5
        <4> QED
          BY <4>1, <4>3, <3>3, <1>4
      <3> QED
        BY <3>1, <3>2, <3>3
    <2> QED
      BY <2>1, <2>2, <1>3 DEF Follows
  <1> QED
    BY <1>3, <1>7 DEF ChainOf

\* The node after another leaves the chain.
LEMMA ChainUnlink ==
  ASSUME NEW D, NEW nil, nil \notin D, NEW start, NEW members, NEW follow, NEW follow2,
         ChainOf(start, members, follow, nil, D), NEW before \in members, NEW x \in members,
         follow[before] = x, follow2[before] = follow[x],
         \A e \in members \ {before, x} : follow2[e] = follow[e]
  PROVE  ChainOf(start, members \ {x}, follow2, nil, D)
  <1>1. PICK s \in Seq(D) : IsInjective(s) /\ ToSet(s) = members /\ Follows(s, start, follow, nil)
    BY DEF ChainOf
  <1> DEFINE n == Len(s)
  <1>2. /\ \A i \in 1 .. n : s[i] \in members /\ s[i] \in D
        /\ \A e \in members : \E i \in 1 .. n : s[i] = e
        /\ n \in Nat
    BY <1>1, InToSet
  <1>3. /\ \A i, j \in 1 .. n : s[i] = s[j] => i = j
        /\ start = IF s = << >> THEN nil ELSE s[1]
        /\ \A i \in 1 .. n : follow[s[i]] = IF i = n THEN nil ELSE s[i + 1]
    BY <1>1 DEF Follows, IsInjective
  <1>4. PICK k \in 1 .. n : s[k] = before
    BY <1>2
  <1>5. k # n /\ k + 1 \in 1 .. n /\ s[k + 1] = x /\ k \in Nat
    <2>1. x # nil
      BY <1>2
    <2>2. k # n
      BY <2>1, <1>3, <1>4
    <2> QED
      BY <2>2, <1>2, <1>3, <1>4
  <1> DEFINE r == RemoveAt(s, k + 1)
  <1>6. /\ r \in Seq(D) /\ Len(r) = n - 1
        /\ \A i \in 1 .. Len(r) : r[i] = IF i < k + 1 THEN s[i] ELSE s[i + 1]
    BY <1>5, RemoveAtIs
  <1>7. IsInjective(r) /\ ToSet(r) = members \ {x}
    BY <1>1, <1>5, RemoveAtSet
  <1> HIDE DEF r, n
  <1>8. follow[x] = IF k + 1 = n THEN nil ELSE s[k + 2]
    BY <1>3, <1>5
  <1>9. Follows(r, start, follow2, nil)
    <2>1. start = IF r = << >> THEN nil ELSE r[1]
      <3>1. n # 0 /\ 1 \in 1 .. Len(r) /\ 1 < k + 1
        BY <1>2, <1>5, <1>6
      <3>2. s # << >> /\ r # << >>
        BY <3>1, <1>6 DEF n
      <3> QED
        BY <3>1, <3>2, <1>3, <1>6
    <2>2. ASSUME NEW i \in 1 .. Len(r)
          PROVE  follow2[r[i]] = IF i = Len(r) THEN nil ELSE r[i + 1]
      <3>1. i \in Nat /\ i \in 1 .. n /\ i + 1 \in 1 .. n
        BY <1>2, <1>6
      <3>2. CASE i = k
        <4>1. r[i] = before
          BY <3>2, <1>4, <1>5, <1>6
        <4>2. i # Len(r) => i + 1 \in 1 .. Len(r) /\ r[i + 1] = s[k + 2]
          BY <3>1, <3>2, <1>2, <1>5, <1>6
        <4>3. i = Len(r) <=> k + 1 = n
          BY <3>1, <3>2, <1>2, <1>6
        <4> QED
          BY <4>1, <4>2, <4>3, <1>8
      <3>3. CASE i < k
        <4>1. r[i] = s[i] /\ i # Len(r) /\ r[i + 1] = s[i + 1]
          <5>1. i < k + 1 /\ i + 1 < k + 1 /\ i # Len(r) /\ i + 1 \in 1 .. Len(r)
            BY <3>1, <3>3, <1>2, <1>5, <1>6
          <5> QED
            BY <5>1, <1>6
        <4>2. s[i] \in members /\ s[i] # before /\ s[i] # x
          BY <3>1, <3>3, <1>2, <1>3, <1>4, <1>5
        <4>3. i # n
          BY <3>1, <3>3, <1>2, <1>5
        <4>4. follow2[s[i]] = s[i + 1]
          BY <4>2, <4>3, <3>1, <1>3
        <4> QED
          BY <4>1, <4>4
      <3>4. CASE i > k
        <4>1. r[i] = s[i + 1]
          BY <3>1, <3>4, <1>5, <1>6
        <4>2. i + 1 # k /\ i + 1 # k + 1 /\ (i + 1 = n <=> i = Len(r)) /\ (i + 1) + 1 = i + 2
          BY <3>1, <3>4, <1>2, <1>5, <1>6
        <4>3. s[i + 1] \in members /\ s[i + 1] # before /\ s[i + 1] # x
          BY <4>2, <3>1, <1>2, <1>3, <1>4, <1>5
        <4>4. follow2[s[i + 1]] = IF i = Len(r) THEN nil ELSE s[i + 2]
          BY <4>2, <4>3, <3>1, <1>3
        <4>5. i # Len(r) => r[i + 1] = s[i + 2]
          <5>1. i # Len(r) => i + 1 \in 1 .. Len(r) /\ ~(i + 1 < k + 1)
            BY <3>1, <3>4, <1>2, <1>5, <1>6
          <5> QED
            BY <5>1, <4>2, <1>6
        <4> QED
          BY <4>1, <4>4, <4>5
      <3> QED
        BY <3>1, <3>2, <3>3, <3>4, <1>5
    <2> QED
      BY <2>1, <2>2 DEF Follows
  <1> QED
    BY <1>6, <1>7, <1>9 DEF ChainOf

\* A walk that is long enough shows the chain.
LEMMA ChainShown ==
  ASSUME NEW D, NEW nil, nil \notin D, NEW start, NEW members, NEW follow, DOMAIN follow = D,
         ChainOf(start, members, follow, nil, D),
         IsFiniteSet(D), NEW steps \in Nat, Cardinality(D) <= steps + 1
  PROVE  LET path == Walk(start, follow, nil, steps)
         IN  /\ path \in Seq(D) /\ IsInjective(path) /\ ToSet(path) = members
             /\ Follows(path, start, follow, nil)
  <1>1. PICK s \in Seq(D) : IsInjective(s) /\ ToSet(s) = members /\ Follows(s, start, follow, nil)
    BY DEF ChainOf
  <1>2. Len(s) <= Cardinality(D) /\ Cardinality(D) \in Nat /\ Len(s) \in Nat
    BY <1>1, InjectiveLen, FS_CardinalityType
  <1>3. Len(s) <= steps + 1
    BY <1>2
  <1>4. Walk(start, follow, nil, steps) = s
    BY <1>1, <1>3, WalkIs
  <1> QED
    BY <1>1, <1>4

-----------------------------------------------------------------------------
\* The greatest number of a bounded set.
LEMMA MaxIs ==
  ASSUME NEW m \in Nat, NEW n \in Nat, NEW S \in SUBSET (m .. n), S # {}
  PROVE  Max(S) \in S /\ \A k \in S : k <= Max(S)
  <1> DEFINE T == {n - k : k \in S}
  <1>1. T \subseteq Nat /\ T # {}
    <2>1. \A k \in S : n - k \in Nat
      OBVIOUS
    <2> QED
      BY <2>1
  <1>2. PICK t \in T : \A u \in T : t <= u
    BY <1>1, LeastNat
  <1>3. PICK x \in S : t = n - x
    BY <1>2
  <1>4. \A y \in S : x >= y
    <2>1. \A y \in S : n - y \in T
      OBVIOUS
    <2> HIDE DEF T
    <2>2. ASSUME NEW y \in S PROVE x >= y
      <3>1. t <= n - y
        BY <1>2, <2>1
      <3> QED
        BY <1>3, <3>1
    <2> QED
      BY <2>2
  <1>5. Max(S) \in S /\ \A y \in S : Max(S) >= y
    BY <1>4 DEF Max
  <1> QED
    BY <1>5

-----------------------------------------------------------------------------
(***************************************************************************)
(* qsort_zone() sorts.  The loop keeps the part with the pivot in its hole *)
(* a rearrangement of what it was, with greater keys below and smaller     *)
(* ones above the two ends (Splitting); every turn moves the lower end, or *)
(* the ends have met.  The calls inside are for shorter parts, and that    *)
(* they sort them is what the induction over their depth supposes.         *)
(***************************************************************************)
\* Where the two scans stop.
LEMMA ScanLeftIs ==
  ASSUME NEW a, NEW key, NEW pivot, NEW i \in Nat, NEW j \in Nat, i <= j
  PROVE  LET k == ScanLeft(a, key, i, j, pivot)
         IN  /\ k \in i .. j
             /\ k # i => key[a[k]] > pivot
             /\ \A m \in k + 1 .. j : ~(key[a[m]] > pivot)
  <1> DEFINE S == {k \in i .. j : k = i \/ key[a[k]] > pivot}
             k == Max(S)
  <1>1. S \in SUBSET (i .. j) /\ i \in S
    OBVIOUS
  <1>2. k \in S /\ \A m \in S : m <= k
    <2> HIDE DEF S
    <2> QED
      BY <1>1, MaxIs
  <1>3. k \in i .. j /\ (k = i \/ key[a[k]] > pivot)
    BY <1>2
  <1>4. ASSUME NEW m \in k + 1 .. j PROVE ~(key[a[m]] > pivot)
    <2>1. m \in i .. j /\ ~(m <= k)
      <3> HIDE DEF k
      <3> QED BY <1>3
    <2> HIDE DEF k
    <2> QED
      BY <1>2, <2>1
  <1> QED
    BY <1>3, <1>4 DEF ScanLeft

LEMMA ScanRightIs ==
  ASSUME NEW a, NEW key, NEW pivot, NEW i \in Nat, NEW j \in Nat, i <= j
  PROVE  LET k == ScanRight(a, key, i, j, pivot)
         IN  /\ k \in i .. j
             /\ k # j => key[a[k]] < pivot
             /\ \A m \in i .. k - 1 : ~(key[a[m]] < pivot)
  <1> DEFINE S == {k \in i .. j : k = j \/ key[a[k]] < pivot}
             k == Min(S)
  <1>1. S \subseteq Nat /\ S \subseteq i .. j /\ j \in S
    OBVIOUS
  <1>2. k \in S /\ \A m \in S : k <= m
    <2> HIDE DEF S
    <2> QED
      BY <1>1, MinIs
  <1>3. k \in i .. j /\ (k = j \/ key[a[k]] < pivot)
    BY <1>2
  <1>4. ASSUME NEW m \in i .. k - 1 PROVE ~(key[a[m]] < pivot)
    <2>1. m \in i .. j /\ ~(k <= m)
      <3> HIDE DEF k
      <3> QED BY <1>3
    <2> HIDE DEF k
    <2> QED
      BY <1>2, <2>1
  <1> QED
    BY <1>3, <1>4 DEF ScanRight

\* The array with its hole between the two ends, and what takes the hole's place.
Places(n) == 1 .. n
Arrays(n, K) == [Places(n) -> K]
Parts(n, K) == [a : Arrays(n, K), i : Places(n), j : Places(n)]

\* What the two halves of a turn do to the ends and to the array.
LEMMA FillRightType ==
  ASSUME NEW n \in Nat, NEW K, NEW key, NEW pivot, NEW p \in Parts(n, K), p.i <= p.j
  PROVE  /\ FillFromRight(p, key, pivot) \in Parts(n, K)
         /\ FillFromRight(p, key, pivot).i = p.i
         /\ FillFromRight(p, key, pivot).j = ScanLeft(p.a, key, p.i, p.j, pivot)
         /\ FillFromRight(p, key, pivot).a
              = [p.a EXCEPT ![p.i] = p.a[ScanLeft(p.a, key, p.i, p.j, pivot)]]
         /\ ScanLeft(p.a, key, p.i, p.j, pivot) \in p.i .. p.j
  <1>1. p.i \in Nat /\ p.j \in Nat /\ p.i \in 1 .. n /\ p.j \in 1 .. n
    BY DEF Parts, Places
  <1> DEFINE k == ScanLeft(p.a, key, p.i, p.j, pivot)
  <1>2. k \in p.i .. p.j
    BY <1>1, ScanLeftIs
  <1>3. FillFromRight(p, key, pivot) = [p EXCEPT !.a[p.i] = p.a[k], !.j = k]
    BY DEF FillFromRight
  <1> HIDE DEF k
  <1>4. k \in Places(n)
    BY <1>1, <1>2 DEF Places
  <1>5. p.a \in Arrays(n, K) /\ p = [a |-> p.a, i |-> p.i, j |-> p.j] /\ p.a[k] \in K
    BY <1>4 DEF Parts, Arrays
  <1>6. FillFromRight(p, key, pivot) = [a |-> [p.a EXCEPT ![p.i] = p.a[k]], i |-> p.i, j |-> k]
    BY <1>3, <1>5
  <1>7. [p.a EXCEPT ![p.i] = p.a[k]] \in Arrays(n, K)
    BY <1>5 DEF Arrays
  <1>8. FillFromRight(p, key, pivot) \in Parts(n, K)
    BY <1>1, <1>4, <1>6, <1>7 DEF Parts, Places
  <1> QED
    BY <1>2, <1>6, <1>8 DEF k

LEMMA FillLeftType ==
  ASSUME NEW n \in Nat, NEW K, NEW key, NEW pivot, NEW p \in Parts(n, K), p.i <= p.j
  PROVE  /\ FillFromLeft(p, key, pivot) \in Parts(n, K)
         /\ FillFromLeft(p, key, pivot).i = ScanRight(p.a, key, p.i, p.j, pivot)
         /\ FillFromLeft(p, key, pivot).j = p.j
         /\ FillFromLeft(p, key, pivot).a
              = [p.a EXCEPT ![p.j] = p.a[ScanRight(p.a, key, p.i, p.j, pivot)]]
         /\ ScanRight(p.a, key, p.i, p.j, pivot) \in p.i .. p.j
  <1>1. p.i \in Nat /\ p.j \in Nat /\ p.i \in 1 .. n /\ p.j \in 1 .. n
    BY DEF Parts, Places
  <1> DEFINE k == ScanRight(p.a, key, p.i, p.j, pivot)
  <1>2. k \in p.i .. p.j
    BY <1>1, ScanRightIs
  <1>3. FillFromLeft(p, key, pivot) = [p EXCEPT !.a[p.j] = p.a[k], !.i = k]
    BY DEF FillFromLeft
  <1> HIDE DEF k
  <1>4. k \in Places(n)
    BY <1>1, <1>2 DEF Places
  <1>5. p.a \in Arrays(n, K) /\ p = [a |-> p.a, i |-> p.i, j |-> p.j] /\ p.a[k] \in K
    BY <1>4 DEF Parts, Arrays
  <1>6. FillFromLeft(p, key, pivot) = [a |-> [p.a EXCEPT ![p.j] = p.a[k]], i |-> k, j |-> p.j]
    BY <1>3, <1>5
  <1>7. [p.a EXCEPT ![p.j] = p.a[k]] \in Arrays(n, K)
    BY <1>5 DEF Arrays
  <1>8. FillFromLeft(p, key, pivot) \in Parts(n, K)
    BY <1>1, <1>4, <1>6, <1>7 DEF Parts, Places
  <1> QED
    BY <1>2, <1>6, <1>8 DEF k

\* One turn of the loop.
Turn(p, key, pivot) ==
  IF p.i < p.j THEN FillFromLeft(FillFromRight(p, key, pivot), key, pivot) ELSE p

LEMMA TurnType ==
  ASSUME NEW n \in Nat, NEW K, NEW key, NEW pivot, NEW p \in Parts(n, K)
  PROVE  Turn(p, key, pivot) \in Parts(n, K)
  <1>1. CASE ~(p.i < p.j)
    BY <1>1 DEF Turn
  <1>2. CASE p.i < p.j
    <2>1. p.i \in Nat /\ p.j \in Nat /\ p.i <= p.j
      BY <1>2 DEF Parts, Places
    <2> DEFINE q == FillFromRight(p, key, pivot)
    <2>2. q \in Parts(n, K) /\ q.i = p.i /\ q.j \in p.i .. p.j
      <3>1. p.i <= p.j
        BY <2>1
      <3>2. /\ q \in Parts(n, K)
            /\ q.i = p.i
            /\ q.j = ScanLeft(p.a, key, p.i, p.j, pivot)
            /\ q.a = [p.a EXCEPT ![p.i] = p.a[ScanLeft(p.a, key, p.i, p.j, pivot)]]
            /\ ScanLeft(p.a, key, p.i, p.j, pivot) \in p.i .. p.j
        BY <3>1, FillRightType, Zenon
      <3> HIDE DEF q
      <3> QED
        BY <3>2
    <2> HIDE DEF q
    <2>3. q.i <= q.j
      BY <2>1, <2>2
    <2>4. FillFromLeft(q, key, pivot) \in Parts(n, K)
      BY <2>2, <2>3, FillLeftType
    <2> QED
      BY <1>2, <2>4 DEF Turn, q
  <1> QED
    BY <1>1, <1>2

\* The loop makes so many turns as the array has places.
LEMMA SplitIs ==
  ASSUME NEW n \in Nat, NEW K, NEW key, NEW pivot, NEW p0 \in Parts(n, K)
  PROVE  \E f \in [Nat -> Parts(n, K)] :
           /\ f[0] = p0 /\ \A t \in Nat : f[t + 1] = Turn(f[t], key, pivot)
           /\ Split(p0, key, pivot) = f[n]
  <1> DEFINE S == Parts(n, K)
             round == [p \in S |-> Turn(p, key, pivot)]
  <1>1. round \in [S -> S] /\ p0 \in S /\ \A p \in S : round[p] = Turn(p, key, pivot)
    BY TurnType
  <1> HIDE DEF round, S
  <1>2. PICK f : Repeats(f, p0, round, S)
    BY <1>1, Repetition
  <1>3. /\ f \in [Nat -> S] /\ f[0] = p0
        /\ \A t \in Nat : f[t + 1] = Turn(f[t], key, pivot)
    BY <1>1, <1>2 DEF Repeats
  <1>4. Len(p0.a) = n /\ p0.a \in [1 .. n -> K]
    BY DEF Parts, Arrays, Places
  <1> DEFINE Loop(g) == g = [t \in 0 .. n |-> IF t = 0 THEN p0 ELSE Turn(g[t - 1], key, pivot)]
             loop == CHOOSE g : Loop(g)
             g0 == [t \in 0 .. n |-> f[t]]
  <1>5. Loop(g0)
    <2>1. ASSUME NEW t \in 0 .. n
          PROVE  g0[t] = IF t = 0 THEN p0 ELSE Turn(g0[t - 1], key, pivot)
      <3>1. t # 0 => t - 1 \in Nat /\ t - 1 \in 0 .. n /\ (t - 1) + 1 = t
        OBVIOUS
      <3> QED
        BY <1>3, <3>1
    <2>2. g0 = [t \in 0 .. n |-> g0[t]]
      OBVIOUS
    <2> HIDE DEF g0
    <2> QED
      BY <2>1, <2>2
  <1>6. Loop(loop)
    <2> HIDE DEF Loop, g0
    <2> QED
      BY <1>5
  <1>7. Split(p0, key, pivot) = loop[n]
    BY <1>4 DEF Split, Turn
  <1> HIDE DEF loop, g0
  <1>8. /\ loop[0] = p0
        /\ \A t \in 0 .. n : t # 0 => loop[t] = Turn(loop[t - 1], key, pivot)
    BY <1>6
  <1> HIDE DEF Loop
  <1> DEFINE T == {t \in Nat : t <= n => loop[t] = f[t]}
  <1>9. 0 \in T
    BY <1>3, <1>8
  <1>10. ASSUME NEW t \in Nat, t \in T PROVE t + 1 \in T
    <2> SUFFICES ASSUME t + 1 <= n PROVE loop[t + 1] = f[t + 1]
      OBVIOUS
    <2>1. t + 1 \in 0 .. n /\ t + 1 # 0 /\ (t + 1) - 1 = t /\ t <= n
      OBVIOUS
    <2> QED
      BY <1>3, <1>8, <1>10, <2>1
  <1>11. loop[n] = f[n]
    <2> HIDE DEF T
    <2>1. n \in T
      BY <1>9, <1>10, NatInduct
    <2> QED
      BY <2>1 DEF T
  <1> QED
    BY <1>3, <1>7, <1>11 DEF S

\* q is p with two places swapped.
Swapped(p, q, n, i, j) ==
  q[i] = p[j] /\ q[j] = p[i] /\ \A k \in Places(n) : k # i /\ k # j => q[k] = p[k]

\* The elements of an array in the part from s to e, and the same ones there and the
\* same array elsewhere in another.
InPart(a, s, e) == {a[k] : k \in s .. e}
Rearranged(a, b, n, s, e) ==
  /\ \A k, m \in Places(n) : b[k] = b[m] => k = m
  /\ \A k \in Places(n) : ~(s <= k /\ k <= e) => b[k] = a[k]
  /\ InPart(b, s, e) = InPart(a, s, e)

\* Swapping two places of the part rearranges it.
LEMMA SwapIs ==
  ASSUME NEW n \in Nat, NEW a, NEW b, NEW c, NEW s \in Places(n), NEW e \in Places(n),
         Rearranged(a, b, n, s, e), NEW i \in s .. e, NEW j \in s .. e, Swapped(b, c, n, i, j)
  PROVE  Rearranged(a, c, n, s, e)
  <1>1. i \in Places(n) /\ j \in Places(n) /\ \A k \in s .. e : k \in Places(n)
    BY DEF Places
  <1>2. ASSUME NEW k \in Places(n), NEW m \in Places(n), c[k] = c[m] PROVE k = m
    BY <1>1, <1>2 DEF Rearranged, Swapped
  <1>3. ASSUME NEW k \in Places(n), ~(s <= k /\ k <= e) PROVE c[k] = a[k]
    <2>1. k # i /\ k # j
      BY <1>3
    <2> QED
      BY <1>3, <2>1 DEF Rearranged, Swapped
  <1>4. InPart(c, s, e) = InPart(b, s, e)
    <2>1. ASSUME NEW k \in s .. e PROVE \E m \in s .. e : c[k] = b[m]
      BY <1>1 DEF Swapped
    <2>2. ASSUME NEW k \in s .. e PROVE \E m \in s .. e : b[k] = c[m]
      BY <1>1 DEF Swapped
    <2> QED
      BY <2>1, <2>2 DEF InPart
  <1> QED
    BY <1>2, <1>3, <1>4 DEF Rearranged

\* What the loop keeps: the part from s to e with the pivot x in its hole is a
\* rearrangement, what is below i has keys no smaller than the pivot's, what is
\* above j no greater ones.
Filled(p, hole, x) == [p.a EXCEPT ![hole] = x]
Splitting(p, a, n, K, key, s, e, x, hole) ==
  /\ p \in Parts(n, K) /\ s <= p.i /\ p.i <= p.j /\ p.j <= e
  /\ Rearranged(a, Filled(p, hole, x), n, s, e)
  /\ \A k \in s .. p.i - 1 : key[p.a[k]] >= key[x]
  /\ \A k \in p.j + 1 .. e : key[p.a[k]] <= key[x]

\* The scan from the right keeps that, with the hole at the upper end ...
LEMMA FillRightIs ==
  ASSUME NEW n \in Nat, NEW K, NEW key \in [K -> Int], NEW a, NEW x \in K,
         NEW s \in Places(n), NEW e \in Places(n), NEW p,
         Splitting(p, a, n, K, key, s, e, x, p.i)
  PROVE  LET q == FillFromRight(p, key, key[x])
         IN  /\ Splitting(q, a, n, K, key, s, e, x, q.j)
             /\ q.i = p.i /\ (q.j # q.i => key[q.a[q.i]] > key[x])
  <1> DEFINE q == FillFromRight(p, key, key[x])
             k == ScanLeft(p.a, key, p.i, p.j, key[x])
  <1>0. /\ p \in Parts(n, K) /\ s <= p.i /\ p.i <= p.j /\ p.j <= e
        /\ Rearranged(a, Filled(p, p.i, x), n, s, e)
        /\ \A m \in s .. p.i - 1 : key[p.a[m]] >= key[x]
        /\ \A m \in p.j + 1 .. e : key[p.a[m]] <= key[x]
    BY DEF Splitting
  <1>t. /\ p.a \in [Places(n) -> K] /\ p.i \in Nat /\ p.j \in Nat /\ s \in Nat /\ e \in Nat
        /\ p.i \in Places(n) /\ p.j \in Places(n)
    BY <1>0 DEF Parts, Arrays, Places
  <1>1. /\ q \in Parts(n, K) /\ q.i = p.i /\ q.j = k /\ q.a = [p.a EXCEPT ![p.i] = p.a[k]]
        /\ k \in p.i .. p.j
    BY <1>0, FillRightType
  <1>2. /\ k # p.i => key[p.a[k]] > key[x]
        /\ \A m \in k + 1 .. p.j : ~(key[p.a[m]] > key[x])
    BY <1>0, <1>t, ScanLeftIs
  <1> HIDE DEF q, k
  <1>3. k \in s .. e /\ p.i \in s .. e /\ k \in Places(n) /\ \A m \in s .. e : m \in Places(n)
    BY <1>0, <1>1, <1>t DEF Places
  <1>4. Swapped(Filled(p, p.i, x), Filled(q, k, x), n, p.i, k)
    BY <1>t, <1>1, <1>3 DEF Swapped, Filled
  <1>5. Rearranged(a, Filled(q, k, x), n, s, e)
    BY <1>0, <1>3, <1>4, SwapIs
  <1>6. ASSUME NEW m \in s .. q.i - 1 PROVE key[q.a[m]] >= key[x]
    <2>1. m # p.i /\ m \in s .. p.i - 1 /\ m \in Places(n)
      BY <1>1, <1>t, <1>3
    <2> QED
      BY <1>0, <1>1, <1>t, <2>1
  <1>7. ASSUME NEW m \in q.j + 1 .. e PROVE key[q.a[m]] <= key[x]
    <2>1. m # p.i /\ m \in Places(n) /\ (m \in k + 1 .. p.j \/ m \in p.j + 1 .. e)
      BY <1>1, <1>t, <1>3
    <2>2. q.a[m] = p.a[m] /\ p.a[m] \in K
      BY <1>1, <1>t, <2>1
    <2>3. key[p.a[m]] \in Int /\ key[x] \in Int
      BY <2>2
    <2> QED
      BY <1>0, <1>2, <2>1, <2>2, <2>3
  <1>8. q.j # q.i => key[q.a[q.i]] > key[x]
    BY <1>1, <1>2, <1>t
  <1>9. s <= q.i /\ q.i <= q.j /\ q.j <= e
    BY <1>0, <1>1, <1>t
  <1> QED
    BY <1>1, <1>5, <1>6, <1>7, <1>8, <1>9 DEF Splitting, q

\* ... and the scan from the left, with the hole at the lower end again.
HoleMoves(p, q) == q.i > p.i \/ q.i = q.j

LEMMA FillLeftIs ==
  ASSUME NEW n \in Nat, NEW K, NEW key \in [K -> Int], NEW a, NEW x \in K,
         NEW s \in Places(n), NEW e \in Places(n), NEW p,
         Splitting(p, a, n, K, key, s, e, x, p.j),
         p.j # p.i => key[p.a[p.i]] > key[x]
  PROVE  LET q == FillFromLeft(p, key, key[x])
         IN  /\ Splitting(q, a, n, K, key, s, e, x, q.i)
             /\ HoleMoves(p, q)
  <1> DEFINE q == FillFromLeft(p, key, key[x])
             k == ScanRight(p.a, key, p.i, p.j, key[x])
  <1>0. /\ p \in Parts(n, K) /\ s <= p.i /\ p.i <= p.j /\ p.j <= e
        /\ Rearranged(a, Filled(p, p.j, x), n, s, e)
        /\ \A m \in s .. p.i - 1 : key[p.a[m]] >= key[x]
        /\ \A m \in p.j + 1 .. e : key[p.a[m]] <= key[x]
    BY DEF Splitting
  <1>t. /\ p.a \in [Places(n) -> K] /\ p.i \in Nat /\ p.j \in Nat /\ s \in Nat /\ e \in Nat
        /\ p.i \in Places(n) /\ p.j \in Places(n)
    BY <1>0 DEF Parts, Arrays, Places
  <1>1. /\ q \in Parts(n, K) /\ q.i = k /\ q.j = p.j /\ q.a = [p.a EXCEPT ![p.j] = p.a[k]]
        /\ k \in p.i .. p.j
    BY <1>0, FillLeftType
  <1>2. /\ k # p.j => key[p.a[k]] < key[x]
        /\ \A m \in p.i .. k - 1 : ~(key[p.a[m]] < key[x])
    BY <1>0, <1>t, ScanRightIs
  <1> HIDE DEF q, k
  <1>3. k \in s .. e /\ p.j \in s .. e /\ k \in Places(n) /\ \A m \in s .. e : m \in Places(n)
    BY <1>0, <1>1, <1>t DEF Places
  <1>4. Swapped(Filled(p, p.j, x), Filled(q, k, x), n, p.j, k)
    BY <1>t, <1>1, <1>3 DEF Swapped, Filled
  <1>5. Rearranged(a, Filled(q, k, x), n, s, e)
    BY <1>0, <1>3, <1>4, SwapIs
  <1>6. ASSUME NEW m \in s .. q.i - 1 PROVE key[q.a[m]] >= key[x]
    <2>1. m # p.j /\ m \in Places(n) /\ (m \in p.i .. k - 1 \/ m \in s .. p.i - 1)
      BY <1>1, <1>t, <1>3
    <2>2. q.a[m] = p.a[m] /\ p.a[m] \in K
      BY <1>1, <1>t, <2>1
    <2>3. key[p.a[m]] \in Int /\ key[x] \in Int
      BY <2>2
    <2> QED
      BY <1>0, <1>2, <2>1, <2>2, <2>3
  <1>7. ASSUME NEW m \in q.j + 1 .. e PROVE key[q.a[m]] <= key[x]
    <2>1. m # p.j /\ m \in p.j + 1 .. e /\ m \in Places(n)
      BY <1>1, <1>t, <1>3
    <2> QED
      BY <1>0, <1>1, <1>t, <2>1
  <1>8. q.i > p.i \/ q.i = q.j
    <2>1. k = p.i /\ k # p.j => key[p.a[k]] \in Int /\ key[x] \in Int
      BY <1>t
    <2> QED
      BY <1>1, <1>2, <1>t, <2>1
  <1>9. s <= q.i /\ q.i <= q.j /\ q.j <= e
    BY <1>0, <1>1, <1>t
  <1> QED
    BY <1>1, <1>5, <1>6, <1>7, <1>8, <1>9 DEF Splitting, HoleMoves, q

\* A turn keeps this, and gets on.
LEMMA TurnIs ==
  ASSUME NEW n \in Nat, NEW K, NEW key \in [K -> Int], NEW a, NEW x \in K,
         NEW s \in Places(n), NEW e \in Places(n), NEW p,
         Splitting(p, a, n, K, key, s, e, x, p.i)
  PROVE  LET q == Turn(p, key, key[x])
         IN  /\ Splitting(q, a, n, K, key, s, e, x, q.i)
             /\ q.i > p.i \/ q.i = q.j
             /\ p.i = p.j => q = p
  <1>0. p.i \in Nat /\ p.j \in Nat /\ p.i <= p.j
    BY DEF Splitting, Parts, Places
  <1>1. CASE p.i < p.j
    <2> DEFINE q == FillFromRight(p, key, key[x])
               r == FillFromLeft(q, key, key[x])
    <2>1. /\ Splitting(q, a, n, K, key, s, e, x, q.j)
          /\ q.i = p.i /\ (q.j # q.i => key[q.a[q.i]] > key[x])
      BY FillRightIs
    <2> HIDE DEF q
    <2>2. Splitting(r, a, n, K, key, s, e, x, r.i) /\ (r.i > q.i \/ r.i = r.j)
      <3>1. Splitting(q, a, n, K, key, s, e, x, q.j)
        BY <2>1
      <3>2. q.j # q.i => key[q.a[q.i]] > key[x]
        BY <2>1
      <3>3. Splitting(r, a, n, K, key, s, e, x, r.i)
        BY <3>1, <3>2, FillLeftIs, Zenon
      <3>4. HoleMoves(q, r)
        BY <3>1, <3>2, FillLeftIs, Zenon
      <3> QED
        BY <3>3, <3>4 DEF HoleMoves
    <2>3. Turn(p, key, key[x]) = r /\ p.i # p.j
      BY <1>0, <1>1 DEF Turn, q
    <2> QED
      BY <2>1, <2>2, <2>3
  <1>2. CASE ~(p.i < p.j)
    <2>1. p.i = p.j /\ Turn(p, key, key[x]) = p
      BY <1>0, <1>2 DEF Turn
    <2> QED
      BY <2>1
  <1> QED
    BY <1>1, <1>2

\* When the loop ends, the ends have met where the pivot goes.
LEMMA SplitSplits ==
  ASSUME NEW n \in Nat, NEW K, NEW key \in [K -> Int], NEW a \in Arrays(n, K),
         \A k, m \in Places(n) : a[k] = a[m] => k = m,
         NEW s \in Places(n), NEW e \in Places(n), s <= e
  PROVE  LET p == Split([a |-> a, i |-> s, j |-> e], key, key[a[s]])
         IN  Splitting(p, a, n, K, key, s, e, a[s], p.i) /\ p.i = p.j
  <1> DEFINE p0 == [a |-> a, i |-> s, j |-> e]
             x == a[s]
  <1>1. p0 \in Parts(n, K) /\ x \in K
    BY DEF Parts, Arrays
  <1>2. Splitting(p0, a, n, K, key, s, e, x, p0.i)
    <2>1. Filled(p0, p0.i, x) = a
      BY DEF Filled, Arrays
    <2>2. Rearranged(a, a, n, s, e)
      BY DEF Rearranged
    <2>3. s \in Nat /\ e \in Nat /\ p0.i = s /\ p0.j = e
      BY DEF Places
    <2> HIDE DEF p0, x
    <2> QED
      BY <1>1, <2>1, <2>2, <2>3 DEF Splitting
  <1> HIDE DEF p0, x
  <1>3. PICK f \in [Nat -> Parts(n, K)] :
          /\ f[0] = p0 /\ \A t \in Nat : f[t + 1] = Turn(f[t], key, key[x])
          /\ Split(p0, key, key[x]) = f[n]
    BY <1>1, SplitIs
  <1> DEFINE Keeps(p, t) == /\ Splitting(p, a, n, K, key, s, e, x, p.i)
                            /\ p.i >= s + t \/ p.i = p.j
             T == {t \in Nat : Keeps(f[t], t)}
  <1>4. 0 \in T
    <2>1. p0.i = s /\ s \in Nat
      BY DEF p0, Places
    <2> QED
      BY <1>2, <1>3, <2>1
  <1>5. ASSUME NEW t \in Nat, t \in T PROVE t + 1 \in T
    <2> DEFINE p == f[t]
               q == f[t + 1]
    <2>1. q = Turn(p, key, key[x]) /\ Splitting(p, a, n, K, key, s, e, x, p.i)
          /\ (p.i >= s + t \/ p.i = p.j) /\ p \in Parts(n, K) /\ q \in Parts(n, K)
      BY <1>3, <1>5
    <2> HIDE DEF p, q
    <2>2. /\ Splitting(q, a, n, K, key, s, e, x, q.i)
          /\ q.i > p.i \/ q.i = q.j
          /\ p.i = p.j => q = p
      <3>1. x \in K /\ q = Turn(p, key, key[x])
        BY <1>1, <2>1
      <3>2. Splitting(p, a, n, K, key, s, e, x, p.i)
        BY <2>1
      <3>3. LET r == Turn(p, key, key[x])
            IN  /\ Splitting(r, a, n, K, key, s, e, x, r.i)
                /\ r.i > p.i \/ r.i = r.j
                /\ p.i = p.j => r = p
        BY <3>1, <3>2, TurnIs, SMTT(20)
      <3> QED
        BY <3>1, <3>3
    <2>3. p.i \in Nat /\ q.i \in Nat /\ s \in Nat
      <3>1. p.i \in Places(n) /\ q.i \in Places(n)
        BY <2>1 DEF Parts
      <3> QED
        BY <3>1 DEF Places
    <2>4. Keeps(q, t + 1)
      BY <2>1, <2>2, <2>3
    <2> HIDE DEF Keeps
    <2> QED
      BY <2>4 DEF q
  <1>6. Keeps(f[n], n)
    <2> HIDE DEF T
    <2>1. n \in T
      BY <1>4, <1>5, NatInduct
    <2> HIDE DEF Keeps
    <2> QED
      BY <2>1 DEF T
  <1> DEFINE p == f[n]
  <1>7. p \in Parts(n, K) /\ p.i \in Nat /\ p.i <= n /\ s \in Nat /\ s >= 1
    <2>1. p \in Parts(n, K)
      BY <1>3
    <2> HIDE DEF p
    <2> QED
      BY <2>1 DEF Parts, Places
  <1>8. Splitting(p, a, n, K, key, s, e, x, p.i) /\ p.i = p.j
    BY <1>6, <1>7
  <1> QED
    BY <1>3, <1>8 DEF p0, x

\* One call of qsort_zone(), with sorts for those inside.
SortCall(key, deep, c) ==
  LET pivot == c.a[c.i]
      p == Split(c, key, key[pivot])
      set == [p.a EXCEPT ![p.i] = pivot]
      below == IF p.i - 1 > c.i THEN deep[[a |-> set, i |-> c.i, j |-> p.i - 1]] ELSE set
  IN  IF p.j + 1 < c.j THEN deep[[a |-> below, i |-> p.j + 1, j |-> c.j]] ELSE below

\* A call leaves an array, whatever the keys, and so the recursion is defined.
LEMMA SortCallType ==
  ASSUME NEW n \in Nat, NEW K, NEW key, NEW deep \in [Parts(n, K) -> Arrays(n, K)],
         NEW c \in Parts(n, K)
  PROVE  SortCall(key, deep, c) \in Arrays(n, K)
  <1> DEFINE pivot == c.a[c.i]
             p == Split(c, key, key[pivot])
             set == [p.a EXCEPT ![p.i] = pivot]
             below == IF p.i - 1 > c.i THEN deep[[a |-> set, i |-> c.i, j |-> p.i - 1]] ELSE set
  <1>1. p \in Parts(n, K)
    <2>1. PICK f \in [Nat -> Parts(n, K)] : Split(c, key, key[pivot]) = f[n]
      BY SplitIs
    <2> QED
      BY <2>1
  <1>2. /\ pivot \in K /\ c.i \in 1 .. n /\ c.j \in 1 .. n /\ p.a \in [1 .. n -> K]
        /\ p.i \in 1 .. n /\ p.j \in 1 .. n
    <2> HIDE DEF p
    <2> QED
      BY <1>1 DEF Parts, Arrays, Places
  <1>3. SortCall(key, deep, c) = IF p.j + 1 < c.j THEN deep[[a |-> below, i |-> p.j + 1, j |-> c.j]]
                                 ELSE below
    BY DEF SortCall
  <1> HIDE DEF p, pivot
  <1>4. set \in Arrays(n, K)
    BY <1>2 DEF Arrays, Places
  <1> HIDE DEF set
  <1>5. below \in Arrays(n, K)
    <2>1. CASE p.i - 1 > c.i
      <3>1. p.i - 1 \in 1 .. n
        BY <1>2, <2>1
      <3>2. [a |-> set, i |-> c.i, j |-> p.i - 1] \in Parts(n, K)
        BY <1>2, <1>4, <3>1 DEF Parts, Places
      <3> QED
        BY <2>1, <3>2
    <2>2. CASE ~(p.i - 1 > c.i)
      BY <1>4, <2>2
    <2> QED
      BY <2>1, <2>2
  <1> HIDE DEF below
  <1>6. CASE p.j + 1 < c.j
    <2>1. p.j + 1 \in 1 .. n
      BY <1>2, <1>6
    <2>2. [a |-> below, i |-> p.j + 1, j |-> c.j] \in Parts(n, K)
      BY <1>2, <1>5, <2>1 DEF Parts, Places
    <2> QED
      BY <1>3, <1>6, <2>2
  <1>7. CASE ~(p.j + 1 < c.j)
    BY <1>3, <1>5, <1>7
  <1> QED
    BY <1>6, <1>7

\* What the calls of each depth make of a part.
SortDepths(f, key, n) ==
  /\ f \in [Nat -> [Parts(n, Int) -> Arrays(n, Int)]]
  /\ \A c \in Parts(n, Int) : f[0][c] = c.a
  /\ \A t \in Nat : \A c \in Parts(n, Int) : f[t + 1][c] = SortCall(key, f[t], c)

LEMMA SortIs ==
  ASSUME NEW n \in Nat, NEW key, NEW a0, Len(a0) = n,
         NEW s0 \in Places(n), NEW e0 \in Places(n)
  PROVE  \E f : /\ SortDepths(f, key, n)
                /\ qsort_zone(a0, key, s0, e0) = f[n][[a |-> a0, i |-> s0, j |-> e0]]
  <1> DEFINE C == Parts(n, Int)
             S == [C -> Arrays(n, Int)]
             base == [c \in C |-> c.a]
             round == [deep \in S |-> [c \in C |-> SortCall(key, deep, c)]]
  <1>1. base \in S
    BY DEF Parts
  <1>2. /\ round \in [S -> S]
        /\ \A deep \in S : round[deep] = [c \in C |-> SortCall(key, deep, c)]
    <2>1. \A deep \in S : [c \in C |-> SortCall(key, deep, c)] \in S
      BY SortCallType
    <2> HIDE DEF C, S
    <2> QED
      BY <2>1
  <1> HIDE DEF S, base, round
  <1>3. PICK f : Repeats(f, base, round, S)
    BY <1>1, <1>2, Repetition
  <1> HIDE DEF C
  <1>4. /\ f \in [Nat -> S] /\ f[0] = base
        /\ \A t \in Nat : f[t + 1] = [c \in C |-> SortCall(key, f[t], c)]
    BY <1>2, <1>3 DEF Repeats
  <1> DEFINE Sort(g) == g = [t \in 0 .. n |->
                               [c \in C |-> IF t = 0 THEN c.a ELSE SortCall(key, g[t - 1], c)]]
             sort == CHOOSE g : Sort(g)
             g0 == [t \in 0 .. n |-> f[t]]
  <1>5. Sort(g0)
    <2>1. ASSUME NEW t \in 0 .. n
          PROVE  g0[t] = [c \in C |-> IF t = 0 THEN c.a ELSE SortCall(key, g0[t - 1], c)]
      <3>1. CASE t = 0
        BY <1>4, <3>1 DEF base
      <3>2. CASE t # 0
        <4>1. t - 1 \in Nat /\ t - 1 \in 0 .. n /\ (t - 1) + 1 = t
          BY <3>2
        <4>2. f[t] = [c \in C |-> SortCall(key, f[t - 1], c)]
          BY <1>4, <4>1
        <4> QED
          BY <3>2, <4>1, <4>2
      <3> QED
        BY <3>1, <3>2
    <2>2. g0 = [t \in 0 .. n |-> g0[t]]
      OBVIOUS
    <2> HIDE DEF g0
    <2> QED
      BY <2>1, <2>2
  <1>6. Sort(sort)
    <2> HIDE DEF Sort, g0
    <2> QED
      BY <1>5
  <1>7. qsort_zone(a0, key, s0, e0) = sort[n][[a |-> a0, i |-> s0, j |-> e0]]
    BY DEF qsort_zone, SortCall, C, Parts, Arrays, Places
  <1> HIDE DEF sort, g0
  <1>8. /\ sort[0] = [c \in C |-> c.a]
        /\ \A t \in 0 .. n : t # 0 => sort[t] = [c \in C |-> SortCall(key, sort[t - 1], c)]
    <2>1. ASSUME NEW t \in 0 .. n
          PROVE  sort[t] = [c \in C |-> IF t = 0 THEN c.a ELSE SortCall(key, sort[t - 1], c)]
      BY <1>6
    <2>2. 0 \in 0 .. n
      OBVIOUS
    <2>3. sort[0] = [c \in C |-> c.a]
      <3>1. sort[0] = [c \in C |-> IF 0 = 0 THEN c.a ELSE SortCall(key, sort[0 - 1], c)]
        BY <2>1, <2>2
      <3> QED
        BY <3>1
    <2>4. ASSUME NEW t \in 0 .. n, t # 0
          PROVE  sort[t] = [c \in C |-> SortCall(key, sort[t - 1], c)]
      <3>1. sort[t] = [c \in C |-> IF t = 0 THEN c.a ELSE SortCall(key, sort[t - 1], c)]
        BY <2>1
      <3> QED
        BY <2>4, <3>1
    <2> QED
      BY <2>3, <2>4
  <1> HIDE DEF Sort
  <1> DEFINE T == {t \in Nat : t <= n => sort[t] = f[t]}
  <1>9. 0 \in T
    BY <1>4, <1>8 DEF base
  <1>10. ASSUME NEW t \in Nat, t \in T PROVE t + 1 \in T
    <2> SUFFICES ASSUME t + 1 <= n PROVE sort[t + 1] = f[t + 1]
      OBVIOUS
    <2>1. t + 1 \in 0 .. n /\ t + 1 # 0 /\ (t + 1) - 1 = t /\ t <= n
      OBVIOUS
    <2>2. sort[t + 1] = [c \in C |-> SortCall(key, sort[t], c)]
      BY <1>8, <2>1
    <2>3. sort[t] = f[t]
      BY <1>10, <2>1
    <2> QED
      BY <1>4, <2>2, <2>3
  <1>11. sort[n] = f[n]
    <2> HIDE DEF T
    <2>1. n \in T
      BY <1>9, <1>10, NatInduct
    <2> QED
      BY <2>1 DEF T
  <1>12. /\ \A c \in C : f[0][c] = c.a
         /\ \A t \in Nat : \A c \in C : f[t + 1][c] = SortCall(key, f[t], c)
    <2>1. \A c \in C : f[0][c] = c.a
      BY <1>4 DEF base
    <2>2. ASSUME NEW t \in Nat, NEW c \in C PROVE f[t + 1][c] = SortCall(key, f[t], c)
      <3>1. f[t + 1] = [b \in C |-> SortCall(key, f[t], b)]
        BY <1>4
      <3> QED
        BY <3>1
    <2> QED
      BY <2>1, <2>2
  <1> QED
    BY <1>4, <1>7, <1>11, <1>12 DEF S, C, SortDepths

\* r is a in the part from s to e by descending key, and as it was elsewhere.
Descending(r, key, s, e) == \A k, m \in s .. e : k < m => key[r[k]] >= key[r[m]]
SortedIn(a, r, n, K, key, s, e) ==
  r \in Arrays(n, K) /\ Rearranged(a, r, n, s, e) /\ Descending(r, key, s, e)

\* Rearranging a smaller part again.
LEMMA RearrangedAgain ==
  ASSUME NEW n \in Nat, NEW a, NEW b, NEW c, NEW s \in Places(n), NEW e \in Places(n),
         NEW s2 \in Places(n), NEW e2 \in Places(n), s <= s2, e2 <= e,
         Rearranged(a, b, n, s, e), Rearranged(b, c, n, s2, e2)
  PROVE  Rearranged(a, c, n, s, e)
  <1>0. /\ s \in Nat /\ e \in Nat /\ s2 \in Nat /\ e2 \in Nat
        /\ \A k \in s .. e : k \in Places(n) /\ k \in Nat
        /\ \A k \in Places(n) : k \in Nat
    BY DEF Places
  <1>1. \A k, m \in Places(n) : c[k] = c[m] => k = m
    BY DEF Rearranged
  <1>2. ASSUME NEW k \in Places(n), ~(s <= k /\ k <= e) PROVE c[k] = a[k]
    <2>1. ~(s2 <= k /\ k <= e2)
      BY <1>0, <1>2
    <2> QED
      BY <1>2, <2>1 DEF Rearranged
  <1>3. ASSUME NEW k \in s .. e PROVE (\E m \in s .. e : c[k] = b[m]) /\ (\E m \in s .. e : b[k] = c[m])
    <2>1. CASE k \in s2 .. e2
      <3>1. InPart(c, s2, e2) = InPart(b, s2, e2)
        BY DEF Rearranged
      <3>2. (\E m \in s2 .. e2 : c[k] = b[m]) /\ (\E m \in s2 .. e2 : b[k] = c[m])
        BY <2>1, <3>1 DEF InPart
      <3>3. \A m \in s2 .. e2 : m \in s .. e
        BY <1>0
      <3> QED
        BY <3>2, <3>3
    <2>2. CASE ~(k \in s2 .. e2)
      <3>1. ~(s2 <= k /\ k <= e2) /\ k \in Places(n)
        BY <1>0, <2>2
      <3>2. c[k] = b[k]
        BY <3>1 DEF Rearranged
      <3> QED
        BY <3>2
    <2> QED
      BY <2>1, <2>2
  <1>4. InPart(c, s, e) = InPart(b, s, e)
    BY <1>3 DEF InPart
  <1> QED
    BY <1>1, <1>2, <1>4 DEF Rearranged

\* The calls inside are of shorter parts.
Sorts(f, d, n, K, key) ==
  \A a \in Arrays(n, K) : \A s, e \in Places(n) :
    (\A k, m \in Places(n) : a[k] = a[m] => k = m) /\ s <= e /\ e - s < d
      => SortedIn(a, f[[a |-> a, i |-> s, j |-> e]], n, K, key, s, e)

\* Then so does the call they are in.
LEMMA SortCallSorts ==
  ASSUME NEW n \in Nat, NEW K, NEW key \in [K -> Int], NEW d \in Nat, NEW deep,
         Sorts(deep, d, n, K, key), NEW a \in Arrays(n, K),
         \A k, m \in Places(n) : a[k] = a[m] => k = m,
         NEW s \in Places(n), NEW e \in Places(n), s <= e, e - s < d + 1
  PROVE  SortedIn(a, SortCall(key, deep, [a |-> a, i |-> s, j |-> e]), n, K, key, s, e)
  <1> DEFINE c == [a |-> a, i |-> s, j |-> e]
             x == a[s]
             p == Split(c, key, key[x])
             set == [p.a EXCEPT ![p.i] = x]
             below == IF p.i - 1 > s THEN deep[[a |-> set, i |-> s, j |-> p.i - 1]] ELSE set
             above == IF p.j + 1 < e THEN deep[[a |-> below, i |-> p.j + 1, j |-> e]] ELSE below
             q == p.i
  <1>1. SortCall(key, deep, c) = above
    BY DEF SortCall
  <1>2. Splitting(p, a, n, K, key, s, e, x, p.i) /\ p.i = p.j
    BY SplitSplits
  <1> HIDE DEF p
  <1>n. /\ s \in Nat /\ e \in Nat /\ s \in 1 .. n /\ e \in 1 .. n /\ x \in K
        /\ \A k \in s .. e : k \in Places(n)
    BY DEF Places, Arrays
  <1>3. /\ p.i = q /\ p.j = q /\ q \in s .. e /\ q \in Nat /\ q \in Places(n)
        /\ p.a \in [Places(n) -> K]
        /\ \A k \in s .. q - 1 : key[p.a[k]] >= key[x]
        /\ \A k \in q + 1 .. e : key[p.a[k]] <= key[x]
        /\ Rearranged(a, set, n, s, e)
    BY <1>2, <1>n DEF Splitting, Parts, Arrays, Places, Filled
  <1>4. /\ set \in Arrays(n, K) /\ set[q] = x
        /\ \A k \in s .. q - 1 : key[set[k]] >= key[x]
        /\ \A k \in q + 1 .. e : key[set[k]] <= key[x]
    <2>1. \A k \in s .. e : k # q => set[k] = p.a[k]
      BY <1>3, <1>n
    <2>2. \A k \in s .. q - 1 : k \in s .. e /\ k # q
      BY <1>3, <1>n
    <2>3. \A k \in q + 1 .. e : k \in s .. e /\ k # q
      BY <1>3, <1>n
    <2>4. set \in Arrays(n, K) /\ set[q] = x
      BY <1>3, <1>n DEF Arrays
    <2> HIDE DEF set, q
    <2> QED
      BY <1>3, <2>1, <2>2, <2>3, <2>4
  <1> HIDE DEF set, q, x
  <1>5. /\ SortedIn(set, below, n, K, key, s, q - 1) \/ (below = set /\ q - 1 <= s)
        /\ below \in Arrays(n, K) /\ Rearranged(a, below, n, s, e)
        /\ Descending(below, key, s, q - 1)
        /\ \A k \in s .. q - 1 : key[below[k]] >= key[x]
        /\ \A k \in q .. e : below[k] = set[k]
    <2>1. CASE q - 1 > s
      <3>0. q \in Nat /\ s <= q /\ q <= e /\ q <= n
        BY <1>n, <1>3 DEF Places
      <3>1. q - 1 \in Places(n) /\ s <= q - 1 /\ (q - 1) - s < d /\ q - 1 <= e
        BY <1>n, <2>1, <3>0 DEF Places
      <3>2. below = deep[[a |-> set, i |-> s, j |-> q - 1]]
        BY <1>3, <2>1
      <3>3. \A k, m \in Places(n) : set[k] = set[m] => k = m
        BY <1>3 DEF Rearranged
      <3>4. SortedIn(set, below, n, K, key, s, q - 1)
        BY <1>4, <3>1, <3>2, <3>3 DEF Sorts
      <3> HIDE DEF below
      <3>5. /\ below \in Arrays(n, K) /\ Rearranged(set, below, n, s, q - 1)
            /\ Descending(below, key, s, q - 1)
        BY <3>4 DEF SortedIn
      <3>6. Rearranged(a, below, n, s, e)
        BY <1>3, <1>n, <3>1, <3>5, RearrangedAgain
      <3>7. ASSUME NEW k \in s .. q - 1 PROVE key[below[k]] >= key[x]
        <4>1. InPart(below, s, q - 1) = InPart(set, s, q - 1)
          BY <3>5 DEF Rearranged
        <4>2. \E m \in s .. q - 1 : below[k] = set[m]
          BY <3>7, <4>1 DEF InPart
        <4> QED
          BY <1>4, <4>2
      <3>8. ASSUME NEW k \in q .. e PROVE below[k] = set[k]
        <4>1. k \in Places(n) /\ ~(s <= k /\ k <= q - 1)
          BY <1>n, <1>3
        <4> QED
          BY <3>5, <4>1 DEF Rearranged
      <3> QED
        BY <3>4, <3>5, <3>6, <3>7, <3>8
    <2>2. CASE ~(q - 1 > s)
      <3>1. below = set /\ q - 1 <= s
        BY <1>n, <1>3, <2>2
      <3>2. Descending(set, key, s, q - 1)
        <4>1. \A k, m \in s .. q - 1 : ~(k < m)
          BY <1>n, <1>3, <3>1
        <4> QED
          BY <4>1 DEF Descending
      <3> HIDE DEF below
      <3> QED
        BY <1>3, <1>4, <3>1, <3>2
    <2> QED
      BY <2>1, <2>2
  <1> HIDE DEF below
  <1>6. /\ above \in Arrays(n, K) /\ Rearranged(a, above, n, s, e)
        /\ Descending(above, key, q + 1, e)
        /\ \A k \in q + 1 .. e : key[above[k]] <= key[x]
        /\ \A k \in s .. q : above[k] = below[k]
    <2>s. \A k \in q + 1 .. e : key[below[k]] <= key[x]
      <3>1. \A k \in q + 1 .. e : k \in q .. e
        BY <1>n, <1>3
      <3> QED
        BY <1>4, <1>5, <3>1
    <2>1. CASE q + 1 < e
      <3>1. q + 1 \in Places(n) /\ q + 1 <= e /\ e - (q + 1) < d /\ s <= q + 1
        BY <1>n, <1>3, <2>1 DEF Places
      <3>2. above = deep[[a |-> below, i |-> q + 1, j |-> e]]
        BY <1>3, <2>1
      <3>3. \A k, m \in Places(n) : below[k] = below[m] => k = m
        BY <1>5 DEF Rearranged
      <3>4. SortedIn(below, above, n, K, key, q + 1, e)
        BY <1>5, <3>1, <3>2, <3>3 DEF Sorts
      <3> HIDE DEF above
      <3>5. /\ above \in Arrays(n, K) /\ Rearranged(below, above, n, q + 1, e)
            /\ Descending(above, key, q + 1, e)
        BY <3>4 DEF SortedIn
      <3>e. e <= e
        BY <1>n
      <3>6. Rearranged(a, above, n, s, e)
        BY <1>5, <3>e, <3>1, <3>5, RearrangedAgain
      <3>7. ASSUME NEW k \in q + 1 .. e PROVE key[above[k]] <= key[x]
        <4>1. InPart(above, q + 1, e) = InPart(below, q + 1, e)
          BY <3>5 DEF Rearranged
        <4>2. \E m \in q + 1 .. e : above[k] = below[m]
          BY <3>7, <4>1 DEF InPart
        <4> QED
          BY <2>s, <4>2
      <3>8. ASSUME NEW k \in s .. q PROVE above[k] = below[k]
        <4>1. k \in Places(n) /\ ~(q + 1 <= k /\ k <= e)
          BY <1>n, <1>3
        <4> QED
          BY <3>5, <4>1 DEF Rearranged
      <3> QED
        BY <3>5, <3>6, <3>7, <3>8
    <2>2. CASE ~(q + 1 < e)
      <3>1. above = below
        BY <1>3, <2>2
      <3>2. Descending(below, key, q + 1, e)
        <4>1. \A k, m \in q + 1 .. e : ~(k < m)
          BY <1>n, <1>3, <2>2
        <4> QED
          BY <4>1 DEF Descending
      <3> HIDE DEF above
      <3> QED
        BY <1>5, <2>s, <3>1, <3>2
    <2> QED
      BY <2>1, <2>2
  <1> HIDE DEF above
  <1>7. Descending(above, key, s, e)
    <2> SUFFICES ASSUME NEW k \in s .. e, NEW m \in s .. e, k < m
                 PROVE  key[above[k]] >= key[above[m]]
      BY DEF Descending
    <2>0. key[x] \in Int /\ key[above[k]] \in Int /\ key[above[m]] \in Int
      BY <1>n, <1>6 DEF Arrays
    <2>1. /\ \A l \in s .. q - 1 : key[above[l]] >= key[x]
          /\ above[q] = x /\ \A l \in q + 1 .. e : key[above[l]] <= key[x]
      <3>1. \A l \in s .. q - 1 : l \in s .. q
        BY <1>n, <1>3
      <3>2. q \in s .. q /\ q \in q .. e
        BY <1>n, <1>3
      <3> QED
        BY <1>4, <1>5, <1>6, <3>1, <3>2
    <2>2. CASE m <= q - 1
      <3>1. k \in s .. q - 1 /\ m \in s .. q - 1 /\ k \in s .. q /\ m \in s .. q
        BY <1>n, <1>3, <2>2
      <3>2. key[below[k]] >= key[below[m]]
        BY <1>5, <3>1 DEF Descending
      <3> QED
        BY <1>6, <3>1, <3>2
    <2>3. CASE k >= q + 1
      <3>1. k \in q + 1 .. e /\ m \in q + 1 .. e
        BY <1>n, <1>3, <2>3
      <3> QED
        BY <1>6, <3>1 DEF Descending
    <2>4. CASE k <= q /\ m >= q
      <3>1. (k = q \/ k \in s .. q - 1) /\ (m = q \/ m \in q + 1 .. e)
        BY <1>n, <1>3, <2>4
      <3>2. key[above[k]] >= key[x] /\ key[x] >= key[above[m]]
        BY <2>0, <2>1, <3>1
      <3> QED
        BY <2>0, <3>2
    <2> QED
      BY <1>n, <1>3, <2>2, <2>3, <2>4
  <1> QED
    BY <1>1, <1>6, <1>7 DEF SortedIn

\* What qsort_zone() does to an array without repetitions.
LEMMA QsortIs ==
  ASSUME NEW K, K \subseteq Int, NEW key \in [K -> Int], NEW a0 \in Seq(K), IsInjective(a0),
         Len(a0) > 0
  PROVE  LET r == qsort_zone(a0, key, 1, Len(a0))
         IN  /\ r \in Seq(K) /\ Len(r) = Len(a0) /\ IsInjective(r) /\ ToSet(r) = ToSet(a0)
             /\ \A i, j \in 1 .. Len(r) : i < j => key[r[i]] >= key[r[j]]
  <1> DEFINE n == Len(a0)
             r == qsort_zone(a0, key, 1, n)
  <1>1. /\ n \in Nat /\ n > 0 /\ 1 \in Places(n) /\ n \in Places(n) /\ 1 <= n
        /\ a0 \in Arrays(n, K)
        /\ \A k, m \in Places(n) : a0[k] = a0[m] => k = m
    BY DEF Places, Arrays, IsInjective
  <1>k. Arrays(n, K) \subseteq Arrays(n, Int) /\ Len(a0) = n
    BY DEF Arrays
  <1> HIDE DEF n
  <1>2. PICK f : SortDepths(f, key, n) /\ r = f[n][[a |-> a0, i |-> 1, j |-> n]]
    BY <1>1, <1>k, SortIs
  <1> HIDE DEF r
  <1> DEFINE T == {d \in Nat : Sorts(f[d], d, n, K, key)}
  <1>3. 0 \in T
    <2>1. \A s, e \in Places(n) : ~(s <= e /\ e - s < 0)
      BY DEF Places
    <2>2. Sorts(f[0], 0, n, K, key)
      BY <2>1 DEF Sorts
    <2> QED
      BY <2>2
  <1>4. ASSUME NEW d \in Nat, d \in T PROVE d + 1 \in T
    <2>1. Sorts(f[d], d, n, K, key)
      BY <1>4
    <2>2. ASSUME NEW a \in Arrays(n, K), NEW s \in Places(n), NEW e \in Places(n),
                 \A k, m \in Places(n) : a[k] = a[m] => k = m, s <= e, e - s < d + 1
          PROVE  SortedIn(a, f[d + 1][[a |-> a, i |-> s, j |-> e]], n, K, key, s, e)
      <3>1. SortedIn(a, SortCall(key, f[d], [a |-> a, i |-> s, j |-> e]), n, K, key, s, e)
        BY <1>1, <2>1, <2>2, SortCallSorts
      <3>2. [a |-> a, i |-> s, j |-> e] \in Parts(n, Int)
        BY <1>k DEF Parts
      <3>3. f[d + 1][[a |-> a, i |-> s, j |-> e]] = SortCall(key, f[d], [a |-> a, i |-> s, j |-> e])
        BY <1>2, <3>2 DEF SortDepths
      <3> QED
        BY <3>1, <3>3
    <2>3. Sorts(f[d + 1], d + 1, n, K, key)
      BY <2>2 DEF Sorts
    <2> QED
      BY <2>3
  <1>5. Sorts(f[n], n, n, K, key)
    <2> HIDE DEF T
    <2>1. n \in T
      BY <1>1, <1>3, <1>4, NatInduct
    <2> QED
      BY <2>1 DEF T
  <1>6. SortedIn(a0, r, n, K, key, 1, n)
    <2>1. n - 1 < n
      BY <1>1
    <2> QED
      BY <1>1, <1>2, <1>5, <2>1 DEF Sorts
  <1>7. r \in [1 .. n -> K] /\ Rearranged(a0, r, n, 1, n) /\ Descending(r, key, 1, n)
    BY <1>6 DEF SortedIn, Arrays, Places
  <1>8. r \in Seq(K) /\ Len(r) = n /\ DOMAIN r = 1 .. n
    BY <1>1, <1>7
  <1>9. IsInjective(r)
    BY <1>7, <1>8 DEF Rearranged, IsInjective, Places
  <1>10. ToSet(r) = ToSet(a0)
    <2>1. ToSet(r) = InPart(r, 1, n) /\ ToSet(a0) = InPart(a0, 1, n)
      <3>1. DOMAIN r = 1 .. n /\ DOMAIN a0 = 1 .. n
        BY <1>k, <1>8
      <3>2. \A s : ToSet(s) = {s[i] : i \in DOMAIN s}
        BY DEF ToSet
      <3> QED
        BY <3>1, <3>2 DEF InPart
    <2> QED
      BY <1>7, <2>1 DEF Rearranged
  <1>11. \A i, j \in 1 .. Len(r) : i < j => key[r[i]] >= key[r[j]]
    BY <1>7, <1>8 DEF Descending
  <1> QED
    BY <1>8, <1>9, <1>10, <1>11, <1>k DEF r

\* What extractNonEmptyZoneId() collects.
LEMMA NonEmptyIs ==
  ASSUME NEW n \in Nat, NEW size \in [0 .. n - 1 -> Int]
  PROVE  LET some == NonEmptyZoneIds(size, n)
         IN  /\ some \in Seq(0 .. n - 1) /\ IsInjective(some)
             /\ ToSet(some) = {z \in 0 .. n - 1 : size[z] > 0}
  <1> DEFINE S == Seq(Nat)
             add(k, s) == IF size[k] > 0 THEN Append(s, k) ELSE s
             step == [k \in Nat |-> [s \in S |-> add(k, s)]]
             Loop(g) == g = [k \in 0 .. n |-> IF k = 0 THEN << >> ELSE add(k - 1, g[k - 1])]
             loop == CHOOSE g : Loop(g)
  <1>1. << >> \in S /\ step \in [Nat -> [S -> S]]
        /\ \A k \in Nat : \A s \in S : step[k][s] = add(k, s)
    <2>1. \A k \in Nat : \A s \in S : add(k, s) \in S
      OBVIOUS
    <2> HIDE DEF add, S
    <2>2. \A k \in Nat : [s \in S |-> add(k, s)] \in [S -> S]
      BY <2>1
    <2>3. << >> \in S
      BY DEF S
    <2> QED
      BY <2>2, <2>3
  <1> HIDE DEF step, S
  <1>2. PICK f : Iterates(f, << >>, step, S)
    BY <1>1, Iteration
  <1>3. f \in [Nat -> S] /\ f[0] = << >> /\ \A k \in Nat : f[k + 1] = add(k, f[k])
    <2> HIDE DEF add
    <2> QED
      BY <1>1, <1>2 DEF Iterates
  <1> DEFINE g0 == [k \in 0 .. n |-> f[k]]
  <1>4. Loop(g0)
    <2>1. ASSUME NEW k \in 0 .. n
          PROVE  g0[k] = IF k = 0 THEN << >> ELSE add(k - 1, g0[k - 1])
      <3>1. k # 0 => k - 1 \in Nat /\ k - 1 \in 0 .. n /\ (k - 1) + 1 = k
        OBVIOUS
      <3> HIDE DEF add
      <3> QED
        BY <1>3, <3>1
    <2>2. g0 = [k \in 0 .. n |-> g0[k]]
      OBVIOUS
    <2> HIDE DEF g0
    <2> QED
      BY <2>1, <2>2
  <1>5. Loop(loop)
    <2> HIDE DEF Loop, g0
    <2> QED
      BY <1>4
  <1>6. NonEmptyZoneIds(size, n) = loop[n]
    BY DEF NonEmptyZoneIds
  <1> HIDE DEF loop, g0
  <1>7. loop[0] = << >> /\ \A k \in 0 .. n : k # 0 => loop[k] = add(k - 1, loop[k - 1])
    <2> HIDE DEF add
    <2>1. \A k \in 0 .. n : loop[k] = IF k = 0 THEN << >> ELSE add(k - 1, loop[k - 1])
      BY <1>5
    <2>2. 0 \in 0 .. n
      OBVIOUS
    <2> QED
      BY <2>1, <2>2
  <1> HIDE DEF Loop
  <1> DEFINE Collects(s, k) == /\ s \in Seq(0 .. n - 1) /\ IsInjective(s)
                               /\ ToSet(s) = {z \in 0 .. k - 1 : size[z] > 0}
             T == {k \in Nat : k <= n => Collects(loop[k], k)}
  <1>8. 0 \in T
    <2>1. loop[0] = << >>
      BY <1>7
    <2>2. Collects(<< >>, 0)
      BY DEF IsInjective, ToSet
    <2> HIDE DEF Collects
    <2> QED
      BY <2>1, <2>2
  <1>9. ASSUME NEW k \in Nat, k \in T PROVE k + 1 \in T
    <2> SUFFICES ASSUME k + 1 <= n PROVE Collects(loop[k + 1], k + 1)
      <3> HIDE DEF Collects
      <3> QED
        OBVIOUS
    <2>1. k + 1 \in 0 .. n /\ k + 1 # 0 /\ (k + 1) - 1 = k /\ k <= n /\ k \in 0 .. n - 1
      OBVIOUS
    <2>2. loop[k + 1] = add(k, loop[k])
      <3> HIDE DEF add
      <3> QED
        BY <1>7, <2>1
    <2>3. Collects(loop[k], k)
      <3> HIDE DEF Collects
      <3> QED
        BY <1>9, <2>1
    <2> DEFINE s == loop[k]
    <2>4. s \in Seq(0 .. n - 1) /\ IsInjective(s) /\ ToSet(s) = {z \in 0 .. k - 1 : size[z] > 0}
      BY <2>3
    <2> HIDE DEF s
    <2>5. \A z \in Nat : z \in 0 .. (k + 1) - 1 <=> z \in 0 .. k - 1 \/ z = k
      OBVIOUS
    <2>6. CASE size[k] > 0
      <3>1. loop[k + 1] = Append(s, k) /\ k \notin ToSet(s)
        BY <2>2, <2>4, <2>6 DEF s
      <3>2. Append(s, k) \in Seq(0 .. n - 1) /\ IsInjective(Append(s, k))
        BY <2>1, <2>4, <3>1, AppendNew
      <3>3. ToSet(Append(s, k)) = ToSet(s) \cup {k}
        <4> DEFINE D == 0 .. n - 1
        <4>1. s \in Seq(D) /\ k \in D
          BY <2>1, <2>4
        <4> HIDE DEF D
        <4> QED
          BY <4>1, AppendSet
      <3>4. ToSet(s) \cup {k} = {z \in 0 .. (k + 1) - 1 : size[z] > 0}
        BY <2>4, <2>5, <2>6
      <3> QED
        BY <3>1, <3>2, <3>3, <3>4
    <2>7. CASE ~(size[k] > 0)
      <3>1. loop[k + 1] = s
        BY <2>2, <2>7 DEF s
      <3>2. ToSet(s) = {z \in 0 .. (k + 1) - 1 : size[z] > 0}
        BY <2>4, <2>5, <2>7
      <3> QED
        BY <2>4, <3>1, <3>2
    <2> QED
      BY <2>6, <2>7
  <1>10. Collects(loop[n], n)
    <2> HIDE DEF T
    <2>1. n \in T
      BY <1>8, <1>9, NatInduct
    <2> HIDE DEF Collects
    <2> QED
      BY <2>1 DEF T
  <1> QED
    BY <1>6, <1>10
-----------------------------------------------------------------------------
\* As many elements as places.
LEMMA ImageCount ==
  ASSUME NEW S, NEW s \in Seq(S), IsInjective(s), NEW I \in SUBSET (1 .. Len(s))
  PROVE  /\ IsFiniteSet(I) /\ IsFiniteSet({s[i] : i \in I})
         /\ Cardinality({s[i] : i \in I}) = Cardinality(I)
  <1> DEFINE T == {s[i] : i \in I}
             f == [i \in I |-> s[i]]
  <1>1. IsFiniteSet(I)
    <2>1. Len(s) \in Int /\ 1 \in Int
      OBVIOUS
    <2>2. IsFiniteSet(1 .. Len(s))
      BY <2>1, FS_Interval
    <2> QED
      BY <2>2, FS_Subset
  <1>2. f \in Bijection(I, T)
    <2>1. f \in [I -> T] /\ \A i \in I : f[i] = s[i]
      OBVIOUS
    <2>2. \A i, j \in I : s[i] = s[j] => i = j
      BY DEF IsInjective
    <2>3. \A t \in T : \E i \in I : s[i] = t
      OBVIOUS
    <2> HIDE DEF f, T
    <2>4. \A i, j \in I : f[i] = f[j] => i = j
      BY <2>1, <2>2
    <2>5. f \in Injection(I, T)
      BY <2>1, <2>4 DEF Injection, IsInjective
    <2>6. f \in Surjection(I, T)
      BY <2>1, <2>3 DEF Surjection
    <2> QED
      BY <2>5, <2>6 DEF Bijection
  <1> HIDE DEF f, T
  <1>3. ExistsBijection(I, T)
    BY <1>2 DEF ExistsBijection
  <1>4. IsFiniteSet(T) /\ Cardinality(T) = Cardinality(I)
    BY <1>1, <1>3, FS_Bijection
  <1> QED
    BY <1>1, <1>4 DEF T

\* The first numbers of a set, those with fewer than m before them.
FirstOnes(F, m) == {k \in F : Cardinality({j \in F : j < k}) < m}

LEMMA FirstOnesAre ==
  ASSUME NEW F \in SUBSET Nat, IsFiniteSet(F), NEW m \in Nat
  PROVE  /\ FirstOnes(F, m) \subseteq F
         /\ \A k \in FirstOnes(F, m), j \in F : j < k => j \in FirstOnes(F, m)
         /\ Cardinality(FirstOnes(F, m)) = Min({m, Cardinality(F)})
  <1> DEFINE B(k) == {j \in F : j < k}
             Count(n) == IF n <= Cardinality(F) THEN n ELSE Cardinality(F)
             T == {n \in Nat : Cardinality(FirstOnes(F, n)) = Count(n)}
  <1>1. \A k : IsFiniteSet(B(k)) /\ Cardinality(B(k)) \in Nat
    <2>1. \A k : B(k) \in SUBSET F
      OBVIOUS
    <2> HIDE DEF B
    <2> QED
      BY <2>1, FS_Subset, FS_CardinalityType
  <1>2. \A n : FirstOnes(F, n) = {k \in F : Cardinality(B(k)) < n}
    BY DEF FirstOnes
  <1>3. \A k, j \in F : j <= k => Cardinality(B(j)) <= Cardinality(B(k))
    <2>1. ASSUME NEW k \in F, NEW j \in F, j <= k PROVE B(j) \in SUBSET B(k)
      <3>1. \A x \in F : x < j => x < k
        BY <2>1
      <3> QED
        BY <3>1
    <2> HIDE DEF B
    <2> QED
      BY <1>1, <2>1, FS_Subset
  <1>4. Cardinality(F) \in Nat
    BY FS_CardinalityType
  <1>5. \A n : IsFiniteSet(FirstOnes(F, n)) /\ FirstOnes(F, n) \in SUBSET F
    <2>1. \A n : FirstOnes(F, n) \in SUBSET F
      BY DEF FirstOnes
    <2> QED
      BY <2>1, FS_Subset
  <1>6. \A n \in Nat : \A k \in FirstOnes(F, n), j \in F : j < k => j \in FirstOnes(F, n)
    <2> SUFFICES ASSUME NEW n \in Nat, NEW k \in FirstOnes(F, n), NEW j \in F, j < k
                 PROVE  j \in FirstOnes(F, n)
      OBVIOUS
    <2>1. k \in F /\ Cardinality(B(k)) < n
      BY <1>2
    <2>2. Cardinality(B(j)) <= Cardinality(B(k))
      BY <1>3, <2>1
    <2>3. Cardinality(B(j)) \in Nat /\ Cardinality(B(k)) \in Nat
      BY <1>1
    <2> HIDE DEF B
    <2>4. Cardinality(B(j)) < n
      BY <2>1, <2>2, <2>3
    <2> QED
      BY <1>2, <2>4
  <1>7. 0 \in T
    <2>1. FirstOnes(F, 0) = {}
      <3> SUFFICES ASSUME NEW k \in F, Cardinality(B(k)) < 0 PROVE FALSE
        BY <1>2
      <3>1. Cardinality(B(k)) \in Nat
        BY <1>1
      <3> HIDE DEF B
      <3> QED
        BY <3>1
    <2> QED
      BY <1>4, <2>1, FS_EmptySet
  <1>8. ASSUME NEW n \in Nat, n \in T PROVE n + 1 \in T
    <2> DEFINE S == FirstOnes(F, n)
               N == FirstOnes(F, n + 1)
    <2>1. S \in SUBSET F /\ IsFiniteSet(S) /\ Cardinality(S) = Count(n)
      BY <1>5, <1>8
    <2>2. \A k \in F : k \in S <=> Cardinality(B(k)) < n
      BY <1>2
    <2>3. \A k \in F : k \in N <=> Cardinality(B(k)) < n + 1
      BY <1>2
    <2>4. N \in SUBSET F
      BY <1>5
    <2>5. \A k \in S, j \in F : j < k => j \in S
      BY <1>6
    <2> HIDE DEF S, N, B
    <2>6. CASE S = F
      <3>1. \A k \in F : k \in N
        BY <1>1, <2>2, <2>3, <2>6
      <3>2. N = F
        BY <2>4, <3>1
      <3>3. Cardinality(F) <= n
        BY <1>4, <2>1, <2>6
      <3> QED
        BY <1>4, <3>2, <3>3 DEF N
    <2>7. CASE S # F
      <3>1. PICK k \in F \ S : \A j \in F \ S : k <= j
        <4>1. F \ S \subseteq Nat /\ F \ S # {}
          BY <2>1, <2>7
        <4> QED
          BY <4>1, LeastNat
      <3>2. B(k) = S
        <4>1. \A j \in B(k) : j \in S
          <5> SUFFICES ASSUME NEW j \in F, j < k, j \notin S PROVE FALSE
            BY DEF B
          <5> QED
            BY <3>1
        <4>2. \A j \in S : j \in B(k)
          <5> SUFFICES ASSUME NEW j \in S PROVE j < k
            BY <2>1 DEF B
          <5>1. j # k /\ ~(k < j) /\ j \in Nat /\ k \in Nat
            BY <2>1, <2>5, <3>1
          <5> QED
            BY <5>1
        <4>3. B(k) \subseteq S /\ S \subseteq B(k)
          BY <4>1, <4>2
        <4> QED
          BY <4>3
      <3>3. Cardinality(S) < Cardinality(F)
        <4>1. Cardinality(S) <= Cardinality(F) /\ Cardinality(S) # Cardinality(F)
          BY <2>1, <2>7, FS_Subset
        <4>2. Cardinality(S) \in Nat
          BY <2>1, FS_CardinalityType
        <4> QED
          BY <1>4, <4>1, <4>2
      <3>4. Cardinality(S) = n /\ n < Cardinality(F)
        BY <1>4, <2>1, <3>3
      <3>5. k \in N
        BY <2>3, <3>1, <3>2, <3>4
      <3>6. ASSUME NEW j \in F, j \notin S, j # k PROVE j \notin N
        <4>1. k < j
          <5>1. k <= j /\ k \in Nat /\ j \in Nat
            BY <3>1, <3>6
          <5> QED
            BY <3>6, <5>1
        <4>2. S \cup {k} \in SUBSET B(j)
          <5>1. ASSUME NEW i \in S PROVE i \in B(j)
            <6>1. i < k /\ i \in F
              BY <3>2 DEF B
            <6>2. i \in Nat /\ j \in Nat /\ k \in Nat
              BY <2>1, <3>1, <5>1
            <6>3. i < j
              BY <4>1, <6>1, <6>2
            <6> QED
              BY <6>1, <6>3 DEF B
          <5>2. k \in B(j)
            BY <3>1, <4>1 DEF B
          <5> QED
            BY <5>1, <5>2
        <4>3. Cardinality(S \cup {k}) = n + 1
          BY <2>1, <3>1, <3>4, FS_AddElement
        <4>4. n + 1 <= Cardinality(B(j)) /\ Cardinality(B(j)) \in Nat
          BY <1>1, <4>2, <4>3, FS_Subset
        <4> QED
          BY <2>3, <3>6, <4>4
      <3>7. ASSUME NEW j \in S PROVE j \in N
        BY <1>1, <2>1, <2>2, <2>3, <3>7
      <3>8. N = S \cup {k}
        <4>1. N \subseteq S \cup {k}
          BY <2>4, <3>6
        <4>2. S \cup {k} \subseteq N
          BY <3>5, <3>7
        <4> QED
          BY <4>1, <4>2
      <3>9. Cardinality(N) = n + 1
        BY <2>1, <3>1, <3>4, <3>8, FS_AddElement
      <3>10. n + 1 <= Cardinality(F)
        BY <1>4, <3>4
      <3> QED
        BY <3>9, <3>10 DEF N
    <2> QED
      BY <2>6, <2>7
  <1>9. m \in T
    <2> HIDE DEF T
    <2> QED
      BY <1>7, <1>8, NatInduct
  <1>10. Cardinality(FirstOnes(F, m)) = Min({m, Cardinality(F)})
    BY <1>4, <1>9, MinOfTwo
  <1> QED
    BY <1>5, <1>6, <1>10
=============================================================================
