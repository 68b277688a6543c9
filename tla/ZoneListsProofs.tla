-------------------------- MODULE ZoneListsProofs --------------------------
(***************************************************************************)
(* What the strategies by zones have in common (ZoneStrategy), for any     *)
(* number of descriptors and zones and any size of batches: the first part *)
(* is about their linked lists, the second about what a call does to       *)
(* lists, counters, heat and stamps.                                       *)
(***************************************************************************)
EXTENDS ZoneStrategy, ListTheorems

Ends == Desps \cup {Nil}

Links == [pre : [Desps -> Ends], next : [Desps -> Ends],
          head : [Names -> Ends], tail : [Names -> Ends]]

\* List c of links l.
View(l, c) == [first |-> l.head[c], last |-> l.tail[c], next |-> l.next, pre |-> l.pre]

\* The links l are those of the lists L: each descriptor is in one of them at
\* most, and in none when it has no links.
Chained(l, L) ==
  /\ l \in Links /\ L \in [Names -> Seq(Desps)]
  /\ \A c \in Names : ListIs(View(l, c), L[c], ToSet(L[c]), Nil, Desps)
  /\ \A c, e \in Names : c # e => ToSet(L[c]) \cap ToSet(L[e]) = {}
  /\ \A d \in Desps : (\A c \in Names : d \notin ToSet(L[c])) => l.next[d] = Nil /\ l.pre[d] = Nil

LEMMA NilIsNone == Nil \notin Desps
  BY DespListsAssumption

LEMMA EmptyChained == Chained(NoLinks(Names), [c \in Names |-> << >>])
  <1> DEFINE l == NoLinks(Names)
             L == [c \in Names |-> << >>]
  <1>1. l \in Links /\ L \in [Names -> Seq(Desps)]
    BY DEF NoLinks, Links, Ends
  <1>2. \A c \in Names : L[c] = << >> /\ ToSet(L[c]) = {}
    BY DEF ToSet
  <1>3. ASSUME NEW c \in Names PROVE ListIs(View(l, c), << >>, {}, Nil, Desps)
    <2>1. Linked(View(l, c), << >>, Nil)
      BY DEF Linked, View, NoLinks
    <2>2. IsInjective(<< >>) /\ ToSet(<< >>) = {} /\ << >> \in Seq(Desps)
      BY DEF IsInjective, ToSet
    <2> QED
      BY <2>1, <2>2 DEF ListIs
  <1>4. \A d \in Desps : l.next[d] = Nil /\ l.pre[d] = Nil
    BY DEF NoLinks
  <1> HIDE DEF l, L
  <1> QED
    BY <1>1, <1>2, <1>3, <1>4 DEF Chained, l, L

\* What the walks show.
LEMMA ChainedShown ==
  ASSUME NEW l, NEW L, Chained(l, L), NEW c \in Names
  PROVE  Listed(l, c) = L[c] /\ WalksAgree(l, c)
  <1> DEFINE v == View(l, c)
             s == L[c]
             m == ToSet(s)
             n == Cardinality(Desps)
  <1>1. ListIs(v, s, m, Nil, Desps)
    BY DEF Chained
  <1>2. DOMAIN v.next = Desps /\ DOMAIN v.pre = Desps
    BY DEF Chained, Links, View
  <1>3. IsFiniteSet(Desps) /\ n \in Nat /\ Cardinality(Desps) <= n + 1
    BY ZoneStrategyAssumption, FS_CardinalityType
  <1>4. v.first = l.head[c] /\ v.next = l.next /\ v.last = l.tail[c] /\ v.pre = l.pre
    BY DEF View
  <1> HIDE DEF v, s, m, n
  <1>5. Walk(v.first, v.next, Nil, n) = s /\ Walk(v.last, v.pre, Nil, n) = Reverse(s)
    BY <1>1, <1>2, <1>3, NilIsNone, ListShown
  <1> QED
    BY <1>4, <1>5 DEF Listed, WalksAgree, Chain, s, n

\* The ends of a list.
LEMMA ChainedEnds ==
  ASSUME NEW l, NEW L, Chained(l, L), NEW c \in Names
  PROVE  /\ L[c] \in Seq(Desps) /\ IsInjective(L[c]) /\ Len(L[c]) \in Nat
         /\ IsFiniteSet(ToSet(L[c])) /\ Cardinality(ToSet(L[c])) = Len(L[c])
         /\ l.head[c] = Nil <=> Len(L[c]) = 0
         /\ l.tail[c] = Nil <=> Len(L[c]) = 0
         /\ Len(L[c]) > 0 => /\ l.tail[c] = L[c][Len(L[c])] /\ l.tail[c] \in ToSet(L[c])
                             /\ l.head[c] = L[c][1]
         /\ Len(L[c]) = 0 <=> ToSet(L[c]) = {}
         /\ ToSet(L[c]) \subseteq Desps
  <1> DEFINE s == L[c]
  <1>1. /\ s \in Seq(Desps) /\ IsInjective(s) /\ Len(s) \in Nat
        /\ Linked(View(l, c), s, Nil)
    BY DEF Chained, ListIs
  <1>2. IsFiniteSet(ToSet(s)) /\ Cardinality(ToSet(s)) = Len(s)
    BY <1>1, ToSetFinite
  <1>3. \A i \in 1 .. Len(s) : s[i] \in Desps /\ s[i] \in ToSet(s)
    BY <1>1, InToSet
  <1>4. /\ l.head[c] = IF s = << >> THEN Nil ELSE s[1]
        /\ l.tail[c] = IF s = << >> THEN Nil ELSE s[Len(s)]
    BY <1>1 DEF Linked, View
  <1>5. s = << >> <=> Len(s) = 0
    BY <1>1
  <1>6. Len(s) > 0 => 1 \in 1 .. Len(s) /\ Len(s) \in 1 .. Len(s)
    BY <1>1
  <1>7. Len(s) = 0 <=> ToSet(s) = {}
    BY <1>2, FS_EmptySet
  <1>8. ToSet(s) \subseteq Desps
    BY <1>1, InToSet
  <1> HIDE DEF s
  <1>9. (l.head[c] = Nil <=> Len(s) = 0) /\ (l.tail[c] = Nil <=> Len(s) = 0)
    BY <1>1, <1>3, <1>4, <1>5, <1>6, NilIsNone
  <1> QED
    BY <1>1, <1>2, <1>3, <1>4, <1>5, <1>6, <1>7, <1>8, <1>9 DEF s

\* Descriptors are put in front of a list and taken out of it.
LEMMA KeptChained ==
  ASSUME NEW l, NEW L, Chained(l, L), NEW c \in Names, NEW d \in Desps,
         \A e \in Names : d \notin ToSet(L[e])
  PROVE  Chained(WithHead(l, d, c), [L EXCEPT ![c] = <<d>> \o @])
  <1> DEFINE l2 == WithHead(l, d, c)
             h == l.head[c]
             L2 == [L EXCEPT ![c] = <<d>> \o @]
  <1>1. /\ l \in Links /\ L \in [Names -> Seq(Desps)]
        /\ l.next[d] = Nil /\ l.pre[d] = Nil
    BY DEF Chained
  <1>n. Nil \notin Desps /\ d # Nil
    BY NilIsNone
  <1>2. /\ h \in Ends /\ (h # Nil => h \in ToSet(L[c]) /\ h \in Desps /\ h # d)
    <2>1. L[c] \in Seq(Desps) /\ (h # Nil => Len(L[c]) > 0 /\ h = L[c][1])
      BY ChainedEnds
    <2>2. Len(L[c]) > 0 => L[c][1] \in ToSet(L[c]) /\ L[c][1] \in Desps
      <3>1. \A i \in 1 .. Len(L[c]) : L[c][i] \in ToSet(L[c]) /\ L[c][i] \in Desps
        BY <2>1, InToSet
      <3>2. Len(L[c]) > 0 => 1 \in 1 .. Len(L[c])
        BY <2>1
      <3> QED
        BY <3>1, <3>2
    <2> QED
      BY <2>1, <2>2 DEF Ends
  <1>3. /\ l2 \in Links
        /\ l2.head = [l.head EXCEPT ![c] = d]
        /\ l2.tail = IF h = Nil THEN [l.tail EXCEPT ![c] = d] ELSE l.tail
        /\ l2.next[d] = h /\ l2.pre[d] = Nil
        /\ h # Nil => l2.pre[h] = d
        /\ \A e \in Desps \ {d} : l2.next[e] = l.next[e] /\ (e # h => l2.pre[e] = l.pre[e])
    <2>1. CASE h = Nil
      BY <1>1, <1>n, <2>1 DEF WithHead, Links, Ends
    <2>2. CASE h # Nil
      <3>1. l2 = [pre |-> [[l.pre EXCEPT ![d] = Nil] EXCEPT ![h] = d],
                  next |-> [l.next EXCEPT ![d] = h],
                  head |-> [l.head EXCEPT ![c] = d], tail |-> l.tail]
        BY <1>1, <2>2 DEF WithHead, Links
      <3> QED
        BY <1>1, <1>2, <1>n, <2>2, <3>1 DEF Links, Ends
    <2> QED
      BY <2>1, <2>2
  <1> HIDE DEF l2
  <1>4. PutInFront(View(l, c), View(l2, c), d, Nil, Desps)
    BY <1>1, <1>3 DEF PutInFront, View, Links
  <1>5. ListIs(View(l2, c), <<d>> \o L[c], ToSet(L[c]) \cup {d}, Nil, Desps)
    <2>1. ListIs(View(l, c), L[c], ToSet(L[c]), Nil, Desps)
      BY DEF Chained
    <2>2. d \in Desps \ ToSet(L[c])
      OBVIOUS
    <2> QED
      BY <1>4, <1>n, <2>1, <2>2, FrontList
  <1>6. /\ L2 \in [Names -> Seq(Desps)] /\ L2[c] = <<d>> \o L[c] /\ ToSet(L2[c]) = ToSet(L[c]) \cup {d}
        /\ \A e \in Names \ {c} : L2[e] = L[e]
    <2>1. <<d>> \o L[c] \in Seq(Desps)
      BY <1>1
    <2>2. ToSet(<<d>> \o L[c]) = ToSet(L[c]) \cup {d}
      BY <1>5 DEF ListIs
    <2> QED
      BY <1>1, <2>1, <2>2
  <1> HIDE DEF L2
  <1>7. ASSUME NEW e \in Names \ {c} PROVE ListIs(View(l2, e), L[e], ToSet(L[e]), Nil, Desps)
    <2>1. ListIs(View(l, e), L[e], ToSet(L[e]), Nil, Desps)
      BY DEF Chained
    <2>2. View(l2, e).first = View(l, e).first /\ View(l2, e).last = View(l, e).last
      BY <1>1, <1>3 DEF View, Links
    <2>3. \A x \in ToSet(L[e]) : x \in Desps \ {d} /\ x # h
      <3>1. ToSet(L[e]) \subseteq Desps
        BY ChainedEnds
      <3>2. ToSet(L[e]) \cap ToSet(L[c]) = {}
        BY <1>7 DEF Chained
      <3> QED
        BY <1>2, <1>n, <3>1, <3>2
    <2>4. \A x \in ToSet(L[e]) : View(l2, e).next[x] = View(l, e).next[x]
                                /\ View(l2, e).pre[x] = View(l, e).pre[x]
      BY <1>3, <2>3 DEF View
    <2> QED
      BY <2>1, <2>2, <2>4, ListKept
  <1>8. \A e \in Names : ListIs(View(l2, e), L2[e], ToSet(L2[e]), Nil, Desps)
    <2> SUFFICES ASSUME NEW e \in Names PROVE ListIs(View(l2, e), L2[e], ToSet(L2[e]), Nil, Desps)
      OBVIOUS
    <2>1. CASE e = c
      BY <1>5, <1>6, <2>1
    <2>2. CASE e # c
      BY <1>6, <1>7, <2>2
    <2> QED
      BY <2>1, <2>2
  <1>9. \A e, f \in Names : e # f => ToSet(L2[e]) \cap ToSet(L2[f]) = {}
    <2>1. \A e, f \in Names : e # f => ToSet(L[e]) \cap ToSet(L[f]) = {}
      BY DEF Chained
    <2>2. \A e \in Names : ToSet(L2[e]) = IF e = c THEN ToSet(L[e]) \cup {d} ELSE ToSet(L[e])
      BY <1>6
    <2> HIDE <1>5, <1>6, <1>7, <1>8
    <2> QED
      BY <2>1, <2>2, ZenonT(40)
  <1>10. \A x \in Desps : (\A e \in Names : x \notin ToSet(L2[e])) => l2.next[x] = Nil /\ l2.pre[x] = Nil
    <2> SUFFICES ASSUME NEW x \in Desps, \A e \in Names : x \notin ToSet(L2[e])
                 PROVE  l2.next[x] = Nil /\ l2.pre[x] = Nil
      OBVIOUS
    <2>1. x # d /\ \A e \in Names : x \notin ToSet(L[e])
      BY <1>6
    <2>2. x # h
      BY <1>2, <1>n, <2>1
    <2>3. l.next[x] = Nil /\ l.pre[x] = Nil
      BY <2>1 DEF Chained
    <2> QED
      BY <1>3, <2>1, <2>2, <2>3
  <1> QED
    BY <1>3, <1>6, <1>8, <1>9, <1>10 DEF Chained, l2, L2

WithList(L, c, s) == [L EXCEPT ![c] = s]

\* The links without d, which was in list c, and what is left of the list.
TakesOut(l, L, c, d) ==
  /\ Chained(Without(l, d, c), WithList(L, c, RemoveFirst(L[c], d)))
  /\ ToSet(RemoveFirst(L[c], d)) = ToSet(L[c]) \ {d}
  /\ d = L[c][Len(L[c])] => RemoveFirst(L[c], d) = SubSeq(L[c], 1, Len(L[c]) - 1)

LEMMA TakenChained ==
  ASSUME NEW l, NEW L, Chained(l, L), NEW c \in Names, NEW d \in ToSet(L[c])
  PROVE  TakesOut(l, L, c, d)
  <1> DEFINE l2 == Without(l, d, c)
             p == l.pre[d]
             n == l.next[d]
             s == L[c]
             r == RemoveFirst(s, d)
             L2 == [L EXCEPT ![c] = r]
  <1>1. l \in Links /\ L \in [Names -> Seq(Desps)] /\ ListIs(View(l, c), s, ToSet(s), Nil, Desps)
    BY DEF Chained
  <1>n. Nil \notin Desps
    BY NilIsNone
  <1>2. s \in Seq(Desps) /\ IsInjective(s) /\ Len(s) \in Nat /\ ToSet(s) \subseteq Desps /\ d \in Desps
    BY ChainedEnds
  <1>3. PICK k \in 1 .. Len(s) : s[k] = d
    BY <1>2, InToSet
  <1>4. /\ p \in Ends /\ n \in Ends /\ p # d /\ n # d
        /\ p # Nil => p \in ToSet(s)
        /\ n # Nil => n \in ToSet(s)
    <2>1. ListOf(View(l, c), ToSet(s), Nil, Desps)
      BY <1>1, <1>2 DEF ListOf
    <2>2. /\ View(l, c).next[d] \in (ToSet(s) \ {d}) \cup {Nil}
          /\ View(l, c).pre[d] \in (ToSet(s) \ {d}) \cup {Nil}
      BY <1>n, <2>1, ListOfLinks
    <2> QED
      BY <1>2, <1>n, <2>2 DEF View, Ends
  <1>5. l2 = [pre |-> [(IF n = Nil THEN l.pre ELSE [l.pre EXCEPT ![n] = p]) EXCEPT ![d] = Nil],
              next |-> [(IF p = Nil THEN l.next ELSE [l.next EXCEPT ![p] = n]) EXCEPT ![d] = Nil],
              head |-> IF p = Nil THEN [l.head EXCEPT ![c] = n] ELSE l.head,
              tail |-> IF n = Nil THEN [l.tail EXCEPT ![c] = p] ELSE l.tail]
    <2> DEFINE N1 == IF p = Nil THEN l.next ELSE [l.next EXCEPT ![p] = n]
               H1 == IF p = Nil THEN [l.head EXCEPT ![c] = n] ELSE l.head
               P2 == IF n = Nil THEN l.pre ELSE [l.pre EXCEPT ![n] = p]
               T2 == IF n = Nil THEN [l.tail EXCEPT ![c] = p] ELSE l.tail
               l1 == IF p = Nil THEN [l EXCEPT !.head[c] = n] ELSE [l EXCEPT !.next[p] = n]
               m == IF n = Nil THEN [l1 EXCEPT !.tail[c] = p] ELSE [l1 EXCEPT !.pre[n] = p]
    <2>1. l2 = [m EXCEPT !.pre[d] = Nil, !.next[d] = Nil]
      BY DEF Without
    <2>2. l1 = [pre |-> l.pre, next |-> N1, head |-> H1, tail |-> l.tail]
      <3>1. CASE p = Nil
        BY <1>1, <3>1 DEF Links
      <3>2. CASE p # Nil
        BY <1>1, <3>2 DEF Links
      <3> QED
        BY <3>1, <3>2
    <2>3. m = [pre |-> P2, next |-> N1, head |-> H1, tail |-> T2]
      <3> HIDE DEF l1, N1, H1
      <3>1. CASE n = Nil
        BY <2>2, <3>1
      <3>2. CASE n # Nil
        BY <2>2, <3>2
      <3> QED
        BY <3>1, <3>2
    <2> HIDE DEF N1, H1, P2, T2, m, l1, l2
    <2>4. l2 = [pre |-> [P2 EXCEPT ![d] = Nil], next |-> [N1 EXCEPT ![d] = Nil],
                head |-> H1, tail |-> T2]
      BY <2>1, <2>3
    <2> QED
      BY <2>4 DEF N1, H1, P2, T2
  <1>6. /\ l2 \in Links
        /\ \A e \in Names : l2.head[e] = IF p = Nil /\ e = c THEN n ELSE l.head[e]
        /\ \A e \in Names : l2.tail[e] = IF n = Nil /\ e = c THEN p ELSE l.tail[e]
        /\ l2.next[d] = Nil /\ l2.pre[d] = Nil
        /\ \A e \in Desps \ {d} : /\ l2.next[e] = IF e = p THEN n ELSE l.next[e]
                                  /\ l2.pre[e] = IF e = n THEN p ELSE l.pre[e]
    <2> HIDE DEF l2, p, n
    <2>1. /\ l2.head = IF p = Nil THEN [l.head EXCEPT ![c] = n] ELSE l.head
          /\ l2.tail = IF n = Nil THEN [l.tail EXCEPT ![c] = p] ELSE l.tail
          /\ l2.next = [(IF p = Nil THEN l.next ELSE [l.next EXCEPT ![p] = n]) EXCEPT ![d] = Nil]
          /\ l2.pre = [(IF n = Nil THEN l.pre ELSE [l.pre EXCEPT ![n] = p]) EXCEPT ![d] = Nil]
      BY <1>5
    <2>2. /\ l.pre \in [Desps -> Ends] /\ l.next \in [Desps -> Ends]
          /\ l.head \in [Names -> Ends] /\ l.tail \in [Names -> Ends]
      BY <1>1 DEF Links
    <2>3. \A e \in Names : l2.head[e] = IF p = Nil /\ e = c THEN n ELSE l.head[e]
      BY <1>4, <2>1, <2>2
    <2>4. \A e \in Names : l2.tail[e] = IF n = Nil /\ e = c THEN p ELSE l.tail[e]
      BY <1>4, <2>1, <2>2
    <2>5. l2.head \in [Names -> Ends] /\ l2.tail \in [Names -> Ends]
      BY <1>4, <2>1, <2>2
    <2>6. l2.next \in [Desps -> Ends] /\ l2.pre \in [Desps -> Ends]
      BY <1>4, <2>1, <2>2, ZenonT(40) DEF Ends
    <2>7. l2.next[d] = Nil /\ l2.pre[d] = Nil
      BY <1>2, <2>1, <2>2
    <2>8. \A e \in Desps \ {d} : /\ l2.next[e] = IF e = p THEN n ELSE l.next[e]
                                 /\ l2.pre[e] = IF e = n THEN p ELSE l.pre[e]
      BY <1>n, <2>1, <2>2
    <2>9. l2 = [pre |-> l2.pre, next |-> l2.next, head |-> l2.head, tail |-> l2.tail]
      BY <1>5
    <2> QED
      BY <2>3, <2>4, <2>5, <2>6, <2>7, <2>8, <2>9 DEF Links
  <1> HIDE DEF l2
  <1>7. TakenOut(View(l, c), View(l2, c), d, Nil, Desps)
    BY <1>6 DEF TakenOut, View
  <1>8. /\ r \in Seq(Desps) /\ Len(r) = Len(s) - 1
        /\ \A i \in 1 .. Len(r) : r[i] = IF i < k THEN s[i] ELSE s[i + 1]
    BY <1>2, <1>3, RemoveFirstIs
  <1>9. r = RemoveAt(s, k)
    <2>1. {i \in 1 .. Len(s) : s[i] = d} = {k}
      BY <1>2, <1>3 DEF IsInjective
    <2>2. Min({k}) = k
      BY DEF Min
    <2>3. SelectInSeq(s, LAMBDA v : v = d) = k
      BY <2>1, <2>2 DEF SelectInSeq
    <2> QED
      BY <1>3, <2>3 DEF RemoveFirst
  <1>10. ListIs(View(l2, c), r, ToSet(s) \ {d}, Nil, Desps)
         /\ \A e \in Desps \ ToSet(s) : l2.next[e] = l.next[e] /\ l2.pre[e] = l.pre[e]
    <2>1. ListIs(View(l2, c), RemoveAt(s, k), ToSet(s) \ {d}, Nil, Desps)
      <3> DEFINE m == ToSet(s)
                 v == View(l, c)
                 v2 == View(l2, c)
      <3>1. ListIs(v, s, m, Nil, Desps) /\ TakenOut(v, v2, d, Nil, Desps) /\ s \in Seq(Desps)
        BY <1>1, <1>2, <1>7
      <3> HIDE DEF m, v, v2, s
      <3>2. k \in 1 .. Len(s) /\ d = s[k]
        BY <1>3
      <3>3. ListIs(v2, RemoveAt(s, k), m \ {d}, Nil, Desps)
        BY <1>n, <3>1, <3>2, TakenList, Zenon
      <3> QED
        BY <3>3 DEF m, v, v2
    <2>2. ASSUME NEW e \in Desps \ ToSet(s) PROVE l2.next[e] = l.next[e] /\ l2.pre[e] = l.pre[e]
      <3>1. e \in Desps \ {d} /\ e # p /\ e # n
        BY <1>4, <1>n
      <3> QED
        BY <1>6, <3>1
    <2> QED
      BY <1>9, <2>1, <2>2
  <1>11. /\ L2 \in [Names -> Seq(Desps)] /\ L2[c] = r /\ ToSet(r) = ToSet(s) \ {d}
         /\ \A e \in Names \ {c} : L2[e] = L[e]
    <2>1. ToSet(r) = ToSet(s) \ {d}
      BY <1>10 DEF ListIs
    <2> QED
      BY <1>1, <1>8, <2>1
  <1>12. ASSUME d = s[Len(s)] PROVE r = SubSeq(s, 1, Len(s) - 1)
    <2>1. k = Len(s)
      BY <1>2, <1>3, <1>12 DEF IsInjective
    <2>2. \A i \in 1 .. Len(r) : r[i] = s[i]
      BY <1>2, <1>8, <2>1
    <2>3. SubSeq(s, 1, Len(s) - 1) \in Seq(Desps) /\ Len(SubSeq(s, 1, Len(s) - 1)) = Len(s) - 1
          /\ \A i \in 1 .. Len(s) - 1 : SubSeq(s, 1, Len(s) - 1)[i] = s[i]
      BY <1>2, <1>3
    <2> DEFINE q == SubSeq(s, 1, Len(s) - 1)
    <2> HIDE DEF q, r, s
    <2> QED
      BY <1>8, <2>2, <2>3 DEF q
  <1> HIDE DEF L2, r, s, p, n
  <1>13. ASSUME NEW e \in Names \ {c}
         PROVE  ListIs(View(l2, e), L[e], ToSet(L[e]), Nil, Desps) /\ ToSet(L[e]) \cap ToSet(s) = {}
    <2>1. ListIs(View(l, e), L[e], ToSet(L[e]), Nil, Desps)
      BY DEF Chained
    <2>2. View(l2, e).first = View(l, e).first /\ View(l2, e).last = View(l, e).last
      BY <1>6 DEF View
    <2>3. ToSet(L[e]) \subseteq Desps
      BY ChainedEnds
    <2>4. ToSet(L[e]) \cap ToSet(s) = {}
      BY <1>13 DEF Chained, s
    <2>5. \A x \in ToSet(L[e]) : View(l2, e).next[x] = View(l, e).next[x]
                                /\ View(l2, e).pre[x] = View(l, e).pre[x]
      BY <1>10, <2>3, <2>4 DEF View
    <2> QED
      BY <2>1, <2>2, <2>4, <2>5, ListKept
  <1>14. \A e \in Names : ListIs(View(l2, e), L2[e], ToSet(L2[e]), Nil, Desps)
    <2> SUFFICES ASSUME NEW e \in Names PROVE ListIs(View(l2, e), L2[e], ToSet(L2[e]), Nil, Desps)
      OBVIOUS
    <2>1. CASE e = c
      BY <1>10, <1>11, <2>1
    <2>2. CASE e # c
      BY <1>11, <1>13, <2>2
    <2> QED
      BY <2>1, <2>2
  <1>15. \A e, f \in Names : e # f => ToSet(L2[e]) \cap ToSet(L2[f]) = {}
    <2>1. \A e, f \in Names : e # f => ToSet(L[e]) \cap ToSet(L[f]) = {}
      BY DEF Chained
    <2>2. \A e \in Names : ToSet(L2[e]) \subseteq ToSet(L[e])
      BY <1>11 DEF s
    <2> HIDE <1>11, <1>13, <1>14, <1>10
    <2> QED
      BY <2>1, <2>2
  <1>16. \A x \in Desps : (\A e \in Names : x \notin ToSet(L2[e])) => l2.next[x] = Nil /\ l2.pre[x] = Nil
    <2> SUFFICES ASSUME NEW x \in Desps, x # d, \A e \in Names : x \notin ToSet(L2[e])
                 PROVE  l2.next[x] = Nil /\ l2.pre[x] = Nil
      BY <1>6
    <2>1. \A e \in Names : x \notin ToSet(L[e])
      BY <1>11 DEF s
    <2>2. l.next[x] = Nil /\ l.pre[x] = Nil
      BY <2>1 DEF Chained
    <2>3. x \in Desps \ ToSet(s)
      BY <2>1 DEF s
    <2> QED
      BY <1>10, <2>2, <2>3
  <1>17. Chained(l2, L2)
    BY <1>6, <1>11, <1>14, <1>15, <1>16 DEF Chained
  <1>18. L2 = WithList(L, c, RemoveFirst(L[c], d))
    BY DEF L2, r, s, WithList
  <1> QED
    BY <1>11, <1>12, <1>17, <1>18 DEF r, s, l2, TakesOut

\* m descriptors have been taken from the tail of list c.
Kept(L, c, m) == SubSeq(L[c], 1, Len(L[c]) - m)

TakenFrom(t, L, c, m) ==
  /\ Chained(t.links, WithList(L, c, Kept(L, c, m)))
  /\ t.batch \in Seq(Desps) /\ IsInjective(t.batch) /\ Len(t.batch) = m
  /\ ToSet(t.batch) \cup ToSet(Kept(L, c, m)) = ToSet(L[c])
  /\ ToSet(t.batch) \cap ToSet(Kept(L, c, m)) = {}

\* One more than m, but not more than there are.
OneMore(L, c, m) == IF m < Len(L[c]) THEN m + 1 ELSE m

LEMMA KeptIs ==
  ASSUME NEW L \in [Names -> Seq(Desps)], NEW c \in Names, NEW m \in 0 .. Len(L[c])
  PROVE  LET L2 == WithList(L, c, Kept(L, c, m))
         IN  /\ Kept(L, c, m) \in Seq(Desps) /\ Len(Kept(L, c, m)) = Len(L[c]) - m
             /\ L2 \in [Names -> Seq(Desps)] /\ L2[c] = Kept(L, c, m)
             /\ \A s : WithList(L2, c, s) = WithList(L, c, s)
  <1>1. L[c] \in Seq(Desps) /\ Len(L[c]) \in Nat
    OBVIOUS
  <1>2. Kept(L, c, m) \in Seq(Desps) /\ Len(Kept(L, c, m)) = Len(L[c]) - m
    BY <1>1 DEF Kept
  <1> QED
    BY <1>2 DEF WithList

LEMMA TailRound ==
  ASSUME NEW L \in [Names -> Seq(Desps)], NEW c \in Names, NEW m \in 0 .. Len(L[c]), NEW t,
         t = [links |-> t.links, batch |-> t.batch], TakenFrom(t, L, c, m)
  PROVE  LET u == WithoutTail(t, c)
         IN  u = [links |-> u.links, batch |-> u.batch] /\ TakenFrom(u, L, c, OneMore(L, c, m))
  <1> DEFINE s == Kept(L, c, m)
             L2 == WithList(L, c, s)
             d == t.links.tail[c]
             u == WithoutTail(t, c)
             n == Len(L[c])
  <1>1. /\ s \in Seq(Desps) /\ Len(s) = n - m /\ n \in Nat
        /\ L2 \in [Names -> Seq(Desps)] /\ L2[c] = s
        /\ \A x : WithList(L2, c, x) = WithList(L, c, x)
    BY KeptIs
  <1>2. Chained(t.links, L2)
    BY DEF TakenFrom
  <1> HIDE DEF L2, s
  <1>3. /\ d = Nil <=> Len(s) = 0
        /\ Len(s) > 0 => d = s[Len(s)] /\ d \in ToSet(s) /\ d \in Desps
    BY <1>1, <1>2, ChainedEnds
  <1>4. CASE m = n
    <2>1. d = Nil
      BY <1>1, <1>3, <1>4
    <2>2. u = t
      BY <2>1 DEF WithoutTail
    <2>3. OneMore(L, c, m) = m
      BY <1>1, <1>4 DEF OneMore
    <2> QED
      BY <2>2, <2>3
  <1>5. CASE m < n
    <2>1. d \in ToSet(s) /\ d = s[Len(s)] /\ d \in Desps /\ d # Nil /\ Len(s) > 0
      BY <1>1, <1>3, <1>5
    <2>2. u = [links |-> Without(t.links, d, c), batch |-> Append(t.batch, d)]
      BY <2>1 DEF WithoutTail
    <2>3. u.links = Without(t.links, d, c) /\ u.batch = Append(t.batch, d)
          /\ u = [links |-> u.links, batch |-> u.batch]
      BY <2>2
    <2> HIDE DEF u
    <2>4. /\ Chained(u.links, WithList(L2, c, RemoveFirst(s, d)))
          /\ ToSet(RemoveFirst(s, d)) = ToSet(s) \ {d}
          /\ RemoveFirst(s, d) = SubSeq(s, 1, Len(s) - 1)
      <3>1. d \in ToSet(L2[c]) /\ d = L2[c][Len(L2[c])]
        BY <1>1, <2>1
      <3> HIDE DEF d
      <3>2. TakesOut(t.links, L2, c, d)
        BY <1>2, <3>1, TakenChained
      <3>a. /\ Chained(Without(t.links, d, c), WithList(L2, c, RemoveFirst(L2[c], d)))
            /\ ToSet(RemoveFirst(L2[c], d)) = ToSet(L2[c]) \ {d}
            /\ d = L2[c][Len(L2[c])] => RemoveFirst(L2[c], d) = SubSeq(L2[c], 1, Len(L2[c]) - 1)
        BY <3>2 DEF TakesOut
      <3>3. RemoveFirst(s, d) = SubSeq(s, 1, Len(s) - 1) /\ ToSet(RemoveFirst(s, d)) = ToSet(s) \ {d}
        BY <1>1, <3>1, <3>a
      <3>4. Chained(u.links, WithList(L2, c, RemoveFirst(s, d)))
        BY <1>1, <2>3, <3>a
      <3> QED
        BY <3>3, <3>4 
    <2>5. RemoveFirst(s, d) = Kept(L, c, m + 1)
      <3>1. SubSeq(s, 1, Len(s) - 1) = SubSeq(L[c], 1, n - (m + 1))
        <4>1. L[c] \in Seq(Desps) /\ n - m \in 0 .. n /\ Len(s) - 1 = n - (m + 1)
          BY <1>1, <1>5
        <4>2. s = SubSeq(L[c], 1, n - m)
          BY DEF s, Kept
        <4> QED
          BY <1>1, <1>5, <4>1, <4>2
      <3> QED
        BY <2>4, <3>1 DEF Kept
    <2>6. Chained(u.links, WithList(L, c, Kept(L, c, m + 1)))
      <3>1. WithList(L2, c, RemoveFirst(s, d)) = WithList(L, c, Kept(L, c, m + 1))
        BY <1>1, <2>5
      <3> QED
        BY <2>4, <3>1
    <2>7. /\ t.batch \in Seq(Desps) /\ IsInjective(t.batch) /\ Len(t.batch) = m
          /\ ToSet(t.batch) \cup ToSet(s) = ToSet(L[c])
          /\ ToSet(t.batch) \cap ToSet(s) = {}
      BY DEF TakenFrom, s
    <2>8. u.batch \in Seq(Desps) /\ Len(u.batch) = m + 1 /\ IsInjective(u.batch)
          /\ ToSet(u.batch) = ToSet(t.batch) \cup {d}
      <3>1. d \notin ToSet(t.batch)
        BY <2>1, <2>7
      <3> QED
        BY <2>1, <2>3, <2>7, <3>1, AppendNew, AppendSet
    <2>9. OneMore(L, c, m) = m + 1
      BY <1>5 DEF OneMore
    <2>10. TakenFrom(u, L, c, m + 1)
      <3>1. /\ ToSet(u.batch) \cup ToSet(Kept(L, c, m + 1)) = ToSet(L[c])
            /\ ToSet(u.batch) \cap ToSet(Kept(L, c, m + 1)) = {}
        BY <2>1, <2>4, <2>5, <2>7, <2>8
      <3> QED
        BY <2>6, <2>8, <3>1 DEF TakenFrom
    <2> QED
      BY <2>3, <2>9, <2>10 DEF u
  <1> QED
    BY <1>1, <1>4, <1>5

\* A function that is defined by recursion on the numbers up to n.
IteratesTo(h, base, step, S, n) ==
  /\ h \in [0 .. n -> S]
  /\ h = [k \in 0 .. n |-> IF k = 0 THEN base ELSE step[k - 1][h[k - 1]]]

LEMMA BoundedIteration ==
  ASSUME NEW S, NEW base \in S, NEW step \in [Nat -> [S -> S]], NEW n \in Nat
  PROVE  \E h : IteratesTo(h, base, step, S, n)
  <1>1. PICK f : Iterates(f, base, step, S)
    BY Iteration
  <1>2. f \in [Nat -> S] /\ f[0] = base /\ \A k \in Nat : f[k + 1] = step[k][f[k]]
    BY <1>1 DEF Iterates
  <1> DEFINE h == [k \in 0 .. n |-> f[k]]
  <1>3. h \in [0 .. n -> S]
    BY <1>2
  <1>4. ASSUME NEW k \in 0 .. n PROVE h[k] = IF k = 0 THEN base ELSE step[k - 1][h[k - 1]]
    <2>1. CASE k = 0
      BY <1>2, <2>1
    <2>2. CASE k # 0
      <3>1. k - 1 \in Nat /\ k - 1 \in 0 .. n /\ (k - 1) + 1 = k
        BY <2>2
      <3>2. h[k] = f[(k - 1) + 1] /\ h[k - 1] = f[k - 1]
        BY <3>1
      <3> QED
        BY <1>2, <2>2, <3>1, <3>2
    <2> QED
      BY <2>1, <2>2
  <1> HIDE DEF h
  <1>5. h = [k \in 0 .. n |-> IF k = 0 THEN base ELSE step[k - 1][h[k - 1]]]
    BY <1>3, <1>4
  <1>6. IteratesTo(h, base, step, S, n)
    BY <1>3, <1>5 DEF IteratesTo
  <1> QED
    BY <1>6

\* The same step each time.
RepeatsTo(h, base, round, S, n) ==
  /\ h \in [0 .. n -> S]
  /\ h = [k \in 0 .. n |-> IF k = 0 THEN base ELSE round[h[k - 1]]]

LEMMA BoundedRepetition ==
  ASSUME NEW S, NEW base \in S, NEW round \in [S -> S], NEW n \in Nat
  PROVE  \E h : RepeatsTo(h, base, round, S, n)
  <1> DEFINE step == [k \in Nat |-> round]
  <1>1. step \in [Nat -> [S -> S]]
    OBVIOUS
  <1>2. \A k \in Nat : step[k] = round
    OBVIOUS
  <1> HIDE DEF step
  <1>3. PICK h \in [0 .. n -> S] :
          h = [k \in 0 .. n |-> IF k = 0 THEN base ELSE step[k - 1][h[k - 1]]]
    <2>1. PICK h : IteratesTo(h, base, step, S, n)
      BY <1>1, BoundedIteration
    <2> QED
      BY <2>1 DEF IteratesTo
  <1>4. \A k \in 0 .. n : h[k] = IF k = 0 THEN base ELSE round[h[k - 1]]
    <2> TAKE k \in 0 .. n
    <2>1. k # 0 => k - 1 \in Nat
      OBVIOUS
    <2> QED
      BY <1>2, <1>3, <2>1
  <1>5. h = [k \in 0 .. n |-> IF k = 0 THEN base ELSE round[h[k - 1]]]
    BY <1>4
  <1>6. RepeatsTo(h, base, round, S, n)
    BY <1>5 DEF RepeatsTo
  <1> QED
    BY <1>6

\* Up to k of them, as many as there are.
UpTo(L, c, k) == IF k <= Len(L[c]) THEN k ELSE Len(L[c])

TailsOf(f, l, c, n) ==
  f = [k \in 0 .. n |-> IF k = 0 THEN [links |-> l, batch |-> << >>] ELSE WithoutTail(f[k - 1], c)]

LEMMA TakeTailsIs ==
  ASSUME NEW l, NEW L, Chained(l, L), NEW c \in Names, NEW n \in Nat
  PROVE  TakenFrom(TakeTails(l, c, n), L, c, UpTo(L, c, n))
  <1> DEFINE isPair(t) == t = [links |-> t.links, batch |-> t.batch]
             S == {t \in [links : Links, batch : Seq(Desps)] :
                     \E m \in 0 .. Len(L[c]) : TakenFrom(t, L, c, m)}
             start == [links |-> l, batch |-> << >>]
             round == [t \in S |-> WithoutTail(t, c)]
             f == CHOOSE f : TailsOf(f, l, c, n)
  <1>1. L \in [Names -> Seq(Desps)] /\ l \in Links /\ Len(L[c]) \in Nat
    BY DEF Chained
  <1>2. isPair(start) /\ TakenFrom(start, L, c, 0)
    <2>1. Kept(L, c, 0) = L[c] /\ WithList(L, c, Kept(L, c, 0)) = L
      BY <1>1 DEF Kept, WithList
    <2>2. << >> \in Seq(Desps) /\ IsInjective(<< >>) /\ ToSet(<< >>) = {} /\ Len(<< >>) = 0
      BY DEF IsInjective, ToSet
    <2>3. start.links = l /\ start.batch = << >> /\ isPair(start)
      OBVIOUS
    <2> HIDE DEF start
    <2> QED
      BY <2>1, <2>2, <2>3 DEF TakenFrom
  <1> HIDE DEF start
  <1>3. ASSUME NEW t, isPair(t), NEW m \in 0 .. Len(L[c]), TakenFrom(t, L, c, m)
        PROVE  /\ isPair(WithoutTail(t, c)) /\ OneMore(L, c, m) \in 0 .. Len(L[c])
               /\ TakenFrom(WithoutTail(t, c), L, c, OneMore(L, c, m))
    <2>1. OneMore(L, c, m) \in 0 .. Len(L[c])
      BY <1>1 DEF OneMore
    <2> QED
      BY <1>1, <1>3, <2>1, TailRound
  <1>4. ASSUME NEW t, isPair(t), NEW m \in 0 .. Len(L[c]), TakenFrom(t, L, c, m) PROVE t \in S
    <2>1. t.links \in Links /\ t.batch \in Seq(Desps)
      BY <1>4 DEF TakenFrom, Chained
    <2>2. t \in [links : Links, batch : Seq(Desps)]
      BY <1>4, <2>1
    <2> QED
      BY <1>4, <2>2
  <1>5. \A t \in S : isPair(t) /\ \E m \in 0 .. Len(L[c]) : TakenFrom(t, L, c, m)
    OBVIOUS
  <1> HIDE DEF S
  <1>6. start \in S
    BY <1>1, <1>2, <1>4
  <1>7. round \in [S -> S] /\ \A t \in S : round[t] = WithoutTail(t, c)
    <2>1. \A t \in S : WithoutTail(t, c) \in S
      <3> TAKE t \in S
      <3> HIDE DEF isPair
      <3> QED
        BY <1>3, <1>4, <1>5
    <2> QED
      BY <2>1
  <1> HIDE DEF round
  <1>8. \E h : TailsOf(h, l, c, n)
    <2>1. PICK h \in [0 .. n -> S] :
            h = [k \in 0 .. n |-> IF k = 0 THEN start ELSE round[h[k - 1]]]
      <3>1. PICK h : RepeatsTo(h, start, round, S, n)
        BY <1>6, <1>7, BoundedRepetition
      <3> QED
        BY <3>1 DEF RepeatsTo
    <2>2. \A k \in 0 .. n : k # 0 => round[h[k - 1]] = WithoutTail(h[k - 1], c)
      <3>1. \A k \in 0 .. n : k # 0 => k - 1 \in 0 .. n
        OBVIOUS
      <3> QED
        BY <1>7, <2>1, <3>1
    <2>3. TailsOf(h, l, c, n)
      BY <2>1, <2>2 DEF TailsOf, start
    <2> QED
      BY <2>3
  <1>9. TailsOf(f, l, c, n)
    BY <1>8
  <1>10. TakeTails(l, c, n) = f[n]
    BY DEF TakeTails, TailsOf
  <1> HIDE DEF f
  <1>11. f[0] = start /\ \A k \in 1 .. n : f[k] = WithoutTail(f[k - 1], c)
    BY <1>9 DEF TailsOf, start
  <1> DEFINE T == {k \in Nat : k <= n => isPair(f[k]) /\ TakenFrom(f[k], L, c, UpTo(L, c, k))}
  <1>12. 0 \in T
    <2>1. UpTo(L, c, 0) = 0
      BY <1>1 DEF UpTo
    <2> QED
      BY <1>2, <1>11, <2>1
  <1>13. ASSUME NEW k \in Nat, k \in T PROVE k + 1 \in T
    <2> SUFFICES ASSUME k + 1 <= n
                 PROVE  isPair(f[k + 1]) /\ TakenFrom(f[k + 1], L, c, UpTo(L, c, k + 1))
      OBVIOUS
    <2>1. k <= n /\ k + 1 \in 1 .. n /\ (k + 1) - 1 = k
      OBVIOUS
    <2>2. f[k + 1] = WithoutTail(f[k], c)
      BY <1>11, <2>1
    <2>3. isPair(f[k]) /\ TakenFrom(f[k], L, c, UpTo(L, c, k))
      BY <1>13, <2>1
    <2>4. UpTo(L, c, k) \in 0 .. Len(L[c]) /\ OneMore(L, c, UpTo(L, c, k)) = UpTo(L, c, k + 1)
      BY <1>1 DEF UpTo, OneMore
    <2> HIDE DEF isPair
    <2>5. isPair(WithoutTail(f[k], c))
          /\ TakenFrom(WithoutTail(f[k], c), L, c, OneMore(L, c, UpTo(L, c, k)))
      BY <1>3, <2>3, <2>4
    <2> QED
      BY <2>2, <2>4, <2>5
  <1>14. Nat \subseteq T
    <2> HIDE DEF T
    <2> QED
      BY <1>12, <1>13, NatInduct
  <1>15. n \in T
    BY <1>14
  <1> QED
    BY <1>10, <1>15

-----------------------------------------------------------------------------
\* The heat of descriptors together.
HeatUses(h, A) == UNION {{d} \X (1 .. h[d]) : d \in A}
HeatSum(h, A) == Cardinality(HeatUses(h, A))

LEMMA HeatOfIs == \A A : HeatOf(A) = HeatSum(heat, A)
  BY DEF HeatOf, HeatSum, HeatUses

LEMMA DespsFinite ==
  ASSUME NEW A, A \subseteq Desps
  PROVE  IsFiniteSet(A) /\ Cardinality(A) \in 0 .. Cardinality(Desps)
  <1>1. IsFiniteSet(Desps)
    BY ZoneStrategyAssumption
  <1>2. IsFiniteSet(A) /\ Cardinality(A) <= Cardinality(Desps)
    BY <1>1, FS_Subset
  <1>3. Cardinality(A) \in Nat /\ Cardinality(Desps) \in Nat
    BY <1>1, <1>2, FS_CardinalityType
  <1> QED
    BY <1>2, <1>3

LEMMA UsesOfOne ==
  ASSUME NEW d, NEW n \in Nat
  PROVE  IsFiniteSet({d} \X (1 .. n)) /\ Cardinality({d} \X (1 .. n)) = n
  <1>1. IsFiniteSet({d}) /\ Cardinality({d}) = 1
    BY FS_Singleton
  <1>2. IsFiniteSet(1 .. n) /\ Cardinality(1 .. n) = n
    BY FS_Interval
  <1> HIDE FS_Singleton, FS_Interval
  <1>3. IsFiniteSet({d} \X (1 .. n))
        /\ Cardinality({d} \X (1 .. n)) = Cardinality({d}) * Cardinality(1 .. n)
    BY <1>1, <1>2, FS_Product
  <1> QED
    BY <1>1, <1>2, <1>3

LEMMA HeatOne ==
  ASSUME NEW h \in [Desps -> Nat], NEW d \in Desps
  PROVE  HeatSum(h, {d}) = h[d]
  <1>1. HeatUses(h, {d}) = {d} \X (1 .. h[d])
    BY DEF HeatUses
  <1> QED
    BY <1>1, UsesOfOne DEF HeatSum

LEMMA HeatFinite ==
  ASSUME NEW A, A \subseteq Desps, NEW h \in [Desps -> Nat]
  PROVE  IsFiniteSet(HeatUses(h, A)) /\ HeatSum(h, A) \in Nat
  <1> DEFINE U == {{d} \X (1 .. h[d]) : d \in A}
             f == [d \in A |-> {d} \X (1 .. h[d])]
  <1>1. f \in Surjection(A, U)
    BY DEF Surjection
  <1>2. IsFiniteSet(A)
    BY DespsFinite
  <1>3. IsFiniteSet(U)
    <2> HIDE DEF U, f
    <2> QED
      BY <1>1, <1>2, FS_Surjection
  <1>4. ASSUME NEW T \in U PROVE IsFiniteSet(T)
    <2>1. PICK d \in A : T = {d} \X (1 .. h[d])
      OBVIOUS
    <2>2. h[d] \in Nat
      OBVIOUS
    <2>3. IsFiniteSet({d} \X (1 .. h[d]))
      BY <2>2, UsesOfOne
    <2> QED
      BY <2>1, <2>3
  <1>5. IsFiniteSet(UNION U)
    <2> HIDE DEF U
    <2>1. \A T \in U : IsFiniteSet(T)
      BY <1>4
    <2> QED
      BY <1>3, <2>1, FS_UNION
  <1> QED
    BY <1>5, FS_CardinalityType DEF HeatUses, HeatSum

LEMMA HeatUnion ==
  ASSUME NEW A, NEW B, A \subseteq Desps, B \subseteq Desps, A \cap B = {}, NEW h \in [Desps -> Nat]
  PROVE  HeatSum(h, A \cup B) = HeatSum(h, A) + HeatSum(h, B)
  <1>1. IsFiniteSet(HeatUses(h, A)) /\ IsFiniteSet(HeatUses(h, B))
        /\ HeatSum(h, A) \in Nat /\ HeatSum(h, B) \in Nat
    BY HeatFinite
  <1>2. HeatUses(h, A \cup B) = HeatUses(h, A) \cup HeatUses(h, B)
    BY DEF HeatUses
  <1>3. HeatUses(h, A) \cap HeatUses(h, B) = {}
    <2> SUFFICES ASSUME NEW u \in HeatUses(h, A), u \in HeatUses(h, B) PROVE FALSE
      OBVIOUS
    <2>1. PICK d \in A : u \in {d} \X (1 .. h[d])
      BY DEF HeatUses
    <2>2. PICK e \in B : u \in {e} \X (1 .. h[e])
      BY DEF HeatUses
    <2>3. u[1] = d /\ u[1] = e
      BY <2>1, <2>2
    <2> QED
      BY <2>3
  <1>4. Cardinality(HeatUses(h, A) \cup HeatUses(h, B))
          = Cardinality(HeatUses(h, A)) + Cardinality(HeatUses(h, B)) - Cardinality({})
    BY <1>1, <1>3, FS_Union
  <1>5. Cardinality({}) = 0
    BY FS_EmptySet
  <1>6. HeatSum(h, A \cup B) = HeatSum(h, A) + HeatSum(h, B) - 0
    BY <1>2, <1>4, <1>5 DEF HeatSum
  <1> QED
    BY <1>1, <1>6

LEMMA HeatSame ==
  ASSUME NEW A, NEW h, NEW g, \A d \in A : h[d] = g[d]
  PROVE  HeatSum(h, A) = HeatSum(g, A)
  <1>1. HeatUses(h, A) = HeatUses(g, A)
    BY DEF HeatUses
  <1> QED
    BY <1>1 DEF HeatSum

LEMMA HeatZero ==
  ASSUME NEW A, NEW h, \A d \in A : h[d] = 0
  PROVE  HeatSum(h, A) = 0
  <1>1. HeatUses(h, A) = {}
    BY DEF HeatUses
  <1> QED
    BY <1>1, FS_EmptySet DEF HeatSum

\* With one descriptor more or less.
LEMMA HeatAdd ==
  ASSUME NEW A, A \subseteq Desps, NEW d \in Desps, d \notin A, NEW h \in [Desps -> Nat]
  PROVE  HeatSum(h, A \cup {d}) = HeatSum(h, A) + h[d]
  <1> DEFINE B == {d}
  <1>1. B \subseteq Desps /\ A \cap B = {}
    OBVIOUS
  <1>2. HeatSum(h, B) = h[d]
    BY HeatOne
  <1> HIDE DEF B
  <1>3. HeatSum(h, A \cup B) = HeatSum(h, A) + HeatSum(h, B)
    BY <1>1, HeatUnion
  <1> QED
    BY <1>2, <1>3 DEF B

LEMMA HeatLess ==
  ASSUME NEW A, NEW B, A \subseteq Desps, B \subseteq A, NEW h \in [Desps -> Nat]
  PROVE  /\ HeatSum(h, A \ B) = HeatSum(h, A) - HeatSum(h, B)
         /\ HeatSum(h, A \ B) \in Nat /\ HeatSum(h, B) \in Nat /\ HeatSum(h, A) \in Nat
  <1> DEFINE C == A \ B
  <1>1. C \subseteq Desps /\ B \subseteq Desps /\ C \cap B = {} /\ C \cup B = A
    OBVIOUS
  <1> HIDE DEF C
  <1>2. HeatSum(h, C \cup B) = HeatSum(h, C) + HeatSum(h, B)
    BY <1>1, HeatUnion
  <1>3. HeatSum(h, C) \in Nat /\ HeatSum(h, B) \in Nat /\ HeatSum(h, A) \in Nat
    BY <1>1, HeatFinite
  <1>4. HeatSum(h, A) = HeatSum(h, C) + HeatSum(h, B)
    BY <1>1, <1>2
  <1> QED
    BY <1>3, <1>4 DEF C

\* One use more of a descriptor.
LEMMA HeatUse ==
  ASSUME NEW A, A \subseteq Desps, NEW d \in A, NEW h \in [Desps -> Nat]
  PROVE  HeatSum([h EXCEPT ![d] = @ + 1], A) = HeatSum(h, A) + 1
  <1> DEFINE g == [h EXCEPT ![d] = @ + 1]
             B == A \ {d}
  <1>1. g \in [Desps -> Nat] /\ g[d] = h[d] + 1 /\ \A e \in B : g[e] = h[e]
    OBVIOUS
  <1>2. B \subseteq Desps /\ d \notin B /\ B \cup {d} = A /\ d \in Desps
    OBVIOUS
  <1> HIDE DEF g, B
  <1>3. HeatSum(g, B) = HeatSum(h, B)
    BY <1>1, HeatSame
  <1>4. HeatSum(g, B \cup {d}) = HeatSum(g, B) + g[d] /\ HeatSum(h, B \cup {d}) = HeatSum(h, B) + h[d]
    BY <1>1, <1>2, HeatAdd
  <1>5. HeatSum(h, B) \in Nat /\ h[d] \in Nat
    BY <1>2, HeatFinite
  <1> QED
    BY <1>1, <1>2, <1>3, <1>4, <1>5 DEF g

-----------------------------------------------------------------------------
\* Descriptor d becomes the first of list c.
Pushed(L, d, c) == [L EXCEPT ![c] = <<d>> \o @]
Moved(L, d, c) ==
  [n \in Names |-> LET rest == RemoveFirst(L[n], d) IN IF n = c THEN <<d>> \o rest ELSE rest]

PutsIn(l, L, c, d) ==
  /\ Chained(WithHead(l, d, c), Pushed(L, d, c))
  /\ ToSet(Pushed(L, d, c)[c]) = ToSet(L[c]) \cup {d}
  /\ \A n \in Names \ {c} : Pushed(L, d, c)[n] = L[n]
  /\ Pushed(L, d, c)[c] = <<d>> \o L[c]

LEMMA PushedChained ==
  ASSUME NEW l, NEW L, Chained(l, L), NEW c \in Names, NEW d \in Desps,
         \A e \in Names : d \notin ToSet(L[e])
  PROVE  PutsIn(l, L, c, d)
  <1>1. Chained(WithHead(l, d, c), Pushed(L, d, c))
    <2>1. Chained(WithHead(l, d, c), [L EXCEPT ![c] = <<d>> \o @])
      BY KeptChained
    <2> QED
      BY <2>1 DEF Pushed
  <1>2. L \in [Names -> Seq(Desps)]
    BY DEF Chained
  <1>3. Pushed(L, d, c)[c] = <<d>> \o L[c] /\ \A n \in Names \ {c} : Pushed(L, d, c)[n] = L[n]
    BY <1>2 DEF Pushed
  <1>4. ToSet(<<d>> \o L[c]) = {d} \cup ToSet(L[c])
    <2>1. L[c] \in Seq(Desps)
      BY <1>2
    <2> QED
      BY <2>1, ConsIs
  <1> QED
    BY <1>1, <1>3, <1>4 DEF PutsIn

MovesTo(l, L, p, d, c) ==
  /\ Chained(WithHead(Without(l, d, p), d, c), Moved(L, d, c))
  /\ ToSet(Moved(L, d, c)[c]) = ToSet(L[c]) \cup {d}
  /\ \A n \in Names \ {c} : ToSet(Moved(L, d, c)[n]) = ToSet(L[n]) \ {d}

LEMMA MovedChained ==
  ASSUME NEW l, NEW L, Chained(l, L), NEW p \in Names, NEW d \in ToSet(L[p]), NEW c \in Names
  PROVE  MovesTo(l, L, p, d, c)
  <1> DEFINE l1 == Without(l, d, p)
             r == RemoveFirst(L[p], d)
             L1 == WithList(L, p, r)
  <1>1. L \in [Names -> Seq(Desps)] /\ \A n \in Names : L[n] \in Seq(Desps)
    BY DEF Chained
  <1>2. Chained(l1, L1) /\ ToSet(r) = ToSet(L[p]) \ {d}
    <2>1. TakesOut(l, L, p, d)
      BY TakenChained
    <2> QED
      BY <2>1 DEF TakesOut
  <1>3. \A n \in Names \ {p} : d \notin ToSet(L[n])
    BY DEF Chained
  <1>4. \A n \in Names \ {p} : RemoveFirst(L[n], d) = L[n]
    <2> TAKE n \in Names \ {p}
    <2>1. L[n] \in Seq(Desps) /\ d \notin ToSet(L[n])
      BY <1>1, <1>3
    <2> QED
      BY <2>1, RemoveFirstOther
  <1>5. /\ L1 \in [Names -> Seq(Desps)]
        /\ \A n \in Names : L1[n] = RemoveFirst(L[n], d)
    <2>1. L1 \in [Names -> Seq(Desps)]
      BY <1>2 DEF Chained
    <2>2. L1[p] = r /\ \A n \in Names \ {p} : L1[n] = L[n]
      BY <1>1 DEF WithList
    <2> QED
      BY <1>4, <2>1, <2>2
  <1>6. \A n \in Names : ToSet(L1[n]) = ToSet(L[n]) \ {d}
    <2> TAKE n \in Names
    <2>1. CASE n = p
      BY <1>2, <1>5, <2>1
    <2>2. CASE n # p
      BY <1>3, <1>4, <1>5, <2>2
    <2> QED
      BY <2>1, <2>2
  <1>7. d \in Desps
    BY ChainedEnds
  <1> HIDE DEF l1, L1, r
  <1>8. PutsIn(l1, L1, c, d)
    <2>1. \A e \in Names : d \notin ToSet(L1[e])
      BY <1>6
    <2> QED
      BY <1>2, <1>7, <2>1, PushedChained
  <1>9. Pushed(L1, d, c) = Moved(L, d, c)
    <2>1. Pushed(L1, d, c) = [n \in Names |-> IF n = c THEN <<d>> \o L1[n] ELSE L1[n]]
      BY <1>5 DEF Pushed
    <2> QED
      BY <1>5, <2>1 DEF Moved
  <1> QED
    BY <1>5, <1>6, <1>8, <1>9 DEF PutsIn, MovesTo, l1

-----------------------------------------------------------------------------
\* A list that is ranked by use, the last use first.
Ranked(s, st) == \A i, j \in 1 .. Len(s) : i < j => st[s[i]] > st[s[j]]

LEMMA RankedPush ==
  ASSUME NEW s \in Seq(Desps), NEW d \in Desps, NEW st \in [Desps -> Nat], NEW st2 \in [Desps -> Nat],
         Ranked(s, st), \A e \in ToSet(s) : st2[e] = st[e] /\ st2[d] > st[e]
  PROVE  Ranked(<<d>> \o s, st2)
  <1> DEFINE t == <<d>> \o s
  <1>1. /\ t \in Seq(Desps) /\ Len(t) = Len(s) + 1 /\ t[1] = d
        /\ \A i \in 2 .. Len(t) : i - 1 \in 1 .. Len(s) /\ t[i] = s[i - 1]
    BY ConsIs
  <1>2. \A i \in 1 .. Len(s) : s[i] \in ToSet(s) /\ s[i] \in Desps
    BY InToSet
  <1> HIDE DEF t
  <1>3. ASSUME NEW i \in 1 .. Len(t), NEW j \in 1 .. Len(t), i < j PROVE st2[t[i]] > st2[t[j]]
    <2>1. j \in 2 .. Len(t)
      BY <1>3
    <2>2. j - 1 \in 1 .. Len(s) /\ t[j] = s[j - 1] /\ s[j - 1] \in ToSet(s)
      BY <1>1, <1>2, <2>1
    <2>3. CASE i = 1
      BY <1>1, <2>2, <2>3
    <2>4. CASE i # 1
      <3>1. i \in 2 .. Len(t)
        BY <2>4
      <3>2. i - 1 \in 1 .. Len(s) /\ t[i] = s[i - 1] /\ s[i - 1] \in ToSet(s)
        BY <1>1, <1>2, <3>1
      <3>a. i - 1 < j - 1 /\ Len(s) \in Nat
        BY <1>3, <2>1, <3>1
      <3>3. st[s[i - 1]] > st[s[j - 1]]
        BY <2>2, <3>2, <3>a DEF Ranked
      <3> QED
        BY <2>2, <3>2, <3>3
    <2> QED
      BY <2>3, <2>4
  <1> QED
    BY <1>3 DEF Ranked, t

LEMMA RestIs ==
  ASSUME NEW s \in Seq(Desps), IsInjective(s), NEW d
  PROVE  RemoveFirst(s, d) \in Seq(Desps) /\ ToSet(RemoveFirst(s, d)) = ToSet(s) \ {d}
  <1>1. CASE d \notin ToSet(s)
    BY <1>1, RemoveFirstOther
  <1>2. CASE d \in ToSet(s)
    <2>1. PICK k \in 1 .. Len(s) : s[k] = d
      BY <1>2, InToSet
    <2>2. RemoveFirst(s, d) \in Seq(Desps)
      BY <2>1, RemoveFirstIs
    <2>3. ToSet(RemoveFirst(s, d)) = ToSet(s) \ {d}
      <3> DEFINE r == RemoveFirst(s, d)
      <3>1. /\ r \in Seq(Desps) /\ Len(r) = Len(s) - 1
            /\ \A i \in 1 .. Len(r) : r[i] = IF i < k THEN s[i] ELSE s[i + 1]
        BY <2>1, RemoveFirstIs
      <3> HIDE DEF r
      <3>2. ASSUME NEW i \in 1 .. Len(r) PROVE r[i] \in ToSet(s) \ {d}
        <4>1. (r[i] = s[i] /\ i < k) \/ (r[i] = s[i + 1] /\ i >= k)
          BY <2>1, <3>1
        <4>2. i \in 1 .. Len(s) /\ i + 1 \in 1 .. Len(s)
          BY <3>1
        <4> QED
          BY <2>1, <4>1, <4>2, InToSet DEF IsInjective
      <3>3. ASSUME NEW x \in ToSet(s) \ {d} PROVE x \in ToSet(r)
        <4>1. PICK i \in 1 .. Len(s) : s[i] = x
          BY InToSet
        <4>2. CASE i < k
          <5>1. i \in 1 .. Len(r) /\ r[i] = x
            BY <2>1, <3>1, <4>1, <4>2
          <5> QED
            BY <3>1, <5>1, InToSet
        <4>3. CASE i > k
          <5>1. i - 1 \in 1 .. Len(r) /\ ~(i - 1 < k) /\ (i - 1) + 1 = i
            BY <2>1, <3>1, <4>3
          <5>2. r[i - 1] = x
            BY <3>1, <4>1, <5>1
          <5> QED
            BY <3>1, <5>1, <5>2, InToSet
        <4>4. i # k
          BY <2>1, <4>1
        <4> QED
          BY <4>2, <4>3, <4>4
      <3>4. \A x \in ToSet(r) : \E i \in 1 .. Len(r) : r[i] = x
        BY <3>1, InToSet
      <3> QED
        BY <3>2, <3>3, <3>4 DEF r
    <2> QED
      BY <2>2, <2>3
  <1> QED
    BY <1>1, <1>2

LEMMA RankedLess ==
  ASSUME NEW s \in Seq(Desps), IsInjective(s), NEW d, NEW st, Ranked(s, st)
  PROVE  Ranked(RemoveFirst(s, d), st)
  <1> DEFINE r == RemoveFirst(s, d)
  <1>1. CASE d \notin ToSet(s)
    BY <1>1, RemoveFirstOther
  <1>2. CASE d \in ToSet(s)
    <2>1. PICK k \in 1 .. Len(s) : s[k] = d
      BY <1>2, InToSet
    <2>2. /\ r \in Seq(Desps) /\ Len(r) = Len(s) - 1
          /\ \A i \in 1 .. Len(r) : r[i] = IF i < k THEN s[i] ELSE s[i + 1]
      BY <2>1, RemoveFirstIs
    <2> HIDE DEF r
    <2>3. ASSUME NEW i \in 1 .. Len(r), NEW j \in 1 .. Len(r), i < j PROVE st[r[i]] > st[r[j]]
      <3> DEFINE a == IF i < k THEN i ELSE i + 1
                 b == IF j < k THEN j ELSE j + 1
      <3>1. a \in 1 .. Len(s) /\ b \in 1 .. Len(s) /\ a < b
        BY <2>2, <2>3
      <3>2. r[i] = s[a] /\ r[j] = s[b]
        BY <2>2
      <3> QED
        BY <3>1, <3>2 DEF Ranked
    <2> QED
      BY <2>3 DEF Ranked, r
  <1> QED
    BY <1>1, <1>2

LEMMA RankedKept ==
  ASSUME NEW s \in Seq(Desps), NEW m \in 0 .. Len(s), NEW st, Ranked(s, st)
  PROVE  Ranked(SubSeq(s, 1, m), st)
  <1>1. Len(SubSeq(s, 1, m)) = m /\ \A i \in 1 .. m : SubSeq(s, 1, m)[i] = s[i]
    OBVIOUS
  <1>2. \A i \in 1 .. m : i \in 1 .. Len(s)
    OBVIOUS
  <1> DEFINE t == SubSeq(s, 1, m)
  <1> HIDE DEF t
  <1>3. Len(t) = m /\ \A i \in 1 .. m : t[i] = s[i]
    BY <1>1 DEF t
  <1> QED
    BY <1>2, <1>3 DEF Ranked, t

LEMMA RankedSame ==
  ASSUME NEW s \in Seq(Desps), NEW st, NEW st2, Ranked(s, st), \A e \in ToSet(s) : st2[e] = st[e]
  PROVE  Ranked(s, st2)
  <1>1. \A i \in 1 .. Len(s) : s[i] \in ToSet(s)
    BY InToSet
  <1> QED
    BY <1>1 DEF Ranked

LEMMA ListsAre ==
  ASSUME NEW l, NEW L, Chained(l, L)
  PROVE  L = [c \in Names |-> Listed(l, c)]
  <1>1. L \in [Names -> Seq(Desps)]
    BY DEF Chained
  <1>2. \A c \in Names : Listed(l, c) = L[c]
    BY ChainedShown
  <1> QED
    BY <1>1, <1>2

-----------------------------------------------------------------------------
\* What holds between the calls, for each of the strategies.  Blocks are stamped
\* by three of them, and their use is counted by the same three.
Stamps == strategy \in {"PORE", "PORE_PLUS", "PORE_PLUS_V2"}

TypesInv ==
  /\ strategy \in Strategies /\ asked \in VictimTypes /\ alive \in BOOLEAN

\* The flags of the cache and of the strategy.
FlagsInv ==
  /\ valid \subseteq Desps /\ dirty \subseteq valid
  /\ flag \in [Desps -> BOOLEAN] /\ \A d \in Desps : flag[d] <=> d \in dirty
  /\ zone \in [Desps -> Zones \cup {NoZone}] /\ \A d \in valid : zone[d] \in Zones

ListsInv ==
  /\ Chained(links, Lists)
  /\ ToSet(Lists[CleanCtrl]) = valid \ Zoned
  /\ \A z \in Zones : ToSet(Lists[z]) = Of(z, Zoned)

CountsInv ==
  /\ pagecnt_dirty = [z \in Zones |-> Cardinality(Of(z, dirty))]
  /\ pagecnt_clean = [c \in Names |-> IF c = CleanCtrl THEN Cardinality(valid \ Zoned)
                                      ELSE Cardinality(Of(c, Zoned \ dirty))]

HeldHeat(z) == HeatSum(heat, Of(z, Zoned))

HeatInv ==
  /\ heat \in [Desps -> Nat] /\ zoneheat \in [Zones -> Nat]
  /\ \A d \in Desps : d \notin Zoned \/ ~Stamps => heat[d] = 0
  /\ \A z \in Zones : IF strategy = "PORE_PLUS_V2" THEN zoneheat[z] >= HeldHeat(z)
                                                   ELSE zoneheat[z] = HeldHeat(z)

StampInv ==
  /\ stamp \in [Desps -> 0 .. MaxStamp] /\ StampGlobal \in 0 .. MaxStamp
  /\ ~Stamps => \A d \in Desps : stamp[d] = 0
  /\ Stamps => /\ \A d \in valid : stamp[d] <= StampGlobal
               /\ \A c \in Names : Ranked(Lists[c], stamp)

BaseInv == TypesInv /\ FlagsInv /\ ListsInv /\ CountsInv /\ HeatInv /\ StampInv

\* The list a block of zone z is in.
Place(z, isDirty) == IF Separates /\ ~isDirty THEN CleanCtrl ELSE z

LEMMA NamesAre ==
  /\ CleanCtrl \in Names /\ CleanCtrl \notin Zones /\ Zones \subseteq Names
  /\ Names = Zones \cup {CleanCtrl} /\ NoZone \notin Zones
  /\ \A z \in Zones, b \in BOOLEAN : Place(z, b) \in Names
  BY ZoneStrategyAssumption DEF Names, Zones, CleanCtrl, NoZone, Place

\* The descriptors in a list.
LEMMA ListedOnes ==
  ASSUME FlagsInv, ListsInv
  PROVE  /\ Zoned \subseteq valid /\ dirty \subseteq Zoned /\ valid \subseteq Desps
         /\ ~Separates => Zoned = valid
         /\ Separates => Zoned = dirty
         /\ \A c \in Names : ToSet(Lists[c]) \subseteq valid
         /\ \A d \in valid : d \in ToSet(Lists[Place(zone[d], flag[d])])
         /\ \A c \in Names : /\ Lists[c] \in Seq(Desps) /\ IsInjective(Lists[c]) /\ Len(Lists[c]) \in Nat
                             /\ Lists[c] = List(c)
  <1>1. /\ Zoned \subseteq valid /\ dirty \subseteq Zoned /\ valid \subseteq Desps
        /\ ~Separates => Zoned = valid
        /\ Separates => Zoned = dirty
    BY DEF FlagsInv, Zoned
  <1>2. ASSUME NEW c \in Names PROVE ToSet(Lists[c]) \subseteq valid
    BY <1>1, NamesAre DEF ListsInv, Of
  <1>3. ASSUME NEW d \in valid PROVE d \in ToSet(Lists[Place(zone[d], flag[d])])
    <2>1. zone[d] \in Zones /\ flag[d] = (d \in dirty)
      BY DEF FlagsInv
    <2>2. CASE Separates /\ d \notin dirty
      BY <1>1, <2>1, <2>2 DEF Place, ListsInv
    <2>3. CASE ~(Separates /\ d \notin dirty)
      <3>1. d \in Zoned /\ Place(zone[d], flag[d]) = zone[d]
        BY <1>1, <2>1, <2>3 DEF Place
      <3> QED
        BY <2>1, <3>1 DEF ListsInv, Of
    <2> QED
      BY <2>2, <2>3
  <1>4. \A c \in Names : Lists[c] \in Seq(Desps) /\ IsInjective(Lists[c]) /\ Len(Lists[c]) \in Nat
    BY ChainedEnds DEF ListsInv
  <1>5. \A c \in Names : Lists[c] = List(c)
    BY DEF Lists
  <1> QED
    BY <1>1, <1>2, <1>3, <1>4, <1>5

-----------------------------------------------------------------------------
\* The use of a descriptor is stamped, or not.
Ticks(d) ==
  IF Stamps THEN Stamp(d) ELSE UNCHANGED <<stamp, StampGlobal>>

\* What LogIn of each strategy comes to.
EnterStep(d, z, isDirty) ==
  /\ Enter(d, z, isDirty)
  /\ links' = WithHead(links, d, Place(z, isDirty))
  /\ pagecnt_dirty' = IF isDirty THEN [pagecnt_dirty EXCEPT ![z] = @ + 1] ELSE pagecnt_dirty
  /\ pagecnt_clean' = IF isDirty THEN pagecnt_clean
                      ELSE [pagecnt_clean EXCEPT ![Place(z, isDirty)] = @ + 1]
  /\ UNCHANGED <<heat, zoneheat>>
  /\ Ticks(d)

\* One more in a set of descriptors.
LEMMA OneMoreCounted ==
  ASSUME NEW A, A \subseteq Desps, NEW d, d \in Desps \ A
  PROVE  Cardinality(A \cup {d}) = Cardinality(A) + 1
  <1>1. IsFiniteSet(A)
    BY DespsFinite
  <1> QED
    BY <1>1, FS_AddElement

\* The classes after it.
EnterSets(d, z, isDirty) ==
  /\ Zoned' = IF Separates /\ ~isDirty THEN Zoned ELSE Zoned \cup {d}
  /\ (valid \ Zoned)' = IF Separates /\ ~isDirty THEN (valid \ Zoned) \cup {d} ELSE valid \ Zoned
  /\ \A y \in Zones :
       /\ Of(y, Zoned)' = IF y = Place(z, isDirty) THEN Of(y, Zoned) \cup {d} ELSE Of(y, Zoned)
       /\ Of(y, dirty)' = IF isDirty /\ y = z THEN Of(y, dirty) \cup {d} ELSE Of(y, dirty)
       /\ Of(y, Zoned \ dirty)' = IF ~isDirty /\ y = Place(z, isDirty)
                                  THEN Of(y, Zoned \ dirty) \cup {d} ELSE Of(y, Zoned \ dirty)

LEMMA EnterClasses ==
  ASSUME FlagsInv, NEW d \in Desps, NEW z \in Zones, NEW isDirty \in BOOLEAN, Enter(d, z, isDirty)
  PROVE  EnterSets(d, z, isDirty)
  <1>1. /\ valid' = valid \cup {d} /\ dirty' = IF isDirty THEN dirty \cup {d} ELSE dirty
        /\ d \notin valid /\ strategy' = strategy
        /\ zone'[d] = z /\ \A e \in Desps \ {d} : zone'[e] = zone[e]
    BY DEF Enter, FlagsInv
  <1>2. /\ dirty \subseteq valid /\ valid \subseteq Desps
        /\ Zoned = IF Separates THEN dirty ELSE valid
        /\ Zoned' = IF Separates THEN dirty' ELSE valid'
        /\ Zoned \subseteq valid
    BY <1>1 DEF FlagsInv, Zoned, Separates
  <1>3. Zoned' = IF Separates /\ ~isDirty THEN Zoned ELSE Zoned \cup {d}
    BY <1>1, <1>2
  <1>4. (valid \ Zoned)' = IF Separates /\ ~isDirty THEN (valid \ Zoned) \cup {d} ELSE valid \ Zoned
    BY <1>1, <1>2, <1>3
  <1>p. Place(z, isDirty) = (IF Separates /\ ~isDirty THEN CleanCtrl ELSE z) /\ CleanCtrl \notin Zones
    BY NamesAre DEF Place
  <1>5. ASSUME NEW y \in Zones
        PROVE  /\ Of(y, Zoned)' = IF y = Place(z, isDirty) THEN Of(y, Zoned) \cup {d} ELSE Of(y, Zoned)
               /\ Of(y, dirty)' = IF isDirty /\ y = z THEN Of(y, dirty) \cup {d} ELSE Of(y, dirty)
               /\ Of(y, Zoned \ dirty)' = IF ~isDirty /\ y = Place(z, isDirty)
                                  THEN Of(y, Zoned \ dirty) \cup {d} ELSE Of(y, Zoned \ dirty)
    <2>1. ASSUME NEW A, NEW A2, A \subseteq valid, A2 = A
          PROVE  {e \in A2 : zone'[e] = y} = {e \in A : zone[e] = y}
      BY <1>1, <1>2, <2>1
    <2>2. ASSUME NEW A, NEW A2, A \subseteq valid, A2 = A \cup {d}
          PROVE  {e \in A2 : zone'[e] = y} = IF y = z THEN {e \in A : zone[e] = y} \cup {d}
                                             ELSE {e \in A : zone[e] = y}
      BY <1>1, <1>2, <2>2
    <2>3. (Zoned \ dirty)' = IF ~isDirty /\ ~Separates THEN (Zoned \ dirty) \cup {d} ELSE Zoned \ dirty
      BY <1>1, <1>2, <1>3
    <2>4. Of(y, Zoned)' = IF y = Place(z, isDirty) THEN Of(y, Zoned) \cup {d} ELSE Of(y, Zoned)
      <3>1. CASE Separates /\ ~isDirty
        BY <1>2, <1>3, <1>p, <2>1, <3>1 DEF Of
      <3>2. CASE ~(Separates /\ ~isDirty)
        BY <1>2, <1>3, <1>p, <2>2, <3>2 DEF Of
      <3> QED
        BY <3>1, <3>2
    <2>5. Of(y, dirty)' = IF isDirty /\ y = z THEN Of(y, dirty) \cup {d} ELSE Of(y, dirty)
      <3>1. CASE isDirty
        BY <1>1, <1>2, <2>2, <3>1 DEF Of
      <3>2. CASE ~isDirty
        BY <1>1, <1>2, <2>1, <3>2 DEF Of
      <3> QED
        BY <3>1, <3>2
    <2>6. Of(y, Zoned \ dirty)' = IF ~isDirty /\ y = Place(z, isDirty)
                                  THEN Of(y, Zoned \ dirty) \cup {d} ELSE Of(y, Zoned \ dirty)
      <3> DEFINE A == Zoned \ dirty
      <3>0. A \subseteq valid
        BY <1>2
      <3>1. CASE ~isDirty /\ ~Separates
        <4>1. A' = A \cup {d}
          BY <2>3, <3>1
        <4> QED
          BY <1>p, <2>2, <3>0, <3>1, <4>1 DEF Of
      <3>2. CASE ~(~isDirty /\ ~Separates)
        <4>1. A' = A
          BY <2>3, <3>2
        <4> QED
          BY <1>p, <2>1, <3>0, <3>2, <4>1 DEF Of
      <3> QED
        BY <3>1, <3>2
    <2> QED
      BY <2>4, <2>5, <2>6
  <1> QED
    BY <1>3, <1>4, <1>5 DEF EnterSets

EnterResult(d, z, isDirty) ==
  /\ BaseInv' /\ Lists' = Pushed(Lists, d, Place(z, isDirty))
  /\ \A c \in Names : d \notin ToSet(Lists[c])

LEMMA EnterBase ==
  ASSUME BaseInv, NEW d \in Desps, NEW z \in Zones, NEW isDirty \in BOOLEAN,
         EnterStep(d, z, isDirty)
  PROVE  EnterResult(d, z, isDirty)
  <1> DEFINE c == Place(z, isDirty)
  <1>1. /\ TypesInv /\ FlagsInv /\ ListsInv /\ CountsInv /\ HeatInv /\ StampInv
        /\ Enter(d, z, isDirty) /\ EnterSets(d, z, isDirty)
    BY EnterClasses DEF BaseInv, EnterStep
  <1>2. /\ valid' = valid \cup {d} /\ dirty' = IF isDirty THEN dirty \cup {d} ELSE dirty
        /\ d \notin valid /\ strategy' = strategy /\ asked' = asked /\ alive' = alive
        /\ zone' = [zone EXCEPT ![d] = z]
        /\ flag' = [flag EXCEPT ![d] = @ \/ isDirty]
    BY <1>1 DEF Enter
  <1>3. c \in Names /\ (Separates' <=> Separates) /\ (Stamps' <=> Stamps)
    BY <1>2, NamesAre DEF Separates, Stamps
  <1>c. c = IF Separates /\ ~isDirty THEN CleanCtrl ELSE z
    BY DEF Place
  <1> HIDE DEF c
  <1>4. TypesInv'
    BY <1>1, <1>2 DEF TypesInv
  <1>5. FlagsInv'
    <2>1. valid' \subseteq Desps /\ dirty' \subseteq valid'
      BY <1>1, <1>2 DEF FlagsInv
    <2>2. zone' \in [Desps -> Zones \cup {NoZone}] /\ \A e \in valid' : zone'[e] \in Zones
      BY <1>1, <1>2 DEF FlagsInv
    <2>3. d \notin dirty /\ ~flag[d]
      BY <1>1, <1>2 DEF FlagsInv
    <2>4. flag' \in [Desps -> BOOLEAN] /\ \A e \in Desps : flag'[e] <=> e \in dirty'
      BY <1>1, <1>2, <2>3 DEF FlagsInv
    <2> QED
      BY <2>1, <2>2, <2>4 DEF FlagsInv
  <1>6. /\ \A e \in Names : d \notin ToSet(Lists[e])
        /\ \A e \in Names : ToSet(Lists[e]) \subseteq valid /\ Lists[e] \in Seq(Desps)
        /\ Zoned \subseteq valid /\ valid \subseteq Desps /\ dirty \subseteq valid
    BY <1>1, <1>2, ListedOnes
  <1>7. PutsIn(links, Lists, c, d)
    BY <1>1, <1>3, <1>6, PushedChained DEF ListsInv
  <1>8. Chained(links', Pushed(Lists, d, c))
    BY <1>7 DEF PutsIn, EnterStep, c
  <1>9. Lists' = Pushed(Lists, d, c)
    <2>1. Lists' = [e \in Names |-> Listed(links', e)]
      BY DEF Lists, List
    <2> QED
      BY <1>8, <2>1, ListsAre
  <1>10. ListsInv'
    <2>1. Chained(links', Lists')
      BY <1>8, <1>9
    <2>2. \A e \in Names : ToSet(Lists'[e]) = IF e = c THEN ToSet(Lists[e]) \cup {d} ELSE ToSet(Lists[e])
      BY <1>7, <1>9 DEF PutsIn
    <2>3. ToSet(Lists'[CleanCtrl]) = (valid \ Zoned)'
      BY <1>1, <1>c, <2>2, NamesAre DEF EnterSets, ListsInv
    <2>4. \A y \in Zones : ToSet(Lists'[y]) = Of(y, Zoned)'
      BY <1>1, <1>c, <2>2, NamesAre DEF EnterSets, ListsInv, Place
    <2> QED
      BY <2>1, <2>3, <2>4 DEF ListsInv
  <1>11. CountsInv'
    <2> DEFINE free == valid \ Zoned
               hot(y) == Of(y, dirty)
               cold(y) == Of(y, Zoned \ dirty)
    <2>1. \A y : hot(y) \subseteq Desps /\ d \notin hot(y)
      BY <1>2, <1>6 DEF Of
    <2>2. \A y : cold(y) \subseteq Desps /\ d \notin cold(y)
      BY <1>2, <1>6 DEF Of
    <2>3. free \subseteq Desps /\ d \notin free
      BY <1>2, <1>6
    <2>4. /\ \A y \in Zones : hot(y)' = IF isDirty /\ y = z THEN hot(y) \cup {d} ELSE hot(y)
          /\ \A y \in Zones : cold(y)' = IF ~isDirty /\ y = c THEN cold(y) \cup {d} ELSE cold(y)
          /\ free' = IF ~isDirty /\ CleanCtrl = c THEN free \cup {d} ELSE free
      BY <1>1, <1>c, NamesAre DEF EnterSets, c
    <2>5. /\ pagecnt_dirty = [y \in Zones |-> Cardinality(hot(y))]
          /\ pagecnt_clean = [e \in Names |-> IF e = CleanCtrl THEN Cardinality(free)
                                              ELSE Cardinality(cold(e))]
      BY <1>1 DEF CountsInv
    <2>6. /\ pagecnt_dirty' = IF isDirty THEN [pagecnt_dirty EXCEPT ![z] = @ + 1] ELSE pagecnt_dirty
          /\ pagecnt_clean' = IF isDirty THEN pagecnt_clean ELSE [pagecnt_clean EXCEPT ![c] = @ + 1]
      BY DEF EnterStep, c
    <2> SUFFICES /\ pagecnt_dirty' = [y \in Zones |-> Cardinality(hot(y)')]
                 /\ pagecnt_clean' = [e \in Names |-> IF e = CleanCtrl THEN Cardinality(free')
                                                      ELSE Cardinality(cold(e)')]
      BY DEF CountsInv
    <2> HIDE DEF free, hot, cold
    <2>7. \A y : /\ Cardinality(hot(y) \cup {d}) = Cardinality(hot(y)) + 1
                 /\ Cardinality(cold(y) \cup {d}) = Cardinality(cold(y)) + 1
      BY <2>1, <2>2, OneMoreCounted
    <2>8. Cardinality(free \cup {d}) = Cardinality(free) + 1
      BY <2>3, OneMoreCounted
    <2>9. \A y \in Zones : Cardinality(hot(y)') = IF isDirty /\ y = z THEN Cardinality(hot(y)) + 1
                                                ELSE Cardinality(hot(y))
      BY <2>4, <2>7
    <2>10. \A y \in Zones : Cardinality(cold(y)') = IF ~isDirty /\ y = c THEN Cardinality(cold(y)) + 1
                                                  ELSE Cardinality(cold(y))
      BY <2>4, <2>7
    <2>11. Cardinality(free') = IF ~isDirty /\ CleanCtrl = c THEN Cardinality(free) + 1
                                ELSE Cardinality(free)
      BY <2>4, <2>8
    <2> HIDE <2>4, <2>7, <2>8
    <2>12. pagecnt_dirty' = [y \in Zones |-> Cardinality(hot(y)')]
      BY <2>5, <2>6, <2>9
    <2>13. pagecnt_clean' = [e \in Names |-> IF e = CleanCtrl THEN Cardinality(free')
                                             ELSE Cardinality(cold(e)')]
      <3>1. \A e \in Names : e # CleanCtrl => e \in Zones
        BY NamesAre
      <3> QED
        BY <1>3, <2>5, <2>6, <2>10, <2>11, <3>1
    <2> QED
      BY <2>12, <2>13
  <1>12. HeatInv'
    <2>1. heat' = heat /\ zoneheat' = zoneheat
      BY DEF EnterStep
    <2>2. heat[d] = 0
      BY <1>1, <1>2, <1>6 DEF HeatInv
    <2>3. \A e \in Desps : e \notin Zoned' \/ ~Stamps' => heat'[e] = 0
      BY <1>1, <1>3, <2>1 DEF HeatInv, EnterSets
    <2>4. ASSUME NEW y \in Zones PROVE HeldHeat(y)' = HeldHeat(y)
      <3> DEFINE A == Of(y, Zoned)
      <3>1. A \subseteq Desps /\ d \notin A
        BY <1>2, <1>6 DEF Of
      <3>2. A' = A \/ A' = A \cup {d}
        BY <1>1 DEF EnterSets
      <3> HIDE DEF A
      <3>3. HeatSum(heat, A \cup {d}) = HeatSum(heat, A) + heat[d]
        BY <1>1, <3>1, HeatAdd DEF HeatInv
      <3>4. HeatSum(heat, A) \in Nat
        BY <1>1, <3>1, HeatFinite DEF HeatInv
      <3>5. HeatSum(heat', A') = HeatSum(heat, A)
        BY <2>1, <2>2, <3>2, <3>3, <3>4
      <3> QED
        BY <3>5 DEF A, HeldHeat
    <2> QED
      BY <1>1, <1>2, <2>1, <2>3, <2>4 DEF HeatInv
  <1>13. StampInv'
    <2>1. CASE ~Stamps
      <3>1. stamp' = stamp /\ StampGlobal' = StampGlobal
        BY <2>1 DEF EnterStep, Ticks
      <3> QED
        BY <1>1, <1>3, <2>1, <3>1 DEF StampInv
    <2>2. CASE Stamps
      <3>1. /\ StampGlobal < MaxStamp /\ StampGlobal' = StampGlobal + 1
            /\ stamp' = [stamp EXCEPT ![d] = StampGlobal + 1]
        BY <2>2 DEF EnterStep, Ticks, Stamp
      <3>2. /\ stamp \in [Desps -> 0 .. MaxStamp] /\ StampGlobal \in 0 .. MaxStamp /\ MaxStamp \in Nat
            /\ \A e \in valid : stamp[e] <= StampGlobal
            /\ \A e \in Names : Ranked(Lists[e], stamp)
        BY <1>1, <2>2, ZoneStrategyAssumption DEF StampInv
      <3>3. stamp' \in [Desps -> 0 .. MaxStamp] /\ StampGlobal' \in 0 .. MaxStamp
        BY <3>1, <3>2
      <3>4. stamp'[d] = StampGlobal + 1 /\ \A e \in Desps \ {d} : stamp'[e] = stamp[e]
        BY <3>1, <3>2
      <3>5. \A e \in valid' : stamp'[e] <= StampGlobal'
        BY <1>2, <1>6, <3>1, <3>2, <3>4
      <3>6. ASSUME NEW e \in Names PROVE Ranked(Lists'[e], stamp')
        <4>1. \A x \in ToSet(Lists[e]) : stamp'[x] = stamp[x] /\ stamp'[d] > stamp[x]
          BY <1>2, <1>6, <3>2, <3>4
        <4>2. Ranked(Lists[e], stamp) /\ Lists[e] \in Seq(Desps)
          BY <1>6, <3>2
        <4>3. stamp \in [Desps -> Nat] /\ stamp' \in [Desps -> Nat]
          BY <3>2, <3>3
        <4>4. Ranked(<<d>> \o Lists[e], stamp')
          BY <4>1, <4>2, <4>3, RankedPush
        <4>5. Ranked(Lists[e], stamp')
          BY <4>1, <4>2, RankedSame
        <4> QED
          BY <1>7, <1>9, <4>4, <4>5 DEF PutsIn
      <3> QED
        BY <1>3, <2>2, <3>3, <3>5, <3>6 DEF StampInv
    <2> QED
      BY <2>1, <2>2
  <1> QED
    BY <1>4, <1>5, <1>6, <1>9, <1>10, <1>11, <1>12, <1>13 DEF EnterResult, BaseInv, c

\* What HitIn of each strategy comes to.
Heats(d, isDirty) == Stamps /\ (~Separates \/ flag[d] \/ isDirty)

HitStep(d, isDirty) ==
  /\ Access(d, isDirty)
  /\ links' = WithHead(Without(links, d, Place(zone[d], flag[d])), d, Place(zone[d], flag[d] \/ isDirty))
  /\ IF ~flag[d] /\ isDirty
       THEN /\ pagecnt_dirty' = [pagecnt_dirty EXCEPT ![zone[d]] = @ + 1]
            /\ pagecnt_clean' = [pagecnt_clean EXCEPT ![Place(zone[d], FALSE)] = @ - 1]
       ELSE UNCHANGED counts
  /\ IF Heats(d, isDirty) THEN Heat(d, zone[d]) ELSE UNCHANGED <<heat, zoneheat>>
  /\ Ticks(d)

\* One less in a set of descriptors.
LEMMA OneLessCounted ==
  ASSUME NEW A, A \subseteq Desps, NEW d \in A
  PROVE  Cardinality(A \ {d}) = Cardinality(A) - 1
  <1>1. IsFiniteSet(A)
    BY DespsFinite
  <1> QED
    BY <1>1, FS_RemoveElement

\* The classes after it, if d turns dirty.
HitSets(d, turns) ==
  /\ dirty' = IF turns THEN dirty \cup {d} ELSE dirty
  /\ Zoned' = IF turns /\ Separates THEN Zoned \cup {d} ELSE Zoned
  /\ (valid \ Zoned)' = IF turns /\ Separates THEN (valid \ Zoned) \ {d} ELSE valid \ Zoned
  /\ \A y \in Zones :
       /\ Of(y, Zoned)' = IF turns /\ Separates /\ y = zone[d] THEN Of(y, Zoned) \cup {d} ELSE Of(y, Zoned)
       /\ Of(y, dirty)' = IF turns /\ y = zone[d] THEN Of(y, dirty) \cup {d} ELSE Of(y, dirty)
       /\ Of(y, Zoned \ dirty)' = IF turns /\ ~Separates /\ y = zone[d]
                                  THEN Of(y, Zoned \ dirty) \ {d} ELSE Of(y, Zoned \ dirty)

LEMMA HitClasses ==
  ASSUME FlagsInv, NEW d \in Desps, NEW isDirty \in BOOLEAN, Access(d, isDirty)
  PROVE  HitSets(d, ~flag[d] /\ isDirty)
  <1> DEFINE turns == ~flag[d] /\ isDirty
  <1>1. /\ valid' = valid /\ dirty' = IF isDirty THEN dirty \cup {d} ELSE dirty
        /\ d \in valid /\ strategy' = strategy /\ zone' = zone /\ (d \in dirty => isDirty)
    BY DEF Access
  <1>2. /\ dirty \subseteq valid /\ valid \subseteq Desps /\ (flag[d] <=> d \in dirty)
        /\ Zoned = IF Separates THEN dirty ELSE valid
        /\ Zoned' = IF Separates THEN dirty' ELSE valid'
    BY <1>1 DEF FlagsInv, Zoned, Separates
  <1>3. turns <=> d \notin dirty /\ isDirty
    BY <1>2
  <1> HIDE DEF turns
  <1>4. dirty' = IF turns THEN dirty \cup {d} ELSE dirty
    BY <1>1, <1>3
  <1>5. Zoned' = IF turns /\ Separates THEN Zoned \cup {d} ELSE Zoned
    BY <1>1, <1>2, <1>4
  <1>6. (valid \ Zoned)' = IF turns /\ Separates THEN (valid \ Zoned) \ {d} ELSE valid \ Zoned
    BY <1>1, <1>5
  <1>7. (Zoned \ dirty)' = IF turns /\ ~Separates THEN (Zoned \ dirty) \ {d} ELSE Zoned \ dirty
    BY <1>1, <1>2, <1>4, <1>5
  <1> DEFINE cold == Zoned \ dirty
  <1>8. cold' = IF turns /\ ~Separates THEN cold \ {d} ELSE cold
    BY <1>7
  <1> HIDE DEF cold
  <1>9. ASSUME NEW y \in Zones
        PROVE  /\ Of(y, Zoned)' = IF turns /\ Separates /\ y = zone[d]
                                  THEN Of(y, Zoned) \cup {d} ELSE Of(y, Zoned)
               /\ Of(y, dirty)' = IF turns /\ y = zone[d] THEN Of(y, dirty) \cup {d} ELSE Of(y, dirty)
               /\ Of(y, cold)' = IF turns /\ ~Separates /\ y = zone[d]
                                 THEN Of(y, cold) \ {d} ELSE Of(y, cold)
    <2>1. Of(y, Zoned)' = {e \in Zoned' : zone[e] = y} /\ Of(y, dirty)' = {e \in dirty' : zone[e] = y}
          /\ Of(y, cold)' = {e \in cold' : zone[e] = y}
      BY <1>1 DEF Of
    <2>2. Of(y, Zoned)' = IF turns /\ Separates /\ y = zone[d]
                          THEN Of(y, Zoned) \cup {d} ELSE Of(y, Zoned)
      BY <1>5, <2>1 DEF Of
    <2>3. Of(y, dirty)' = IF turns /\ y = zone[d] THEN Of(y, dirty) \cup {d} ELSE Of(y, dirty)
      BY <1>4, <2>1 DEF Of
    <2>4. Of(y, cold)' = IF turns /\ ~Separates /\ y = zone[d] THEN Of(y, cold) \ {d} ELSE Of(y, cold)
      BY <1>8, <2>1 DEF Of
    <2> QED
      BY <2>2, <2>3, <2>4
  <1> QED
    BY <1>4, <1>5, <1>6, <1>9 DEF HitSets, turns, cold

HitResult(d, isDirty) ==
  /\ BaseInv' /\ Lists' = Moved(Lists, d, Place(zone[d], flag[d] \/ isDirty))
  /\ d \in ToSet(Lists[Place(zone[d], flag[d])])

LEMMA HitBase ==
  ASSUME BaseInv, NEW d \in Desps, NEW isDirty \in BOOLEAN, HitStep(d, isDirty)
  PROVE  HitResult(d, isDirty)
  <1> DEFINE turns == ~flag[d] /\ isDirty
             z == zone[d]
             p == Place(z, flag[d])
             c == Place(z, flag[d] \/ isDirty)
  <1>1. /\ TypesInv /\ FlagsInv /\ ListsInv /\ CountsInv /\ HeatInv /\ StampInv
        /\ Access(d, isDirty) /\ HitSets(d, turns)
    BY HitClasses DEF BaseInv, HitStep
  <1>2. /\ valid' = valid /\ d \in valid /\ strategy' = strategy /\ asked' = asked /\ alive' = alive
        /\ dirty' = IF turns THEN dirty \cup {d} ELSE dirty
        /\ zone' = zone /\ flag' = [flag EXCEPT ![d] = @ \/ isDirty]
        /\ (d \in dirty => isDirty) /\ (flag[d] <=> d \in dirty) /\ z \in Zones
    BY <1>1 DEF Access, HitSets, FlagsInv
  <1>3. (Separates' <=> Separates) /\ (Stamps' <=> Stamps) /\ flag[d] \in BOOLEAN
    BY <1>1, <1>2 DEF Separates, Stamps, FlagsInv
  <1>4. /\ p \in Names /\ c \in Names /\ z \in Names
        /\ IF turns /\ Separates THEN p = CleanCtrl /\ c = z ELSE p = c
        /\ ~turns => p = IF Separates /\ d \notin dirty THEN CleanCtrl ELSE z
        /\ turns => Place(z, FALSE) = p
    BY <1>2, <1>3, NamesAre DEF Place
  <1> HIDE DEF p, c, z
  <1>5. /\ \A e \in Names : ToSet(Lists[e]) \subseteq valid /\ Lists[e] \in Seq(Desps)
        /\ \A e \in Names : IsInjective(Lists[e])
        /\ Zoned \subseteq valid /\ valid \subseteq Desps /\ dirty \subseteq valid /\ dirty \subseteq Zoned
        /\ Zoned = IF Separates THEN dirty ELSE valid
        /\ d \in ToSet(Lists[p])
    BY <1>1, <1>2, ListedOnes DEF p, z
  <1>6. \A e \in Names \ {p} : d \notin ToSet(Lists[e])
    BY <1>1, <1>4, <1>5 DEF ListsInv, Chained
  <1>t. turns <=> d \notin dirty /\ isDirty
    BY <1>2
  <1>h. HitStep(d, isDirty)
    OBVIOUS
  <1>7. TypesInv'
    BY <1>1, <1>2 DEF TypesInv
  <1>8. FlagsInv'
    <2>1. valid' \subseteq Desps /\ dirty' \subseteq valid'
      BY <1>2, <1>5
    <2>2. zone' \in [Desps -> Zones \cup {NoZone}] /\ \A e \in valid' : zone'[e] \in Zones
      BY <1>1, <1>2 DEF FlagsInv
    <2>3. flag' \in [Desps -> BOOLEAN] /\ \A e \in Desps : flag'[e] <=> e \in dirty'
      BY <1>1, <1>2, <1>t DEF FlagsInv
    <2> QED
      BY <2>1, <2>2, <2>3 DEF FlagsInv
  <1> HIDE DEF turns
  <1>9. MovesTo(links, Lists, p, d, c)
    BY <1>1, <1>4, <1>5, MovedChained DEF ListsInv
  <1>10. Chained(links', Moved(Lists, d, c))
    <2>1. links' = WithHead(Without(links, d, p), d, c)
      BY <1>h DEF HitStep, p, c, z
    <2> QED
      BY <1>9, <2>1 DEF MovesTo
  <1>11. Lists' = Moved(Lists, d, c)
    <2>1. Lists' = [e \in Names |-> Listed(links', e)]
      BY DEF Lists, List
    <2> QED
      BY <1>10, <2>1, ListsAre
  <1>12. ListsInv'
    <2>1. Chained(links', Lists')
      BY <1>10, <1>11
    <2>2. \A e \in Names : ToSet(Lists'[e]) = IF e = c THEN ToSet(Lists[e]) \cup {d} ELSE ToSet(Lists[e]) \ {d}
      BY <1>9, <1>11 DEF MovesTo
    <2>3. /\ ToSet(Lists[CleanCtrl]) = valid \ Zoned
          /\ \A y \in Zones : ToSet(Lists[y]) = Of(y, Zoned)
      BY <1>1 DEF ListsInv
    <2>k. ASSUME ~(turns /\ Separates), NEW e \in Names PROVE ToSet(Lists'[e]) = ToSet(Lists[e])
      <3>1. p = c
        BY <1>4, <2>k
      <3>2. CASE e = c
        BY <1>5, <2>2, <3>1, <3>2
      <3>3. CASE e # c
        BY <1>6, <2>2, <3>1, <3>3
      <3> QED
        BY <3>2, <3>3
    <2>4. ToSet(Lists'[CleanCtrl]) = (valid \ Zoned)'
      <3>1. CASE turns /\ Separates
        BY <1>1, <1>2, <1>4, <2>2, <2>3, <3>1, NamesAre DEF HitSets
      <3>2. CASE ~(turns /\ Separates)
        BY <1>1, <2>k, <2>3, <3>2, NamesAre DEF HitSets
      <3> QED
        BY <3>1, <3>2
    <2>5. ASSUME NEW y \in Zones PROVE ToSet(Lists'[y]) = Of(y, Zoned)'
      <3>1. CASE turns /\ Separates
        <4>1. Of(y, Zoned)' = IF y = z THEN Of(y, Zoned) \cup {d} ELSE Of(y, Zoned)
          BY <1>1, <3>1 DEF HitSets, z
        <4>2. y # CleanCtrl /\ y \in Names
          BY NamesAre
        <4>3. p = CleanCtrl /\ c = z
          BY <1>4, <3>1
        <4>4. d \notin ToSet(Lists[y])
          BY <1>6, <4>2, <4>3
        <4>5. ToSet(Lists'[y]) = IF y = c THEN ToSet(Lists[y]) \cup {d} ELSE ToSet(Lists[y]) \ {d}
          BY <2>2, <4>2
        <4>6. ToSet(Lists[y]) = Of(y, Zoned)
          BY <2>3
        <4>7. CASE y = z
          BY <4>1, <4>3, <4>5, <4>6, <4>7
        <4>8. CASE y # z
          BY <4>1, <4>3, <4>4, <4>5, <4>6, <4>8
        <4> QED
          BY <4>7, <4>8
      <3>2. CASE ~(turns /\ Separates)
        <4>1. Of(y, Zoned)' = Of(y, Zoned)
          BY <1>1, <3>2 DEF HitSets
        <4>2. y \in Names
          BY NamesAre
        <4> QED
          BY <2>k, <2>3, <3>2, <4>1, <4>2
      <3> QED
        BY <3>1, <3>2
    <2> QED
      BY <2>1, <2>4, <2>5 DEF ListsInv
  <1>13. CountsInv'
    <2> DEFINE free == valid \ Zoned
               hot(y) == Of(y, dirty)
               cold(y) == Of(y, Zoned \ dirty)
               q == Place(z, FALSE)
    <2>1. \A y : hot(y) \subseteq Desps /\ cold(y) \subseteq Desps
      BY <1>5 DEF Of
    <2>2. free \subseteq Desps
      BY <1>5
    <2>3. turns => /\ d \notin hot(z)
                   /\ Separates => d \in free
                   /\ ~Separates => d \in cold(z)
      BY <1>2, <1>5, <1>t DEF Of, z
    <2>4. q = IF Separates THEN CleanCtrl ELSE z
      BY DEF Place
    <2>5. /\ \A y \in Zones : hot(y)' = IF turns /\ y = z THEN hot(y) \cup {d} ELSE hot(y)
          /\ \A y \in Zones : cold(y)' = IF turns /\ ~Separates /\ y = z THEN cold(y) \ {d} ELSE cold(y)
          /\ free' = IF turns /\ Separates THEN free \ {d} ELSE free
      BY <1>1 DEF HitSets, z
    <2>6. /\ pagecnt_dirty = [y \in Zones |-> Cardinality(hot(y))]
          /\ pagecnt_clean = [e \in Names |-> IF e = CleanCtrl THEN Cardinality(free)
                                              ELSE Cardinality(cold(e))]
      BY <1>1 DEF CountsInv
    <2>7. /\ pagecnt_dirty' = IF turns THEN [pagecnt_dirty EXCEPT ![z] = @ + 1] ELSE pagecnt_dirty
          /\ pagecnt_clean' = IF turns THEN [pagecnt_clean EXCEPT ![q] = @ - 1] ELSE pagecnt_clean
      BY <1>h DEF HitStep, turns, z, counts
    <2> SUFFICES /\ pagecnt_dirty' = [y \in Zones |-> Cardinality(hot(y)')]
                 /\ pagecnt_clean' = [e \in Names |-> IF e = CleanCtrl THEN Cardinality(free')
                                                      ELSE Cardinality(cold(e)')]
      BY DEF CountsInv
    <2> HIDE DEF free, hot, cold, q
    <2>8. turns => Cardinality(hot(z) \cup {d}) = Cardinality(hot(z)) + 1
      BY <1>5, <1>2, <2>1, <2>3, OneMoreCounted
    <2>9. turns /\ ~Separates => Cardinality(cold(z) \ {d}) = Cardinality(cold(z)) - 1
      BY <2>1, <2>3, OneLessCounted
    <2>10. turns /\ Separates => Cardinality(free \ {d}) = Cardinality(free) - 1
      BY <2>2, <2>3, OneLessCounted
    <2>11. \A y \in Zones : Cardinality(hot(y)') = IF turns /\ y = z THEN Cardinality(hot(y)) + 1
                                                   ELSE Cardinality(hot(y))
      BY <2>5, <2>8
    <2>12. \A y \in Zones : Cardinality(cold(y)') = IF turns /\ ~Separates /\ y = z
                                                    THEN Cardinality(cold(y)) - 1
                                                    ELSE Cardinality(cold(y))
      BY <2>5, <2>9
    <2>13. Cardinality(free') = IF turns /\ Separates THEN Cardinality(free) - 1 ELSE Cardinality(free)
      BY <2>5, <2>10
    <2> HIDE <2>5, <2>8, <2>9, <2>10
    <2>14. pagecnt_dirty' = [y \in Zones |-> Cardinality(hot(y)')]
      BY <2>6, <2>7, <2>11
    <2>15. pagecnt_clean' = [e \in Names |-> IF e = CleanCtrl THEN Cardinality(free')
                                             ELSE Cardinality(cold(e)')]
      <3>1. \A e \in Names : e # CleanCtrl => e \in Zones
        BY NamesAre
      <3>2. z # CleanCtrl /\ CleanCtrl \in Names /\ z \in Names
        BY <1>2, NamesAre DEF z
      <3>3. pagecnt_clean' = [e \in Names |-> IF turns /\ e = q THEN pagecnt_clean[e] - 1
                                              ELSE pagecnt_clean[e]]
        BY <2>6, <2>7
      <3> QED
        BY <2>4, <2>6, <2>12, <2>13, <3>1, <3>2, <3>3
    <2> QED
      BY <2>14, <2>15
  <1>14. HeatInv'
    <2>1. /\ heat \in [Desps -> Nat] /\ zoneheat \in [Zones -> Nat]
          /\ \A e \in Desps : e \notin Zoned \/ ~Stamps => heat[e] = 0
          /\ \A y \in Zones : IF strategy = "PORE_PLUS_V2" THEN zoneheat[y] >= HeldHeat(y)
                                                           ELSE zoneheat[y] = HeldHeat(y)
      BY <1>1 DEF HeatInv
    <2>2. /\ heat' = IF Heats(d, isDirty) THEN [heat EXCEPT ![d] = @ + 1] ELSE heat
          /\ zoneheat' = IF Heats(d, isDirty) THEN [zoneheat EXCEPT ![z] = @ + 1] ELSE zoneheat
      BY <1>h DEF HitStep, Heat, z
    <2>3. Heats(d, isDirty) => Stamps /\ d \in Zoned'
      BY <1>1, <1>2, <1>5, <1>t DEF Heats, HitSets
    <2>4. heat' \in [Desps -> Nat] /\ zoneheat' \in [Zones -> Nat]
      <3>1. CASE Heats(d, isDirty)
        <4>1. [heat EXCEPT ![d] = @ + 1] \in [Desps -> Nat]
          BY <2>1
        <4>2. [zoneheat EXCEPT ![z] = @ + 1] \in [Zones -> Nat]
          BY <1>2, <2>1
        <4> QED
          BY <2>2, <3>1, <4>1, <4>2
      <3>2. CASE ~Heats(d, isDirty)
        BY <2>1, <2>2, <3>2
      <3> QED
        BY <3>1, <3>2
    <2>5. \A e \in Desps : e \notin Zoned' \/ ~Stamps' => heat'[e] = 0
      BY <1>1, <1>3, <2>1, <2>2, <2>3 DEF HitSets
    <2>6. ASSUME NEW y \in Zones
          PROVE  /\ HeldHeat(y)' = IF Heats(d, isDirty) /\ y = z THEN HeldHeat(y) + 1 ELSE HeldHeat(y)
                 /\ HeldHeat(y) \in Nat
      <3> DEFINE A == Of(y, Zoned)
      <3>1. A \subseteq Desps /\ A' \subseteq Desps /\ (d \in A' <=> y = z /\ d \in Zoned')
        BY <1>2, <1>5, <1>1 DEF Of, HitSets, z
      <3>2. A' = A \/ (d \notin A /\ d \notin Zoned /\ A' = A \cup {d})
        BY <1>1, <1>t, <1>5 DEF HitSets, Of
      <3>3. HeldHeat(y) = HeatSum(heat, A) /\ HeldHeat(y)' = HeatSum(heat', A')
        BY DEF HeldHeat
      <3> HIDE DEF A
      <3>4. HeatSum(heat, A') = HeatSum(heat, A) /\ HeatSum(heat, A) \in Nat
        <4>1. HeatSum(heat, A) \in Nat
          BY <2>1, <3>1, HeatFinite
        <4>2. CASE d \notin A /\ d \notin Zoned /\ A' = A \cup {d}
          <5>1. heat[d] = 0 /\ d \in Desps
            BY <2>1, <4>2
          <5>2. HeatSum(heat, A \cup {d}) = HeatSum(heat, A) + heat[d]
            BY <2>1, <3>1, <4>2, HeatAdd
          <5> QED
            BY <4>1, <4>2, <5>1, <5>2
        <4> QED
          BY <3>2, <4>1, <4>2
      <3>5. CASE Heats(d, isDirty) /\ y = z
        <4>1. d \in A'
          BY <2>3, <3>1, <3>5
        <4>2. HeatSum([heat EXCEPT ![d] = @ + 1], A') = HeatSum(heat, A') + 1
          BY <2>1, <3>1, <4>1, HeatUse
        <4> QED
          BY <2>2, <3>3, <3>4, <3>5, <4>2
      <3>6. CASE ~(Heats(d, isDirty) /\ y = z)
        <4>1. \A e \in A' : heat'[e] = heat[e]
          BY <2>1, <2>2, <3>1, <3>6
        <4>2. HeatSum(heat', A') = HeatSum(heat, A')
          BY <4>1, HeatSame
        <4> QED
          BY <3>3, <3>4, <3>6, <4>2
      <3> QED
        BY <3>5, <3>6
    <2>7. ASSUME NEW y \in Zones
          PROVE  IF strategy' = "PORE_PLUS_V2" THEN zoneheat'[y] >= HeldHeat(y)'
                                               ELSE zoneheat'[y] = HeldHeat(y)'
      <3>1. zoneheat'[y] = IF Heats(d, isDirty) /\ y = z THEN zoneheat[y] + 1 ELSE zoneheat[y]
        BY <2>1, <2>2
      <3> QED
        BY <1>2, <2>1, <2>6, <3>1
    <2> QED
      BY <2>4, <2>5, <2>7 DEF HeatInv
  <1>15. StampInv'
    <2>1. CASE ~Stamps
      <3>1. stamp' = stamp /\ StampGlobal' = StampGlobal
        BY <1>h, <2>1 DEF HitStep, Ticks
      <3> QED
        BY <1>1, <1>3, <2>1, <3>1 DEF StampInv
    <2>2. CASE Stamps
      <3>1. /\ StampGlobal < MaxStamp /\ StampGlobal' = StampGlobal + 1
            /\ stamp' = [stamp EXCEPT ![d] = StampGlobal + 1]
        BY <1>h, <2>2 DEF HitStep, Ticks, Stamp
      <3>2. /\ stamp \in [Desps -> 0 .. MaxStamp] /\ StampGlobal \in 0 .. MaxStamp /\ MaxStamp \in Nat
            /\ \A e \in valid : stamp[e] <= StampGlobal
            /\ \A e \in Names : Ranked(Lists[e], stamp)
        BY <1>1, <2>2, ZoneStrategyAssumption DEF StampInv
      <3>3. stamp' \in [Desps -> 0 .. MaxStamp] /\ StampGlobal' \in 0 .. MaxStamp
        BY <3>1, <3>2
      <3>4. stamp'[d] = StampGlobal + 1 /\ \A e \in Desps \ {d} : stamp'[e] = stamp[e]
        BY <3>1, <3>2
      <3>5. \A e \in valid' : stamp'[e] <= StampGlobal'
        BY <1>2, <1>5, <3>1, <3>2, <3>4
      <3>6. ASSUME NEW e \in Names PROVE Ranked(Lists'[e], stamp')
        <4> DEFINE s == Lists[e]
                   r == RemoveFirst(s, d)
        <4>1. s \in Seq(Desps) /\ IsInjective(s) /\ ToSet(s) \subseteq valid /\ Ranked(s, stamp)
          BY <1>5, <3>2
        <4>2. Ranked(r, stamp)
          BY <4>1, RankedLess
        <4>3. r \in Seq(Desps) /\ ToSet(r) = ToSet(s) \ {d}
          BY <4>1, RestIs
        <4> HIDE DEF r, s
        <4>4. \A x \in ToSet(r) : stamp'[x] = stamp[x] /\ stamp'[d] > stamp[x]
          BY <1>5, <3>2, <3>4, <4>1, <4>3
        <4>5. stamp \in [Desps -> Nat] /\ stamp' \in [Desps -> Nat]
          BY <3>2, <3>3
        <4>6. Ranked(<<d>> \o r, stamp')
          BY <4>2, <4>3, <4>4, <4>5, RankedPush
        <4>7. Ranked(r, stamp')
          BY <4>2, <4>3, <4>4, RankedSame
        <4>8. Lists'[e] = IF e = c THEN <<d>> \o r ELSE r
          BY <1>11 DEF Moved, r, s
        <4> QED
          BY <4>6, <4>7, <4>8
      <3> QED
        BY <1>3, <2>2, <3>3, <3>5, <3>6 DEF StampInv
    <2> QED
      BY <2>1, <2>2
  <1>16. BaseInv'
    BY <1>7, <1>8, <1>12, <1>13, <1>14, <1>15 DEF BaseInv
  <1> QED
    BY <1>5, <1>11, <1>16 DEF HitResult, p, c, z

\* What LogOut of each strategy comes to: n descriptors leave list c from its tail.
OutStep(c, n, batch) ==
  /\ MayAsk(asked') /\ asked' \in VictimTypes
  /\ c \in Names /\ n \in 1 .. Grain /\ n <= Len(Lists[c])
  /\ Chained(links', WithList(Lists, c, Kept(Lists, c, n)))
  /\ batch = ToSet(Lists[c]) \ ToSet(Kept(Lists, c, n))
  /\ clearDesp(batch)
  /\ pagecnt_dirty' = IF c = CleanCtrl THEN pagecnt_dirty
                      ELSE [pagecnt_dirty EXCEPT ![c] = @ - Cardinality(batch \cap dirty)]
  /\ pagecnt_clean' = [pagecnt_clean EXCEPT ![c] = @ - Cardinality(batch \ dirty)]
  /\ zoneheat' = IF c = CleanCtrl \/ strategy = "PORE_PLUS_V2" THEN zoneheat
                 ELSE [zoneheat EXCEPT ![c] = @ - HeatSum(heat, batch)]
  /\ UNCHANGED <<strategy, StampGlobal, alive>>

LEMMA FewerCounted ==
  ASSUME NEW A, A \subseteq Desps, NEW B
  PROVE  /\ Cardinality(A \ B) = Cardinality(A) - Cardinality(A \cap B)
         /\ Cardinality(A) \in Nat /\ Cardinality(A \ B) \in Nat
         /\ A \cap B = {} => Cardinality(A \ B) = Cardinality(A)
  <1>1. IsFiniteSet(A) /\ IsFiniteSet(A \ B) /\ Cardinality(A) \in Nat
    BY DespsFinite
  <1>2. Cardinality(A \ B) = Cardinality(A) - Cardinality(A \cap B)
    BY <1>1, FS_Difference
  <1>3. Cardinality(A \ B) \in Nat
    BY <1>1, FS_CardinalityType
  <1>4. A \cap B = {} => A \ B = A
    OBVIOUS
  <1> QED
    BY <1>1, <1>2, <1>3, <1>4

\* The batch is of one class and, if that is the list of a zone, of that zone.
OutSets(c, n, batch) ==
  /\ batch \subseteq valid /\ batch # {} /\ Cardinality(batch) = n /\ batch \subseteq ToSet(Lists[c])
  /\ \A e \in Names : ToSet(WithList(Lists, c, Kept(Lists, c, n))[e]) = ToSet(Lists[e]) \ batch
  /\ c = CleanCtrl => batch \subseteq valid \ Zoned
  /\ c # CleanCtrl => c \in Zones /\ batch \subseteq Of(c, Zoned)
  /\ dirty' = dirty \ batch /\ valid' = valid \ batch /\ Zoned' = Zoned \ batch
  /\ \A y \in Zones : /\ Of(y, Zoned)' = Of(y, Zoned) \ batch
                      /\ Of(y, dirty)' = Of(y, dirty) \ batch
                      /\ Of(y, Zoned \ dirty)' = Of(y, Zoned \ dirty) \ batch

LEMMA OutClasses ==
  ASSUME FlagsInv, ListsInv, NEW c, NEW n, NEW batch, OutStep(c, n, batch)
  PROVE  OutSets(c, n, batch)
  <1>1. /\ c \in Names /\ n \in 1 .. Grain /\ n <= Len(Lists[c])
        /\ batch = ToSet(Lists[c]) \ ToSet(Kept(Lists, c, n))
        /\ valid' = valid \ batch /\ dirty' = dirty \ batch /\ strategy' = strategy
        /\ zone' = [d \in Desps |-> IF d \in batch THEN NoZone ELSE zone[d]]
    BY DEF OutStep, clearDesp
  <1>2. /\ Zoned \subseteq valid /\ dirty \subseteq Zoned /\ valid \subseteq Desps
        /\ \A e \in Names : ToSet(Lists[e]) \subseteq valid
        /\ Lists[c] \in Seq(Desps) /\ IsInjective(Lists[c]) /\ Len(Lists[c]) \in Nat
    BY <1>1, ListedOnes
  <1>3. Lists \in [Names -> Seq(Desps)] /\ \A e \in Names \ {c} : ToSet(Lists[e]) \cap ToSet(Lists[c]) = {}
    BY <1>1 DEF ListsInv, Chained
  <1>4. ToSet(Kept(Lists, c, n)) \subseteq ToSet(Lists[c]) /\ Cardinality(batch) = n
        /\ IsFiniteSet(batch)
    <2> DEFINE s == Lists[c]
               t == Kept(Lists, c, n)
    <2>1. s \in Seq(Desps) /\ IsInjective(s) /\ n \in 1 .. Len(s) /\ Len(s) \in Nat
      BY <1>1, <1>2, ZoneStrategyAssumption
    <2>2. t \in Seq(Desps) /\ Len(t) = Len(s) - n /\ \A i \in 1 .. Len(t) : t[i] = s[i]
      BY <2>1 DEF Kept
    <2> HIDE DEF s, t
    <2>3. \A i \in 1 .. Len(t) : i \in 1 .. Len(s)
      BY <2>1, <2>2
    <2>4. IsInjective(t)
      BY <2>1, <2>2, <2>3, SMTT(30) DEF IsInjective
    <2>5. ToSet(t) \subseteq ToSet(s)
      BY <2>1, <2>2, <2>3, InToSet
    <2>6. /\ IsFiniteSet(ToSet(s)) /\ Cardinality(ToSet(s)) = Len(s)
          /\ IsFiniteSet(ToSet(t)) /\ Cardinality(ToSet(t)) = Len(t)
      BY <2>1, <2>2, <2>4, ToSetFinite
    <2>7. Cardinality(ToSet(s) \ ToSet(t)) = Cardinality(ToSet(s)) - Cardinality(ToSet(s) \cap ToSet(t))
          /\ IsFiniteSet(ToSet(s) \ ToSet(t))
      BY <2>6, FS_Difference
    <2>8. ToSet(s) \cap ToSet(t) = ToSet(t)
      BY <2>5
    <2>9. batch = ToSet(s) \ ToSet(t)
      BY <1>1 DEF s, t
    <2>10. Cardinality(batch) = Len(s) - Len(t)
      BY <2>6, <2>7, <2>8, <2>9
    <2>11. Cardinality(batch) = n /\ IsFiniteSet(batch)
      BY <2>1, <2>2, <2>7, <2>9, <2>10
    <2>12. ToSet(Kept(Lists, c, n)) \subseteq ToSet(Lists[c])
      BY <2>5 DEF s, t
    <2> QED
      BY <2>11, <2>12
  <1>5. batch \subseteq ToSet(Lists[c]) /\ batch \subseteq valid /\ batch # {}
    <2>1. batch \subseteq ToSet(Lists[c]) /\ batch \subseteq valid
      BY <1>1, <1>2
    <2>2. n > 0
      BY <1>1, ZoneStrategyAssumption
    <2> QED
      BY <1>4, <2>1, <2>2, FS_EmptySet
  <1>6. \A e \in Names : ToSet(WithList(Lists, c, Kept(Lists, c, n))[e]) = ToSet(Lists[e]) \ batch
    <2> TAKE e \in Names
    <2>1. CASE e = c
      <3>1. WithList(Lists, c, Kept(Lists, c, n))[e] = Kept(Lists, c, n)
        BY <1>3, <2>1 DEF WithList
      <3> QED
        BY <1>1, <1>4, <2>1, <3>1
    <2>2. CASE e # c
      <3>1. WithList(Lists, c, Kept(Lists, c, n))[e] = Lists[e]
        BY <1>3, <2>2 DEF WithList
      <3> QED
        BY <1>3, <1>5, <2>2, <3>1
    <2> QED
      BY <2>1, <2>2
  <1>7. /\ c = CleanCtrl => batch \subseteq valid \ Zoned
        /\ c # CleanCtrl => c \in Zones /\ batch \subseteq Of(c, Zoned)
    BY <1>1, <1>5, NamesAre DEF ListsInv
  <1>8. Zoned' = Zoned \ batch
    BY <1>1 DEF Zoned, Separates
  <1>9. ASSUME NEW y \in Zones
        PROVE  /\ Of(y, Zoned)' = Of(y, Zoned) \ batch
               /\ Of(y, dirty)' = Of(y, dirty) \ batch
               /\ Of(y, Zoned \ dirty)' = Of(y, Zoned \ dirty) \ batch
    <2>1. \A e \in Desps : zone'[e] = IF e \in batch THEN NoZone ELSE zone[e]
      BY <1>1
    <2>2. ASSUME NEW A, A \subseteq valid
          PROVE  {e \in A \ batch : zone'[e] = y} = {e \in A : zone[e] = y} \ batch
      BY <1>2, <2>1, <2>2
    <2>3. Of(y, Zoned)' = {e \in Zoned \ batch : zone'[e] = y}
          /\ Of(y, dirty)' = {e \in dirty \ batch : zone'[e] = y}
      BY <1>1, <1>8 DEF Of
    <2>4. Of(y, Zoned \ dirty)' = {e \in (Zoned \ dirty) \ batch : zone'[e] = y}
      BY <1>1, <1>8 DEF Of
    <2>5. Zoned \subseteq valid /\ dirty \subseteq valid /\ Zoned \ dirty \subseteq valid
      BY <1>2
    <2> QED
      BY <2>2, <2>3, <2>4, <2>5 DEF Of
  <1> QED
    BY <1>1, <1>4, <1>5, <1>6, <1>7, <1>8, <1>9 DEF OutSets

OutResult(c, n, batch) ==
  /\ BaseInv' /\ Lists' = WithList(Lists, c, Kept(Lists, c, n))
  /\ OutSets(c, n, batch)

LEMMA OutBase ==
  ASSUME BaseInv, NEW c, NEW n, NEW batch, OutStep(c, n, batch)
  PROVE  OutResult(c, n, batch)
  <1>1. /\ TypesInv /\ FlagsInv /\ ListsInv /\ CountsInv /\ HeatInv /\ StampInv
        /\ OutSets(c, n, batch)
    BY OutClasses DEF BaseInv
  <1>2. /\ strategy' = strategy /\ alive' = alive /\ StampGlobal' = StampGlobal
        /\ asked' \in VictimTypes /\ c \in Names
        /\ zone'  = [d \in Desps |-> IF d \in batch THEN NoZone ELSE zone[d]]
        /\ stamp' = [d \in Desps |-> IF d \in batch THEN 0 ELSE stamp[d]]
        /\ heat'  = [d \in Desps |-> IF d \in batch THEN 0 ELSE heat[d]]
        /\ flag'  = [d \in Desps |-> d \notin batch /\ flag[d]]
        /\ Chained(links', WithList(Lists, c, Kept(Lists, c, n)))
        /\ n \in 1 .. Grain /\ n <= Len(Lists[c])
    BY DEF OutStep, clearDesp
  <1>h. /\ pagecnt_dirty' = IF c = CleanCtrl THEN pagecnt_dirty
                            ELSE [pagecnt_dirty EXCEPT ![c] = @ - Cardinality(batch \cap dirty)]
        /\ pagecnt_clean' = [pagecnt_clean EXCEPT ![c] = @ - Cardinality(batch \ dirty)]
        /\ zoneheat' = IF c = CleanCtrl \/ strategy = "PORE_PLUS_V2" THEN zoneheat
                       ELSE [zoneheat EXCEPT ![c] = @ - HeatSum(heat, batch)]
    BY DEF OutStep
  <1>3. (Separates' <=> Separates) /\ (Stamps' <=> Stamps)
    BY <1>2 DEF Separates, Stamps
  <1>4. /\ Zoned \subseteq valid /\ dirty \subseteq Zoned /\ valid \subseteq Desps
        /\ \A e \in Names : Lists[e] \in Seq(Desps) /\ Len(Lists[e]) \in Nat
    BY <1>1, ListedOnes
  <1>5. /\ batch \subseteq valid /\ valid' = valid \ batch /\ dirty' = dirty \ batch /\ Zoned' = Zoned \ batch
    BY <1>1 DEF OutSets
  <1>6. TypesInv'
    BY <1>1, <1>2 DEF TypesInv
  <1>7. FlagsInv'
    <2>1. valid' \subseteq Desps /\ dirty' \subseteq valid'
      BY <1>4, <1>5
    <2>2. zone' \in [Desps -> Zones \cup {NoZone}] /\ \A e \in valid' : zone'[e] \in Zones
      BY <1>1, <1>2, <1>4, <1>5 DEF FlagsInv
    <2>3. flag' \in [Desps -> BOOLEAN]
      BY <1>1, <1>2 DEF FlagsInv
    <2>4. \A e \in Desps : flag'[e] <=> e \in dirty'
      BY <1>1, <1>2, <1>5 DEF FlagsInv
    <2> QED
      BY <2>1, <2>2, <2>3, <2>4 DEF FlagsInv
  <1>8. Lists' = WithList(Lists, c, Kept(Lists, c, n))
    <2>1. Lists' = [e \in Names |-> Listed(links', e)]
      BY DEF Lists, List
    <2> QED
      BY <1>2, <2>1, ListsAre
  <1>9. ListsInv'
    <2>1. Chained(links', Lists')
      BY <1>2, <1>8
    <2>2. \A e \in Names : ToSet(Lists'[e]) = ToSet(Lists[e]) \ batch
      BY <1>1, <1>8 DEF OutSets
    <2>3. ToSet(Lists'[CleanCtrl]) = (valid \ Zoned)'
      <3>1. ToSet(Lists'[CleanCtrl]) = ToSet(Lists[CleanCtrl]) \ batch
        BY <2>2, NamesAre
      <3> QED
        BY <1>1, <1>5, <3>1 DEF ListsInv
    <2>4. \A y \in Zones : ToSet(Lists'[y]) = Of(y, Zoned)'
      <3> TAKE y \in Zones
      <3>1. ToSet(Lists'[y]) = ToSet(Lists[y]) \ batch
        BY <2>2, NamesAre
      <3>2. Of(y, Zoned)' = Of(y, Zoned) \ batch
        BY <1>1 DEF OutSets
      <3>3. ToSet(Lists[y]) = Of(y, Zoned)
        BY <1>1 DEF ListsInv
      <3> QED
        BY <3>1, <3>2, <3>3
    <2> QED
      BY <2>1, <2>3, <2>4 DEF ListsInv
  <1>10. CountsInv'
    <2> DEFINE free == valid \ Zoned
               hot(y) == Of(y, dirty)
               cold(y) == Of(y, Zoned \ dirty)
               b1 == Cardinality(batch \cap dirty)
               b0 == Cardinality(batch \ dirty)
    <2>1. \A y : hot(y) \subseteq Desps /\ cold(y) \subseteq Desps
      BY <1>4 DEF Of
    <2>2. free \subseteq Desps
      BY <1>4
    <2>3. /\ \A y \in Zones : hot(y)' = hot(y) \ batch /\ cold(y)' = cold(y) \ batch
          /\ free' = free \ batch
      BY <1>1 DEF OutSets
    <2>4. ASSUME NEW y \in Zones
          PROVE  /\ y # c => hot(y) \cap batch = {} /\ cold(y) \cap batch = {}
                 /\ y = c => hot(y) \cap batch = batch \cap dirty /\ cold(y) \cap batch = batch \ dirty
      <3>1. CASE y # c
        BY <1>1, <1>4, <3>1 DEF OutSets, Of
      <3>2. CASE y = c
        <4>1. batch \subseteq Of(c, Zoned)
          BY <1>1, <3>2, NamesAre DEF OutSets
        <4> QED
          BY <1>4, <3>2, <4>1 DEF Of
      <3> QED
        BY <3>1, <3>2
    <2>5. /\ c # CleanCtrl => free \cap batch = {} /\ c \in Zones
          /\ c = CleanCtrl => free \cap batch = batch \ dirty
      BY <1>1, <1>4 DEF OutSets, Of
    <2>6. /\ pagecnt_dirty = [y \in Zones |-> Cardinality(hot(y))]
          /\ pagecnt_clean = [e \in Names |-> IF e = CleanCtrl THEN Cardinality(free)
                                              ELSE Cardinality(cold(e))]
      BY <1>1 DEF CountsInv
    <2>7. /\ pagecnt_dirty' = IF c = CleanCtrl THEN pagecnt_dirty
                              ELSE [pagecnt_dirty EXCEPT ![c] = @ - b1]
          /\ pagecnt_clean' = [pagecnt_clean EXCEPT ![c] = @ - b0]
      BY <1>h
    <2> SUFFICES /\ pagecnt_dirty' = [y \in Zones |-> Cardinality(hot(y)')]
                 /\ pagecnt_clean' = [e \in Names |-> IF e = CleanCtrl THEN Cardinality(free')
                                                      ELSE Cardinality(cold(e)')]
      BY DEF CountsInv
    <2> HIDE DEF free, hot, cold
    <2>8. ASSUME NEW y \in Zones
          PROVE  /\ Cardinality(hot(y)') = IF y = c THEN Cardinality(hot(y)) - b1 ELSE Cardinality(hot(y))
                 /\ Cardinality(cold(y)') = IF y = c THEN Cardinality(cold(y)) - b0 ELSE Cardinality(cold(y))
      <3>1. Cardinality(hot(y) \ batch) = Cardinality(hot(y)) - Cardinality(hot(y) \cap batch)
            /\ (hot(y) \cap batch = {} => Cardinality(hot(y) \ batch) = Cardinality(hot(y)))
        BY <2>1, FewerCounted
      <3>2. Cardinality(cold(y) \ batch) = Cardinality(cold(y)) - Cardinality(cold(y) \cap batch)
            /\ (cold(y) \cap batch = {} => Cardinality(cold(y) \ batch) = Cardinality(cold(y)))
        BY <2>1, FewerCounted
      <3> QED
        BY <2>3, <2>4, <3>1, <3>2
    <2>9. Cardinality(free') = IF CleanCtrl = c THEN Cardinality(free) - b0 ELSE Cardinality(free)
      <3>1. Cardinality(free \ batch) = Cardinality(free) - Cardinality(free \cap batch)
            /\ (free \cap batch = {} => Cardinality(free \ batch) = Cardinality(free))
        BY <2>2, FewerCounted
      <3> QED
        BY <2>3, <2>5, <3>1
    <2> HIDE DEF b0, b1
    <2>10. pagecnt_dirty' = [y \in Zones |-> Cardinality(hot(y)')]
      <3>1. c = CleanCtrl => c \notin Zones
        BY NamesAre
      <3> QED
        BY <2>5, <2>6, <2>7, <2>8, <3>1
    <2>11. pagecnt_clean' = [e \in Names |-> IF e = CleanCtrl THEN Cardinality(free')
                                             ELSE Cardinality(cold(e)')]
      <3>1. \A e \in Names : e # CleanCtrl => e \in Zones
        BY NamesAre
      <3>2. pagecnt_clean' = [e \in Names |-> IF e = c THEN pagecnt_clean[e] - b0 ELSE pagecnt_clean[e]]
        BY <1>2, <2>6, <2>7
      <3> QED
        BY <2>6, <2>8, <2>9, <3>1, <3>2
    <2> QED
      BY <2>10, <2>11
  <1>11. HeatInv'
    <2>1. /\ heat \in [Desps -> Nat] /\ zoneheat \in [Zones -> Nat]
          /\ \A e \in Desps : e \notin Zoned \/ ~Stamps => heat[e] = 0
          /\ \A y \in Zones : IF strategy = "PORE_PLUS_V2" THEN zoneheat[y] >= HeldHeat(y)
                                                           ELSE zoneheat[y] = HeldHeat(y)
      BY <1>1 DEF HeatInv
    <2>2. heat' \in [Desps -> Nat] /\ \A e \in Desps : heat'[e] = IF e \in batch THEN 0 ELSE heat[e]
      BY <1>2, <2>1
    <2>3. \A e \in Desps : e \notin Zoned' \/ ~Stamps' => heat'[e] = 0
      BY <1>3, <1>5, <2>1, <2>2
    <2>4. ASSUME NEW y \in Zones
          PROVE  /\ HeldHeat(y)' = IF y = c THEN HeldHeat(y) - HeatSum(heat, batch) ELSE HeldHeat(y)
                 /\ HeldHeat(y) \in Nat /\ HeldHeat(y)' \in Nat /\ HeatSum(heat, batch) \in Nat
      <3> DEFINE A == Of(y, Zoned)
                 B == A \cap batch
      <3>1. A \subseteq Desps /\ B \subseteq A /\ A \ B \subseteq Desps /\ A' = A \ B /\ batch \subseteq Desps
        BY <1>1, <1>4, <1>5 DEF Of, OutSets
      <3>2. y = c => B = batch
        BY <1>1, NamesAre DEF OutSets
      <3>3. y # c => B = {}
        BY <1>1, <1>4 DEF OutSets, Of
      <3>4. HeldHeat(y) = HeatSum(heat, A) /\ HeldHeat(y)' = HeatSum(heat', A')
        BY DEF HeldHeat
      <3> HIDE DEF A, B
      <3>5. HeatSum(heat', A \ B) = HeatSum(heat, A \ B)
        <4>1. \A e \in A \ B : heat'[e] = heat[e]
          BY <2>2, <3>1 DEF A, B
        <4> QED
          BY <4>1, HeatSame
      <3>6. /\ HeatSum(heat, A \ B) = HeatSum(heat, A) - HeatSum(heat, B)
            /\ HeatSum(heat, A \ B) \in Nat /\ HeatSum(heat, B) \in Nat /\ HeatSum(heat, A) \in Nat
        BY <2>1, <3>1, HeatLess
      <3>7. HeatSum(heat, batch) \in Nat
        BY <2>1, <3>1, HeatFinite
      <3>8. y # c => HeatSum(heat, B) = 0
        BY <3>3, HeatZero
      <3> QED
        BY <3>1, <3>2, <3>4, <3>5, <3>6, <3>7, <3>8
    <2>5. ASSUME NEW y \in Zones
          PROVE  /\ zoneheat'[y] \in Nat
                 /\ IF strategy' = "PORE_PLUS_V2" THEN zoneheat'[y] >= HeldHeat(y)'
                                                  ELSE zoneheat'[y] = HeldHeat(y)'
      <3>1. CASE strategy = "PORE_PLUS_V2"
        <4>1. zoneheat'[y] = zoneheat[y]
          BY <1>h, <3>1
        <4>2. zoneheat[y] \in Nat /\ zoneheat[y] >= HeldHeat(y)
          BY <2>1, <3>1
        <4>3. HeldHeat(y)' <= HeldHeat(y)
          BY <2>4
        <4>4. zoneheat'[y] >= HeldHeat(y)'
          BY <2>4, <4>1, <4>2, <4>3
        <4> QED
          BY <1>2, <3>1, <4>1, <4>2, <4>4
      <3>2. CASE strategy # "PORE_PLUS_V2"
        <4>1. zoneheat'[y] = IF y = c THEN zoneheat[y] - HeatSum(heat, batch) ELSE zoneheat[y]
          BY <1>h, <2>1, <3>2, NamesAre
        <4>2. zoneheat[y] = HeldHeat(y)
          BY <2>1, <3>2
        <4>3. zoneheat'[y] = HeldHeat(y)'
          BY <2>4, <4>1, <4>2
        <4> QED
          BY <1>2, <2>4, <3>2, <4>3
      <3> QED
        BY <3>1, <3>2
    <2>6. zoneheat' \in [Zones -> Nat]
      <3>1. DOMAIN zoneheat' = Zones /\ zoneheat' = [y \in Zones |-> zoneheat'[y]]
        BY <1>h, <2>1
      <3> QED
        BY <2>5, <3>1
    <2> QED
      BY <2>2, <2>3, <2>5, <2>6 DEF HeatInv
  <1>12. StampInv'
    <2>1. /\ stamp \in [Desps -> 0 .. MaxStamp] /\ StampGlobal \in 0 .. MaxStamp /\ MaxStamp \in Nat
      BY <1>1, ZoneStrategyAssumption DEF StampInv
    <2>2. stamp' \in [Desps -> 0 .. MaxStamp]
          /\ \A e \in Desps : stamp'[e] = IF e \in batch THEN 0 ELSE stamp[e]
      BY <1>2, <2>1
    <2>3. CASE ~Stamps
      BY <1>1, <1>2, <1>3, <2>1, <2>2, <2>3 DEF StampInv
    <2>4. CASE Stamps
      <3>1. /\ \A e \in valid : stamp[e] <= StampGlobal
            /\ \A e \in Names : Ranked(Lists[e], stamp)
        BY <1>1, <2>4 DEF StampInv
      <3>2. \A e \in valid' : stamp'[e] <= StampGlobal'
        BY <1>2, <1>4, <1>5, <2>2, <3>1
      <3>3. ASSUME NEW e \in Names PROVE Ranked(Lists'[e], stamp')
        <4>1. Lists'[e] \in Seq(Desps) /\ ToSet(Lists'[e]) \cap batch = {} /\ ToSet(Lists'[e]) \subseteq Desps
          <5>1. Lists'[e] \in Seq(Desps) /\ ToSet(Lists'[e]) \subseteq Desps
            BY <1>2, <1>8, ChainedEnds
          <5>2. ToSet(Lists'[e]) = ToSet(Lists[e]) \ batch
            BY <1>1, <1>8 DEF OutSets
          <5> QED
            BY <5>1, <5>2
        <4>2. Ranked(Lists'[e], stamp)
          <5>1. CASE e = c
            <6>1. Lists'[c] = SubSeq(Lists[c], 1, Len(Lists[c]) - n)
              BY <1>1, <1>2, <1>8 DEF WithList, Kept, ListsInv, Chained
            <6>2. Len(Lists[c]) - n \in 0 .. Len(Lists[c]) /\ Lists[c] \in Seq(Desps)
              BY <1>2, <1>4, ZoneStrategyAssumption
            <6> QED
              BY <3>1, <5>1, <6>1, <6>2, RankedKept
          <5>2. CASE e # c
            <6>1. Lists'[e] = Lists[e]
              BY <1>1, <1>8, <5>2 DEF WithList, ListsInv, Chained
            <6> QED
              BY <3>1, <6>1
          <5> QED
            BY <5>1, <5>2
        <4>3. \A x \in ToSet(Lists'[e]) : stamp'[x] = stamp[x]
          BY <2>2, <4>1
        <4> QED
          BY <4>1, <4>2, <4>3, RankedSame
      <3> QED
        BY <1>2, <1>3, <2>1, <2>2, <2>4, <3>2, <3>3 DEF StampInv
    <2> QED
      BY <2>3, <2>4
  <1>13. BaseInv'
    BY <1>6, <1>7, <1>9, <1>10, <1>11, <1>12 DEF BaseInv
  <1> QED
    BY <1>1, <1>8, <1>13 DEF OutResult

-----------------------------------------------------------------------------
\* What the calls find and what they leave is sound.
LEMMA BaseSound ==
  ASSUME BaseInv
  PROVE  ListsSound
  <1>1. /\ TypesInv /\ FlagsInv /\ ListsInv /\ CountsInv /\ HeatInv /\ StampInv
    BY DEF BaseInv
  <1>2. /\ Zoned \subseteq valid /\ dirty \subseteq Zoned /\ valid \subseteq Desps
        /\ \A c \in Names : ToSet(Lists[c]) \subseteq valid /\ Lists[c] = List(c)
    BY <1>1, ListedOnes
  <1>3. \A c \in Names : WalksAgree(links, c)
    BY <1>1, ChainedShown DEF ListsInv
  <1>4. \A d \in Desps \ valid : links.pre[d] = Nil /\ links.next[d] = Nil
    <2>1. \A d \in Desps : (\A c \in Names : d \notin ToSet(Lists[c]))
                             => links.next[d] = Nil /\ links.pre[d] = Nil
      BY <1>1 DEF ListsInv, Chained
    <2> QED
      BY <1>2, <2>1
  <1>5. \A A : A \subseteq Desps => Cardinality(A) \in 0 .. Cardinality(Desps)
    BY DespsFinite
  <1>6. \A z \in Zones : /\ Of(z, Zoned) \subseteq Desps /\ Of(z, dirty) \subseteq Desps
                         /\ Of(z, Zoned \ dirty) \subseteq Desps
    BY <1>2 DEF Of
  <1>7. pagecnt_dirty \in [Zones -> 0 .. Cardinality(Desps)]
    BY <1>1, <1>5, <1>6 DEF CountsInv
  <1>8. pagecnt_clean \in [Names -> 0 .. Cardinality(Desps)]
    <2>1. valid \ Zoned \subseteq Desps
      BY <1>2
    <2>2. \A c \in Names : c # CleanCtrl => c \in Zones
      BY NamesAre
    <2> QED
      BY <1>1, <1>5, <1>6, <2>1, <2>2 DEF CountsInv
  <1>9. TypeOK
    BY <1>1, <1>7, <1>8 DEF TypeOK, TypesInv, FlagsInv, StampInv
  <1>10. /\ \A d \in Desps : flag[d] <=> d \in dirty
         /\ ToSet(List(CleanCtrl)) = valid \ Zoned
         /\ pagecnt_clean[CleanCtrl] = Cardinality(valid \ Zoned)
    BY <1>1, <1>2, NamesAre DEF FlagsInv, ListsInv, CountsInv
  <1>11. ASSUME NEW z \in Zones
         PROVE  LET held == HeatOf(Of(z, Zoned))
                IN  /\ ToSet(List(z)) = Of(z, Zoned)
                    /\ pagecnt_dirty[z] = Cardinality(Of(z, dirty))
                    /\ pagecnt_clean[z] = Cardinality(Of(z, Zoned \ dirty))
                    /\ zoneheat[z] = held \/ (strategy = "PORE_PLUS_V2" /\ zoneheat[z] > held)
    <2>1. ToSet(List(z)) = Of(z, Zoned)
      BY <1>1, <1>2, NamesAre DEF ListsInv
    <2>2. /\ pagecnt_dirty[z] = Cardinality(Of(z, dirty))
          /\ pagecnt_clean[z] = Cardinality(Of(z, Zoned \ dirty))
      BY <1>1, NamesAre DEF CountsInv
    <2>3. /\ HeatOf(Of(z, Zoned)) = HeldHeat(z)
          /\ IF strategy = "PORE_PLUS_V2" THEN zoneheat[z] >= HeldHeat(z)
                                          ELSE zoneheat[z] = HeldHeat(z)
      BY <1>1, HeatOfIs DEF HeatInv, HeldHeat
    <2>4. HeldHeat(z) \in Nat /\ zoneheat[z] \in Nat
      BY <1>1, <1>6, HeatFinite DEF HeatInv, HeldHeat
    <2>5. zoneheat[z] = HeldHeat(z) \/ (strategy = "PORE_PLUS_V2" /\ zoneheat[z] > HeldHeat(z))
      BY <2>3, <2>4
    <2> QED
      BY <2>1, <2>2, <2>3, <2>5
  <1> QED
    BY <1>3, <1>4, <1>9, <1>10, <1>11 DEF ListsSound

LEMMA InitBase ==
  ASSUME InitDesps, strategy \in Strategies
  PROVE  BaseInv /\ Lists = [c \in Names |-> << >>]
  <1>1. /\ links = NoLinks(Names) /\ valid = {} /\ dirty = {} /\ asked = "Any" /\ alive = TRUE
        /\ pagecnt_dirty = [z \in Zones |-> 0] /\ pagecnt_clean = [c \in Names |-> 0]
        /\ zone = [d \in Desps |-> NoZone] /\ flag = [d \in Desps |-> FALSE]
        /\ stamp = [d \in Desps |-> 0] /\ heat = [d \in Desps |-> 0] /\ StampGlobal = 0
        /\ zoneheat = [z \in Zones |-> 0]
    BY DEF InitDesps
  <1>2. Zoned = {} /\ \A z : Of(z, {}) = {}
    BY <1>1 DEF Zoned, Of
  <1>3. Lists = [c \in Names |-> << >>] /\ Chained(links, Lists)
    <2>1. Chained(links, [c \in Names |-> << >>])
      BY <1>1, EmptyChained
    <2>2. [c \in Names |-> << >>] = [c \in Names |-> Listed(links, c)]
      BY <2>1, ListsAre
    <2>3. Lists = [c \in Names |-> << >>]
      BY <2>2 DEF Lists, List
    <2> QED
      BY <2>1, <2>3
  <1>4. ToSet(<< >>) = {} /\ Cardinality({}) = 0
    BY FS_EmptySet DEF ToSet
  <1>5. TypesInv /\ FlagsInv
    BY <1>1 DEF TypesInv, FlagsInv, VictimTypes
  <1>6. ListsInv
    BY <1>1, <1>2, <1>3, <1>4, NamesAre DEF ListsInv
  <1>7. CountsInv
    <2>1. {} \ {} = {}
      OBVIOUS
    <2> QED
      BY <1>1, <1>2, <1>4, <2>1 DEF CountsInv
  <1>8. HeatInv
    <2>1. HeatSum(heat, {}) = 0
      BY HeatZero
    <2> QED
      BY <1>1, <1>2, <2>1 DEF HeatInv, HeldHeat
  <1>9. StampInv
    <2>1. \A st : Ranked(<< >>, st)
      BY DEF Ranked
    <2>2. 0 \in 0 .. MaxStamp
      BY ZoneStrategyAssumption
    <2> QED
      BY <1>1, <1>3, <2>1, <2>2 DEF StampInv
  <1> QED
    BY <1>3, <1>5, <1>6, <1>7, <1>8, <1>9 DEF BaseInv

-----------------------------------------------------------------------------
\* The zones that are not empty, in descending order.
Sorted(s, size, score) ==
  /\ s \in Seq(Zones) /\ IsInjective(s) /\ ToSet(s) = {z \in Zones : size[z] > 0}
  /\ \A i, j \in 1 .. Len(s) : i < j => score[s[i]] >= score[s[j]]

LEMMA SortedIs ==
  ASSUME NEW size \in [Zones -> Int], NEW score \in [Zones -> Int]
  PROVE  Sorted(SortedZones(size, score), size, score)
  <1> DEFINE a == NonEmptyZoneIds(size, NZones)
             r == SortedZones(size, score)
  <1>1. /\ a \in Seq(Zones) /\ IsInjective(a) /\ ToSet(a) = {z \in Zones : size[z] > 0}
    BY ZoneStrategyAssumption, NonEmptyIs DEF Zones
  <1>2. r = IF a = << >> THEN << >> ELSE qsort_zone(a, score, 1, Len(a))
    BY DEF SortedZones
  <1> HIDE DEF a, r
  <1>3. ASSUME a = << >> PROVE Sorted(r, size, score)
    <2>1. r = a /\ Len(a) = 0
      BY <1>2, <1>3
    <2> QED
      BY <1>1, <2>1 DEF Sorted
  <1>4. ASSUME a # << >> PROVE Sorted(r, size, score)
    <2>1. Len(a) > 0 /\ Zones \subseteq Int
      BY <1>1, <1>4, ZoneStrategyAssumption DEF Zones
    <2>2. LET q == qsort_zone(a, score, 1, Len(a))
          IN  /\ q \in Seq(Zones) /\ Len(q) = Len(a) /\ IsInjective(q) /\ ToSet(q) = ToSet(a)
              /\ \A i, j \in 1 .. Len(q) : i < j => score[q[i]] >= score[q[j]]
      BY <1>1, <2>1, QsortIs, Zenon
    <2> QED
      BY <1>1, <1>2, <1>4, <2>2 DEF Sorted
  <1> QED
    BY <1>3, <1>4 DEF r

\* A list is empty when its counter says so.
LEMMA CountedOnes ==
  ASSUME BaseInv
  PROVE  /\ pagecnt_dirty \in [Zones -> Nat] /\ pagecnt_clean \in [Names -> Nat]
         /\ zoneheat \in [Zones -> Nat]
         /\ pagecnt_clean[CleanCtrl] = Len(Lists[CleanCtrl])
         /\ \A z \in Zones : /\ pagecnt_dirty[z] + pagecnt_clean[z] = Len(Lists[z])
                             /\ Separates => pagecnt_dirty[z] = Len(Lists[z]) /\ pagecnt_clean[z] = 0
         /\ \A c \in Names : links.tail[c] = Nil <=> Len(Lists[c]) = 0
  <1>1. /\ FlagsInv /\ ListsInv /\ CountsInv /\ HeatInv
    BY DEF BaseInv
  <1>2. Chained(links, Lists) /\ Zoned \subseteq valid /\ dirty \subseteq Zoned /\ valid \subseteq Desps
        /\ (Separates => Zoned = dirty)
    BY <1>1, ListedOnes DEF ListsInv
  <1>3. \A c \in Names : /\ Cardinality(ToSet(Lists[c])) = Len(Lists[c])
                         /\ links.tail[c] = Nil <=> Len(Lists[c]) = 0
    BY <1>2, ChainedEnds
  <1>4. ListsSound
    BY BaseSound
  <1>5. Cardinality(Desps) \in Nat
    BY DespsFinite
  <1>6. /\ pagecnt_dirty \in [Zones -> Nat] /\ pagecnt_clean \in [Names -> Nat]
        /\ zoneheat \in [Zones -> Nat]
    BY <1>1, <1>4, <1>5 DEF ListsSound, TypeOK, HeatInv
  <1>7. pagecnt_clean[CleanCtrl] = Len(Lists[CleanCtrl])
    BY <1>1, <1>3, NamesAre DEF ListsInv, CountsInv
  <1>8. ASSUME NEW z \in Zones
        PROVE  /\ pagecnt_dirty[z] + pagecnt_clean[z] = Len(Lists[z])
               /\ Separates => pagecnt_dirty[z] = Len(Lists[z]) /\ pagecnt_clean[z] = 0
    <2> DEFINE A == Of(z, dirty)
               B == Of(z, Zoned \ dirty)
    <2>1. /\ pagecnt_dirty[z] = Cardinality(A) /\ pagecnt_clean[z] = Cardinality(B)
          /\ Len(Lists[z]) = Cardinality(Of(z, Zoned))
      BY <1>1, <1>3, NamesAre DEF ListsInv, CountsInv
    <2>2. Of(z, Zoned) = A \cup B /\ A \cap B = {} /\ A \subseteq Desps /\ B \subseteq Desps
      BY <1>2 DEF Of
    <2>3. Separates => B = {}
      BY <1>2 DEF Of
    <2> HIDE DEF A, B
    <2>4. IsFiniteSet(A) /\ IsFiniteSet(B)
      BY <2>2, DespsFinite
    <2>5. Cardinality(A \cup B) = Cardinality(A) + Cardinality(B) - Cardinality(A \cap B)
      BY <2>4, FS_Union
    <2>6. Cardinality({}) = 0 /\ Cardinality(A) \in Nat /\ Cardinality(B) \in Nat
      BY <2>4, FS_EmptySet, FS_CardinalityType
    <2>7. Cardinality(Of(z, Zoned)) = Cardinality(A) + Cardinality(B)
      <3>1. Cardinality(A \cap B) = 0 /\ Cardinality(Of(z, Zoned)) = Cardinality(A \cup B)
        BY <2>2, <2>6
      <3> QED
        BY <2>5, <2>6, <3>1
    <2>8. Separates => Cardinality(B) = 0
      BY <2>3, <2>6
    <2>9. pagecnt_dirty[z] + pagecnt_clean[z] = Len(Lists[z])
      BY <2>1, <2>7
    <2> QED
      BY <2>1, <2>6, <2>7, <2>8, <2>9
  <1> QED
    BY <1>3, <1>6, <1>7, <1>8

\* What leaves by TakeTails() and by unloadfromZone() of a tail.
Leaves(c, n, l, batch) ==
  /\ n <= Len(Lists[c]) /\ n \in 1 .. Grain
  /\ Chained(l, WithList(Lists, c, Kept(Lists, c, n)))
  /\ batch = ToSet(Lists[c]) \ ToSet(Kept(Lists, c, n))

LEMMA TailsLeave ==
  ASSUME BaseInv, NEW c \in Names, Len(Lists[c]) > 0, NEW k \in 1 .. Grain
  PROVE  LET taken == TakeTails(links, c, k)
         IN  /\ Len(taken.batch) = UpTo(Lists, c, k)
             /\ Leaves(c, UpTo(Lists, c, k), taken.links, ToSet(taken.batch))
  <1> DEFINE t == TakeTails(links, c, k)
             m == UpTo(Lists, c, k)
  <1>1. Chained(links, Lists) /\ k \in Nat /\ Len(Lists[c]) \in Nat
    <2>1. Chained(links, Lists)
      BY DEF BaseInv, ListsInv
    <2> QED
      BY <2>1, ChainedEnds, ZoneStrategyAssumption
  <1>2. TakenFrom(t, Lists, c, m)
    BY <1>1, TakeTailsIs
  <1>3. m \in 1 .. Grain /\ m <= Len(Lists[c])
    BY <1>1, ZoneStrategyAssumption DEF UpTo
  <1> HIDE DEF t, m
  <1>4. /\ Chained(t.links, WithList(Lists, c, Kept(Lists, c, m))) /\ Len(t.batch) = m
        /\ ToSet(t.batch) \cup ToSet(Kept(Lists, c, m)) = ToSet(Lists[c])
        /\ ToSet(t.batch) \cap ToSet(Kept(Lists, c, m)) = {}
    BY <1>2 DEF TakenFrom
  <1>5. ToSet(t.batch) = ToSet(Lists[c]) \ ToSet(Kept(Lists, c, m))
    BY <1>4
  <1> QED
    BY <1>3, <1>4, <1>5 DEF t, m, Leaves

LEMMA TailLeaves ==
  ASSUME BaseInv, NEW c \in Names, Len(Lists[c]) > 0
  PROVE  LET d == links.tail[c]
         IN  /\ d \in Desps /\ d \in ToSet(Lists[c]) /\ d = Lists[c][Len(Lists[c])]
             /\ Leaves(c, 1, Without(links, d, c), {d})
  <1> DEFINE s == Lists[c]
             d == links.tail[c]
             u == Without(links, d, c)
             t == WithoutTail([links |-> links, batch |-> << >>], c)
  <1>1. Chained(links, Lists) /\ Lists \in [Names -> Seq(Desps)] /\ 1 \in 1 .. Grain
    BY ZoneStrategyAssumption DEF BaseInv, ListsInv, Chained
  <1>2. /\ d \in Desps /\ d \in ToSet(s) /\ d = s[Len(s)] /\ Len(s) \in Nat /\ d # Nil
        /\ s \in Seq(Desps) /\ Len(s) > 0
    BY <1>1, ChainedEnds, NilIsNone
  <1>3. TakenFrom([links |-> links, batch |-> << >>], Lists, c, 0)
    <2>1. Kept(Lists, c, 0) = Lists[c] /\ WithList(Lists, c, Lists[c]) = Lists
      BY <1>1, <1>2 DEF Kept, WithList
    <2>2. << >> \in Seq(Desps) /\ IsInjective(<< >>) /\ ToSet(<< >>) = {} /\ Len(<< >>) = 0
      BY DEF IsInjective, ToSet
    <2> DEFINE r == [links |-> links, batch |-> << >>]
    <2>3. r.links = links /\ r.batch = << >>
      OBVIOUS
    <2> HIDE DEF r
    <2>4. TakenFrom(r, Lists, c, 0)
      BY <1>1, <2>1, <2>2, <2>3 DEF TakenFrom
    <2> QED
      BY <2>4 DEF r
  <1>4. TakenFrom(t, Lists, c, OneMore(Lists, c, 0))
    BY <1>1, <1>2, <1>3, TailRound, SMTT(30)
  <1>5. OneMore(Lists, c, 0) = 1
    BY <1>2 DEF OneMore
  <1>6. t = [links |-> u, batch |-> << d >>]
    BY <1>2 DEF WithoutTail
  <1>7. t.links = u /\ ToSet(t.batch) = {d}
    BY <1>6 DEF ToSet
  <1> HIDE DEF t, u
  <1>8. /\ Chained(t.links, WithList(Lists, c, Kept(Lists, c, 1)))
        /\ ToSet(t.batch) \cup ToSet(Kept(Lists, c, 1)) = ToSet(Lists[c])
        /\ ToSet(t.batch) \cap ToSet(Kept(Lists, c, 1)) = {}
    BY <1>4, <1>5 DEF TakenFrom
  <1>9. {d} = ToSet(Lists[c]) \ ToSet(Kept(Lists, c, 1))
    BY <1>7, <1>8
  <1>10. Leaves(c, 1, u, {d})
    BY <1>1, <1>2, <1>7, <1>8, <1>9 DEF Leaves
  <1> QED
    BY <1>2, <1>10 DEF u

-----------------------------------------------------------------------------
\* The first of a sorted array of zones.
LEMMA FirstOfSorted ==
  ASSUME NEW size \in [Zones -> Int], NEW score \in [Zones -> Int], NEW s, Sorted(s, size, score)
  PROVE  /\ s = << >> <=> \A z \in Zones : ~(size[z] > 0)
         /\ s # << >> => /\ Head(s) \in Zones /\ size[Head(s)] > 0 /\ 1 \in 1 .. Len(s) /\ Head(s) = s[1]
                         /\ \A y \in Zones : size[y] > 0 => score[y] <= score[Head(s)]
  <1>1. /\ s \in Seq(Zones) /\ ToSet(s) = {z \in Zones : size[z] > 0} /\ Len(s) \in Nat
        /\ \A i, j \in 1 .. Len(s) : i < j => score[s[i]] >= score[s[j]]
    BY DEF Sorted
  <1>2. \A i \in 1 .. Len(s) : s[i] \in Zones /\ size[s[i]] > 0
    <2> TAKE i \in 1 .. Len(s)
    <2>1. s[i] \in ToSet(s)
      BY DEF ToSet
    <2> QED
      BY <1>1, <2>1
  <1>3. \A y \in Zones : size[y] > 0 => \E i \in 1 .. Len(s) : s[i] = y
    <2> TAKE y \in Zones
    <2>1. size[y] > 0 => y \in ToSet(s)
      BY <1>1
    <2> QED
      BY <2>1 DEF ToSet
  <1>4. s # << >> <=> Len(s) > 0
    BY <1>1
  <1>5. s # << >> => 1 \in 1 .. Len(s) /\ Head(s) = s[1]
    BY <1>1, <1>4
  <1>6. ASSUME s # << >>, NEW y \in Zones, size[y] > 0
        PROVE  score[y] <= score[Head(s)]
    <2>1. PICK i \in 1 .. Len(s) : s[i] = y
      BY <1>3, <1>6
    <2>2. CASE i = 1
      <3>1. y = Head(s) /\ score[y] \in Int
        BY <1>5, <1>6, <2>1, <2>2
      <3> QED
        BY <3>1
    <2>3. CASE i > 1
      <3>1. score[s[1]] >= score[s[i]] /\ 1 \in 1 .. Len(s)
        BY <1>1, <1>5, <1>6, <2>1, <2>3
      <3>2. score[s[1]] \in Int /\ score[s[i]] \in Int
        BY <1>2, <3>1
      <3> QED
        BY <1>5, <1>6, <2>1, <3>1, <3>2
    <2> QED
      BY <2>1, <2>2, <2>3
  <1> QED
    BY <1>2, <1>3, <1>4, <1>5, <1>6

\* Where there are descriptors the counters are not zero.
LEMMA Populated ==
  ASSUME BaseInv
  PROVE  /\ \A z \in Zones : /\ Of(z, dirty) = {} <=> ~(pagecnt_dirty[z] > 0)
                             /\ Of(z, Zoned) = {} <=> ~(Len(Lists[z]) > 0)
                             /\ pagecnt_dirty[z] = Cardinality(Of(z, dirty))
                             /\ Len(Lists[z]) = Cardinality(Of(z, Zoned))
         /\ \A d \in valid : zone[d] \in Zones
         /\ \A d \in Zoned : Len(Lists[zone[d]]) > 0
         /\ \A d \in dirty : d \in Zoned /\ pagecnt_dirty[zone[d]] > 0
         /\ valid # Zoned <=> Len(Lists[CleanCtrl]) > 0
  <1>1. /\ FlagsInv /\ ListsInv /\ CountsInv /\ Chained(links, Lists)
    BY DEF BaseInv, ListsInv
  <1>2. Zoned \subseteq valid /\ dirty \subseteq Zoned /\ valid \subseteq Desps
    BY <1>1, ListedOnes
  <1>3. \A c \in Names : /\ Cardinality(ToSet(Lists[c])) = Len(Lists[c]) /\ Len(Lists[c]) \in Nat
                         /\ Len(Lists[c]) = 0 <=> ToSet(Lists[c]) = {}
    BY <1>1, ChainedEnds
  <1>4. \A d \in valid : zone[d] \in Zones
    BY <1>1 DEF FlagsInv
  <1>5. ASSUME NEW z \in Zones
        PROVE  /\ Of(z, dirty) = {} <=> ~(pagecnt_dirty[z] > 0)
               /\ Of(z, Zoned) = {} <=> ~(Len(Lists[z]) > 0)
               /\ pagecnt_dirty[z] = Cardinality(Of(z, dirty))
               /\ Len(Lists[z]) = Cardinality(Of(z, Zoned))
    <2>1. pagecnt_dirty[z] = Cardinality(Of(z, dirty)) /\ ToSet(Lists[z]) = Of(z, Zoned)
      BY <1>1 DEF CountsInv, ListsInv
    <2>2. Of(z, dirty) \subseteq Desps
      BY <1>2 DEF Of
    <2> DEFINE A == Of(z, dirty)
    <2> HIDE DEF A
    <2>3. IsFiniteSet(A) /\ Cardinality(A) \in Nat
      BY <2>2, DespsFinite DEF A
    <2>4. Cardinality(A) = 0 <=> A = {}
      BY <2>3, FS_EmptySet
    <2> QED
      BY <1>3, <2>1, <2>3, <2>4, NamesAre DEF A
  <1>6. \A d \in Zoned : d \in Of(zone[d], Zoned)
    BY DEF Of
  <1>7. \A d \in dirty : d \in Of(zone[d], dirty)
    BY DEF Of
  <1>8. valid # Zoned <=> Len(Lists[CleanCtrl]) > 0
    <2>1. valid # Zoned <=> valid \ Zoned # {}
      BY <1>2
    <2> QED
      BY <1>1, <1>3, <2>1, NamesAre DEF ListsInv
  <1> QED
    BY <1>2, <1>4, <1>5, <1>6, <1>7, <1>8

\* What the cache asks for is there.
LEMMA AskedFor ==
  ASSUME FlagsInv, NEW t \in VictimTypes, MayAsk(t)
  PROVE  /\ valid = Desps /\ valid # {} /\ alive
         /\ t \in {"Clean", "Any"} => valid # dirty
         /\ t \in {"Dirty", "Any"} => dirty # {}
  BY DEF MayAsk, FlagsInv, VictimTypes

\* Where heat is not counted it stays as it is.
LEMMA NoHeat ==
  ASSUME BaseInv, ~Stamps, NEW c \in Zones, NEW batch, batch \subseteq Desps
  PROVE  [zoneheat EXCEPT ![c] = @ - HeatSum(heat, batch)] = zoneheat
  <1>1. HeatInv
    BY DEF BaseInv
  <1>2. \A d \in Desps : heat[d] = 0
    BY <1>1 DEF HeatInv
  <1>3. HeatUses(heat, batch) = {}
    BY <1>2 DEF HeatUses
  <1>4. HeatSum(heat, batch) = 0
    BY <1>3, FS_EmptySet DEF HeatSum
  <1>5. zoneheat \in [Zones -> Nat]
    BY <1>1 DEF HeatInv
  <1> QED
    BY <1>4, <1>5

\* The batch is of one class and, if that is the list of a zone, of that zone.
LEMMA LeavesSets ==
  ASSUME BaseInv, NEW c \in Names, NEW n, NEW l, NEW batch, Leaves(c, n, l, batch)
  PROVE  /\ batch \subseteq ToSet(Lists[c]) /\ batch \subseteq valid /\ batch \subseteq Desps
         /\ n \in Nat /\ n > 0 /\ Cardinality(batch) = n
         /\ c \in Zones => batch \subseteq Of(c, Zoned)
         /\ c = CleanCtrl => batch \subseteq valid \ Zoned
         /\ Separates /\ c \in Zones => batch \cap dirty = batch /\ batch \ dirty = {}
         /\ Separates /\ c = CleanCtrl => batch \cap dirty = {} /\ batch \ dirty = batch
  <1> DEFINE s == Lists[c]
             t == Kept(Lists, c, n)
  <1>1. FlagsInv /\ ListsInv /\ n \in 1 .. Grain /\ n <= Len(s) /\ batch = ToSet(s) \ ToSet(t)
    BY DEF BaseInv, Leaves
  <1>2. /\ Zoned \subseteq valid /\ dirty \subseteq Zoned /\ valid \subseteq Desps
        /\ ToSet(s) \subseteq valid /\ s \in Seq(Desps) /\ IsInjective(s) /\ Len(s) \in Nat
        /\ Separates => Zoned = dirty
    BY <1>1, ListedOnes
  <1>3. n \in Nat /\ n > 0
    BY <1>1, ZoneStrategyAssumption
  <1>4. t \in Seq(Desps) /\ Len(t) = Len(s) - n /\ \A i \in 1 .. Len(t) : t[i] = s[i]
    BY <1>1, <1>2, <1>3 DEF Kept
  <1>5. c \in Zones => ToSet(s) = Of(c, Zoned)
    BY <1>1 DEF ListsInv
  <1>6. c = CleanCtrl => ToSet(s) = valid \ Zoned
    BY <1>1 DEF ListsInv
  <1> HIDE DEF s, t
  <1>7. \A i \in 1 .. Len(t) : i \in 1 .. Len(s)
    BY <1>2, <1>3, <1>4
  <1>8. IsInjective(t)
    BY <1>2, <1>4, <1>7 DEF IsInjective
  <1>9. ToSet(t) \subseteq ToSet(s)
    BY <1>2, <1>4, <1>7, InToSet
  <1>10. /\ IsFiniteSet(ToSet(s)) /\ Cardinality(ToSet(s)) = Len(s)
         /\ IsFiniteSet(ToSet(t)) /\ Cardinality(ToSet(t)) = Len(t)
    BY <1>2, <1>4, <1>8, ToSetFinite
  <1>11. Cardinality(ToSet(s) \ ToSet(t)) = Cardinality(ToSet(s)) - Cardinality(ToSet(s) \cap ToSet(t))
    BY <1>10, FS_Difference
  <1>12. ToSet(s) \cap ToSet(t) = ToSet(t)
    BY <1>9
  <1>13. Cardinality(batch) = Len(s) - Len(t)
    BY <1>1, <1>10, <1>11, <1>12
  <1>14. Cardinality(batch) = n
    BY <1>2, <1>3, <1>4, <1>13
  <1>15. batch \subseteq ToSet(s) /\ batch \subseteq valid /\ batch \subseteq Desps
    BY <1>1, <1>2
  <1>16. /\ c \in Zones => batch \subseteq Of(c, Zoned)
         /\ c = CleanCtrl => batch \subseteq valid \ Zoned
    BY <1>5, <1>6, <1>15
  <1>17. Separates /\ c \in Zones => batch \cap dirty = batch /\ batch \ dirty = {}
    BY <1>2, <1>16 DEF Of
  <1>18. Separates /\ c = CleanCtrl => batch \cap dirty = {} /\ batch \ dirty = batch
    BY <1>2, <1>16
  <1> QED
    BY <1>3, <1>14, <1>15, <1>16, <1>17, <1>18 DEF s

\* Where clean blocks have a list of their own, a batch is all clean or all dirty.
SeparateStep(c, n, batch) ==
  /\ Leaves(c, n, links', batch) /\ MayAsk(asked') /\ asked' \in VictimTypes /\ clearDesp(batch)
  /\ pagecnt_dirty' = IF c = CleanCtrl THEN pagecnt_dirty ELSE [pagecnt_dirty EXCEPT ![c] = @ - n]
  /\ pagecnt_clean' = IF c = CleanCtrl THEN [pagecnt_clean EXCEPT ![c] = @ - n] ELSE pagecnt_clean
  /\ zoneheat' = IF c = CleanCtrl \/ strategy # "PORE_PLUS" THEN zoneheat
                 ELSE [zoneheat EXCEPT ![c] = @ - HeatSum(heat, batch)]
  /\ UNCHANGED <<strategy, StampGlobal, alive>>

LEMMA SeparateOut ==
  ASSUME BaseInv, Separates, NEW c \in Names, NEW n, NEW batch, SeparateStep(c, n, batch)
  PROVE  /\ OutStep(c, n, batch) /\ valid \ valid' = batch
         /\ batch \subseteq ToSet(Lists[c]) /\ Cardinality(batch) = n /\ n > 0
         /\ c \in Zones => batch \subseteq Of(c, dirty)
         /\ c = CleanCtrl => batch \subseteq valid \ dirty
  <1>1. /\ Leaves(c, n, links', batch) /\ MayAsk(asked') /\ asked' \in VictimTypes /\ clearDesp(batch)
        /\ pagecnt_dirty' = IF c = CleanCtrl THEN pagecnt_dirty ELSE [pagecnt_dirty EXCEPT ![c] = @ - n]
        /\ pagecnt_clean' = IF c = CleanCtrl THEN [pagecnt_clean EXCEPT ![c] = @ - n] ELSE pagecnt_clean
        /\ zoneheat' = IF c = CleanCtrl \/ strategy # "PORE_PLUS" THEN zoneheat
                       ELSE [zoneheat EXCEPT ![c] = @ - HeatSum(heat, batch)]
        /\ UNCHANGED <<strategy, StampGlobal, alive>>
    BY DEF SeparateStep
  <1>2. /\ batch \subseteq ToSet(Lists[c]) /\ batch \subseteq valid /\ batch \subseteq Desps
        /\ n \in Nat /\ n > 0 /\ Cardinality(batch) = n
        /\ c \in Zones => batch \subseteq Of(c, Zoned)
        /\ c = CleanCtrl => batch \subseteq valid \ Zoned
        /\ c \in Zones => batch \cap dirty = batch /\ batch \ dirty = {}
        /\ c = CleanCtrl => batch \cap dirty = {} /\ batch \ dirty = batch
    BY <1>1, LeavesSets
  <1>3. Zoned = dirty /\ (c # CleanCtrl => c \in Zones) /\ CleanCtrl \notin Zones
    BY NamesAre DEF Zoned
  <1>4. /\ n \in 1 .. Grain /\ n <= Len(Lists[c])
        /\ Chained(links', WithList(Lists, c, Kept(Lists, c, n)))
        /\ batch = ToSet(Lists[c]) \ ToSet(Kept(Lists, c, n))
    BY <1>1 DEF Leaves
  <1>5. /\ pagecnt_dirty \in [Zones -> Nat] /\ pagecnt_clean \in [Names -> Nat]
    BY CountedOnes
  <1>6. Cardinality({}) = 0
    BY FS_EmptySet
  <1>7. pagecnt_dirty' = IF c = CleanCtrl THEN pagecnt_dirty
                         ELSE [pagecnt_dirty EXCEPT ![c] = @ - Cardinality(batch \cap dirty)]
    BY <1>1, <1>2, <1>3
  <1>8. pagecnt_clean' = [pagecnt_clean EXCEPT ![c] = @ - Cardinality(batch \ dirty)]
    <2>1. CASE c = CleanCtrl
      BY <1>1, <1>2, <2>1
    <2>2. CASE c # CleanCtrl
      <3>1. Cardinality(batch \ dirty) = 0
        BY <1>2, <1>3, <1>6, <2>2
      <3>2. [pagecnt_clean EXCEPT ![c] = @ - 0] = pagecnt_clean
        BY <1>5
      <3> QED
        BY <1>1, <2>2, <3>1, <3>2
    <2> QED
      BY <2>1, <2>2
  <1>9. zoneheat' = IF c = CleanCtrl \/ strategy = "PORE_PLUS_V2" THEN zoneheat
                    ELSE [zoneheat EXCEPT ![c] = @ - HeatSum(heat, batch)]
    <2>1. CASE strategy = "MOST_RW"
      <3>1. ~Stamps
        BY <2>1 DEF Stamps
      <3>2. c # CleanCtrl => [zoneheat EXCEPT ![c] = @ - HeatSum(heat, batch)] = zoneheat
        BY <1>2, <1>3, <3>1, NoHeat
      <3>3. zoneheat' = zoneheat
        BY <1>1, <2>1
      <3> QED
        BY <2>1, <3>2, <3>3
    <2>2. CASE strategy # "MOST_RW"
      <3>1. strategy \in {"PORE_PLUS", "PORE_PLUS_V2"}
        BY <2>2 DEF Separates
      <3> QED
        BY <1>1, <3>1
    <2> QED
      BY <2>1, <2>2
  <1>10. OutStep(c, n, batch)
    BY <1>1, <1>4, <1>7, <1>8, <1>9 DEF OutStep
  <1>11. valid \ valid' = batch
    BY <1>1, <1>2 DEF clearDesp
  <1> QED
    BY <1>2, <1>3, <1>10, <1>11

-----------------------------------------------------------------------------
\* The walk of redefineOpenZones(), with what it reads as parameters: the zones
\* of an order with at least thr blocks each, up to the first one that is too
\* large for what is left of cyc.
NextZone(w, z, cnt, cyc, thr) ==
  IF w.stop \/ cnt[z] + w.blks > cyc
    THEN [w EXCEPT !.stop = TRUE]
  ELSE IF cnt[z] >= thr
    THEN [w EXCEPT !.open = Append(@, z), !.blks = @ + cnt[z]]
  ELSE w

WalksOver(f, order, cnt, cyc, thr) ==
  f = [n \in 0 .. Len(order) |->
         IF n = 0 THEN [open |-> << >>, blks |-> 0, stop |-> FALSE]
         ELSE NextZone(f[n - 1], order[n], cnt, cyc, thr)]

Covered(order, cnt, cyc, thr) ==
  LET walk[n \in 0 .. Len(order)] ==
        IF n = 0 THEN [open |-> << >>, blks |-> 0, stop |-> FALSE]
        ELSE LET w == walk[n - 1]
                 z == order[n]
             IN  IF w.stop \/ cnt[z] + w.blks > cyc
                   THEN [w EXCEPT !.stop = TRUE]
                 ELSE IF cnt[z] >= thr
                   THEN [w EXCEPT !.open = Append(@, z), !.blks = @ + cnt[z]]
                 ELSE w
  IN  walk[Len(order)].open

LEMMA CoveredIs ==
  ASSUME NEW order \in Seq(Zones), IsInjective(order), NEW cnt \in [Zones -> Nat],
         NEW cyc \in Nat, NEW thr \in Nat
  PROVE  LET r == Covered(order, cnt, cyc, thr)
         IN  /\ r \in Seq(Zones) /\ IsInjective(r)
             /\ \A i \in 1 .. Len(r) : cnt[r[i]] >= thr
  <1> DEFINE S == [open : Seq(Zones), blks : Nat, stop : BOOLEAN]
             base == [open |-> << >>, blks |-> 0, stop |-> FALSE]
             step == [k \in Nat |-> [w \in S |-> IF k + 1 \in 1 .. Len(order)
                                                 THEN NextZone(w, order[k + 1], cnt, cyc, thr) ELSE w]]
             f == CHOOSE f : WalksOver(f, order, cnt, cyc, thr)
             n == Len(order)
  <1>1. n \in Nat /\ \A k \in 1 .. n : order[k] \in Zones
    OBVIOUS
  <1>2. base \in S
    OBVIOUS
  <1>3. ASSUME NEW w \in S, NEW z \in Zones
        PROVE  /\ NextZone(w, z, cnt, cyc, thr) \in S
               /\ \/ NextZone(w, z, cnt, cyc, thr).open = w.open
                  \/ /\ NextZone(w, z, cnt, cyc, thr).open = Append(w.open, z)
                     /\ cnt[z] >= thr
    <2> DEFINE stops == w.stop \/ cnt[z] + w.blks > cyc
               covers == cnt[z] >= thr
               v == NextZone(w, z, cnt, cyc, thr)
    <2>1. v = IF stops THEN [w EXCEPT !.stop = TRUE]
              ELSE IF covers THEN [w EXCEPT !.open = Append(@, z), !.blks = @ + cnt[z]] ELSE w
      BY DEF NextZone
    <2> HIDE DEF stops, v
    <2>2. ASSUME stops PROVE v \in S /\ v.open = w.open
      BY <2>1, <2>2
    <2>3. ASSUME ~stops, covers PROVE v \in S /\ v.open = Append(w.open, z)
      <3> HIDE DEF covers
      <3>1. v = [w EXCEPT !.open = Append(@, z), !.blks = @ + cnt[z]]
        BY <2>1, <2>3
      <3>2. Append(w.open, z) \in Seq(Zones) /\ w.blks + cnt[z] \in Nat /\ w.stop \in BOOLEAN
        OBVIOUS
      <3>3. w = [open |-> w.open, blks |-> w.blks, stop |-> w.stop]
        OBVIOUS
      <3>4. v = [open |-> Append(w.open, z), blks |-> w.blks + cnt[z], stop |-> w.stop]
        BY <3>1, <3>3
      <3> QED
        BY <3>2, <3>4
    <2>4. ASSUME ~stops, ~covers PROVE v \in S /\ v.open = w.open
      BY <2>1, <2>4
    <2>5. v \in S /\ (v.open = w.open \/ (v.open = Append(w.open, z) /\ covers))
      BY <2>2, <2>3, <2>4
    <2> QED
      BY <2>5 DEF v
  <1> HIDE DEF S, base
  <1>4. step \in [Nat -> [S -> S]]
    <2>1. \A k \in Nat : \A w \in S : (IF k + 1 \in 1 .. n THEN NextZone(w, order[k + 1], cnt, cyc, thr)
                                       ELSE w) \in S
      BY <1>1, <1>3
    <2> QED
      BY <2>1
  <1>5. \A k \in 1 .. n : \A w \in S : step[k - 1][w] = NextZone(w, order[k], cnt, cyc, thr)
    <2> TAKE k \in 1 .. n
    <2> TAKE w \in S
    <2>1. k - 1 \in Nat /\ (k - 1) + 1 = k
      BY <1>1
    <2> QED
      BY <2>1
  <1> HIDE DEF step, n
  <1>6. PICK h \in [0 .. n -> S] :
          h = [k \in 0 .. n |-> IF k = 0 THEN base ELSE step[k - 1][h[k - 1]]]
    <2>1. PICK h : IteratesTo(h, base, step, S, n)
      BY <1>1, <1>2, <1>4, BoundedIteration
    <2> QED
      BY <2>1 DEF IteratesTo
  <1>7. h = [k \in 0 .. n |-> IF k = 0 THEN base ELSE NextZone(h[k - 1], order[k], cnt, cyc, thr)]
    <2>1. \A k \in 0 .. n : k # 0 => k \in 1 .. n /\ h[k - 1] \in S
      BY <1>1
    <2>2. \A k \in 0 .. n : h[k] = IF k = 0 THEN base ELSE NextZone(h[k - 1], order[k], cnt, cyc, thr)
      BY <1>5, <1>6, <2>1
    <2> QED
      BY <2>2
  <1>8. WalksOver(f, order, cnt, cyc, thr)
    <2>1. WalksOver(h, order, cnt, cyc, thr)
      BY <1>7 DEF WalksOver, base, n
    <2> QED
      BY <2>1
  <1>9. Covered(order, cnt, cyc, thr) = f[n].open
    BY DEF Covered, WalksOver, NextZone, n
  <1> HIDE DEF f
  <1>10. f = [k \in 0 .. n |-> IF k = 0 THEN base ELSE NextZone(f[k - 1], order[k], cnt, cyc, thr)]
    BY <1>8 DEF WalksOver, base, n
  <1> DEFINE Good(k) == /\ f[k] \in S /\ IsInjective(f[k].open)
                        /\ \A i \in 1 .. Len(f[k].open) :
                             /\ cnt[f[k].open[i]] >= thr
                             /\ \E j \in 1 .. k : order[j] = f[k].open[i]
             T == {k \in Nat : k <= n => Good(k)}
  <1>11. 0 \in T
    <2>1. f[0] = base
      BY <1>1, <1>10
    <2>2. base.open = << >> /\ Len(<< >>) = 0 /\ IsInjective(<< >>)
      BY DEF base, IsInjective
    <2> QED
      BY <1>2, <2>1, <2>2
  <1>12. ASSUME NEW k \in Nat, k \in T PROVE k + 1 \in T
    <2> SUFFICES ASSUME k + 1 <= n PROVE Good(k + 1)
      OBVIOUS
    <2>1. k <= n /\ k + 1 \in 1 .. n /\ (k + 1) - 1 = k /\ k + 1 \in 0 .. n
      BY <1>1
    <2>2. Good(k)
      BY <1>12, <2>1
    <2>3. f[k + 1] = NextZone(f[k], order[k + 1], cnt, cyc, thr)
      BY <1>10, <2>1
    <2>4. f[k] \in S /\ order[k + 1] \in Zones
      BY <1>1, <2>1, <2>2
    <2>5. /\ f[k + 1] \in S
          /\ \/ f[k + 1].open = f[k].open
             \/ f[k + 1].open = Append(f[k].open, order[k + 1]) /\ cnt[order[k + 1]] >= thr
      BY <1>3, <2>3, <2>4
    <2>6. CASE f[k + 1].open = f[k].open
      <3>1. \A j \in 1 .. k : j \in 1 .. k + 1
        OBVIOUS
      <3> QED
        BY <2>2, <2>5, <2>6, <3>1
    <2>7. CASE f[k + 1].open = Append(f[k].open, order[k + 1]) /\ cnt[order[k + 1]] >= thr
      <3> DEFINE s == f[k].open
                 z == order[k + 1]
                 r == f[k + 1].open
      <3>1. s \in Seq(Zones) /\ z \in Zones /\ IsInjective(s) /\ r = Append(s, z)
        BY <2>2, <2>4, <2>7 DEF S
      <3>2. z \notin ToSet(s)
        <4>1. SUFFICES ASSUME NEW i \in 1 .. Len(s), s[i] = z PROVE FALSE
          BY <3>1, InToSet
        <4>2. PICK j \in 1 .. k : order[j] = s[i]
          BY <2>2
        <4>3. j \in 1 .. Len(order) /\ k + 1 \in 1 .. Len(order) /\ order[j] = order[k + 1] /\ j # k + 1
          BY <2>1, <4>1, <4>2 DEF n
        <4> QED
          BY <4>3 DEF IsInjective
      <3> HIDE DEF s, z, r
      <3>3. IsInjective(r) /\ Len(r) = Len(s) + 1 /\ Len(s) \in Nat
        BY <3>1, <3>2, AppendNew
      <3>4. \A i \in 1 .. Len(r) : r[i] = IF i = Len(s) + 1 THEN z ELSE s[i]
        BY <3>1, <3>3, SMTT(30)
      <3>5. \A i \in 1 .. Len(s) : cnt[s[i]] >= thr /\ \E j \in 1 .. k : order[j] = s[i]
        BY <2>2 DEF s
      <3>6. ASSUME NEW i \in 1 .. Len(r)
            PROVE  cnt[r[i]] >= thr /\ \E j \in 1 .. k + 1 : order[j] = r[i]
        <4>1. CASE i = Len(s) + 1
          BY <2>1, <2>7, <3>4, <4>1 DEF z
        <4>2. CASE i # Len(s) + 1
          <5>1. i \in 1 .. Len(s) /\ r[i] = s[i]
            BY <3>3, <3>4, <4>2
          <5>2. \A j \in 1 .. k : j \in 1 .. k + 1
            OBVIOUS
          <5> QED
            BY <3>5, <5>1, <5>2
        <4> QED
          BY <4>1, <4>2
      <3> QED
        BY <2>5, <3>3, <3>6 DEF r
    <2> QED
      BY <2>5, <2>6, <2>7
  <1>13. Nat \subseteq T
    <2> HIDE DEF T
    <2> QED
      BY <1>11, <1>12, NatInduct
  <1>14. Good(n)
    BY <1>1, <1>13
  <1> QED
    BY <1>9, <1>14 DEF S

\* The block at the tail of the list of a zone was used before all others there.
LEMMA OldestLast ==
  ASSUME BaseInv, Stamps, NEW c \in Names, Len(Lists[c]) > 0
  PROVE  LET d == links.tail[c]
         IN  /\ d \in ToSet(Lists[c]) /\ d \in valid /\ d \in Desps
             /\ stamp[d] \in 0 .. StampGlobal /\ StampGlobal \in Nat
             /\ \A e \in ToSet(Lists[c]) : stamp[e] \in 0 .. StampGlobal
             /\ \A e \in ToSet(Lists[c]) \ {d} : stamp[d] < stamp[e]
             /\ c \in Zones => Of(c, Zoned) = ToSet(Lists[c])
  <1>d. PICK d : d = links.tail[c]
    OBVIOUS
  <1>s. PICK s : s = Lists[c]
    OBVIOUS
  <1>1. FlagsInv /\ ListsInv /\ StampInv /\ Chained(links, Lists)
    BY DEF BaseInv, ListsInv
  <1>2. s \in Seq(Desps) /\ Len(s) \in Nat /\ d = s[Len(s)] /\ d \in ToSet(s) /\ Len(s) > 0
    BY <1>1, <1>d, <1>s, ChainedEnds
  <1>3. ToSet(s) \subseteq valid /\ valid \subseteq Desps
    BY <1>1, <1>s, ListedOnes
  <1>4. /\ stamp \in [Desps -> 0 .. MaxStamp] /\ StampGlobal \in 0 .. MaxStamp /\ MaxStamp \in Nat
        /\ \A e \in valid : stamp[e] <= StampGlobal
        /\ Ranked(s, stamp)
    BY <1>1, <1>s, ZoneStrategyAssumption DEF StampInv
  <1>5. \A e \in valid : stamp[e] \in 0 .. StampGlobal
    BY <1>3, <1>4
  <1>6. ASSUME NEW e \in ToSet(s) \ {d} PROVE stamp[d] < stamp[e]
    <2>1. PICK i \in 1 .. Len(s) : s[i] = e
      BY <1>6 DEF ToSet
    <2>2. i < Len(s) /\ Len(s) \in 1 .. Len(s)
      BY <1>2, <1>6, <2>1
    <2>3. stamp[s[i]] > stamp[s[Len(s)]]
      BY <1>4, <2>1, <2>2 DEF Ranked
    <2>4. stamp[d] \in Nat /\ stamp[e] \in Nat
      BY <1>2, <1>3, <1>5, <1>6
    <2> QED
      BY <1>2, <2>1, <2>3, <2>4
  <1>7. c \in Zones => Of(c, Zoned) = ToSet(s)
    BY <1>1, <1>s DEF ListsInv
  <1>8. StampGlobal \in Nat
    BY <1>4
  <1> QED
    BY <1>d, <1>s, <1>2, <1>3, <1>5, <1>6, <1>7, <1>8

-----------------------------------------------------------------------------
\* Powers of two, and the way up from a leaf of a binary tree.
LEMMA PowerOfTwo ==
  \A k \in Nat : 2 ^ k \in Nat /\ 2 ^ k > 0 /\ 2 ^ (k + 1) = 2 * 2 ^ k /\ k < 2 ^ k
  <1> DEFINE card(S) == Cardinality(SUBSET S)
  <1>1. \A k \in Nat : IsFiniteSet(1 .. k) /\ Cardinality(1 .. k) = k
    BY FS_Interval
  <1>2. \A k \in Nat : /\ IsFiniteSet(SUBSET (1 .. k)) /\ card(1 .. k) = 2 ^ k
    <2> TAKE k \in Nat
    <2> DEFINE S == 1 .. k
    <2>1. IsFiniteSet(S) /\ Cardinality(S) = k
      BY <1>1
    <2> HIDE DEF S
    <2>2. IsFiniteSet(SUBSET S) /\ Cardinality(SUBSET S) = 2 ^ k
      BY <2>1, FS_SUBSET
    <2> QED
      BY <2>2 DEF S
  <1>3. ASSUME NEW k \in Nat PROVE card(1 .. k + 1) = 2 * card(1 .. k)
    <2> DEFINE S == 1 .. k
               A == SUBSET S
               B == {T \cup {k + 1} : T \in A}
               f == [T \in A |-> T \cup {k + 1}]
    <2>1. SUBSET (1 .. k + 1) = A \cup B
      <3>1. ASSUME NEW T \in SUBSET (1 .. k + 1) PROVE T \in A \cup B
        <4>1. CASE k + 1 \in T
          <5>0. \A e \in T \ {k + 1} : e \in 1 .. k
            OBVIOUS
          <5>1. T \ {k + 1} \in A
            BY <5>0
          <5>2. T = (T \ {k + 1}) \cup {k + 1}
            BY <4>1
          <5> QED
            BY <5>1, <5>2
        <4>2. CASE k + 1 \notin T
          <5>0. \A e \in T : e \in 1 .. k
            BY <4>2
          <5> QED
            BY <5>0
        <4> QED
          BY <4>1, <4>2
      <3>2. ASSUME NEW T \in A PROVE T \in SUBSET (1 .. k + 1) /\ T \cup {k + 1} \in SUBSET (1 .. k + 1)
        OBVIOUS
      <3>3. B \subseteq SUBSET (1 .. k + 1) /\ A \subseteq SUBSET (1 .. k + 1)
        BY <3>2, ZenonT(40)
      <3>4. SUBSET (1 .. k + 1) \subseteq A \cup B
        BY <3>1
      <3> QED
        BY <3>3, <3>4
    <2>2. A \cap B = {}
      OBVIOUS
    <2>3. IsFiniteSet(A)
      BY <1>2
    <2>4. f \in Bijection(A, B)
      <3>1. \A T, U \in A : T \cup {k + 1} = U \cup {k + 1} => T = U
        <4> TAKE T, U \in A
        <4>1. T = (T \cup {k + 1}) \ {k + 1} /\ U = (U \cup {k + 1}) \ {k + 1}
          OBVIOUS
        <4> QED
          BY <4>1
      <3>2. f \in Injection(A, B)
        <4>1. f \in [A -> B]
          OBVIOUS
        <4>2. \A T, U \in A : f[T] = f[U] => T = U
          BY <3>1
        <4> HIDE DEF f, A, B
        <4> QED
          BY <4>1, <4>2 DEF Injection, IsInjective
      <3>3. f \in Surjection(A, B)
        BY DEF Surjection
      <3> QED
        BY <3>2, <3>3 DEF Bijection
    <2> HIDE DEF A, B, f
    <2>5. IsFiniteSet(B) /\ Cardinality(B) = Cardinality(A)
      BY <2>3, <2>4, FS_Bijection DEF ExistsBijection
    <2>6. /\ Cardinality(A \cup B) = Cardinality(A) + Cardinality(B) - Cardinality(A \cap B)
          /\ Cardinality(A) \in Nat
      BY <2>3, <2>5, FS_Union, FS_CardinalityType
    <2>7. Cardinality(A \cap B) = 0
      BY <2>2, FS_EmptySet
    <2>8. Cardinality(A \cup B) = 2 * Cardinality(A)
      BY <2>5, <2>6, <2>7
    <2> QED
      BY <2>1, <2>8 DEF A
  <1>4. \A k \in Nat : card(1 .. k) \in Nat
    BY <1>2, FS_CardinalityType
  <1> HIDE DEF card
  <1>5. \A k \in Nat : 2 ^ k \in Nat /\ 2 ^ (k + 1) = 2 * 2 ^ k
    <2> TAKE k \in Nat
    <2>1. k + 1 \in Nat
      OBVIOUS
    <2>2. 2 ^ k = card(1 .. k) /\ 2 ^ (k + 1) = card(1 .. k + 1)
      BY <1>2, <2>1
    <2> QED
      BY <1>3, <1>4, <2>2
  <1> DEFINE T == {k \in Nat : k < 2 ^ k}
  <1>6. 0 \in T
    OBVIOUS
  <1>7. ASSUME NEW k \in Nat, k \in T PROVE k + 1 \in T
    <2>1. PICK a \in Nat : a = 2 ^ k
      BY <1>5
    <2>2. 2 ^ (k + 1) = 2 * a /\ k < a
      BY <1>5, <1>7, <2>1
    <2> QED
      BY <2>2
  <1>8. Nat \subseteq T
    <2> HIDE DEF T
    <2> QED
      BY <1>6, <1>7, NatInduct
  <1>9. \A k \in Nat : k < 2 ^ k /\ 2 ^ k \in Nat
    BY <1>5, <1>8
  <1>10. \A k \in Nat : 2 ^ k > 0
    BY <1>9
  <1> QED
    BY <1>5, <1>9, <1>10

LEMMA HalfAgain ==
  ASSUME NEW a \in Nat, NEW b \in Nat, b > 0
  PROVE  /\ (a \div b) \in Nat /\ (a \div b) \div 2 = a \div (2 * b)
         /\ 2 * (a \div (2 * b)) <= a \div b /\ a \div b <= 2 * (a \div (2 * b)) + 1
  <1>q. PICK q : q = a \div b
    OBVIOUS
  <1>1. q \in Nat /\ q * b <= a /\ a < (q + 1) * b
    BY <1>q, SMTT(30)
  <1>h. PICK h \in Nat : q = 2 * h \/ q = 2 * h + 1
    <2>1. q \div 2 \in Nat /\ (q = 2 * (q \div 2) \/ q = 2 * (q \div 2) + 1)
      BY <1>1
    <2> QED
      BY <2>1
  <1>2. q \div 2 = h
    BY <1>h
  <1>p. PICK p \in Nat : p = h * b
    OBVIOUS
  <1>3. 2 * p <= a /\ a < 2 * p + 2 * b
    <2>1. CASE q = 2 * h
      <3>1. q * b = 2 * p /\ (q + 1) * b = 2 * p + b
        BY <1>p, <2>1
      <3> QED
        BY <1>1, <3>1
    <2>2. CASE q = 2 * h + 1
      <3>1. q * b = 2 * p + b /\ (q + 1) * b = 2 * p + 2 * b
        BY <1>p, <2>2
      <3> QED
        BY <1>1, <3>1
    <2> QED
      BY <1>h, <2>1, <2>2
  <1>4. PICK c \in Nat : c = 2 * b /\ c > 0
    OBVIOUS
  <1>5. h * c <= a /\ a < (h + 1) * c
    <2>1. h * c = 2 * p /\ (h + 1) * c = 2 * p + 2 * b
      BY <1>p, <1>4
    <2> QED
      BY <1>3, <2>1
  <1>6. a \div c = h
    BY <1>4, <1>5, SMTT(30)
  <1> QED
    BY <1>q, <1>1, <1>h, <1>2, <1>4, <1>6

\* The k-th place on the way up from leaf i of a tree with n leaves.
Climb(n, i, k) == (n + i) \div 2 ^ k

ClimbFacts(m, n, i) ==
  /\ n \in Nat /\ n > 0 /\ Climb(n, i, 0) = n + i /\ Climb(n, i, m) = 1
  /\ \A k \in Nat : /\ Climb(n, i, k) \in Nat
                    /\ Climb(n, i, k + 1) = Climb(n, i, k) \div 2
                    /\ \/ Climb(n, i, k) = 2 * Climb(n, i, k + 1)
                       \/ Climb(n, i, k) = 2 * Climb(n, i, k + 1) + 1
  /\ \A j, k \in Nat : j < k => 2 * Climb(n, i, k) <= Climb(n, i, j)
  /\ \A k \in Nat : k > 0 => Climb(n, i, k) < n
  /\ \A k \in 0 .. m : Climb(n, i, k) >= 1

LEMMA ClimbIs ==
  ASSUME NEW m \in Nat, NEW n, n = 2 ^ m, NEW i \in 0 .. n - 1
  PROVE  ClimbFacts(m, n, i)
  <1> DEFINE C(k) == Climb(n, i, k)
  <1>1. n \in Nat /\ n > 0 /\ n + i \in Nat
    BY PowerOfTwo
  <1>2. \A k \in Nat : /\ C(k) \in Nat /\ C(k + 1) = C(k) \div 2
                       /\ 2 * C(k + 1) <= C(k) /\ C(k) <= 2 * C(k + 1) + 1
    <2> TAKE k \in Nat
    <2>1. PICK b : b = 2 ^ k
      OBVIOUS
    <2>2. b \in Nat /\ b > 0 /\ 2 ^ (k + 1) = 2 * b
      BY <2>1, PowerOfTwo
    <2>3. PICK a \in Nat : a = n + i
      BY <1>1
    <2>4. C(k) = a \div b
      BY <2>1, <2>3 DEF Climb
    <2>5. C(k + 1) = a \div (2 * b)
      BY <2>2, <2>3 DEF Climb
    <2> HIDE DEF C
    <2>6. /\ (a \div b) \in Nat /\ (a \div b) \div 2 = a \div (2 * b)
          /\ 2 * (a \div (2 * b)) <= a \div b /\ a \div b <= 2 * (a \div (2 * b)) + 1
      BY <2>2, HalfAgain
    <2> QED
      BY <2>4, <2>5, <2>6
  <1>3. C(0) = n + i
    <2>1. 2 ^ 0 = 1
      OBVIOUS
    <2> QED
      BY <1>1, <2>1 DEF Climb
  <1>4. C(m) = 1
    <2>1. C(m) = (n + i) \div n
      BY DEF Climb
    <2>2. i \in Nat /\ i < n
      BY <1>1
    <2>3. (n + i) \div n = 1
      BY <1>1, <2>2, SMTT(30)
    <2> QED
      BY <2>1, <2>3
  <1> HIDE DEF C
  <1>5. \A k \in Nat : C(k) = 2 * C(k + 1) \/ C(k) = 2 * C(k + 1) + 1
    <2> TAKE k \in Nat
    <2>1. k + 1 \in Nat
      OBVIOUS
    <2>2. C(k) \in Nat /\ C(k + 1) \in Nat /\ 2 * C(k + 1) <= C(k) /\ C(k) <= 2 * C(k + 1) + 1
      BY <1>2, <2>1
    <2> QED
      BY <2>2
  <1>6. \A j, k \in Nat : j < k => 2 * C(k) <= C(j)
    <2> DEFINE T == {k \in Nat : \A j \in Nat : j < k => 2 * C(k) <= C(j)}
    <2>1. 0 \in T
      OBVIOUS
    <2>2. ASSUME NEW k \in Nat, k \in T PROVE k + 1 \in T
      <3> SUFFICES ASSUME NEW j \in Nat, j < k + 1 PROVE 2 * C(k + 1) <= C(j)
        OBVIOUS
      <3>1. C(k) \in Nat /\ C(k + 1) \in Nat /\ C(j) \in Nat /\ 2 * C(k + 1) <= C(k)
        BY <1>2
      <3>2. CASE j = k
        BY <3>1, <3>2
      <3>3. CASE j < k
        <4>1. 2 * C(k) <= C(j)
          BY <2>2, <3>3
        <4> QED
          BY <3>1, <4>1
      <3> QED
        BY <3>2, <3>3
    <2>3. Nat \subseteq T
      <3> HIDE DEF T
      <3> QED
        BY <2>1, <2>2, NatInduct
    <2> QED
      BY <2>3
  <1>7. \A k \in Nat : k > 0 => C(k) < n
    <2> TAKE k \in Nat
    <2>1. k > 0 => 2 * C(k) <= C(0)
      BY <1>6
    <2> QED
      BY <1>1, <1>2, <1>3, <2>1
  <1>8. \A k \in 0 .. m : C(k) >= 1
    <2> TAKE k \in 0 .. m
    <2>1. k \in Nat /\ C(k) \in Nat
      BY <1>2
    <2>2. k < m => 2 * C(m) <= C(k)
      BY <1>6, <2>1
    <2> QED
      BY <1>4, <2>1, <2>2
  <1> QED
    BY <1>1, <1>2, <1>3, <1>4, <1>5, <1>6, <1>7, <1>8 DEF C, ClimbFacts

\* Leaf i is below place x.
Under(n, x, i) == \E k \in Nat : Climb(n, i, k) = x

UnderFacts(m, n, i) ==
  /\ \A x \in Nat : x > 0 => ~(Under(n, 2 * x, i) /\ Under(n, 2 * x + 1, i))
  /\ \A x \in Nat : Under(n, 2 * x, i) \/ Under(n, 2 * x + 1, i) => Under(n, x, i)
  /\ \A j \in 0 .. n - 1 : Under(n, n + j, i) <=> i = j
  /\ \A k \in Nat : Under(n, Climb(n, i, k), i)
  /\ \A x \in Nat : x \in 1 .. n - 1 /\ Under(n, x, i) => \E k \in 1 .. m : x = Climb(n, i, k)

LEMMA UnderIs ==
  ASSUME NEW m \in Nat, NEW n, n = 2 ^ m, NEW i \in 0 .. n - 1
  PROVE  UnderFacts(m, n, i)
  <1> DEFINE C(k) == Climb(n, i, k)
  <1>1. /\ n \in Nat /\ n > 0 /\ C(0) = n + i /\ C(m) = 1
        /\ \A k \in Nat : C(k) \in Nat /\ C(k + 1) = C(k) \div 2
        /\ \A j, k \in Nat : j < k => 2 * C(k) <= C(j)
        /\ \A k \in Nat : k > 0 => C(k) < n
        /\ \A k \in Nat : C(k) = 2 * C(k + 1) \/ C(k) = 2 * C(k + 1) + 1
    <2>1. ClimbFacts(m, n, i)
      BY ClimbIs
    <2> QED
      BY <2>1 DEF ClimbFacts
  <1> HIDE DEF C
  <1>2. ASSUME NEW x \in Nat, x > 0, NEW j \in Nat, NEW k \in Nat, C(j) = 2 * x, C(k) = 2 * x + 1
        PROVE  FALSE
    <2>1. CASE j < k
      <3>1. 2 * C(k) <= C(j)
        BY <1>1, <2>1
      <3> QED
        BY <1>2, <3>1
    <2>2. CASE k < j
      <3>1. 2 * C(j) <= C(k)
        BY <1>1, <2>2
      <3> QED
        BY <1>2, <3>1
    <2>3. CASE j = k
      BY <1>2, <2>3
    <2> QED
      BY <2>1, <2>2, <2>3
  <1>3. ASSUME NEW x \in Nat, NEW k \in Nat, C(k) = 2 * x \/ C(k) = 2 * x + 1
        PROVE  C(k + 1) = x /\ k + 1 \in Nat
    <2>1. k + 1 \in Nat
      OBVIOUS
    <2>2. C(k + 1) \in Nat
      BY <1>1, <2>1
    <2>3. C(k) = 2 * C(k + 1) \/ C(k) = 2 * C(k + 1) + 1
      BY <1>1
    <2> QED
      BY <1>3, <2>1, <2>2, <2>3
  <1>4. ASSUME NEW j \in 0 .. n - 1, NEW k \in Nat, C(k) = n + j
        PROVE  i = j
    <2>0. n + j >= n
      BY <1>1
    <2>1. k = 0
      BY <1>1, <1>4, <2>0
    <2>2. n + i = n + j
      BY <1>1, <1>4, <2>1
    <2> QED
      BY <1>1, <2>2
  <1>5. ASSUME NEW x \in 1 .. n - 1, NEW k \in Nat, C(k) = x PROVE k \in 1 .. m
    <2>1. k # 0
      BY <1>1, <1>5
    <2>2. ~(m < k)
      <3>1. m < k => 2 * C(k) <= C(m)
        BY <1>1
      <3> QED
        BY <1>1, <1>5, <3>1
    <2> QED
      BY <2>1, <2>2
  <1>6. \A x \in Nat : x > 0 => ~(Under(n, 2 * x, i) /\ Under(n, 2 * x + 1, i))
    BY <1>2 DEF Under, C
  <1>7. \A x \in Nat : Under(n, 2 * x, i) \/ Under(n, 2 * x + 1, i) => Under(n, x, i)
    BY <1>3 DEF Under, C
  <1>8. \A j \in 0 .. n - 1 : Under(n, n + j, i) <=> i = j
    <2> TAKE j \in 0 .. n - 1
    <2>1. Under(n, n + j, i) => i = j
      BY <1>4 DEF Under, C
    <2>2. Under(n, n + i, i)
      BY <1>1 DEF Under, C
    <2> QED
      BY <2>1, <2>2
  <1>9. \A k \in Nat : Under(n, Climb(n, i, k), i)
    BY DEF Under
  <1>10. \A x \in Nat : x \in 1 .. n - 1 /\ Under(n, x, i) => \E k \in 1 .. m : x = Climb(n, i, k)
    BY <1>5 DEF Under, C
  <1> QED
    BY <1>6, <1>7, <1>8, <1>9, <1>10 DEF UnderFacts

-----------------------------------------------------------------------------
\* The tree of losers of PORE: n leaves, losers nl at the places below n, and the
\* winners W of all places, the leaves from n on, which the tree does not keep.
Entries == [value : Int, pathId : Int, despId : Desps \cup {-1, Losers!Nowhere}]

\* At place x the winners of the two places below have met.
Match(nl, W, x) ==
  /\ W[x].value <= nl[x].value
  /\ \/ W[x] = W[2 * x] /\ nl[x] = W[2 * x + 1]
     \/ W[x] = W[2 * x + 1] /\ nl[x] = W[2 * x]

Played(n, nl, W) ==
  /\ nl \in [0 .. n - 1 -> Entries] /\ W \in [1 .. 2 * n - 1 -> Entries] /\ nl[0] = W[1]
  /\ \A x \in 1 .. n - 1 : Match(nl, W, x)
  /\ \A x \in 1 .. 2 * n - 1 : \E i \in 0 .. n - 1 : Under(n, x, i) /\ W[x] = W[n + i]

\* No leaf is less than the winner, and every entry comes from a leaf.
ChampionFacts(m, n, nl, W) ==
  /\ n \in Nat /\ n > 0
  /\ \A i \in 0 .. n - 1 : nl[0].value <= W[n + i].value
  /\ \A x \in 0 .. n - 1 : \E i \in 0 .. n - 1 : nl[x] = W[n + i]
  /\ \A i \in 0 .. n - 1, k \in 0 .. m : W[Climb(n, i, k)].value <= W[n + i].value

LEMMA Champion ==
  ASSUME NEW m \in Nat, NEW n, n = 2 ^ m, NEW nl, NEW W, Played(n, nl, W)
  PROVE  ChampionFacts(m, n, nl, W)
  <1>1. /\ nl \in [0 .. n - 1 -> Entries] /\ W \in [1 .. 2 * n - 1 -> Entries] /\ nl[0] = W[1]
        /\ \A x \in 1 .. n - 1 : Match(nl, W, x)
        /\ \A x \in 1 .. 2 * n - 1 : \E i \in 0 .. n - 1 : W[x] = W[n + i]
    BY DEF Played
  <1>2. n \in Nat /\ n > 0
    BY PowerOfTwo
  <1>3. \A x \in 1 .. 2 * n - 1 : W[x].value \in Int
    BY <1>1 DEF Entries
  <1>4. ASSUME NEW x \in 1 .. n - 1
        PROVE  /\ 2 * x \in 1 .. 2 * n - 1 /\ 2 * x + 1 \in 1 .. 2 * n - 1
               /\ W[x].value <= W[2 * x].value /\ W[x].value <= W[2 * x + 1].value
    <2>1. 2 * x \in 1 .. 2 * n - 1 /\ 2 * x + 1 \in 1 .. 2 * n - 1 /\ x \in 1 .. 2 * n - 1
      BY <1>2
    <2>2. W[x].value \in Int /\ W[2 * x].value \in Int /\ W[2 * x + 1].value \in Int
      BY <1>3, <2>1
    <2>3. Match(nl, W, x)
      BY <1>1
    <2> QED
      BY <2>1, <2>2, <2>3 DEF Match
  <1>5. ASSUME NEW i \in 0 .. n - 1
        PROVE  \A k \in 0 .. m : W[Climb(n, i, k)].value <= W[n + i].value
    <2> DEFINE C(k) == Climb(n, i, k)
               T == {k \in Nat : k <= m => W[C(k)].value <= W[n + i].value}
    <2>1. /\ C(0) = n + i
          /\ \A k \in Nat : C(k) \in Nat /\ (C(k) = 2 * C(k + 1) \/ C(k) = 2 * C(k + 1) + 1)
          /\ \A k \in Nat : k > 0 => C(k) < n
          /\ \A k \in 0 .. m : C(k) >= 1
      <3>1. ClimbFacts(m, n, i)
        BY ClimbIs
      <3> QED
        BY <3>1 DEF ClimbFacts
    <2> HIDE DEF C
    <2>2. 0 \in T
      <3>1. n + i \in 1 .. 2 * n - 1
        BY <1>2
      <3>2. W[n + i].value \in Int
        BY <1>3, <3>1
      <3> QED
        BY <2>1, <3>2
    <2>3. ASSUME NEW k \in Nat, k \in T PROVE k + 1 \in T
      <3> SUFFICES ASSUME k + 1 <= m PROVE W[C(k + 1)].value <= W[n + i].value
        OBVIOUS
      <3>x. PICK x : x = C(k + 1)
        OBVIOUS
      <3>1. x \in 1 .. n - 1
        <4>1. k + 1 \in Nat /\ k + 1 > 0 /\ k + 1 \in 0 .. m
          OBVIOUS
        <4>2. C(k + 1) \in Nat /\ C(k + 1) < n /\ C(k + 1) >= 1
          BY <2>1, <4>1
        <4> QED
          BY <1>2, <3>x, <4>2
      <3>2. C(k) = 2 * x \/ C(k) = 2 * x + 1
        BY <2>1, <3>x
      <3>3. W[x].value <= W[C(k)].value /\ C(k) \in 1 .. 2 * n - 1 /\ x \in 1 .. 2 * n - 1
        BY <1>2, <1>4, <3>1, <3>2
      <3>4. W[C(k)].value <= W[n + i].value
        BY <2>3
      <3>5. W[x].value \in Int /\ W[C(k)].value \in Int /\ W[n + i].value \in Int
        <4>1. n + i \in 1 .. 2 * n - 1
          BY <1>2
        <4> QED
          BY <1>3, <3>3, <4>1
      <3>6. W[x].value <= W[n + i].value
        BY <3>3, <3>4, <3>5
      <3> QED
        BY <3>6, <3>x
    <2>4. Nat \subseteq T
      <3> HIDE DEF T
      <3> QED
        BY <2>2, <2>3, NatInduct
    <2> QED
      BY <2>4 DEF C
  <1>6. ASSUME NEW i \in 0 .. n - 1 PROVE nl[0].value <= W[n + i].value
    <2>1. Climb(n, i, m) = 1
      <3>1. ClimbFacts(m, n, i)
        BY ClimbIs
      <3> QED
        BY <3>1 DEF ClimbFacts
    <2>2. m \in 0 .. m
      OBVIOUS
    <2> QED
      BY <1>1, <1>5, <2>1, <2>2
  <1>7. ASSUME NEW x \in 0 .. n - 1 PROVE \E i \in 0 .. n - 1 : nl[x] = W[n + i]
    <2>1. CASE x = 0
      <3>1. 1 \in 1 .. 2 * n - 1
        BY <1>2
      <3> QED
        BY <1>1, <2>1, <3>1
    <2>2. CASE x # 0
      <3>1. x \in 1 .. n - 1
        BY <2>2
      <3>2. nl[x] = W[2 * x] \/ nl[x] = W[2 * x + 1]
        BY <1>1, <3>1 DEF Match
      <3>3. 2 * x \in 1 .. 2 * n - 1 /\ 2 * x + 1 \in 1 .. 2 * n - 1
        BY <1>4, <3>1
      <3>4. (\E i \in 0 .. n - 1 : W[2 * x] = W[n + i]) /\ (\E i \in 0 .. n - 1 : W[2 * x + 1] = W[n + i])
        BY <1>1, <3>3
      <3> QED
        BY <3>2, <3>4
    <2> QED
      BY <2>1, <2>2
  <1> QED
    BY <1>2, <1>5, <1>6, <1>7 DEF ChampionFacts

\* Where the winner has a leaf of its own it has come all the way from it.
LEMMA Descent ==
  ASSUME NEW m \in Nat, NEW n, n = 2 ^ m, NEW nl, NEW W, Played(n, nl, W),
         NEW w \in 0 .. n - 1, nl[0] = W[n + w], \A i \in 0 .. n - 1 : W[n + i] = W[n + w] => i = w
  PROVE  \A k \in 0 .. m : W[Climb(n, w, k)] = W[n + w]
  <1> DEFINE C(k) == Climb(n, w, k)
             T == {a \in Nat : a <= m => W[C(m - a)] = W[n + w]}
  <1>1. /\ nl[0] = W[1]
        /\ \A x \in 1 .. n - 1 : Match(nl, W, x)
        /\ \A x \in 1 .. 2 * n - 1 : \E i \in 0 .. n - 1 : Under(n, x, i) /\ W[x] = W[n + i]
    BY DEF Played
  <1>2. n \in Nat /\ n > 0
    BY PowerOfTwo
  <1>3. /\ C(0) = n + w /\ C(m) = 1
        /\ \A k \in Nat : C(k) \in Nat /\ (C(k) = 2 * C(k + 1) \/ C(k) = 2 * C(k + 1) + 1)
        /\ \A k \in Nat : k > 0 => C(k) < n
        /\ \A k \in 0 .. m : C(k) >= 1
    <2>1. ClimbFacts(m, n, w)
      BY ClimbIs
    <2> QED
      BY <2>1 DEF ClimbFacts
  <1>4. /\ \A x \in Nat : x > 0 => ~(Under(n, 2 * x, w) /\ Under(n, 2 * x + 1, w))
        /\ \A k \in Nat : Under(n, C(k), w)
    <2>1. UnderFacts(m, n, w)
      BY UnderIs
    <2> QED
      BY <2>1 DEF UnderFacts, C
  <1> HIDE DEF C
  <1>5. 0 \in T
    BY <1>1, <1>3
  <1>6. ASSUME NEW a \in Nat, a \in T PROVE a + 1 \in T
    <2> SUFFICES ASSUME a + 1 <= m PROVE W[C(m - (a + 1))] = W[n + w]
      OBVIOUS
    <2>k. PICK k : k = m - (a + 1)
      OBVIOUS
    <2>1. k \in Nat /\ k + 1 = m - a /\ k \in 0 .. m /\ k + 1 \in 0 .. m /\ k + 1 \in Nat /\ k + 1 > 0
      BY <2>k
    <2>x. PICK x : x = C(k + 1)
      OBVIOUS
    <2>2. x \in 1 .. n - 1
      <3>1. C(k + 1) \in Nat /\ C(k + 1) < n /\ C(k + 1) >= 1
        BY <1>3, <2>1
      <3> QED
        BY <1>2, <2>x, <3>1
    <2>3. W[x] = W[n + w]
      BY <1>6, <2>1, <2>x
    <2>4. C(k) = 2 * x \/ C(k) = 2 * x + 1
      BY <1>3, <2>1, <2>x
    <2>c. PICK c \in {2 * x, 2 * x + 1} : W[c] = W[n + w]
      <3>1. Match(nl, W, x)
        BY <1>1, <2>2
      <3> QED
        BY <2>3, <3>1 DEF Match
    <2>5. Under(n, c, w)
      <3>1. c \in 1 .. 2 * n - 1
        BY <1>2, <2>2
      <3>2. PICK i \in 0 .. n - 1 : Under(n, c, i) /\ W[c] = W[n + i]
        BY <1>1, <3>1
      <3> QED
        BY <2>c, <3>2
    <2>6. c = C(k)
      <3>1. Under(n, C(k), w)
        BY <1>4, <2>1
      <3>2. ~(Under(n, 2 * x, w) /\ Under(n, 2 * x + 1, w))
        BY <1>4, <2>2
      <3> QED
        BY <2>4, <2>5, <3>1, <3>2
    <2> QED
      BY <2>c, <2>6, <2>k
  <1>7. Nat \subseteq T
    <2> HIDE DEF T
    <2> QED
      BY <1>5, <1>6, NatInduct
  <1>8. ASSUME NEW k \in 0 .. m PROVE W[C(k)] = W[n + w]
    <2>1. m - k \in Nat /\ m - k <= m /\ m - (m - k) = k
      OBVIOUS
    <2> QED
      BY <1>7, <2>1
  <1> QED
    BY <1>8 DEF C

\* One match of adjust(), at place p.
Up(s, p) ==
  IF s.win.value > s.non_leafs[p].value
  THEN [non_leafs |-> [s.non_leafs EXCEPT ![p] = s.win], win |-> s.non_leafs[p]]
  ELSE s

\* The matches of adjust(), from leaf w up.
Ups(h, n, m, nl, leaf, w) ==
  /\ h \in [0 .. m -> [non_leafs : [0 .. n - 1 -> Entries], win : Entries]]
  /\ h = [k \in 0 .. m |-> IF k = 0 THEN [non_leafs |-> nl, win |-> leaf]
                           ELSE Up(h[k - 1], Climb(n, w, k))]

TreeOf(n, w, nl) == [n |-> n, winnerPathId |-> w, non_leafs |-> nl]

\* The winner, and those that lost on its way, after the matches h.
Last_of(h, m) == [h[m].non_leafs EXCEPT ![0] = h[m].win]

\* lg2_above() of a power of two.
LEMMA Lg2Is ==
  ASSUME NEW m \in Nat
  PROVE  Losers!lg2_above(2 ^ m) = m
  <1> DEFINE S == {k \in 0 .. 2 ^ m : 2 ^ k >= 2 ^ m}
  <1>1. \A k \in Nat : 2 ^ k \in Nat /\ 2 ^ k > 0 /\ 2 ^ (k + 1) = 2 * 2 ^ k /\ k < 2 ^ k
    BY PowerOfTwo
  <1>2. m \in S
    <2>1. 2 ^ m \in Nat /\ m < 2 ^ m
      BY <1>1
    <2> QED
      BY <2>1
  <1> DEFINE T == {d \in Nat : \A k \in Nat : 2 ^ k < 2 ^ (k + d + 1)}
  <1>3. \A d \in Nat : \A k \in Nat : 2 ^ k < 2 ^ (k + d + 1)
    <2>1. 0 \in T
      <3> SUFFICES ASSUME NEW k \in Nat PROVE 2 ^ k < 2 ^ (k + 0 + 1)
        OBVIOUS
      <3>1. k + 0 + 1 = k + 1
        OBVIOUS
      <3>2. 2 ^ k < 2 ^ (k + 1)
        BY <1>1
      <3> QED
        BY <3>1, <3>2
    <2>2. ASSUME NEW d \in Nat, d \in T PROVE d + 1 \in T
      <3> SUFFICES ASSUME NEW k \in Nat PROVE 2 ^ k < 2 ^ (k + (d + 1) + 1)
        OBVIOUS
      <3>1. k + (d + 1) + 1 = (k + d + 1) + 1 /\ k + d + 1 \in Nat
        OBVIOUS
      <3>2. 2 ^ k < 2 ^ (k + d + 1)
        BY <2>2
      <3>3. 2 ^ ((k + d + 1) + 1) = 2 * 2 ^ (k + d + 1) /\ 2 ^ (k + d + 1) \in Nat
        BY <1>1, <3>1
      <3>4. 2 ^ k \in Nat
        BY <1>1
      <3>5. 2 ^ k < 2 * 2 ^ (k + d + 1)
        BY <3>2, <3>3, <3>4
      <3> QED
        BY <3>1, <3>3, <3>5
    <2>3. Nat \subseteq T
      <3> HIDE DEF T
      <3> QED
        BY <2>1, <2>2, NatInduct
    <2> QED
      BY <2>3
  <1>4. \A k \in S : m <= k
    <2> SUFFICES ASSUME NEW k \in S, k < m PROVE FALSE
      OBVIOUS
    <2>1. k \in Nat /\ 2 ^ k >= 2 ^ m /\ 2 ^ k \in Nat /\ 2 ^ m \in Nat
      BY <1>1
    <2>2. PICK d \in Nat : m = k + d + 1
      <3>1. m - k - 1 \in Nat /\ m = k + (m - k - 1) + 1
        BY <2>1
      <3> QED
        BY <3>1
    <2>3. 2 ^ k < 2 ^ m
      BY <1>3, <2>1, <2>2
    <2> QED
      BY <2>1, <2>3
  <1>5. S \subseteq Nat
    OBVIOUS
  <1> HIDE DEF S
  <1>6. Min(S) = m
    <2>1. Min(S) \in S /\ \A k \in S : Min(S) <= k
      BY <1>2, <1>5, MinIs
    <2>2. m <= Min(S) /\ Min(S) <= m
      BY <1>2, <1>4, <2>1
    <2>3. Min(S) \in Nat
      BY <1>5, <2>1
    <2> QED
      BY <2>2, <2>3
  <1>7. Losers!lg2_above(2 ^ m) = Losers!Min(S)
    BY DEF Losers!lg2_above, S
  <1>8. Losers!Min(S) = Min(S)
    BY DEF Losers!Min, Min
  <1> QED
    BY <1>6, <1>7, <1>8

LEMMA AdjustIs ==
  ASSUME NEW m \in Nat, NEW n, n = 2 ^ m, NEW nl \in [0 .. n - 1 -> Entries], NEW leaf \in Entries,
         NEW w \in 0 .. n - 1
  PROVE  \E h : /\ Ups(h, n, m, nl, leaf, w)
                /\ Losers!adjust(TreeOf(n, w, nl), leaf) = TreeOf(n, h[m].win.pathId, Last_of(h, m))
  <1>t. PICK t : t = TreeOf(n, w, nl)
    OBVIOUS
  <1>11. t.n = n /\ t.winnerPathId = w /\ t.non_leafs = nl /\ Losers!lg2_above(t.n) = m
         /\ t = [n |-> n, winnerPathId |-> w, non_leafs |-> nl]
    BY <1>t, Lg2Is DEF TreeOf
  <1> DEFINE S == [non_leafs : [0 .. n - 1 -> Entries], win : Entries]
             base == [non_leafs |-> nl, win |-> leaf]
             step == [k \in Nat |-> [s \in S |-> IF k + 1 \in 1 .. m THEN Up(s, Climb(n, w, k + 1)) ELSE s]]
             P(up) == up = [k \in 0 .. Losers!lg2_above(t.n) |->
                        IF k = 0 THEN [non_leafs |-> t.non_leafs, win |-> leaf]
                        ELSE LET s == up[k - 1]
                                 p == (t.n + t.winnerPathId) \div 2 ^ k
                             IN  IF s.win.value > s.non_leafs[p].value
                                 THEN [non_leafs |-> [s.non_leafs EXCEPT ![p] = s.win],
                                       win |-> s.non_leafs[p]]
                                 ELSE s]
             f == CHOOSE up : P(up)
  <1>1. n \in Nat /\ n > 0 /\ base \in S
    BY PowerOfTwo
  <1>2. \A k \in 1 .. m : Climb(n, w, k) \in 0 .. n - 1
    <2> TAKE k \in 1 .. m
    <2>1. ClimbFacts(m, n, w)
      BY ClimbIs
    <2>2. k \in Nat /\ k > 0
      OBVIOUS
    <2>3. Climb(n, w, k) \in Nat /\ Climb(n, w, k) < n
      BY <2>1, <2>2 DEF ClimbFacts
    <2> QED
      BY <1>1, <2>3
  <1>3. \A s \in S, p \in 0 .. n - 1 : Up(s, p) \in S
    <2> TAKE s \in S, p \in 0 .. n - 1
    <2>1. s.non_leafs \in [0 .. n - 1 -> Entries] /\ s.win \in Entries /\ s.non_leafs[p] \in Entries
      OBVIOUS
    <2>2. [s.non_leafs EXCEPT ![p] = s.win] \in [0 .. n - 1 -> Entries]
      BY <2>1
    <2> QED
      BY <2>1, <2>2 DEF Up
  <1> HIDE DEF S, base
  <1>4. step \in [Nat -> [S -> S]]
    <2>1. \A k \in Nat : \A s \in S : (IF k + 1 \in 1 .. m THEN Up(s, Climb(n, w, k + 1)) ELSE s) \in S
      BY <1>2, <1>3
    <2> QED
      BY <2>1
  <1>5. \A k \in 1 .. m : \A s \in S : step[k - 1][s] = Up(s, Climb(n, w, k))
    <2> TAKE k \in 1 .. m
    <2> TAKE s \in S
    <2>1. k - 1 \in Nat /\ (k - 1) + 1 = k
      OBVIOUS
    <2> QED
      BY <2>1
  <1> HIDE DEF step
  <1>6. PICK h \in [0 .. m -> S] :
          h = [k \in 0 .. m |-> IF k = 0 THEN base ELSE step[k - 1][h[k - 1]]]
    <2>1. PICK h : IteratesTo(h, base, step, S, m)
      BY <1>1, <1>4, BoundedIteration
    <2> QED
      BY <2>1 DEF IteratesTo
  <1>7. h = [k \in 0 .. m |-> IF k = 0 THEN base ELSE Up(h[k - 1], Climb(n, w, k))]
    <2>1. ASSUME NEW k \in 0 .. m, k # 0 PROVE k \in 1 .. m /\ h[k - 1] \in S
      <3>1. k \in 1 .. m /\ k - 1 \in 0 .. m
        BY <2>1
      <3> QED
        BY <1>6, <3>1
    <2>2. \A k \in 0 .. m : h[k] = IF k = 0 THEN base ELSE Up(h[k - 1], Climb(n, w, k))
      BY <1>5, <1>6, <2>1
    <2> QED
      BY <1>6, <2>2
  <1>p. \A up : P(up) <=> up = [k \in 0 .. m |-> IF k = 0 THEN base ELSE Up(up[k - 1], Climb(n, w, k))]
    <2> TAKE up
    <2>1. \A k \in 0 .. m :
            (IF k = 0 THEN base ELSE Up(up[k - 1], Climb(n, w, k)))
              = IF k = 0 THEN [non_leafs |-> t.non_leafs, win |-> leaf]
                ELSE LET s == up[k - 1]
                         p == (t.n + t.winnerPathId) \div 2 ^ k
                     IN  IF s.win.value > s.non_leafs[p].value
                         THEN [non_leafs |-> [s.non_leafs EXCEPT ![p] = s.win],
                               win |-> s.non_leafs[p]]
                         ELSE s
      BY <1>11 DEF Climb, Up, base
    <2> QED
      BY <1>11, <2>1
  <1>c. P(f)
    <2>1. P(h)
      BY <1>7, <1>p
    <2> HIDE DEF P
    <2> QED
      BY <2>1
  <1>8. f = [k \in 0 .. m |-> IF k = 0 THEN base ELSE Up(f[k - 1], Climb(n, w, k))]
    <2> HIDE DEF f, P
    <2> QED
      BY <1>c, <1>p
  <1>9. \A k \in 0 .. m : f[k] \in S
    <2> HIDE DEF f, P
    <2> DEFINE T == {k \in Nat : k <= m => f[k] \in S}
    <2>1. 0 \in T
      BY <1>1, <1>8
    <2>2. ASSUME NEW k \in Nat, k \in T PROVE k + 1 \in T
      <3> SUFFICES ASSUME k + 1 <= m PROVE f[k + 1] \in S
        OBVIOUS
      <3>1. k + 1 \in 1 .. m /\ k + 1 \in 0 .. m /\ (k + 1) - 1 = k /\ k + 1 # 0 /\ f[k] \in S
        BY <2>2
      <3>2. f[k + 1] = Up(f[k], Climb(n, w, k + 1))
        BY <1>8, <3>1
      <3> QED
        BY <1>2, <1>3, <3>1, <3>2
    <2>3. Nat \subseteq T
      <3> HIDE DEF T
      <3> QED
        BY <2>1, <2>2, NatInduct
    <2> QED
      BY <2>3
  <1>10. Ups(f, n, m, nl, leaf, w)
    <2> HIDE DEF f, P
    <2>1. f \in [0 .. m -> S]
      BY <1>8, <1>9
    <2> QED
      BY <1>8, <2>1 DEF Ups, base, S
  <1>12. Losers!adjust(t, leaf) = [t EXCEPT !.non_leafs = [f[m].non_leafs EXCEPT ![0] = f[m].win],
                                            !.winnerPathId = f[m].win.pathId]
    <2>1. Losers!adjust(t, leaf) = [t EXCEPT !.non_leafs = [f[Losers!lg2_above(t.n)].non_leafs
                                                              EXCEPT ![0] = f[Losers!lg2_above(t.n)].win],
                                              !.winnerPathId = f[Losers!lg2_above(t.n)].win.pathId]
      BY DEF Losers!adjust
    <2> HIDE DEF f
    <2> QED
      BY <1>11, <2>1
  <1> HIDE DEF f, P
  <1>13. Losers!adjust(t, leaf) = TreeOf(n, f[m].win.pathId, Last_of(f, m))
    BY <1>11, <1>12 DEF TreeOf, Last_of
  <1> QED
    BY <1>10, <1>13, <1>t

\* The climb from leaf w: its places are distinct, and it is all that is above w.
ClimbSet(m, n, w) == {Climb(n, w, k) : k \in 0 .. m}

ClimbSetFacts(m, n, w) ==
  /\ ClimbSet(m, n, w) \subseteq 1 .. 2 * n - 1
  /\ \A j, k \in 0 .. m : Climb(n, w, j) = Climb(n, w, k) => j = k
  /\ \A x \in 1 .. 2 * n - 1 : x \in ClimbSet(m, n, w) <=> Under(n, x, w)
  /\ \A i \in 0 .. n - 1 : n + i \in ClimbSet(m, n, w) <=> i = w

LEMMA ClimbSetIs ==
  ASSUME NEW m \in Nat, NEW n, n = 2 ^ m, NEW w \in 0 .. n - 1
  PROVE  ClimbSetFacts(m, n, w)
  <1> DEFINE C(k) == Climb(n, w, k)
  <1>1. /\ n \in Nat /\ n > 0 /\ C(0) = n + w /\ C(m) = 1
        /\ \A k \in Nat : C(k) \in Nat
        /\ \A j, k \in Nat : j < k => 2 * C(k) <= C(j)
        /\ \A k \in Nat : k > 0 => C(k) < n
        /\ \A k \in 0 .. m : C(k) >= 1
    <2>1. ClimbFacts(m, n, w)
      BY ClimbIs
    <2> QED
      BY <2>1 DEF ClimbFacts
  <1>2. /\ \A j \in 0 .. n - 1 : Under(n, n + j, w) <=> w = j
        /\ \A k \in Nat : Under(n, C(k), w)
        /\ \A x \in Nat : x \in 1 .. n - 1 /\ Under(n, x, w) => \E k \in 1 .. m : x = C(k)
    <2>1. UnderFacts(m, n, w)
      BY UnderIs
    <2> QED
      BY <2>1 DEF UnderFacts
  <1>3. ClimbSet(m, n, w) = {C(k) : k \in 0 .. m}
    BY DEF ClimbSet
  <1> HIDE DEF C
  <1>4. ASSUME NEW k \in 0 .. m PROVE C(k) \in 1 .. 2 * n - 1
    <2>1. k = 0 => C(k) = n + w
      BY <1>1
    <2>2. k # 0 => C(k) < n
      BY <1>1
    <2>3. C(k) \in Nat /\ C(k) >= 1
      BY <1>1
    <2> QED
      BY <1>1, <2>1, <2>2, <2>3
  <1>5. ASSUME NEW j \in 0 .. m, NEW k \in 0 .. m, j < k PROVE C(j) # C(k)
    <2>1. 2 * C(k) <= C(j) /\ C(k) >= 1 /\ C(k) \in Nat
      BY <1>1, <1>5
    <2> QED
      BY <2>1
  <1>6. \A j, k \in 0 .. m : C(j) = C(k) => j = k
    <2> TAKE j, k \in 0 .. m
    <2>1. j < k \/ k < j \/ j = k
      OBVIOUS
    <2> QED
      BY <1>5, <2>1
  <1>7. ASSUME NEW x \in 1 .. 2 * n - 1, Under(n, x, w) PROVE x \in ClimbSet(m, n, w)
    <2>1. CASE x <= n - 1
      <3>1. x \in Nat /\ x \in 1 .. n - 1
        BY <1>1, <2>1
      <3>2. PICK k \in 1 .. m : x = C(k)
        BY <1>2, <1>7, <3>1
      <3>3. k \in 0 .. m
        OBVIOUS
      <3> QED
        BY <1>3, <3>2, <3>3
    <2>2. CASE x > n - 1
      <3>1. x - n \in 0 .. n - 1 /\ x = n + (x - n)
        BY <1>1, <2>2
      <3>2. w = x - n
        BY <1>2, <1>7, <3>1
      <3>3. x = C(0) /\ 0 \in 0 .. m
        BY <1>1, <3>1, <3>2
      <3> QED
        BY <1>3, <3>3
    <2> QED
      BY <1>1, <2>1, <2>2
  <1>8. ASSUME NEW x \in ClimbSet(m, n, w) PROVE Under(n, x, w)
    <2>1. PICK k \in 0 .. m : x = C(k)
      BY <1>3
    <2>2. k \in Nat
      OBVIOUS
    <2> QED
      BY <1>2, <2>1, <2>2
  <1>9. \A i \in 0 .. n - 1 : n + i \in ClimbSet(m, n, w) <=> i = w
    <2> TAKE i \in 0 .. n - 1
    <2>1. n + i \in 1 .. 2 * n - 1
      BY <1>1
    <2> QED
      BY <1>2, <1>7, <1>8, <2>1
  <1>10. ClimbSet(m, n, w) \subseteq 1 .. 2 * n - 1
    BY <1>3, <1>4
  <1> QED
    BY <1>6, <1>7, <1>8, <1>9, <1>10 DEF C, ClimbSetFacts

\* The other child of the place the climb reaches after k + 1 matches.
LEMMA SiblingIs ==
  ASSUME NEW m \in Nat, NEW n, n = 2 ^ m, NEW w \in 0 .. n - 1, NEW k \in 1 .. m
  PROVE  \E x, c : /\ x = Climb(n, w, k) /\ x \in 1 .. n - 1
                   /\ c \in 1 .. 2 * n - 1 /\ c \notin ClimbSet(m, n, w)
                   /\ \/ Climb(n, w, k - 1) = 2 * x /\ c = 2 * x + 1
                      \/ Climb(n, w, k - 1) = 2 * x + 1 /\ c = 2 * x
  <1>x. PICK x : x = Climb(n, w, k)
    OBVIOUS
  <1>j. PICK j : j = k - 1 /\ j \in Nat /\ k = j + 1 /\ k \in Nat /\ k > 0 /\ k \in 0 .. m
    OBVIOUS
  <1>1. ClimbFacts(m, n, w)
    BY ClimbIs
  <1>2. n \in Nat /\ x \in Nat /\ x < n /\ x >= 1
    BY <1>1, <1>x, <1>j DEF ClimbFacts
  <1>3. Climb(n, w, j) = 2 * x \/ Climb(n, w, j) = 2 * x + 1
    BY <1>1, <1>x, <1>j DEF ClimbFacts
  <1>c. PICK c : c = IF Climb(n, w, j) = 2 * x THEN 2 * x + 1 ELSE 2 * x
    OBVIOUS
  <1>4. c \in 1 .. 2 * n - 1
    BY <1>2, <1>c
  <1>5. \/ Climb(n, w, j) = 2 * x /\ c = 2 * x + 1
        \/ Climb(n, w, j) = 2 * x + 1 /\ c = 2 * x
    BY <1>3, <1>c
  <1>6. c \notin ClimbSet(m, n, w)
    <2>1. UnderFacts(m, n, w)
      BY UnderIs
    <2>2. Under(n, Climb(n, w, j), w)
      BY <1>j, <2>1 DEF UnderFacts
    <2>3. ~(Under(n, 2 * x, w) /\ Under(n, 2 * x + 1, w))
      BY <1>2, <2>1 DEF UnderFacts
    <2>4. ~Under(n, c, w)
      BY <1>5, <2>2, <2>3
    <2>5. ClimbSetFacts(m, n, w)
      BY ClimbSetIs
    <2> QED
      BY <1>4, <2>4, <2>5 DEF ClimbSetFacts
  <1>7. x \in 1 .. n - 1
    BY <1>2
  <1> QED
    BY <1>x, <1>j, <1>4, <1>5, <1>6, <1>7

\* What the matches of adjust() leave.
UpsFacts(h, n, m, nl, leaf, w) ==
  /\ h[0].win = leaf /\ h[m].win \in Entries /\ h[m].non_leafs \in [0 .. n - 1 -> Entries]
  /\ \A k \in 0 .. m : h[k].win \in Entries
  /\ \A y \in 0 .. n - 1 : y \notin ClimbSet(m, n, w) => h[m].non_leafs[y] = nl[y]
  /\ \A k \in 1 .. m :
       \/ /\ h[k].win = nl[Climb(n, w, k)] /\ h[m].non_leafs[Climb(n, w, k)] = h[k - 1].win
          /\ h[k - 1].win.value > nl[Climb(n, w, k)].value
       \/ /\ h[k].win = h[k - 1].win /\ h[m].non_leafs[Climb(n, w, k)] = nl[Climb(n, w, k)]
          /\ ~(h[k - 1].win.value > nl[Climb(n, w, k)].value)

LEMMA UpsIs ==
  ASSUME NEW m \in Nat, NEW n, n = 2 ^ m, NEW nl \in [0 .. n - 1 -> Entries], NEW leaf \in Entries,
         NEW w \in 0 .. n - 1, NEW h, Ups(h, n, m, nl, leaf, w)
  PROVE  UpsFacts(h, n, m, nl, leaf, w)
  <1> DEFINE C(k) == Climb(n, w, k)
  <1>1. /\ h \in [0 .. m -> [non_leafs : [0 .. n - 1 -> Entries], win : Entries]]
        /\ h = [k \in 0 .. m |-> IF k = 0 THEN [non_leafs |-> nl, win |-> leaf] ELSE Up(h[k - 1], C(k))]
    BY DEF Ups
  <1>2. \A k \in 1 .. m : C(k) \in 1 .. n - 1
    <2> TAKE k \in 1 .. m
    <2>1. k \in Nat /\ k > 0 /\ k \in 0 .. m
      OBVIOUS
    <2>2. ClimbFacts(m, n, w)
      BY ClimbIs
    <2>3. C(k) \in Nat /\ C(k) < n /\ C(k) >= 1 /\ n \in Nat
      BY <2>1, <2>2 DEF ClimbFacts
    <2> QED
      BY <2>3
  <1>3. \A j, k \in 0 .. m : C(j) = C(k) => j = k
    <2>1. ClimbSetFacts(m, n, w)
      BY ClimbSetIs
    <2> QED
      BY <2>1 DEF ClimbSetFacts
  <1>s. \A y : y \in ClimbSet(m, n, w) <=> \E k \in 0 .. m : y = C(k)
    BY DEF ClimbSet
  <1> HIDE DEF C
  <1>4. h[0].non_leafs = nl /\ h[0].win = leaf
    <2>1. 0 \in 0 .. m
      OBVIOUS
    <2>2. h[0] = [non_leafs |-> nl, win |-> leaf]
      BY <1>1, <2>1
    <2> QED
      BY <2>2
  <1>5. ASSUME NEW k \in 1 .. m
        PROVE  /\ h[k] = Up(h[k - 1], C(k)) /\ C(k) \in 0 .. n - 1
               /\ h[k - 1].non_leafs \in [0 .. n - 1 -> Entries] /\ h[k - 1].win \in Entries
               /\ h[k].non_leafs \in [0 .. n - 1 -> Entries] /\ h[k].win \in Entries
               /\ k \in 0 .. m /\ k - 1 \in 0 .. m
    <2>1. k \in 0 .. m /\ k - 1 \in 0 .. m /\ k # 0
      OBVIOUS
    <2>2. C(k) \in 0 .. n - 1
      BY <1>2
    <2>3. h[k] = Up(h[k - 1], C(k))
      BY <1>1, <2>1
    <2>4. h[k] \in [non_leafs : [0 .. n - 1 -> Entries], win : Entries]
          /\ h[k - 1] \in [non_leafs : [0 .. n - 1 -> Entries], win : Entries]
      BY <1>1, <2>1
    <2> QED
      BY <2>1, <2>2, <2>3, <2>4
  <1>6. ASSUME NEW k \in 1 .. m, NEW y \in 0 .. n - 1, y # C(k)
        PROVE  h[k].non_leafs[y] = h[k - 1].non_leafs[y]
    <2>1. h[k] = Up(h[k - 1], C(k)) /\ h[k - 1].non_leafs \in [0 .. n - 1 -> Entries]
      BY <1>5
    <2>2. CASE h[k - 1].win.value > h[k - 1].non_leafs[C(k)].value
      <3>1. h[k].non_leafs = [h[k - 1].non_leafs EXCEPT ![C(k)] = h[k - 1].win]
        BY <2>1, <2>2 DEF Up
      <3> QED
        BY <1>6, <2>1, <3>1
    <2>3. CASE ~(h[k - 1].win.value > h[k - 1].non_leafs[C(k)].value)
      BY <2>1, <2>3 DEF Up
    <2> QED
      BY <2>2, <2>3
  <1> DEFINE P(k) == \A y \in 0 .. n - 1 : (\A j \in 1 .. k : y # C(j)) => h[k].non_leafs[y] = nl[y]
             T == {k \in Nat : k <= m => P(k)}
  <1>7. \A k \in 0 .. m : P(k)
    <2>1. 0 \in T
      BY <1>4
    <2>2. ASSUME NEW k \in Nat, k \in T PROVE k + 1 \in T
      <3> SUFFICES ASSUME k + 1 <= m, NEW y \in 0 .. n - 1, \A j \in 1 .. k + 1 : y # C(j)
                   PROVE  h[k + 1].non_leafs[y] = nl[y]
        OBVIOUS
      <3>1. k + 1 \in 1 .. m /\ (k + 1) - 1 = k /\ k + 1 \in 1 .. k + 1
        OBVIOUS
      <3>2. \A j \in 1 .. k : y # C(j)
        OBVIOUS
      <3>3. h[k].non_leafs[y] = nl[y]
        BY <2>2, <3>2
      <3>4. y # C(k + 1)
        BY <3>1
      <3>5. h[k + 1].non_leafs[y] = h[k].non_leafs[y]
        BY <1>6, <3>1, <3>4
      <3> QED
        BY <3>3, <3>5
    <2>3. Nat \subseteq T
      <3> HIDE DEF T
      <3> QED
        BY <2>1, <2>2, NatInduct
    <2> QED
      BY <2>3
  <1> DEFINE Q(k) == \A j \in 1 .. k : h[k].non_leafs[C(j)] = h[j].non_leafs[C(j)]
             U == {k \in Nat : k <= m => Q(k)}
  <1>8. \A k \in 0 .. m : Q(k)
    <2>1. 0 \in U
      OBVIOUS
    <2>2. ASSUME NEW k \in Nat, k \in U PROVE k + 1 \in U
      <3> SUFFICES ASSUME k + 1 <= m, NEW j \in 1 .. k + 1
                   PROVE  h[k + 1].non_leafs[C(j)] = h[j].non_leafs[C(j)]
        OBVIOUS
      <3>1. CASE j = k + 1
        BY <3>1
      <3>2. CASE j # k + 1
        <4>1. j \in 1 .. k /\ j \in 0 .. m /\ k + 1 \in 0 .. m /\ k + 1 \in 1 .. m /\ (k + 1) - 1 = k /\ j \in 1 .. m
          BY <3>2
        <4>2. C(j) # C(k + 1) /\ C(j) \in 0 .. n - 1
          BY <1>2, <1>3, <3>2, <4>1
        <4>3. h[k + 1].non_leafs[C(j)] = h[k].non_leafs[C(j)]
          BY <1>6, <4>1, <4>2
        <4> QED
          BY <2>2, <4>1, <4>3
      <3> QED
        BY <3>1, <3>2
    <2>3. Nat \subseteq U
      <3> HIDE DEF U
      <3> QED
        BY <2>1, <2>2, NatInduct
    <2> QED
      BY <2>3
  <1> HIDE DEF T, U
  <1>m. m \in 0 .. m
    OBVIOUS
  <1>9. ASSUME NEW y \in 0 .. n - 1, y \notin ClimbSet(m, n, w) PROVE h[m].non_leafs[y] = nl[y]
    <2>1. \A j \in 1 .. m : y # C(j)
      <3> SUFFICES ASSUME NEW j \in 1 .. m, y = C(j) PROVE FALSE
        OBVIOUS
      <3>1. j \in 0 .. m
        OBVIOUS
      <3> QED
        BY <1>9, <1>s, <3>1
    <2> QED
      BY <1>7, <1>m, <2>1
  <1>10. ASSUME NEW k \in 1 .. m
         PROVE  \/ /\ h[k].win = nl[C(k)] /\ h[m].non_leafs[C(k)] = h[k - 1].win
                   /\ h[k - 1].win.value > nl[C(k)].value
                \/ /\ h[k].win = h[k - 1].win /\ h[m].non_leafs[C(k)] = nl[C(k)]
                   /\ ~(h[k - 1].win.value > nl[C(k)].value)
    <2>p. PICK p : p = C(k)
      OBVIOUS
    <2>1. /\ h[k] = Up(h[k - 1], p) /\ p \in 0 .. n - 1 /\ k \in 0 .. m /\ k - 1 \in 0 .. m
          /\ h[k - 1].non_leafs \in [0 .. n - 1 -> Entries]
      BY <1>5, <2>p
    <2>2. h[k - 1].non_leafs[p] = nl[p]
      <3>1. \A j \in 1 .. k - 1 : p # C(j)
        <4> SUFFICES ASSUME NEW j \in 1 .. k - 1, p = C(j) PROVE FALSE
          OBVIOUS
        <4>1. j \in 0 .. m /\ j # k
          OBVIOUS
        <4> QED
          BY <1>3, <2>1, <2>p, <4>1
      <3> QED
        BY <1>7, <2>1, <3>1
    <2>3. h[m].non_leafs[p] = h[k].non_leafs[p]
      BY <1>8, <1>m, <2>p
    <2>4. CASE h[k - 1].win.value > nl[p].value
      <3>1. h[k] = [non_leafs |-> [h[k - 1].non_leafs EXCEPT ![p] = h[k - 1].win],
                    win |-> h[k - 1].non_leafs[p]]
        BY <2>1, <2>2, <2>4 DEF Up
      <3>2. h[k].non_leafs[p] = h[k - 1].win
        BY <2>1, <3>1
      <3> QED
        BY <2>2, <2>3, <2>4, <2>p, <3>1, <3>2
    <2>5. CASE ~(h[k - 1].win.value > nl[p].value)
      <3>1. h[k] = h[k - 1]
        BY <2>1, <2>2, <2>5 DEF Up
      <3> QED
        BY <2>2, <2>3, <2>5, <2>p, <3>1
    <2> QED
      BY <2>4, <2>5
  <1>11. h[m].win \in Entries /\ h[m].non_leafs \in [0 .. n - 1 -> Entries]
         /\ \A k \in 0 .. m : h[k].win \in Entries
    BY <1>1, <1>m
  <1> QED
    BY <1>4, <1>9, <1>10, <1>11 DEF UpsFacts, C

\* The winners after adjust(): those on the climb are the winners of its matches.
Winners(V, W, h, m, n, w) ==
  /\ V \in [1 .. 2 * n - 1 -> Entries]
  /\ \A k \in 0 .. m : V[Climb(n, w, k)] = h[k].win
  /\ \A y \in 1 .. 2 * n - 1 : y \notin ClimbSet(m, n, w) => V[y] = W[y]

LEMMA WinnersExist ==
  ASSUME NEW m \in Nat, NEW n, n = 2 ^ m, NEW w \in 0 .. n - 1, NEW h,
         \A k \in 0 .. m : h[k].win \in Entries, NEW W \in [1 .. 2 * n - 1 -> Entries]
  PROVE  \E V : Winners(V, W, h, m, n, w)
  <1> DEFINE C(k) == Climb(n, w, k)
             K(y) == CHOOSE k \in 0 .. m : y = C(k)
             V == [y \in 1 .. 2 * n - 1 |-> IF y \in ClimbSet(m, n, w) THEN h[K(y)].win ELSE W[y]]
  <1>1. /\ ClimbSet(m, n, w) \subseteq 1 .. 2 * n - 1
        /\ \A j, k \in 0 .. m : C(j) = C(k) => j = k
    <2>1. ClimbSetFacts(m, n, w)
      BY ClimbSetIs
    <2> QED
      BY <2>1 DEF ClimbSetFacts
  <1>2. \A y : y \in ClimbSet(m, n, w) <=> \E k \in 0 .. m : y = C(k)
    BY DEF ClimbSet
  <1> HIDE DEF C
  <1>3. \A y \in ClimbSet(m, n, w) : K(y) \in 0 .. m /\ y = C(K(y))
    BY <1>2
  <1>4. \A k \in 0 .. m : C(k) \in ClimbSet(m, n, w) /\ K(C(k)) = k
    BY <1>1, <1>2, <1>3
  <1> HIDE DEF K
  <1>5. V \in [1 .. 2 * n - 1 -> Entries]
    BY <1>3
  <1>6. \A k \in 0 .. m : V[C(k)] = h[k].win
    BY <1>1, <1>4
  <1>7. \A y \in 1 .. 2 * n - 1 : y \notin ClimbSet(m, n, w) => V[y] = W[y]
    OBVIOUS
  <1> HIDE DEF V
  <1> QED
    BY <1>5, <1>6, <1>7 DEF Winners, C

\* The path that has come all the way from leaf w is replayed with a new leaf.
Replayed(t, nl, V, W, n, w, leaf) ==
  /\ t = TreeOf(n, nl[0].pathId, nl) /\ Played(n, nl, V) /\ V[n + w] = leaf
  /\ \A i \in 0 .. n - 1 : i # w => V[n + i] = W[n + i]

LEMMA Replay ==
  ASSUME NEW m \in Nat, NEW n, n = 2 ^ m, NEW nl, NEW W, Played(n, nl, W), NEW w \in 0 .. n - 1,
         \A k \in 0 .. m : W[Climb(n, w, k)] = W[n + w], NEW leaf \in Entries
  PROVE  \E nl2, V : Replayed(Losers!adjust(TreeOf(n, w, nl), leaf), nl2, V, W, n, w, leaf)
  <1> DEFINE C(k) == Climb(n, w, k)
             On == ClimbSet(m, n, w)
  <1>1. /\ nl \in [0 .. n - 1 -> Entries] /\ W \in [1 .. 2 * n - 1 -> Entries] /\ nl[0] = W[1]
        /\ \A x \in 1 .. n - 1 : Match(nl, W, x)
        /\ \A x \in 1 .. 2 * n - 1 : \E i \in 0 .. n - 1 : Under(n, x, i) /\ W[x] = W[n + i]
    BY DEF Played
  <1>2. n \in Nat /\ n > 0
    BY PowerOfTwo
  <1>h. PICK h : /\ Ups(h, n, m, nl, leaf, w)
                 /\ Losers!adjust(TreeOf(n, w, nl), leaf) = TreeOf(n, h[m].win.pathId, Last_of(h, m))
    BY <1>1, AdjustIs
  <1>3. UpsFacts(h, n, m, nl, leaf, w)
    BY <1>1, <1>h, UpsIs
  <1>v. PICK V : Winners(V, W, h, m, n, w)
    <2>1. \A k \in 0 .. m : h[k].win \in Entries
      BY <1>3 DEF UpsFacts
    <2> QED
      BY <1>1, <2>1, WinnersExist
  <1>4. /\ V \in [1 .. 2 * n - 1 -> Entries]
        /\ \A k \in 0 .. m : V[C(k)] = h[k].win
        /\ \A y \in 1 .. 2 * n - 1 : y \notin On => V[y] = W[y]
    BY <1>v DEF Winners
  <1>5. /\ h[0].win = leaf /\ h[m].win \in Entries /\ h[m].non_leafs \in [0 .. n - 1 -> Entries]
        /\ \A k \in 0 .. m : h[k].win \in Entries
        /\ \A y \in 0 .. n - 1 : y \notin On => h[m].non_leafs[y] = nl[y]
        /\ \A k \in 1 .. m :
             \/ /\ h[k].win = nl[C(k)] /\ h[m].non_leafs[C(k)] = h[k - 1].win
                /\ h[k - 1].win.value > nl[C(k)].value
             \/ /\ h[k].win = h[k - 1].win /\ h[m].non_leafs[C(k)] = nl[C(k)]
                /\ ~(h[k - 1].win.value > nl[C(k)].value)
    BY <1>3 DEF UpsFacts
  <1>6. /\ On \subseteq 1 .. 2 * n - 1
        /\ \A x \in 1 .. 2 * n - 1 : x \in On <=> Under(n, x, w)
        /\ \A i \in 0 .. n - 1 : n + i \in On <=> i = w
    <2>1. ClimbSetFacts(m, n, w)
      BY ClimbSetIs
    <2> QED
      BY <2>1 DEF ClimbSetFacts
  <1>7. C(0) = n + w /\ C(m) = 1 /\ \A x : x \in On <=> \E k \in 0 .. m : x = C(k)
    <2>1. ClimbFacts(m, n, w)
      BY ClimbIs
    <2> QED
      BY <2>1 DEF ClimbFacts, ClimbSet
  <1>8. \A k \in 1 .. m :
           \E x, c : /\ x = C(k) /\ x \in 1 .. n - 1
                     /\ c \in 1 .. 2 * n - 1 /\ c \notin On
                     /\ \/ C(k - 1) = 2 * x /\ c = 2 * x + 1
                        \/ C(k - 1) = 2 * x + 1 /\ c = 2 * x
    BY SiblingIs
  <1>9. \A k \in 0 .. m : W[C(k)] = W[n + w]
    OBVIOUS
  <1>u. /\ \A i \in 0 .. n - 1 : \A x \in Nat : Under(n, 2 * x, i) \/ Under(n, 2 * x + 1, i) => Under(n, x, i)
        /\ \A k \in Nat : Under(n, C(k), w)
    <2>1. \A i \in 0 .. n - 1 : UnderFacts(m, n, i)
      BY UnderIs
    <2> QED
      BY <2>1 DEF UnderFacts
  <1> HIDE DEF C, On
  <1>nl. PICK nl2 : nl2 = [h[m].non_leafs EXCEPT ![0] = h[m].win]
    OBVIOUS
  <1>10. /\ nl2 \in [0 .. n - 1 -> Entries] /\ nl2[0] = h[m].win
         /\ \A x \in 1 .. n - 1 : nl2[x] = h[m].non_leafs[x]
    BY <1>2, <1>5, <1>nl
  <1>m. m \in 0 .. m /\ 0 \in 0 .. m
    OBVIOUS
  <1>11. nl2[0] = V[1] /\ V[n + w] = leaf
    BY <1>4, <1>5, <1>7, <1>10, <1>m
  <1>12. \A i \in 0 .. n - 1 : i # w => V[n + i] = W[n + i]
    <2> TAKE i \in 0 .. n - 1
    <2>1. n + i \in 1 .. 2 * n - 1
      BY <1>2
    <2> QED
      BY <1>4, <1>6, <2>1
  <1>13. ASSUME NEW k \in 1 .. m
         PROVE  \E x, c : /\ x = C(k) /\ x \in 1 .. n - 1 /\ c \in 1 .. 2 * n - 1 /\ V[c] = W[c] /\ c \notin On
                          /\ \/ C(k - 1) = 2 * x /\ c = 2 * x + 1
                             \/ C(k - 1) = 2 * x + 1 /\ c = 2 * x
                          /\ Match(nl2, V, x)
                          /\ V[x] = V[C(k - 1)] \/ V[x] = V[c]
    <2>1. PICK x, c : /\ x = C(k) /\ x \in 1 .. n - 1
                      /\ c \in 1 .. 2 * n - 1 /\ c \notin On
                      /\ \/ C(k - 1) = 2 * x /\ c = 2 * x + 1
                         \/ C(k - 1) = 2 * x + 1 /\ c = 2 * x
      BY <1>8
    <2>2. V[c] = W[c]
      BY <1>4, <2>1
    <2>3. k - 1 \in 0 .. m /\ k \in 0 .. m
      OBVIOUS
    <2>4. W[x] = W[n + w] /\ W[C(k - 1)] = W[n + w]
      BY <1>9, <2>1, <2>3
    <2>5. nl[x] = W[c]
      <3>1. \/ W[x] = W[2 * x] /\ nl[x] = W[2 * x + 1]
            \/ W[x] = W[2 * x + 1] /\ nl[x] = W[2 * x]
        BY <1>1, <2>1 DEF Match
      <3> QED
        BY <2>1, <2>4, <3>1
    <2>6. V[x] = h[k].win /\ V[C(k - 1)] = h[k - 1].win
      BY <1>4, <2>1, <2>3
    <2>7. nl2[x] = h[m].non_leafs[x]
      BY <1>10, <2>1
    <2>8. \/ V[x] = V[c] /\ nl2[x] = V[C(k - 1)] /\ V[C(k - 1)].value > V[c].value
          \/ V[x] = V[C(k - 1)] /\ nl2[x] = V[c] /\ ~(V[C(k - 1)].value > V[c].value)
      BY <1>5, <2>1, <2>2, <2>5, <2>6, <2>7
    <2>9. V[C(k - 1)].value \in Int /\ V[c].value \in Int
      <3>1. V[C(k - 1)] \in Entries /\ V[c] \in Entries
        <4>1. C(k - 1) \in 1 .. 2 * n - 1
          BY <1>2, <2>1
        <4> QED
          BY <1>4, <2>1, <4>1
      <3> QED
        BY <3>1 DEF Entries
    <2>10. V[x].value <= nl2[x].value
      BY <2>8, <2>9
    <2>11. Match(nl2, V, x)
      BY <2>1, <2>8, <2>10 DEF Match
    <2> QED
      BY <2>1, <2>2, <2>8, <2>11
  <1>14. ASSUME NEW x \in 1 .. n - 1, x \notin On PROVE Match(nl2, V, x)
    <2>1. 2 * x \in 1 .. 2 * n - 1 /\ 2 * x + 1 \in 1 .. 2 * n - 1 /\ x \in 1 .. 2 * n - 1 /\ x \in Nat
          /\ x \in 0 .. n - 1
      BY <1>2
    <2>2. ~Under(n, x, w)
      BY <1>6, <1>14, <2>1
    <2>3. 2 * x \notin On /\ 2 * x + 1 \notin On
      BY <1>6, <1>u, <2>1, <2>2
    <2>4. V[x] = W[x] /\ V[2 * x] = W[2 * x] /\ V[2 * x + 1] = W[2 * x + 1] /\ nl2[x] = nl[x]
      BY <1>4, <1>5, <1>10, <1>14, <2>1, <2>3
    <2>5. Match(nl, W, x)
      BY <1>1
    <2> QED
      BY <2>4, <2>5 DEF Match
  <1>15. \A x \in 1 .. n - 1 : Match(nl2, V, x)
    <2> TAKE x \in 1 .. n - 1
    <2>1. CASE x \in On
      <3>1. PICK k \in 0 .. m : x = C(k)
        BY <1>7, <2>1
      <3>2. k # 0
        BY <1>2, <1>7, <3>1
      <3>3. k \in 1 .. m
        BY <3>2
      <3> QED
        BY <1>13, <3>1, <3>3
    <2> QED
      BY <1>14, <2>1
  <1> DEFINE From(x) == \E i \in 0 .. n - 1 : Under(n, x, i) /\ V[x] = V[n + i]
  <1>16. ASSUME NEW x \in 1 .. 2 * n - 1, x \notin On PROVE From(x)
    <2>1. PICK i \in 0 .. n - 1 : Under(n, x, i) /\ W[x] = W[n + i]
      BY <1>1
    <2>2. i # w
      BY <1>6, <1>16, <2>1
    <2> QED
      BY <1>4, <1>12, <1>16, <2>1, <2>2
  <1> DEFINE T == {k \in Nat : k <= m => From(C(k))}
  <1>17. 0 \in T
    <2>1. Under(n, C(0), w)
      BY <1>u
    <2> QED
      BY <1>7, <2>1
  <1>18. ASSUME NEW k \in Nat, k \in T PROVE k + 1 \in T
    <2> SUFFICES ASSUME k + 1 <= m PROVE From(C(k + 1))
      OBVIOUS
    <2>1. k + 1 \in 1 .. m /\ (k + 1) - 1 = k
      OBVIOUS
    <2>2. PICK x, c : /\ x = C(k + 1) /\ x \in 1 .. n - 1 /\ c \in 1 .. 2 * n - 1 /\ V[c] = W[c] /\ c \notin On
                      /\ \/ C(k) = 2 * x /\ c = 2 * x + 1
                         \/ C(k) = 2 * x + 1 /\ c = 2 * x
                      /\ V[x] = V[C(k)] \/ V[x] = V[c]
      BY <1>13, <2>1
    <2>3. From(C(k)) /\ From(c)
      BY <1>16, <1>18, <2>2
    <2>4. PICK b \in {C(k), c} : V[x] = V[b] /\ From(b)
      BY <2>2, <2>3
    <2>5. PICK i \in 0 .. n - 1 : Under(n, b, i) /\ V[b] = V[n + i]
      BY <2>4
    <2>6. Under(n, x, i)
      <3>1. x \in Nat /\ (b = 2 * x \/ b = 2 * x + 1)
        BY <2>2
      <3> QED
        BY <1>u, <2>5, <3>1
    <2> QED
      BY <2>2, <2>4, <2>5, <2>6
  <1>19. \A k \in 0 .. m : From(C(k))
    <2>1. Nat \subseteq T
      <3> HIDE DEF T
      <3> QED
        BY <1>17, <1>18, NatInduct
    <2> QED
      BY <2>1
  <1>20. \A x \in 1 .. 2 * n - 1 : From(x)
    <2> TAKE x \in 1 .. 2 * n - 1
    <2>1. CASE x \in On
      BY <1>7, <1>19, <2>1
    <2> QED
      BY <1>16, <2>1
  <1>21. Played(n, nl2, V)
    BY <1>4, <1>10, <1>11, <1>15, <1>20 DEF Played
  <1>22. Losers!adjust(TreeOf(n, w, nl), leaf) = TreeOf(n, nl2[0].pathId, nl2)
    BY <1>h, <1>10, <1>nl DEF Last_of
  <1> QED
    BY <1>11, <1>12, <1>21, <1>22 DEF Replayed

LEMMA Lg2Above ==
  ASSUME NEW v \in Nat
  PROVE  Losers!lg2_above(v) \in Nat /\ v <= 2 ^ Losers!lg2_above(v)
  <1> DEFINE S == {k \in 0 .. v : 2 ^ k >= v}
  <1>1. v \in S
    <2>1. v \in Nat /\ 2 ^ v \in Nat /\ v < 2 ^ v
      BY PowerOfTwo
    <2> QED
      BY <2>1
  <1>2. S \subseteq Nat /\ \A k \in S : k \in Nat /\ 2 ^ k \in Nat /\ 2 ^ k >= v
    <2>1. \A k \in Nat : 2 ^ k \in Nat
      BY PowerOfTwo
    <2> QED
      BY <2>1
  <1> HIDE DEF S
  <1>3. Min(S) \in S
    BY <1>1, <1>2, MinIs
  <1>4. Losers!lg2_above(v) = Losers!Min(S)
    BY DEF Losers!lg2_above, S
  <1>5. Losers!Min(S) = Min(S)
    BY DEF Losers!Min, Min
  <1>k. PICK k : k = Losers!lg2_above(v)
    OBVIOUS
  <1>6. k \in Nat /\ 2 ^ k \in Nat /\ 2 ^ k >= v
    BY <1>2, <1>3, <1>4, <1>5, <1>k
  <1>7. v <= 2 ^ k
    BY <1>6
  <1> QED
    BY <1>6, <1>7, <1>k

\* Every place has a leaf below it.
LEMMA LeafBelow ==
  ASSUME NEW m \in Nat, NEW n, n = 2 ^ m
  PROVE  \A x \in 1 .. 2 * n - 1 : \E i \in 0 .. n - 1 : Under(n, x, i)
  <1> DEFINE T == {a \in Nat : \A x \in 1 .. 2 * n - 1 : 2 * n - x <= a => \E i \in 0 .. n - 1 : Under(n, x, i)}
  <1>1. n \in Nat /\ n > 0
    BY PowerOfTwo
  <1>2. \A i \in 0 .. n - 1 :
          /\ Under(n, n + i, i)
          /\ \A x \in Nat : Under(n, 2 * x, i) \/ Under(n, 2 * x + 1, i) => Under(n, x, i)
    <2> TAKE i \in 0 .. n - 1
    <2>1. UnderFacts(m, n, i)
      BY UnderIs
    <2> QED
      BY <2>1 DEF UnderFacts
  <1>3. 0 \in T
    BY <1>1
  <1>4. ASSUME NEW a \in Nat, a \in T PROVE a + 1 \in T
    <2> SUFFICES ASSUME NEW x \in 1 .. 2 * n - 1, 2 * n - x <= a + 1
                 PROVE  \E i \in 0 .. n - 1 : Under(n, x, i)
      OBVIOUS
    <2>1. CASE x >= n
      <3>1. PICK j \in 0 .. n - 1 : x = n + j
        <4>1. x - n \in 0 .. n - 1 /\ x = n + (x - n)
          BY <1>1, <2>1
        <4> QED
          BY <4>1
      <3>2. Under(n, n + j, j)
        BY <1>2
      <3> QED
        BY <3>1, <3>2
    <2>2. CASE x < n
      <3>1. 2 * x \in 1 .. 2 * n - 1 /\ 2 * n - 2 * x <= a /\ x \in Nat
        BY <1>1, <2>2
      <3>2. PICK i \in 0 .. n - 1 : Under(n, 2 * x, i)
        BY <1>4, <3>1
      <3> QED
        BY <1>2, <3>1, <3>2
    <2> QED
      BY <1>1, <2>1, <2>2
  <1>5. Nat \subseteq T
    <2> HIDE DEF T
    <2> QED
      BY <1>3, <1>4, NatInduct
  <1>6. ASSUME NEW x \in 1 .. 2 * n - 1 PROVE \E i \in 0 .. n - 1 : Under(n, x, i)
    <2>1. 2 * n - x \in Nat /\ 2 * n - x <= 2 * n - x
      BY <1>1
    <2> QED
      BY <1>5, <2>1
  <1> QED
    BY <1>6

\* The leaf of path j when a tree of the paths leaf is made.
LeafOf(leaf, j) ==
  IF j < Len(leaf) THEN Losers!Entry(leaf[j + 1].value, j, leaf[j + 1].desp) ELSE Losers!Padding(j)

Created(t, leaf, m, nl, W) ==
  /\ t = TreeOf(2 ^ m, nl[0].pathId, nl) /\ Played(2 ^ m, nl, W) /\ Len(leaf) <= 2 ^ m
  /\ \A j \in 0 .. 2 ^ m - 1 : W[2 ^ m + j] = LeafOf(leaf, j)

LEMMA CreateIs ==
  ASSUME NEW leaf, Len(leaf) \in Nat,
         \A i \in 1 .. Len(leaf) : leaf[i].value \in Nat /\ leaf[i].desp \in Desps
  PROVE  \E m \in Nat : \E nl, W : Created(Losers!LoserTree_Create(leaf), leaf, m, nl, W)
  <1>m. PICK m \in Nat : m = Losers!lg2_above(Len(leaf)) /\ Len(leaf) <= 2 ^ m
    BY Lg2Above
  <1>n. PICK n : n = 2 ^ Losers!lg2_above(Len(leaf))
    OBVIOUS
  <1>0. n = 2 ^ m /\ n \in Nat /\ n > 0 /\ Len(leaf) <= n
    BY <1>m, <1>n, PowerOfTwo
  <1>lb. \A x \in 1 .. 2 * n - 1 : \E i \in 0 .. n - 1 : Under(n, x, i)
    <2>1. n = 2 ^ m
      BY <1>0
    <2> QED
      BY <2>1, LeafBelow
  <1> DEFINE S == [n : {n}, winnerPathId : Int, non_leafs : [0 .. n - 1 -> Entries]]
             unplayed == [i \in 0 .. n - 1 |-> Losers!Unplayed]
             empty == [n |-> n, winnerPathId |-> 0, non_leafs |-> unplayed]
             step == [k \in Nat |-> [s \in S |->
                        IF k \in 0 .. n - 1 THEN Losers!adjust(TreeOf(n, k, s.non_leafs), LeafOf(leaf, k)) ELSE s]]
             P(up) == up = [i \in 0 .. n |->
                        IF i = 0 THEN [n |-> n, winnerPathId |-> 0,
                                       non_leafs |-> [j \in 0 .. n - 1 |-> Losers!Unplayed]]
                        ELSE Losers!adjust([up[i - 1] EXCEPT !.winnerPathId = i - 1],
                               IF i <= Len(leaf) THEN Losers!Entry(leaf[i].value, i - 1, leaf[i].desp)
                                                 ELSE Losers!Padding(i - 1))]
             f == CHOOSE up : P(up)
  <1>1. Losers!LoserTree_Create(leaf) = f[n]
    BY <1>n DEF Losers!LoserTree_Create
  <1>2. \A j \in Nat : LeafOf(leaf, j) \in Entries /\ LeafOf(leaf, j).value >= 0
    <2> TAKE j \in Nat
    <2>1. CASE j < Len(leaf)
      <3>1. j + 1 \in 1 .. Len(leaf)
        BY <2>1
      <3>2. leaf[j + 1].value \in Nat /\ leaf[j + 1].desp \in Desps
        BY <3>1
      <3>3. LeafOf(leaf, j) = [value |-> leaf[j + 1].value, pathId |-> j, despId |-> leaf[j + 1].desp]
        BY <2>1 DEF LeafOf, Losers!Entry
      <3> QED
        BY <3>2, <3>3 DEF Entries
    <2>2. CASE ~(j < Len(leaf))
      <3>1. LeafOf(leaf, j) = [value |-> MaxStamp + 1, pathId |-> j, despId |-> -1]
        BY <2>2 DEF LeafOf, Losers!Padding, Losers!Entry, Losers!OVERFLOW_LEAF_VALUE
      <3> QED
        BY <3>1, ZoneStrategyAssumption DEF Entries, ZoneStrategyAssumption
    <2> QED
      BY <2>1, <2>2
  <1>3. Losers!Unplayed \in Entries /\ Losers!Unplayed.value = -1
    BY DEF Losers!Unplayed, Losers!Entry, Entries
  <1>4. unplayed \in [0 .. n - 1 -> Entries] /\ empty \in S /\ empty = TreeOf(n, 0, unplayed)
    BY <1>3 DEF TreeOf
  <1> HIDE DEF unplayed
  <1>5. \A s \in S, k \in 0 .. n - 1 :
          Losers!adjust(TreeOf(n, k, s.non_leafs), LeafOf(leaf, k)) \in S
    <2> TAKE s \in S, k \in 0 .. n - 1
    <2>1. s.non_leafs \in [0 .. n - 1 -> Entries] /\ LeafOf(leaf, k) \in Entries
      BY <1>2
    <2>2. PICK h : /\ Ups(h, n, m, s.non_leafs, LeafOf(leaf, k), k)
                   /\ Losers!adjust(TreeOf(n, k, s.non_leafs), LeafOf(leaf, k))
                        = TreeOf(n, h[m].win.pathId, Last_of(h, m))
      BY <1>0, <2>1, AdjustIs
    <2>3. UpsFacts(h, n, m, s.non_leafs, LeafOf(leaf, k), k)
      BY <1>0, <2>1, <2>2, UpsIs
    <2>4. h[m].win \in Entries /\ h[m].non_leafs \in [0 .. n - 1 -> Entries]
      BY <2>3 DEF UpsFacts
    <2>5. Last_of(h, m) \in [0 .. n - 1 -> Entries] /\ h[m].win.pathId \in Int
      BY <2>4 DEF Last_of, Entries
    <2> QED
      BY <2>2, <2>5 DEF TreeOf
  <1> HIDE DEF S, empty
  <1>6. \A i \in 1 .. n : \A s \in S :
          LET e == IF i <= Len(leaf) THEN Losers!Entry(leaf[i].value, i - 1, leaf[i].desp)
                                     ELSE Losers!Padding(i - 1)
          IN  /\ step[i - 1][s] = Losers!adjust([s EXCEPT !.winnerPathId = i - 1], e)
              /\ e = LeafOf(leaf, i - 1)
              /\ [s EXCEPT !.winnerPathId = i - 1] = TreeOf(n, i - 1, s.non_leafs)
    <2> TAKE i \in 1 .. n
    <2> TAKE s \in S
    <2>e. PICK e : e = IF i <= Len(leaf) THEN Losers!Entry(leaf[i].value, i - 1, leaf[i].desp)
                                         ELSE Losers!Padding(i - 1)
      OBVIOUS
    <2>j. PICK j : j = i - 1 /\ j \in Nat /\ j \in 0 .. n - 1 /\ j + 1 = i /\ (j < Len(leaf) <=> i <= Len(leaf))
      BY <1>0
    <2>1. e = LeafOf(leaf, j)
      BY <2>e, <2>j DEF LeafOf
    <2>2. [s EXCEPT !.winnerPathId = j] = TreeOf(n, j, s.non_leafs)
      BY DEF S, TreeOf
    <2>3. step[j][s] = Losers!adjust(TreeOf(n, j, s.non_leafs), LeafOf(leaf, j))
      BY <2>j
    <2> HIDE DEF step
    <2> QED
      BY <2>1, <2>2, <2>3, <2>e, <2>j
  <1>7. step \in [Nat -> [S -> S]]
    <2>1. \A k \in Nat : \A s \in S :
            (IF k \in 0 .. n - 1 THEN Losers!adjust(TreeOf(n, k, s.non_leafs), LeafOf(leaf, k)) ELSE s) \in S
      BY <1>5
    <2> QED
      BY <2>1
  <1>z. \A s \in S, k \in 0 .. n - 1 : step[k][s] = Losers!adjust(TreeOf(n, k, s.non_leafs), LeafOf(leaf, k))
    OBVIOUS
  <1> HIDE DEF step
  <1>8. PICK h \in [0 .. n -> S] :
          h = [k \in 0 .. n |-> IF k = 0 THEN empty ELSE step[k - 1][h[k - 1]]]
    <2>1. PICK h : IteratesTo(h, empty, step, S, n)
      BY <1>0, <1>4, <1>7, BoundedIteration
    <2> QED
      BY <2>1 DEF IteratesTo
  <1>9. P(h)
    <2>1. ASSUME NEW i \in 0 .. n
          PROVE  h[i] = IF i = 0 THEN [n |-> n, winnerPathId |-> 0,
                                       non_leafs |-> [j \in 0 .. n - 1 |-> Losers!Unplayed]]
                        ELSE Losers!adjust([h[i - 1] EXCEPT !.winnerPathId = i - 1],
                               IF i <= Len(leaf) THEN Losers!Entry(leaf[i].value, i - 1, leaf[i].desp)
                                                 ELSE Losers!Padding(i - 1))
      <3>1. CASE i = 0
        <4>1. h[i] = empty
          BY <1>8, <3>1
        <4> QED
          BY <3>1, <4>1 DEF empty, unplayed
      <3>2. CASE i # 0
        <4>1. i \in 1 .. n /\ i - 1 \in 0 .. n
          BY <1>0, <3>2
        <4>2. h[i - 1] \in S /\ h[i] = step[i - 1][h[i - 1]]
          BY <1>8, <3>2, <4>1
        <4> QED
          BY <1>6, <3>2, <4>1, <4>2
      <3> QED
        BY <3>1, <3>2
    <2> QED
      BY <1>8, <2>1
  <1>10. P(f)
    <2> HIDE DEF P
    <2> QED
      BY <1>9
  <1>11. f[0] = empty
    <2> HIDE DEF f
    <2>1. 0 \in 0 .. n
      BY <1>0
    <2> QED
      BY <1>10, <2>1 DEF empty, unplayed
  <1>12. \A i \in 1 .. n : f[i] = Losers!adjust([f[i - 1] EXCEPT !.winnerPathId = i - 1],
                                   IF i <= Len(leaf) THEN Losers!Entry(leaf[i].value, i - 1, leaf[i].desp)
                                                     ELSE Losers!Padding(i - 1))
    <2> HIDE DEF f
    <2> TAKE i \in 1 .. n
    <2>1. i \in 0 .. n /\ i # 0
      BY <1>0
    <2> QED
      BY <1>10, <2>1
  <1> HIDE DEF f, P
  <1> DEFINE Leaf(W, i) == \A j \in 0 .. n - 1 : W[n + j] = IF j < i THEN LeafOf(leaf, j) ELSE Losers!Unplayed
             T == {i \in Nat : i <= n => \E nl, W, w : /\ f[i] = TreeOf(n, w, nl) /\ w \in Int
                                                       /\ i > 0 => w = nl[0].pathId
                                                       /\ Played(n, nl, W) /\ Leaf(W, i)}
  <1>13. 0 \in T
    <2> DEFINE W == [x \in 1 .. 2 * n - 1 |-> Losers!Unplayed]
    <2>1. W \in [1 .. 2 * n - 1 -> Entries]
      BY <1>3
    <2>2. \A x \in 1 .. n - 1 : Match(unplayed, W, x)
      <3> TAKE x \in 1 .. n - 1
      <3>1. x \in 1 .. 2 * n - 1 /\ 2 * x \in 1 .. 2 * n - 1 /\ 2 * x + 1 \in 1 .. 2 * n - 1 /\ x \in 0 .. n - 1
        BY <1>0
      <3>2. W[x] = Losers!Unplayed /\ W[2 * x] = Losers!Unplayed /\ W[2 * x + 1] = Losers!Unplayed
            /\ unplayed[x] = Losers!Unplayed
        BY <3>1 DEF unplayed
      <3> QED
        BY <1>3, <3>2 DEF Match
    <2>3. \A x \in 1 .. 2 * n - 1 : \E i \in 0 .. n - 1 : Under(n, x, i) /\ W[x] = W[n + i]
      <3> HIDE DEF W
      <3> TAKE x \in 1 .. 2 * n - 1
      <3>1. PICK i \in 0 .. n - 1 : Under(n, x, i)
        BY <1>lb
      <3>2. n + i \in 1 .. 2 * n - 1
        BY <1>0
      <3>3. W[x] = W[n + i]
        BY <3>2 DEF W
      <3> QED
        BY <3>1, <3>3
    <2>4. unplayed[0] = W[1]
      BY <1>0 DEF unplayed
    <2>5. \A j \in 0 .. n - 1 : W[n + j] = Losers!Unplayed
      BY <1>0
    <2> HIDE DEF W
    <2>6. Played(n, unplayed, W)
      BY <1>4, <2>1, <2>2, <2>3, <2>4 DEF Played
    <2>7. Leaf(W, 0)
      BY <2>5
    <2>8. f[0] = TreeOf(n, 0, unplayed)
      BY <1>4, <1>11
    <2> HIDE DEF Leaf
    <2> QED
      BY <2>6, <2>7, <2>8
  <1>14. ASSUME NEW i \in Nat, i \in T PROVE i + 1 \in T
    <2> SUFFICES ASSUME i + 1 <= n
                 PROVE  \E nl, W, w : /\ f[i + 1] = TreeOf(n, w, nl) /\ w \in Int
                                      /\ i + 1 > 0 => w = nl[0].pathId
                                      /\ Played(n, nl, W) /\ Leaf(W, i + 1)
      OBVIOUS
    <2>1. PICK nl, W, w : f[i] = TreeOf(n, w, nl) /\ w \in Int /\ Played(n, nl, W) /\ Leaf(W, i)
      BY <1>0, <1>14
    <2>2. i \in 0 .. n - 1 /\ i + 1 \in 1 .. n /\ (i + 1) - 1 = i
      BY <1>0
    <2>3. nl \in [0 .. n - 1 -> Entries] /\ W \in [1 .. 2 * n - 1 -> Entries]
          /\ \A x \in 1 .. 2 * n - 1 : \E j \in 0 .. n - 1 : Under(n, x, j) /\ W[x] = W[n + j]
      BY <2>1 DEF Played
    <2>4. f[i] \in S /\ f[i].non_leafs = nl
      BY <2>1, <2>3 DEF S, TreeOf
    <2>5. f[i + 1] = Losers!adjust(TreeOf(n, i, nl), LeafOf(leaf, i))
      BY <1>6, <1>12, <2>2, <2>4, ZenonT(40)
    <2>6. \A k \in 0 .. m : W[Climb(n, i, k)] = W[n + i]
      <3> TAKE k \in 0 .. m
      <3>x. PICK x : x = Climb(n, i, k)
        OBVIOUS
      <3>1. x \in 1 .. 2 * n - 1
        <4>1. ClimbSetFacts(m, n, i)
          BY <1>0, <2>2, ClimbSetIs
        <4> QED
          BY <3>x, <4>1 DEF ClimbSet, ClimbSetFacts
      <3>2. PICK j \in 0 .. n - 1 : W[x] = W[n + j]
        BY <2>3, <3>1
      <3>3. W[x].value <= W[n + i].value
        <4>1. ChampionFacts(m, n, nl, W)
          BY <1>0, <2>1, Champion
        <4> QED
          BY <2>2, <3>x, <4>1 DEF ChampionFacts
      <3>4. W[n + i] = Losers!Unplayed
        BY <2>1, <2>2
      <3>5. ~(j < i)
        <4> SUFFICES ASSUME j < i PROVE FALSE
          OBVIOUS
        <4>1. W[n + j] = LeafOf(leaf, j) /\ j \in Nat
          BY <2>1
        <4>2. LeafOf(leaf, j).value >= 0 /\ LeafOf(leaf, j).value \in Int
          BY <1>2, <4>1 DEF Entries
        <4> QED
          BY <1>3, <3>2, <3>3, <3>4, <4>1, <4>2
      <3>6. W[n + j] = Losers!Unplayed
        BY <2>1, <3>5
      <3> QED
        BY <3>2, <3>4, <3>6, <3>x
    <2>7. LeafOf(leaf, i) \in Entries
      BY <1>2
    <2>8. PICK nl2, V : Replayed(Losers!adjust(TreeOf(n, i, nl), LeafOf(leaf, i)), nl2, V, W, n, i, LeafOf(leaf, i))
      BY <1>0, <2>1, <2>2, <2>6, <2>7, Replay
    <2>9. /\ f[i + 1] = TreeOf(n, nl2[0].pathId, nl2) /\ Played(n, nl2, V) /\ V[n + i] = LeafOf(leaf, i)
          /\ \A j \in 0 .. n - 1 : j # i => V[n + j] = W[n + j]
      BY <2>5, <2>8 DEF Replayed
    <2>10. Leaf(V, i + 1)
      <3> SUFFICES ASSUME NEW j \in 0 .. n - 1
                   PROVE  V[n + j] = IF j < i + 1 THEN LeafOf(leaf, j) ELSE Losers!Unplayed
        OBVIOUS
      <3>1. CASE j = i
        BY <2>9, <3>1
      <3>2. CASE j # i
        <4>1. V[n + j] = W[n + j] /\ (j < i + 1 <=> j < i)
          BY <2>9, <3>2
        <4> QED
          BY <2>1, <4>1
      <3> QED
        BY <3>1, <3>2
    <2>11. nl2[0].pathId \in Int
      <3>1. nl2[0] \in Entries
        BY <1>0, <2>9 DEF Played
      <3> QED
        BY <3>1 DEF Entries
    <2> HIDE DEF Leaf
    <2> QED
      BY <2>9, <2>10, <2>11
  <1>15. n \in T
    <2>1. Nat \subseteq T
      <3> HIDE DEF T
      <3> QED
        BY <1>13, <1>14, NatInduct
    <2> QED
      BY <1>0, <2>1
  <1>16. PICK nl, W : f[n] = TreeOf(n, nl[0].pathId, nl) /\ Played(n, nl, W) /\ Leaf(W, n)
    BY <1>0, <1>15
  <1>17. \A j \in 0 .. n - 1 : W[n + j] = LeafOf(leaf, j)
    BY <1>0, <1>16
  <1>18. Created(Losers!LoserTree_Create(leaf), leaf, m, nl, W)
    BY <1>0, <1>1, <1>16, <1>17 DEF Created
  <1> QED
    BY <1>18

-----------------------------------------------------------------------------
\* The tree of an open period.  Path i is zone open[i + 1]; what it knows of a
\* zone is no later than the last use of any of its blocks.
Known(e, z, i) ==
  /\ e \in Entries /\ e.pathId = i /\ e.value \in 0 .. StampGlobal /\ e.despId \in Desps
  /\ \A d \in Of(z, valid) : e.value <= stamp[d]

PathLeaf(e, open, i) ==
  IF i < Len(open) THEN e = Losers!Exhausted \/ Known(e, open[i + 1], i) ELSE e = Losers!Padding(i)

Merges(t, open, m, n, nl, W) ==
  /\ m \in Nat /\ n = 2 ^ m /\ open \in Seq(Zones) /\ Len(open) <= n
  /\ t = TreeOf(n, nl[0].pathId, nl) /\ Played(n, nl, W)
  /\ \A i \in 0 .. n - 1 : PathLeaf(W[n + i], open, i)

\* The winner has a path of its own, unless no path has a value left.
WinnerFacts(t, open, m, n, nl, W) ==
  /\ Losers!Winner(t) = nl[0] /\ t.winnerPathId = nl[0].pathId
  /\ Losers!NoWinner(t) <=> nl[0].value = MaxStamp + 1
  /\ ~Losers!NoWinner(t) =>
       /\ nl[0].pathId \in 0 .. n - 1 /\ nl[0].pathId < Len(open) /\ nl[0] = W[n + nl[0].pathId]
       /\ Known(nl[0], open[nl[0].pathId + 1], nl[0].pathId)
       /\ \A k \in 0 .. m : W[Climb(n, nl[0].pathId, k)] = W[n + nl[0].pathId]

LEMMA WinnerIs ==
  ASSUME NEW t, NEW open, NEW m, NEW n, NEW nl, NEW W, Merges(t, open, m, n, nl, W),
         StampGlobal \in 0 .. MaxStamp
  PROVE  WinnerFacts(t, open, m, n, nl, W)
  <1>1. /\ m \in Nat /\ n = 2 ^ m /\ open \in Seq(Zones) /\ Len(open) <= n
        /\ t = TreeOf(n, nl[0].pathId, nl) /\ Played(n, nl, W)
        /\ \A i \in 0 .. n - 1 : PathLeaf(W[n + i], open, i)
    BY DEF Merges
  <1>2. n \in Nat /\ n > 0 /\ Len(open) \in Nat /\ MaxStamp \in Nat /\ StampGlobal \in Nat
        /\ StampGlobal <= MaxStamp
    <2>1. n \in Nat /\ n > 0
      BY <1>1, PowerOfTwo
    <2> QED
      BY <1>1, <2>1, ZoneStrategyAssumption
  <1>3. \A i \in 0 .. n - 1 : /\ W[n + i].value = MaxStamp + 1 \/ W[n + i].value \in 0 .. StampGlobal
                              /\ W[n + i].value # MaxStamp + 1 =>
                                   i < Len(open) /\ Known(W[n + i], open[i + 1], i)
    <2> TAKE i \in 0 .. n - 1
    <2>1. PathLeaf(W[n + i], open, i)
      BY <1>1
    <2>2. Losers!Exhausted.value = MaxStamp + 1 /\ Losers!Padding(i).value = MaxStamp + 1
      BY DEF Losers!Exhausted, Losers!Padding, Losers!Entry, Losers!OVERFLOW_LEAF_VALUE
    <2>3. CASE i < Len(open) /\ Known(W[n + i], open[i + 1], i)
      BY <2>3 DEF Known
    <2>4. CASE W[n + i] = Losers!Exhausted \/ W[n + i] = Losers!Padding(i)
      BY <2>2, <2>4
    <2> QED
      BY <2>1, <2>3, <2>4 DEF PathLeaf
  <1>4. Losers!Winner(t) = nl[0] /\ t.winnerPathId = nl[0].pathId
    BY <1>1 DEF TreeOf, Losers!Winner
  <1>w. PICK w \in 0 .. n - 1 : nl[0] = W[n + w]
    <2>1. 0 \in 0 .. n - 1
      BY <1>2
    <2>a. m \in Nat
      BY <1>1
    <2>b. n = 2 ^ m
      BY <1>1
    <2>c. Played(n, nl, W)
      BY <1>1
    <2>2. ChampionFacts(m, n, nl, W)
      BY <2>a, <2>b, <2>c, Champion
    <2> QED
      BY <2>1, <2>2 DEF ChampionFacts
  <1>5. Losers!NoWinner(t) <=> nl[0].value = MaxStamp + 1
    <2>1. nl[0].value = MaxStamp + 1 \/ nl[0].value \in 0 .. StampGlobal
      BY <1>3, <1>w
    <2> QED
      BY <1>2, <1>4, <2>1 DEF Losers!NoWinner, Losers!OVERFLOW_LEAF_VALUE
  <1>6. ASSUME ~Losers!NoWinner(t)
        PROVE  /\ nl[0].pathId \in 0 .. n - 1 /\ nl[0].pathId < Len(open) /\ nl[0] = W[n + nl[0].pathId]
               /\ Known(nl[0], open[nl[0].pathId + 1], nl[0].pathId)
               /\ \A k \in 0 .. m : W[Climb(n, nl[0].pathId, k)] = W[n + nl[0].pathId]
    <2>1. w < Len(open) /\ Known(nl[0], open[w + 1], w) /\ W[n + w].value # MaxStamp + 1
      BY <1>3, <1>5, <1>6, <1>w
    <2>2. nl[0].pathId = w
      BY <2>1 DEF Known
    <2>3. \A i \in 0 .. n - 1 : W[n + i] = W[n + w] => i = w
      <3> SUFFICES ASSUME NEW i \in 0 .. n - 1, W[n + i] = W[n + w] PROVE i = w
        OBVIOUS
      <3>1. Known(W[n + i], open[i + 1], i)
        BY <1>3, <2>1
      <3>2. W[n + i].pathId = i /\ W[n + w].pathId = w
        BY <1>w, <2>2, <3>1 DEF Known
      <3> QED
        BY <3>2
    <2>4. \A k \in 0 .. m : W[Climb(n, w, k)] = W[n + w]
      <3>a. m \in Nat
        BY <1>1
      <3>b. n = 2 ^ m
        BY <1>1
      <3>c. Played(n, nl, W)
        BY <1>1
      <3>d. nl[0] = W[n + w]
        BY <1>w
      <3> QED
        BY <2>3, <3>a, <3>b, <3>c, <3>d, Descent
    <2> QED
      BY <1>w, <2>1, <2>2, <2>4
  <1> QED
    BY <1>4, <1>5, <1>6 DEF WinnerFacts

\* The paths of which the tree knows the tail, or that they have none.
ToldPaths(open, n, W) ==
  {i \in 0 .. Len(open) - 1 :
     W[n + i] = Losers!Exhausted \/ W[n + i].despId = links.tail[open[i + 1]]}

\* What the tree is told of the path that won.
TailLeaf(open, i) ==
  IF links.tail[open[i + 1]] = Nil THEN Losers!Exhausted
  ELSE Losers!Entry(stamp[links.tail[open[i + 1]]], i, links.tail[open[i + 1]])

LEMMA TailKnown ==
  ASSUME BaseInv, strategy = "PORE", NEW z \in Zones, Len(Lists[z]) > 0, NEW i \in Nat
  PROVE  /\ links.tail[z] \in Desps /\ links.tail[z] # Nil /\ stamp[links.tail[z]] \in Nat
         /\ Known(Losers!Entry(stamp[links.tail[z]], i, links.tail[z]), z, i)
  <1>d. PICK d : d = links.tail[z]
    OBVIOUS
  <1>1. Stamps /\ Zoned = valid /\ z \in Names
    BY NamesAre DEF Stamps, Zoned, Separates
  <1>2. /\ d \in Desps /\ stamp[d] \in 0 .. StampGlobal /\ StampGlobal \in Nat
        /\ \A e \in ToSet(Lists[z]) : stamp[e] \in 0 .. StampGlobal
        /\ \A e \in ToSet(Lists[z]) \ {d} : stamp[d] < stamp[e]
        /\ Of(z, Zoned) = ToSet(Lists[z])
    BY <1>1, <1>d, OldestLast
  <1>3. d # Nil
    BY <1>2, NilIsNone
  <1>e. PICK e : e = [value |-> stamp[d], pathId |-> i, despId |-> d]
    OBVIOUS
  <1>4. e \in Entries /\ e.value = stamp[d] /\ e.pathId = i /\ e.despId = d
    BY <1>2, <1>e DEF Entries
  <1>5. \A f \in Of(z, valid) : e.value <= stamp[f]
    <2> TAKE f \in Of(z, valid)
    <2>1. f \in ToSet(Lists[z])
      BY <1>1, <1>2
    <2>2. stamp[f] \in 0 .. StampGlobal /\ (f = d \/ stamp[d] < stamp[f])
      BY <1>2, <2>1
    <2> QED
      BY <1>2, <1>4, <2>2
  <1>6. Known(e, z, i)
    BY <1>2, <1>4, <1>5 DEF Known
  <1>7. e = Losers!Entry(stamp[d], i, d)
    BY <1>e DEF Losers!Entry
  <1> QED
    BY <1>2, <1>3, <1>6, <1>7, <1>d

\* The tree is told of the last winner's tail.
TellsOf(t2, open, m, n, nl2, V, W, w) ==
  /\ Merges(t2, open, m, n, nl2, V)
  /\ ToldPaths(open, n, V) = ToldPaths(open, n, W) \cup {w}

LEMMA Tell ==
  ASSUME BaseInv, strategy = "PORE", NEW t, NEW open, NEW m, NEW n, NEW nl, NEW W,
         Merges(t, open, m, n, nl, W), ~Losers!NoWinner(t)
  PROVE  \E nl2, V : TellsOf(Losers!adjust(t, TailLeaf(open, nl[0].pathId)), open, m, n, nl2, V, W,
                             nl[0].pathId)
  <1>1. /\ m \in Nat /\ n = 2 ^ m /\ open \in Seq(Zones) /\ Len(open) <= n
        /\ t = TreeOf(n, nl[0].pathId, nl) /\ Played(n, nl, W)
        /\ \A i \in 0 .. n - 1 : PathLeaf(W[n + i], open, i)
    BY DEF Merges
  <1>w. PICK w : w = nl[0].pathId
    OBVIOUS
  <1>2. n \in Nat /\ n > 0 /\ Len(open) \in Nat
    <2>1. n \in Nat /\ n > 0
      BY <1>1, PowerOfTwo
    <2> QED
      BY <1>1, <2>1
  <1>3. w \in 0 .. n - 1 /\ w < Len(open) /\ \A k \in 0 .. m : W[Climb(n, w, k)] = W[n + w]
    <2>1. StampGlobal \in 0 .. MaxStamp
      BY DEF BaseInv, StampInv
    <2>2. WinnerFacts(t, open, m, n, nl, W)
      BY <2>1, WinnerIs
    <2> QED
      BY <1>w, <2>2 DEF WinnerFacts
  <1>z. PICK z : z = open[w + 1] /\ z \in Zones
    <2>1. w + 1 \in 1 .. Len(open)
      BY <1>2, <1>3
    <2> QED
      BY <1>1, <2>1
  <1>l. PICK leaf : leaf = TailLeaf(open, w)
    OBVIOUS
  <1>4. /\ leaf \in Entries /\ (leaf = Losers!Exhausted \/ Known(leaf, z, w))
        /\ leaf = Losers!Exhausted \/ leaf.despId = links.tail[z]
    <2>1. CASE links.tail[z] = Nil
      <3>1. leaf = Losers!Exhausted
        BY <1>l, <1>z, <2>1 DEF TailLeaf
      <3>2. Losers!Exhausted \in Entries
        <4>1. MaxStamp + 1 \in Int /\ Losers!Nowhere \in Int
          BY ZoneStrategyAssumption DEF Losers!Nowhere
        <4>2. Losers!Exhausted = [value |-> MaxStamp + 1, pathId |-> Losers!Nowhere, despId |-> Losers!Nowhere]
          BY DEF Losers!Exhausted, Losers!Entry, Losers!OVERFLOW_LEAF_VALUE
        <4> QED
          BY <4>1, <4>2 DEF Entries
      <3> QED
        BY <3>1, <3>2
    <2>2. CASE links.tail[z] # Nil
      <3>1. Len(Lists[z]) > 0
        <4>1. z \in Names /\ ListsInv
          BY <1>z, NamesAre DEF BaseInv
        <4>2. links.tail[z] = Nil <=> Len(Lists[z]) = 0
          BY <4>1, CountedOnes
        <4>3. Len(Lists[z]) \in Nat
          BY <4>1, ListedOnes DEF BaseInv
        <4> QED
          BY <2>2, <4>2, <4>3
      <3>2. leaf = Losers!Entry(stamp[links.tail[z]], w, links.tail[z])
        BY <1>l, <1>z, <2>2 DEF TailLeaf
      <3>3. Known(leaf, z, w)
        BY <1>3, <1>z, <3>1, <3>2, TailKnown
      <3>4. leaf.despId = links.tail[z]
        BY <3>2 DEF Losers!Entry
      <3> QED
        BY <3>3, <3>4 DEF Known
    <2> QED
      BY <2>1, <2>2
  <1>5. PICK nl2, V : Replayed(Losers!adjust(TreeOf(n, w, nl), leaf), nl2, V, W, n, w, leaf)
    BY <1>1, <1>3, <1>4, Replay
  <1>t. PICK t2 : t2 = Losers!adjust(TreeOf(n, w, nl), leaf)
    OBVIOUS
  <1>6. /\ t2 = TreeOf(n, nl2[0].pathId, nl2) /\ Played(n, nl2, V) /\ V[n + w] = leaf
        /\ \A i \in 0 .. n - 1 : i # w => V[n + i] = W[n + i]
    BY <1>5, <1>t DEF Replayed
  <1>7. \A i \in 0 .. n - 1 : PathLeaf(V[n + i], open, i)
    <2> TAKE i \in 0 .. n - 1
    <2>1. CASE i = w
      BY <1>3, <1>4, <1>6, <1>z, <2>1 DEF PathLeaf
    <2>2. CASE i # w
      <3>1. V[n + i] = W[n + i]
        BY <1>6, <2>2
      <3> QED
        BY <1>1, <3>1
    <2> QED
      BY <2>1, <2>2
  <1>8. Merges(t2, open, m, n, nl2, V)
    BY <1>1, <1>6, <1>7 DEF Merges
  <1>9. ToldPaths(open, n, V) = ToldPaths(open, n, W) \cup {w}
    <2>1. ASSUME NEW i \in 0 .. Len(open) - 1
          PROVE  i \in ToldPaths(open, n, V) <=> i \in ToldPaths(open, n, W) \cup {w}
      <3>1. CASE i = w
        <4>1. i \in ToldPaths(open, n, V)
          BY <1>4, <1>6, <1>z, <3>1 DEF ToldPaths
        <4> QED
          BY <3>1, <4>1
      <3>2. CASE i # w
        <4>1. i \in 0 .. n - 1
          BY <1>1, <1>2
        <4>2. V[n + i] = W[n + i]
          BY <1>6, <3>2, <4>1
        <4> QED
          BY <3>2, <4>2 DEF ToldPaths
      <3> QED
        BY <3>1, <3>2
    <2>2. ToldPaths(open, n, V) \subseteq 0 .. Len(open) - 1 /\ ToldPaths(open, n, W) \subseteq 0 .. Len(open) - 1
          /\ w \in 0 .. Len(open) - 1
      BY <1>2, <1>3 DEF ToldPaths
    <2> QED
      BY <2>1, <2>2
  <1>10. TellsOf(t2, open, m, n, nl2, V, W, w)
    BY <1>8, <1>9 DEF TellsOf
  <1>11. t2 = Losers!adjust(t, TailLeaf(open, nl[0].pathId))
    BY <1>1, <1>l, <1>t, <1>w
  <1> QED
    BY <1>10, <1>11, <1>w

NewTree(t, open, m, n, nl, W) ==
  /\ Merges(t, open, m, n, nl, W) /\ ~Losers!NoWinner(t)
  /\ ToldPaths(open, n, W) = 0 .. Len(open) - 1

\* A tree made of the tails of zones that all have one.
LEMMA NewTreeIs ==
  ASSUME BaseInv, strategy = "PORE", NEW open \in Seq(Zones), Len(open) > 0,
         \A i \in 1 .. Len(open) : Len(Lists[open[i]]) > 0, NEW leaf,
         leaf = [i \in 1 .. Len(open) |-> [value |-> stamp[links.tail[open[i]]], desp |-> links.tail[open[i]]]]
  PROVE  \E m, n, nl, W : NewTree(Losers!LoserTree_Create(leaf), open, m, n, nl, W)
  <1>2. \A i \in 1 .. Len(open), j \in Nat :
          /\ links.tail[open[i]] \in Desps /\ stamp[links.tail[open[i]]] \in Nat
          /\ Known(Losers!Entry(stamp[links.tail[open[i]]], j, links.tail[open[i]]), open[i], j)
    <2> TAKE i \in 1 .. Len(open), j \in Nat
    <2>z. PICK z : z = open[i]
      OBVIOUS
    <2>1. z \in Zones /\ Len(Lists[z]) > 0
      BY <2>z
    <2> QED
      BY <2>1, <2>z, TailKnown
  <1>1. Len(leaf) = Len(open) /\ Len(open) \in Nat
    <2>k. PICK k \in Nat : k = Len(open)
      OBVIOUS
    <2>1. ASSUME NEW i \in 1 .. k
          PROVE  [value |-> stamp[links.tail[open[i]]], desp |-> links.tail[open[i]]] \in [value : Nat, desp : Desps]
      <3>1. i \in 1 .. Len(open) /\ 0 \in Nat
        BY <2>k
      <3> QED
        BY <1>2, <3>1
    <2>2. leaf = [i \in 1 .. k |-> [value |-> stamp[links.tail[open[i]]], desp |-> links.tail[open[i]]]]
      BY <2>k
    <2>3. leaf \in Seq([value : Nat, desp : Desps]) /\ Len(leaf) = k
      BY <2>1, <2>2
    <2> QED
      BY <2>3, <2>k
  <1>3. \A i \in 1 .. Len(leaf) : leaf[i].value = stamp[links.tail[open[i]]] /\ leaf[i].desp = links.tail[open[i]]
    BY <1>1
  <1>4. \A i \in 1 .. Len(leaf) : leaf[i].value \in Nat /\ leaf[i].desp \in Desps
    <2> TAKE i \in 1 .. Len(leaf)
    <2>1. i \in 1 .. Len(open) /\ 0 \in Nat
      BY <1>1
    <2> QED
      BY <1>2, <1>3, <2>1
  <1>t. PICK t : t = Losers!LoserTree_Create(leaf)
    OBVIOUS
  <1>m. PICK m \in Nat : \E nl, W : Created(t, leaf, m, nl, W)
    <2>1. Len(leaf) \in Nat
      BY <1>1
    <2> QED
      BY <1>4, <1>t, <2>1, CreateIs
  <1>5. PICK nl, W : Created(t, leaf, m, nl, W)
    BY <1>m
  <1>n. PICK n : n = 2 ^ m /\ n \in Nat /\ n > 0
    BY PowerOfTwo
  <1>6. /\ t = TreeOf(n, nl[0].pathId, nl) /\ Played(n, nl, W) /\ Len(open) <= n
        /\ \A j \in 0 .. n - 1 : W[n + j] = LeafOf(leaf, j)
    BY <1>1, <1>5, <1>n DEF Created
  <1>7. \A j \in 0 .. Len(open) - 1 :
          /\ W[n + j] = Losers!Entry(stamp[links.tail[open[j + 1]]], j, links.tail[open[j + 1]])
          /\ Known(W[n + j], open[j + 1], j) /\ W[n + j].despId = links.tail[open[j + 1]]
    <2> TAKE j \in 0 .. Len(open) - 1
    <2>1. j \in 0 .. n - 1 /\ j \in Nat /\ j < Len(leaf) /\ j + 1 \in 1 .. Len(leaf) /\ j + 1 \in 1 .. Len(open)
      BY <1>1, <1>6, <1>n
    <2>2. W[n + j] = Losers!Entry(leaf[j + 1].value, j, leaf[j + 1].desp)
      BY <1>6, <2>1 DEF LeafOf
    <2>3. W[n + j] = Losers!Entry(stamp[links.tail[open[j + 1]]], j, links.tail[open[j + 1]])
      BY <1>3, <2>1, <2>2
    <2>4. W[n + j].despId = links.tail[open[j + 1]]
      BY <2>3 DEF Losers!Entry
    <2> QED
      BY <1>2, <2>1, <2>3, <2>4
  <1>8. \A i \in 0 .. n - 1 : PathLeaf(W[n + i], open, i)
    <2> TAKE i \in 0 .. n - 1
    <2>1. CASE i < Len(open)
      <3>1. i \in 0 .. Len(open) - 1
        BY <1>1, <2>1
      <3> QED
        BY <1>7, <2>1, <3>1 DEF PathLeaf
    <2>2. CASE ~(i < Len(open))
      BY <1>1, <1>6, <2>2 DEF PathLeaf, LeafOf
    <2> QED
      BY <2>1, <2>2
  <1>9. Merges(t, open, m, n, nl, W)
    BY <1>6, <1>8, <1>n DEF Merges
  <1>10. ToldPaths(open, n, W) = 0 .. Len(open) - 1
    BY <1>7 DEF ToldPaths
  <1>11. ~Losers!NoWinner(t)
    <2>1. StampGlobal \in 0 .. MaxStamp /\ MaxStamp \in Nat
      BY ZoneStrategyAssumption DEF BaseInv, StampInv
    <2>2. WinnerFacts(t, open, m, n, nl, W)
      BY <1>9, <2>1, WinnerIs
    <2>3. ChampionFacts(m, n, nl, W)
      BY <1>6, <1>n, Champion
    <2>4. 0 \in 0 .. n - 1 /\ 0 \in 0 .. Len(open) - 1 /\ n + 0 = n
      BY <1>1, <1>n
    <2>5. nl[0].value <= W[n + 0].value
      BY <2>3, <2>4 DEF ChampionFacts
    <2>6. W[n + 0].value \in 0 .. StampGlobal
      BY <1>7, <2>4 DEF Known
    <2>7. nl[0].value \in Int
      <3>1. nl[0] \in Entries
        BY <1>6, <2>4 DEF Played
      <3> QED
        BY <3>1 DEF Entries
    <2>8. nl[0].value # MaxStamp + 1
      BY <2>1, <2>5, <2>6, <2>7
    <2> QED
      BY <2>2, <2>8 DEF WinnerFacts
  <1>12. NewTree(t, open, m, n, nl, W)
    BY <1>9, <1>10, <1>11 DEF NewTree
  <1> QED
    BY <1>12, <1>t

\* What the tree knows of a winner it was told of.
LEMMA WinnerTold ==
  ASSUME NEW t, NEW open, NEW m, NEW n, NEW nl, NEW W, Merges(t, open, m, n, nl, W),
         StampGlobal \in 0 .. MaxStamp, ~Losers!NoWinner(t), nl[0].pathId \in ToldPaths(open, n, W)
  PROVE  nl[0].despId = links.tail[open[nl[0].pathId + 1]]
  <1>1. WinnerFacts(t, open, m, n, nl, W)
    BY WinnerIs
  <1>2. nl[0] = W[n + nl[0].pathId] /\ nl[0].value # MaxStamp + 1
    BY <1>1 DEF WinnerFacts
  <1>3. Losers!Exhausted.value = MaxStamp + 1
    BY DEF Losers!Exhausted, Losers!Entry, Losers!OVERFLOW_LEAF_VALUE
  <1>w. PICK w : w = nl[0].pathId
    OBVIOUS
  <1>4. W[n + w] = Losers!Exhausted \/ W[n + w].despId = links.tail[open[w + 1]]
    BY <1>w DEF ToldPaths
  <1> QED
    BY <1>2, <1>3, <1>4, <1>w

\* No path that still has a value knows of an earlier use, and what it knows is
\* no later than the last use of a block of its zone.
LEMMA OldestOfKnown ==
  ASSUME NEW t, NEW open, NEW m, NEW n, NEW nl, NEW W, Merges(t, open, m, n, nl, W),
         StampGlobal \in 0 .. MaxStamp, \A d \in valid : stamp[d] \in Nat,
         NEW i \in 1 .. Len(open), NEW x \in 0 .. n - 1,
         nl[x].pathId = i - 1, nl[x].value # MaxStamp + 1, NEW d \in Of(open[i], valid)
  PROVE  nl[0].value <= stamp[d]
  <1>1. /\ m \in Nat /\ n = 2 ^ m /\ open \in Seq(Zones) /\ Len(open) <= n /\ Played(n, nl, W)
        /\ \A j \in 0 .. n - 1 : PathLeaf(W[n + j], open, j)
    BY DEF Merges
  <1>2. n \in Nat /\ n > 0 /\ Len(open) \in Nat /\ MaxStamp \in Nat
    <2>1. n \in Nat /\ n > 0
      BY <1>1, PowerOfTwo
    <2> QED
      BY <1>1, <2>1, ZoneStrategyAssumption
  <1>3. ChampionFacts(m, n, nl, W)
    <2>1. m \in Nat
      BY <1>1
    <2>2. n = 2 ^ m
      BY <1>1
    <2>3. Played(n, nl, W)
      BY <1>1
    <2> QED
      BY <2>1, <2>2, <2>3, Champion
  <1>j. PICK j \in 0 .. n - 1 : nl[x] = W[n + j]
    BY <1>3 DEF ChampionFacts
  <1>4. j < Len(open) /\ Known(W[n + j], open[j + 1], j)
    <2>1. PathLeaf(W[n + j], open, j)
      BY <1>1
    <2>2. Losers!Exhausted.value = MaxStamp + 1 /\ Losers!Padding(j).value = MaxStamp + 1
      BY DEF Losers!Exhausted, Losers!Padding, Losers!Entry, Losers!OVERFLOW_LEAF_VALUE
    <2> QED
      BY <1>j, <2>1, <2>2 DEF PathLeaf
  <1>5. j = i - 1
    BY <1>j, <1>4 DEF Known
  <1>6. j + 1 = i
    BY <1>5
  <1>7. W[n + j].value <= stamp[d] /\ W[n + j].value \in Int
    BY <1>4, <1>6 DEF Known
  <1>8. nl[0].value <= W[n + j].value
    BY <1>3 DEF ChampionFacts
  <1>9. nl[0].value \in Int /\ stamp[d] \in Int
    <2>1. nl[0] \in Entries
      BY <1>1, <1>2 DEF Played
    <2>2. d \in valid
      BY DEF Of
    <2> QED
      BY <2>1, <2>2 DEF Entries
  <1> QED
    BY <1>7, <1>8, <1>9

\* A call after which no block is known to be used later than it is.
LaterUses ==
  /\ StampGlobal' \in Nat /\ StampGlobal <= StampGlobal'
  /\ \A d \in valid' : \/ d \in valid /\ zone'[d] = zone[d] /\ stamp'[d] = stamp[d]
                       \/ stamp'[d] = StampGlobal'

LEMMA MergesKept ==
  ASSUME NEW t, NEW open, NEW m, NEW n, NEW nl, NEW W, Merges(t, open, m, n, nl, W),
         StampGlobal \in Nat, LaterUses
  PROVE  Merges(t, open, m, n, nl, W)'
  <1>1. ASSUME NEW e, NEW z, NEW i, Known(e, z, i) PROVE Known(e, z, i)'
    <2>1. e \in Entries /\ e.pathId = i /\ e.value \in 0 .. StampGlobal /\ e.despId \in Desps
      BY <1>1 DEF Known
    <2>2. e.value \in 0 .. StampGlobal'
      BY <2>1 DEF LaterUses
    <2>3. ASSUME NEW d \in valid', zone'[d] = z PROVE e.value <= stamp'[d]
      <3>1. CASE d \in valid /\ zone'[d] = zone[d] /\ stamp'[d] = stamp[d]
        <4>1. d \in Of(z, valid)
          BY <2>3, <3>1 DEF Of
        <4> QED
          BY <1>1, <3>1, <4>1 DEF Known
      <3>2. CASE stamp'[d] = StampGlobal'
        BY <2>2, <3>2 DEF LaterUses
      <3> QED
        BY <3>1, <3>2 DEF LaterUses
    <2>4. \A d \in Of(z, valid)' : e.value <= stamp'[d]
      BY <2>3 DEF Of
    <2> QED
      BY <2>1, <2>2, <2>4 DEF Known, Entries
  <1>2. \A e, i : PathLeaf(e, open, i) => PathLeaf(e, open, i)'
    BY <1>1 DEF PathLeaf
  <1> QED
    BY <1>2 DEF Merges
=============================================================================
