----------------------------- MODULE DespLists -----------------------------
(***************************************************************************)
(* The doubly linked lists of the strategies by zones, strategy/paul.c,    *)
(* most.c, most_rw.c, pore.c and pore_plus.c: the links of a descriptor    *)
(* are shared by all lists, the ends of each list are in its control       *)
(* block.  The files repeat these functions word for word, and those for   *)
(* the list of clean descriptors once more.                                *)
(***************************************************************************)
EXTENDS Walks, FiniteSets

CONSTANTS
  Desps,     \* the descriptors
  Nil        \* the index -1

ASSUME DespListsAssumption == Nil \notin Desps

\* No descriptor in any of the lists with these names.
NoLinks(names) ==
  [pre  |-> [d \in Desps |-> Nil], next |-> [d \in Desps |-> Nil],
   head |-> [c \in names |-> Nil], tail |-> [c \in names |-> Nil]]

\* Faulty variant: the old head keeps Nil as the one before it.
WithHead_OneWay(l, d, c) ==
  IF l.head[c] = Nil
  THEN [l EXCEPT !.head[c] = d, !.tail[c] = d]
  ELSE [l EXCEPT !.pre[d] = Nil, !.next[d] = l.head[c], !.head[c] = d]

\* add2ArrayHead(), add2CleanArrayHead()
WithHead(l, d, c) ==
  IF l.head[c] = Nil
  THEN [l EXCEPT !.head[c] = d, !.tail[c] = d]
  ELSE [l EXCEPT !.pre[d] = Nil, !.next[d] = l.head[c],
                 !.pre[l.head[c]] = d, !.head[c] = d]

\* unloadfromZone(), unloadfromCleanArray()
Without(l, d, c) ==
  LET p == l.pre[d]
      n == l.next[d]
      l1 == IF p = Nil THEN [l EXCEPT !.head[c] = n] ELSE [l EXCEPT !.next[p] = n]
      l2 == IF n = Nil THEN [l1 EXCEPT !.tail[c] = p] ELSE [l1 EXCEPT !.pre[n] = p]
  IN  [l2 EXCEPT !.pre[d] = Nil, !.next[d] = Nil]

\* Faulty variant: the descriptor is put back without being taken out.
ToHead_Relinked(l, d, c) == WithHead(l, d, c)

\* move2ArrayHead(), move2CleanArrayHead()
ToHead(l, d, c) == WithHead(Without(l, d, c), d, c)

-----------------------------------------------------------------------------
\* What is met from one end on.
Chain(start, follow) == Walk(start, follow, Nil, Cardinality(Desps))

\* List c, its head first.
Listed(l, c) == Chain(l.head[c], l.next)

\* Walked from the tail a list shows the same descriptors as from the head.
WalksAgree(l, c) == Chain(l.tail[c], l.pre) = Reverse(Listed(l, c))
=============================================================================
