----------------------------- MODULE LoserTree -----------------------------
(***************************************************************************)
(* strategy/losertree4pore.c: a tree of losers that merges several paths   *)
(* by ascending value.  A tree has n = 2^k places; place 0 holds the       *)
(* winner, the others the loser of the match played there.  The path that  *)
(* won last is the only one to be given a new value.                       *)
(***************************************************************************)
EXTENDS Integers, SequencesExt

CONSTANT MaxValue    \* values of the paths are in 0 .. MaxValue

OVERFLOW_LEAF_VALUE == MaxValue + 1

\* Entries of a tree.  Unplayed is the -1 a new tree is filled with, Padding
\* the dummy for the paths that are there to make n of them.  Where the last
\* winner's path has no more value, adjust() leaves pathId and despId of the
\* new entry as they are on the stack; Nowhere stands for what they may be.
Nowhere == -9
Entry(value, path, desp) == [value |-> value, pathId |-> path, despId |-> desp]
Unplayed == Entry(-1, -1, Nowhere)
Padding(i) == Entry(OVERFLOW_LEAF_VALUE, i, -1)
Exhausted == Entry(OVERFLOW_LEAF_VALUE, Nowhere, Nowhere)

\* The least k with 2^k >= v.
lg2_above(v) == Min({k \in 0 .. v : 2 ^ k >= v})

\* adjust(): the leaf of path winnerPathId plays its way up; at each place the
\* greater one stays.
adjust(t, leaf) ==
  LET up[k \in 0 .. lg2_above(t.n)] ==
        IF k = 0 THEN [non_leafs |-> t.non_leafs, win |-> leaf]
        ELSE LET s == up[k - 1]
                 p == (t.n + t.winnerPathId) \div 2 ^ k
             IN  IF s.win.value > s.non_leafs[p].value
                 THEN [non_leafs |-> [s.non_leafs EXCEPT ![p] = s.win],
                       win |-> s.non_leafs[p]]
                 ELSE s
      top == up[lg2_above(t.n)]
  IN  [t EXCEPT !.non_leafs = [top.non_leafs EXCEPT ![0] = top.win],
                !.winnerPathId = top.win.pathId]

\* LoserTree_Create(): each path plays in turn; leaf[i] is the first value of
\* path i - 1 with its descriptor.
LoserTree_Create(leaf) ==
  LET npath == Len(leaf)
      n == 2 ^ lg2_above(npath)
      empty == [n |-> n, winnerPathId |-> 0,
                non_leafs |-> [i \in 0 .. n - 1 |-> Unplayed]]
      played[i \in 0 .. n] ==
        IF i = 0 THEN empty
        ELSE adjust([played[i - 1] EXCEPT !.winnerPathId = i - 1],
                    IF i <= npath THEN Entry(leaf[i].value, i - 1, leaf[i].desp)
                                  ELSE Padding(i - 1))
  IN  played[n]

\* LoserTree_GetWinner(), for a path that goes on with candidate, or that has
\* none left.
LoserTree_GetWinner(t, candidate) ==
  adjust(t, Entry(candidate.value, t.winnerPathId, candidate.desp))
LoserTree_PathEnds(t) == adjust(t, Exhausted)

Winner(t) == t.non_leafs[0]

\* What both functions return: no path has a value left.
NoWinner(t) == Winner(t).value < 0 \/ Winner(t).value = OVERFLOW_LEAF_VALUE
=============================================================================
