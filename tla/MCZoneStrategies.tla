-------------------------- MODULE MCZoneStrategies --------------------------
(***************************************************************************)
(* The strategies by zones on a small instance, and their loser tree on    *)
(* all inputs of a few paths.                                              *)
(***************************************************************************)
EXTENDS ZoneStrategies

Symmetry == Permutations(Desps)

\* The loser tree against a plain minimum, for up to five paths (the first count
\* that is padded to eight): path by path taken away, the winners come in
\* ascending order and then there is none; a path that goes on with a later
\* value leaves the least of the others and of that value as the winner.
Tree == INSTANCE LoserTree WITH MaxValue <- 2

ASSUME LoserTreeMerges ==
  \A n \in 1 .. 5 : \A value \in [1 .. n -> 0 .. 2] :
    LET created == Tree!LoserTree_Create(
                     [i \in 1 .. n |-> [value |-> value[i], desp |-> i]])
        tree[k \in 0 .. n] ==
          IF k = 0 THEN created ELSE Tree!LoserTree_PathEnds(tree[k - 1])
        won == [k \in 1 .. n |-> Tree!Winner(tree[k - 1])]
        goesOn(v) == Tree!LoserTree_GetWinner(created, [value |-> v, desp |-> 0])
    IN  /\ {won[k].pathId + 1 : k \in 1 .. n} = 1 .. n
        /\ \A k \in 1 .. n : /\ won[k].despId = won[k].pathId + 1
                            /\ won[k].value = value[won[k].despId]
                            /\ k > 1 => won[k - 1].value <= won[k].value
        /\ Tree!NoWinner(tree[n])
        /\ \A v \in won[1].value .. 2 :
             Tree!Winner(goesOn(v)).value
               = Min({v} \cup {value[i] : i \in 1 .. n \ {won[1].despId}})
=============================================================================
