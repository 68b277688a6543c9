------------------------------- MODULE Walks -------------------------------
(***************************************************************************)
(* What is met when the links of a list are followed from one end on.      *)
(***************************************************************************)
EXTENDS Integers, SequencesExt

\* The nodes from start to the first without a link; a link that leads to no node
\* is nil.  After so many steps the walk is given up, so that a cycle shows.
Walk(start, follow, nil, steps) ==
  LET longer == [path \in Seq(DOMAIN follow) |->
                   IF follow[Last(path)] = nil THEN path
                   ELSE Append(path, follow[Last(path)])]
      walk[k \in 0 .. steps] == IF k = 0 THEN <<start>> ELSE longer[walk[k - 1]]
  IN  IF start = nil THEN << >> ELSE walk[steps]
=============================================================================
