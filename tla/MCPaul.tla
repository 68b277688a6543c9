------------------------------- MODULE MCPaul -------------------------------
(* Paul for TLC: descriptors are model values and may be swapped. *)
EXTENDS Paul

Symmetry == Permutations(Desps)

(***************************************************************************)
(* qsort_zone() sorts: for each number of zones up to 5 and all scores up  *)
(* to 3, the array extractNonEmptyZoneId() fills holds the same zones      *)
(* afterwards, with descending scores.  (The states of Paul bring it no    *)
(* more than three.)                                                       *)
(***************************************************************************)
Descends(a, key) ==
  \A i \in 1 .. Len(a) - 1 : key[a[i]] >= key[a[i + 1]]

ASSUME ZoneSortSorts ==
  \A n \in 1 .. 5 : \A key \in [0 .. n - 1 -> 0 .. 3] :
    LET a == qsort_zone([i \in 1 .. n |-> i - 1], key, 1, n)
    IN  Len(a) = n /\ ToSet(a) = 0 .. n - 1 /\ Descends(a, key)
=============================================================================
