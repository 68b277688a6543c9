------------------------------ MODULE ZoneSort ------------------------------
(***************************************************************************)
(* qsort_zone() of strategy/paul.c (repeated in most.c and most_rw.c): a   *)
(* quicksort of zone numbers, the zone with the largest key first.  The    *)
(* pivot is taken out of the array and the hole it leaves moves between    *)
(* the two ends of the part that is being split.                           *)
(***************************************************************************)
EXTENDS Integers, SequencesExt

\* The scan from the right: to the last place up to j with a key above the
\* pivot's, or to i where the scans meet.
ScanLeft(a, key, i, j, pivot) ==
  Max({k \in i .. j : k = i \/ key[a[k]] > pivot})

\* The scan from the left, to a key below the pivot's or to j.
ScanRight(a, key, i, j, pivot) ==
  Min({k \in i .. j : k = j \/ key[a[k]] < pivot})

\* The body of the while loop: p is the array with the two ends of the part in
\* which the hole is, at i before the body and after it, at j in between.
FillFromRight(p, key, pivot) ==
  LET k == ScanLeft(p.a, key, p.i, p.j, pivot)
  IN  [p EXCEPT !.a[p.i] = p.a[k], !.j = k]

FillFromLeft(p, key, pivot) ==
  LET k == ScanRight(p.a, key, p.i, p.j, pivot)
  IN  [p EXCEPT !.a[p.j] = p.a[k], !.i = k]

\* The loop, until the ends meet where the pivot goes.  Each turn moves i, so
\* there are at most as many as places.
Split(p0, key, pivot) ==
  LET turn(p) == IF p.i < p.j THEN FillFromLeft(FillFromRight(p, key, pivot), key, pivot)
                 ELSE p
      loop[n \in 0 .. Len(p0.a)] == IF n = 0 THEN p0 ELSE turn(loop[n - 1])
  IN  loop[Len(p0.a)]

\* qsort_zone(start, end) on array a0, with the keys of the zones.  The parts
\* that are sorted by the calls inside are shorter than the whole, so the calls
\* are at most as deep as the array is long.
qsort_zone(a0, key, start0, end0) ==
  LET places == 1 .. Len(a0)
      sort[depth \in 0 .. Len(a0)] ==
        [c \in [a : [places -> Int], i : places, j : places] |->
           IF depth = 0 THEN c.a
           ELSE LET pivot == c.a[c.i]
                    p == Split(c, key, key[pivot])
                    set == [p.a EXCEPT ![p.i] = pivot]
                    below == IF p.i - 1 > c.i
                             THEN sort[depth - 1][[a |-> set, i |-> c.i, j |-> p.i - 1]]
                             ELSE set
                IN  IF p.j + 1 < c.j
                    THEN sort[depth - 1][[a |-> below, i |-> p.j + 1, j |-> c.j]]
                    ELSE below]
  IN  sort[Len(a0)][[a |-> a0, i |-> start0, j |-> end0]]

\* extractNonEmptyZoneId(): of the zones 0 .. n - 1 those for which size is not
\* zero, by number.
NonEmptyZoneIds(size, n) ==
  LET some[k \in 0 .. n] ==
        IF k = 0 THEN << >>
        ELSE LET before == some[k - 1]
             IN  IF size[k - 1] > 0 THEN Append(before, k - 1) ELSE before
  IN  some[n]
=============================================================================
