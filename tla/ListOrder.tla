----------------------------- MODULE ListOrder -----------------------------
(***************************************************************************)
(* What the strategies by zones (strategy/most.c, most_rw.c, pore.c,       *)
(* pore_plus.c) make of their linked lists: every list is ranked by the    *)
(* last use, a descriptor is in at most one of them, and a batch of        *)
(* victims is the old end of a single list.                                *)
(***************************************************************************)
EXTENDS Integers, SequencesExt

CONSTANTS
  Desps,     \* the descriptors
  Names,     \* names of the lists: the zones and the list of clean descriptors
  Grain      \* the largest batch

VARIABLE list   \* the members of each list, the last used one first

Members(c) == ToSet(list[c])

Init == list = [c \in Names |-> << >>]

\* Descriptor d enters the cache and list c.
LogIn(d, c) ==
  /\ \A n \in Names : d \notin Members(n)
  /\ list' = [list EXCEPT ![c] = <<d>> \o @]

\* Descriptor d is used; a write may bring it to another list.
HitIn(d, c) ==
  /\ \E n \in Names : d \in Members(n)
  /\ list' = [n \in Names |-> LET rest == RemoveFirst(list[n], d)
                             IN  IF n = c THEN <<d>> \o rest ELSE rest]

\* n descriptors leave from the old end of list c.
LogOut(c, n) ==
  /\ n <= Len(list[c])
  /\ list' = [list EXCEPT ![c] = SubSeq(@, 1, Len(@) - n)]

Next ==
  \/ \E d \in Desps, c \in Names : LogIn(d, c) \/ HitIn(d, c)
  \/ \E c \in Names, n \in 1 .. Grain : LogOut(c, n)

Spec == Init /\ [][Next]_list
=============================================================================
