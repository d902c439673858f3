------------------------------- MODULE MCLake -------------------------------
(* Small instances of Lake for TLC.                                         *)
EXTENDS Lake, TLC

CONSTANTS d1, d2, o1, o2, o3, o4, o5, o6, x1, x2, slow, late, odd, c1, c2, r1

Dated     == [e \in Events |-> IF e = late THEN d1 ELSE d2]
OneDay    == [e \in Events |-> d1]
SameDay   == [k \in Keys |-> d1]
\* Objects of the second day sort after those of the first.
TwoDays   == [k \in Keys |-> IF k \in {o1, o2, o3, x1, x2} THEN d1 ELSE d2]
\* "compacted" sorts before "part-".
Ordering  == <<x1, x2, o1, o2, o3, o4, o5, o6>>
\* An output key that sorts after its sources.
LastListing == [k \in Keys |-> CHOOSE i \in 1..8 : <<o1, o2, o3, o4, o5, o6, x1, x2>>[i] = k]
Listing   == [k \in Keys |-> CHOOSE i \in DOMAIN Ordering : Ordering[i] = k]
Separate  == [c \in Compactions |-> IF c = c1 THEN x1 ELSE x2]
Shared    == [c \in Compactions |-> x1]

\* uuid keys of one partition.
SymmetricKeys == {f @@ g : f \in Permutations(Keys \cap {o1, o2, o3}),
                           g \in Permutations(Keys \cap {o4, o5, o6})}
=============================================================================
