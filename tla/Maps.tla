-------------------------------- MODULE Maps --------------------------------
(* Functions used as tables and maps are in the code: entries come and go.   *)
EXTENDS Integers, Sequences, FiniteSets

\* The absent number: no row, no handle, no key.
None == 0

Put(f, k, v)     == [x \in DOMAIN f \cup {k} |-> IF x = k THEN v ELSE f[x]]
Without(f, K)    == [x \in DOMAIN f \ K |-> f[x]]
DropAt(q, i)     == [j \in 1..(Len(q) - 1) |-> IF j < i THEN q[j] ELSE q[j + 1]]
==============================================================================
