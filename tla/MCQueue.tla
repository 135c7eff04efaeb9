------------------------------ MODULE MCQueue ------------------------------
(* Elements i1, i2 share a key that those of i3, i4 precede; with room for *)
(* two elements, two more pushes can be blocked at the same time.          *)
EXTENDS BoundedOrderedQueue
CONSTANTS i1, i2, i3, i4

MCItems == {i1, i2, i3, i4}
MCKeyOf == [i \in MCItems |-> IF i \in {i1, i2} THEN 2 ELSE 1]
=============================================================================
