---------------------------- MODULE MCPackBuffers ----------------------------
(* Instances of PackBuffers for TLC: sizes small enough that a panel may    *)
(* fit the large blocks and not the small ones, and no slot at all.         *)
EXTENDS PackBuffers, TLC

Small == [mc |-> 2, kc |-> 1, nb |-> 2]
Large == [mc |-> 2, kc |-> 3, nb |-> 2]
TwoBlocks == {Small, Large}

\* A panel of B of 2 x 3 fits Large; with Small the panels are 1 x 3 and do not.
OneShape == {[n |-> 3, k |-> 2]}

AllRules == AppRules

Symmetry == Permutations(Threads)
==============================================================================
