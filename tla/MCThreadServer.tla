---------------------------- MODULE MCThreadServer ----------------------------
(***************************************************************************)
(* Instances of ThreadServer for TLC.                                      *)
(***************************************************************************)
EXTENDS ThreadServer, TLC

\* Application threads and thread handles are interchangeable.
Symmetry == Permutations(Callers) \cup Permutations(Handles)

\* Every rule of use is kept, but for one of them.
AllRules == AppRules
WithoutSetAlive == AppRules \ {"set_alive"}
===============================================================================
