----------------------------- MODULE MCSelector -----------------------------
(* Selector for TLC: model values for descriptors and threads.             *)
EXTENDS Selector, TLC

CONSTANTS f1, f2, c1, c2

FdsDef == {f1, f2}
CallersDef == {c1, c2}
Symmetry == Permutations(FdsDef) \cup Permutations(CallersDef)
=============================================================================
