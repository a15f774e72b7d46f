--------------------------- MODULE MCBindingSync ---------------------------
(* TLC instances of BindingSync: proxies are interchangeable.              *)
EXTENDS BindingSync, TLC

Symmetry == Permutations(Proxies)

\* States out of order are checked, and not explored further: nothing is promised there.
InOrder == Orderly
=============================================================================
