------------------------- MODULE MCSubscriptions -------------------------
(* TLC instances of Subscriptions: workers, keys and names are             *)
(* interchangeable.                                                        *)
EXTENDS Subscriptions, TLC

Symmetry == Permutations(Workers) \cup Permutations(Keys) \cup Permutations(Names)
=============================================================================
