----------------------------- MODULE MCQuality -----------------------------
(* TLC instances of Quality: proxies and runs are interchangeable.  Few    *)
(* bounds the proxies that meet what the properties exempt.                *)
EXTENDS Quality, TLC

Symmetry == Permutations(Proxies) \cup Permutations(Runs)

Few == Cardinality(spoiled) <= 1 /\ Cardinality(crossed) <= 1
=============================================================================
