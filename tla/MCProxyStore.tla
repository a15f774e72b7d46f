---------------------------- MODULE MCProxyStore ----------------------------
(* TLC instances of ProxyStore.                                            *)
EXTENDS ProxyStore, TLC

Symmetry == Permutations(Handlers) \cup Permutations(Writers) \cup Permutations(Subs)

\* States in which two handlers worked on one subscription at once are checked, and not
\* explored further.
RaceFree == ~raced
=============================================================================
