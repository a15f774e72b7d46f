------------------------- MODULE MCClientBindings -------------------------
(* TLC instances of ClientBindings: handlers are interchangeable, and so   *)
(* are stored proxies.                                                     *)
EXTENDS ClientBindings, TLC

Symmetry == Permutations(Handlers) \cup Permutations(Proxies)

\* States in which two requests worked on one tag are checked, and not explored further; nor
\* are those in which a request named a pool port or a tag and a port leaked or a saved
\* local_port is left: there only Paired still says something, which reads neither.
RaceFree == ~raced /\ (custom => leaked = {} /\ stale = {})
=============================================================================
