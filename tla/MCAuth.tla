------------------------------- MODULE MCAuth -------------------------------
(* TLC instances of Auth: keys, sessions, requests and logins are          *)
(* interchangeable.                                                        *)
EXTENDS Auth, TLC

Symmetry == Permutations(Keys) \cup Permutations(Sessions)
              \cup Permutations(Requests) \cup Permutations(Logins)
=============================================================================
