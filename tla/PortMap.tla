------------------------------ MODULE PortMap ------------------------------
(***************************************************************************)
(* What the server promises those who read a proxy's port from the pool    *)
(* with no lock: relay requests, validation and quality checks.  A map of  *)
(* advertised ports follows a map of listeners, and they change in turn.   *)
(* BindingSync implements it.                                              *)
(***************************************************************************)
EXTENDS Naturals

CONSTANTS
  Proxies,  \* proxy ids
  Ports,    \* the ports of the pool
  NoPort    \* none

VARIABLES
  adv,      \* the port advertised for a proxy
  lsn,      \* the port that is forwarded to a proxy
  trusted   \* the promise holds

vars == <<adv, lsn, trusted>>

Maps == [Proxies -> Ports \cup {NoPort}]

Init ==
  /\ lsn \in Maps
  /\ \A p, q \in Proxies : lsn[p] = lsn[q] /\ lsn[p] # NoPort => p = q
  /\ adv \in Maps
  /\ \A p \in Proxies : adv[p] \in {lsn[p], NoPort}
  /\ trusted = TRUE

\* A listener comes, on a port no other has, or goes: of a proxy not advertised.
Rebind(p, x) ==
  /\ adv[p] = NoPort
  /\ x # NoPort => lsn[p] = NoPort /\ \A q \in Proxies : lsn[q] # x
  /\ lsn' = [lsn EXCEPT ![p] = x]
  /\ UNCHANGED <<adv, trusted>>

\* Proxies are advertised where they listen, or no longer.
Advertise ==
  /\ adv' \in Maps
  /\ \A p \in Proxies : adv'[p] \in {adv[p], lsn[p], NoPort}
  /\ UNCHANGED <<lsn, trusted>>

\* The server fell into disorder: nothing is promised from here on.
Lapse ==
  /\ trusted' = FALSE
  /\ adv' \in Maps /\ lsn' \in Maps

Next ==
  \/ trusted /\ \E p \in Proxies, x \in Ports \cup {NoPort} : Rebind(p, x)
  \/ trusted /\ Advertise
  \/ Lapse

Spec == Init /\ [][Next]_vars
=============================================================================
