---------------------------- MODULE PromiseProofs ----------------------------
(***************************************************************************)
(* What PortMap gives the readers of the pool.  BindingSyncProofs proves   *)
(* that the steps of the server and of sing-box implement it.              *)
(***************************************************************************)
EXTENDS TLAPS

CONSTANTS Proxies, Ports, NoPort
VARIABLES adv, lsn, trusted

Map == INSTANCE PortMap

\* An advertised port leads to its proxy, and no port to two.
Leads ==
  trusted =>
    /\ \A p \in Proxies : adv[p] \in {lsn[p], NoPort}
    /\ \A p, q \in Proxies : lsn[p] = lsn[q] /\ lsn[p] # NoPort => p = q

MapInv ==
  /\ lsn \in Map!Maps
  /\ adv \in Map!Maps
  /\ trusted \in BOOLEAN
  /\ Leads

LEMMA MapStep == MapInv /\ [Map!Next]_(Map!vars) => MapInv'
<1> SUFFICES ASSUME MapInv, [Map!Next]_(Map!vars) PROVE MapInv'
  OBVIOUS
<1> USE DEF MapInv, Map!Maps
<1>1. ASSUME trusted, NEW p \in Proxies, NEW x \in Ports \cup {NoPort}, Map!Rebind(p, x)
      PROVE  MapInv'
  <2>1. /\ adv[p] = NoPort /\ lsn' = [lsn EXCEPT ![p] = x] /\ UNCHANGED <<adv, trusted>>
        /\ x # NoPort => \A q \in Proxies : lsn[q] # x
    BY <1>1 DEF Map!Rebind
  <2>2. lsn' \in [Proxies -> Ports \cup {NoPort}]
    BY <2>1
  <2>3. \A q \in Proxies : adv'[q] \in {lsn'[q], NoPort}
    BY <1>1, <2>1 DEF Leads
  <2>4. \A q, r \in Proxies : lsn'[q] = lsn'[r] /\ lsn'[q] # NoPort => q = r
    BY <1>1, <2>1 DEF Leads
  <2> QED
    BY <2>1, <2>2, <2>3, <2>4 DEF Leads
<1>2. ASSUME trusted, Map!Advertise PROVE MapInv'
  BY <1>2 DEF Map!Advertise, Leads
<1>3. CASE Map!Lapse
  BY <1>3 DEF Map!Lapse, Leads
<1>4. CASE UNCHANGED Map!vars
  BY <1>4 DEF Map!vars, Leads
<1> QED
  BY <1>1, <1>2, <1>3, <1>4 DEF Map!Next

\* A reader of the pool that takes no lock is never led to another proxy, at the moment it
\* reads: what PortMap means for relays, validation and quality checks.
THEOREM PortsLead == Map!Spec => []Leads
<1>1. Map!Init => MapInv
  BY DEF Map!Init, MapInv, Leads
<1>2. MapInv => Leads
  BY DEF MapInv
<1> QED
  BY <1>1, <1>2, MapStep, PTL DEF Map!Spec
=============================================================================
