-------------------------- MODULE ValidationProofs --------------------------
(***************************************************************************)
(* Proofs about Validation, for any proxies, number of relay requests,     *)
(* batch size, threshold and bounds on reports and restarts.               *)
(***************************************************************************)
EXTENDS Validation, FiniteSetTheorems, TLAPS

\* The requests between the two writes of a report on p.
Reporters(p) == {r \in Relays : at[r] = "save" /\ goal[r] = p}

MaxCount == MaxErrors + Cardinality(Relays)

\* TypeOK with no bound on the errors.
Typed ==
  /\ status \in [Proxies -> Statuses \cup {"unborn", "gone"}]
  /\ err \in [Proxies -> Nat]
  /\ row \in [Proxies -> {"none", "new", "ok", "bad"}]
  /\ rowErr \in [Proxies -> Nat]
  /\ pc \in {"idle", "sync", "collect", "judge", "stuck", "clean", "purge"}
  /\ ported \in SUBSET Proxies
  /\ tried \in SUBSET Proxies
  /\ batch \in SUBSET Proxies
  /\ saving \in [Proxies -> {"none", "ok", "bad"}]
  /\ at \in [Relays -> {"idle", "send", "save"}]
  /\ goal \in [Relays -> Proxies \cup {Nobody}]
  /\ admin \in {"idle", "purge"}
  /\ deleting \in SUBSET Proxies
  /\ crashes \in 0 .. MaxCrashes
  /\ mixed \in BOOLEAN

\* What holds of every proxy at any time: nobody works on one that is not born, one that
\* is judged was not judged before, and no more errors are counted than were reported.
Steady(p) ==
  /\ row[p] = "none" => rowErr[p] = 0
  /\ status[p] = "unborn" =>
       row[p] \in {"none", "new"} /\ rowErr[p] = 0 /\ err[p] = 0 /\ saving[p] = "none"
  /\ status[p] = "gone" => err[p] = 0
  /\ p \in deleting => status[p] = "gone"
  /\ p \in batch => status[p] \in {"Untested", "gone"} /\ saving[p] = "none" /\ row[p] # "bad"
  /\ saving[p] # "none" =>
       /\ row[p] # "bad" /\ pc \in {"judge", "stuck"}
       /\ status[p] \in {"gone", IF saving[p] = "ok" THEN "Valid" ELSE "Invalid"}
  /\ status[p] = "Untested" => row[p] # "bad"
  /\ status[p] = "Valid" => row[p] # "bad"
  /\ err[p] <= MaxCount + (IF status[p] = "Invalid" THEN 1 ELSE 0)
  /\ rowErr[p] + Cardinality(Reporters(p)) <= MaxCount + (IF row[p] = "bad" THEN 1 ELSE 0)

\* Whoever reports has picked a proxy, and there are Untested proxies to judge only in the
\* rounds of a run.
Working ==
  /\ \A r \in Relays : at[r] # "idle" => goal[r] \in Proxies /\ status[goal[r]] # "unborn"
  /\ pc \notin {"judge", "stuck"} => batch = {}
  /\ pc # "collect" => ported = {}
  /\ ported \subseteq Untested \cup {p \in Proxies : status[p] = "gone"}

TypeInv == Typed /\ Working /\ \A p \in Proxies : Steady(p)

\* Counting the reporters.
LEMMA Counting ==
  /\ Cardinality(Relays) \in Nat /\ MaxCount \in Nat
  /\ \A S \in SUBSET Relays :
       /\ Cardinality(S) \in 0 .. Cardinality(Relays)
       /\ Cardinality(S) = 0 <=> S = {}
       /\ \A r \in S : Cardinality(S \ {r}) = Cardinality(S) - 1
       /\ \A r \in Relays \ S : Cardinality(S \cup {r}) = Cardinality(S) + 1
<1>1. Cardinality(Relays) \in Nat
  BY ValidationAssumption, FS_CardinalityType
<1>2. ASSUME NEW S \in SUBSET Relays
      PROVE  /\ IsFiniteSet(S) /\ Cardinality(S) \in 0 .. Cardinality(Relays)
             /\ Cardinality(S) = 0 <=> S = {}
  BY <1>1, ValidationAssumption, FS_Subset, FS_CardinalityType, FS_EmptySet
<1>3. ASSUME NEW S \in SUBSET Relays
      PROVE  /\ \A r \in S : Cardinality(S \ {r}) = Cardinality(S) - 1
             /\ \A r \in Relays \ S : Cardinality(S \cup {r}) = Cardinality(S) + 1
  BY <1>2, FS_RemoveElement, FS_AddElement
<1> QED
  BY <1>1, <1>2, <1>3, ValidationAssumption DEF MaxCount

\* The types are those of TypeOK.
LEMMA TypedOK == TypeInv => TypeOK
<1> SUFFICES ASSUME TypeInv PROVE TypeOK
  OBVIOUS
<1>1. \A p \in Proxies : err[p] \in 0 .. (MaxErrors + Cardinality(Relays) + 1)
  BY Counting, ValidationAssumption DEF TypeInv, Typed, Steady, MaxCount
<1>2. ASSUME NEW p \in Proxies PROVE rowErr[p] \in 0 .. (MaxErrors + Cardinality(Relays) + 1)
  <2>1. Cardinality(Reporters(p)) \in Nat
    BY Counting DEF Reporters
  <2> QED
    BY <2>1, Counting, ValidationAssumption DEF TypeInv, Typed, Steady, MaxCount
<1> QED
  BY <1>1, <1>2 DEF TypeInv, Typed, TypeOK

\* Requests that stand still count for what they did.
LEMMA SameReporters ==
  UNCHANGED relayVars => \A p \in Proxies : Reporters(p)' = Reporters(p)
BY DEF relayVars, Reporters

\* The steps of validate_all.
LEMMA RunTyped ==
  ASSUME TypeInv, Run
  PROVE  TypeInv'
<1> USE DEF TypeInv, Typed, rowVars, poolVars, others
<1>0. /\ UNCHANGED <<relayVars, others>> /\ UNCHANGED <<at, goal>>
      /\ \A p \in Proxies : Reporters(p)' = Reporters(p) /\ Cardinality(Reporters(p)) \in 0 .. Cardinality(Relays)
  <2>1. UNCHANGED <<relayVars, others>>
    BY DEF Run, Recheck, Sync, Collect, Judge, SaveVerdict, Count, EndStuck, Clean, Purge
  <2> QED
    BY <2>1, SameReporters, Counting DEF relayVars, Reporters
<1>1. ASSUME Recheck PROVE TypeInv'
  <2>1. /\ pc = "idle" /\ pc' = "sync" /\ batch' = batch /\ batch = {}
        /\ ported' = ported /\ saving' = saving /\ deleting' = deleting
        /\ UNCHANGED <<err, row, rowErr, tried, mixed>>
        /\ status' = [p \in Proxies |->
                        IF status[p] = "Valid" /\ err[p] > 0 THEN "Untested" ELSE status[p]]
    BY <1>1 DEF Recheck, Working
  <2>2. \A p \in Proxies : Steady(p)'
    BY <1>0, <2>1 DEF Steady
  <2>3. Working'
    BY <1>0, <2>1 DEF Working, Untested
  <2> QED
    BY <1>0, <2>1, <2>2, <2>3 DEF Statuses
<1>2. ASSUME Sync PROVE TypeInv'
  <2>1. /\ pc = "sync" /\ pc' = "collect" /\ ported' \subseteq Untested /\ tried' \subseteq Untested
        /\ UNCHANGED <<status, err, row, rowErr, batch, saving, deleting, mixed>>
    BY <1>2 DEF Sync
  <2>2. \A p \in Proxies : Steady(p)'
    BY <1>0, <2>1 DEF Steady
  <2>3. Working'
    BY <1>0, <2>1 DEF Working, Untested
  <2> QED
    BY <1>0, <2>1, <2>2, <2>3 DEF Untested
<1>3. ASSUME Collect PROVE TypeInv'
  <2>1. /\ pc = "collect" /\ pc' \in {"stuck", "judge"} /\ ported' = {} /\ batch' \subseteq Untested
        /\ UNCHANGED <<status, err, row, rowErr, tried, saving, deleting, mixed>>
    BY <1>3 DEF Collect
  <2>2. \A p \in Proxies : Steady(p)'
    BY <1>0, <2>1 DEF Steady, Untested
  <2>3. Working'
    BY <1>0, <2>1 DEF Working, Untested
  <2> QED
    BY <1>0, <2>1, <2>2, <2>3 DEF Untested
<1>4. ASSUME NEW p \in Proxies, NEW v \in {"ok", "bad"}, Judge(p, v) PROVE TypeInv'
  <2>1. /\ pc \in {"judge", "stuck"} /\ p \in batch /\ batch' = batch \ {p}
        /\ saving' = [saving EXCEPT ![p] = v] /\ mixed' \in BOOLEAN
        /\ UNCHANGED <<row, rowErr, pc, ported, tried, deleting>>
    BY <1>0, <1>4 DEF Judge
  <2>2. \/ status' = status /\ err' = err /\ status[p] = "gone"
        \/ /\ status[p] = "Untested"
           /\ status' = [status EXCEPT ![p] = IF v = "ok" THEN "Valid" ELSE "Invalid"]
           /\ err' = [err EXCEPT ![p] = IF v = "ok" THEN 0 ELSE @ + 1]
    <3>1. status[p] \in {"Untested", "gone"}
      BY <2>1 DEF Steady
    <3>2. SetStatus(p, IF v = "ok" THEN "Valid" ELSE "Invalid")
      BY <1>4 DEF Judge
    <3>3. CASE v = "ok"
      BY <3>1, <3>2, <3>3 DEF SetStatus, InPool, Statuses
    <3>4. CASE v = "bad"
      BY <3>1, <3>2, <3>4 DEF SetStatus, InPool, Statuses
    <3> QED
      BY <3>3, <3>4
  <2>3. Steady(p)'
    BY <1>0, <2>1, <2>2, Counting DEF Steady
  <2>4. \A q \in Proxies \ {p} : Steady(q)'
    BY <1>0, <2>1, <2>2 DEF Steady
  <2>5. Working'
    BY <1>0, <2>1, <2>2 DEF Working, Untested
  <2>6. status' \in [Proxies -> Statuses \cup {"unborn", "gone"}] /\ err' \in [Proxies -> Nat]
    BY <2>2 DEF Statuses
  <2> QED
    BY <1>0, <2>1, <2>3, <2>4, <2>5, <2>6
<1>5. ASSUME NEW p \in Proxies, SaveVerdict(p) PROVE TypeInv'
  <2>1. /\ saving[p] # "none" /\ saving' = [saving EXCEPT ![p] = "none"]
        /\ UNCHANGED <<status, err, pc, ported, tried, batch, deleting, mixed>>
    BY <1>0, <1>5 DEF SaveVerdict, Saving
  <2>2. \/ row' = row /\ rowErr' = rowErr
        \/ /\ row[p] # "none"
           /\ row' = [row EXCEPT ![p] = saving[p]]
           /\ rowErr' = [rowErr EXCEPT ![p] = IF saving[p] = "ok" THEN 0 ELSE @ + 1]
    BY <1>5 DEF SaveVerdict, SaveRow, HasRow
  <2>3. Steady(p)'
    BY <1>0, <2>1, <2>2, Counting DEF Steady
  <2>4. \A q \in Proxies \ {p} : Steady(q)'
    BY <1>0, <2>1, <2>2 DEF Steady
  <2>5. Working'
    BY <1>0, <2>1, <2>2 DEF Working, Untested
  <2>6. rowErr' \in [Proxies -> Nat] /\ row' \in [Proxies -> {"none", "new", "ok", "bad"}]
    BY <2>1, <2>2
  <2> QED
    BY <1>0, <2>1, <2>3, <2>4, <2>5, <2>6
<1>6. ASSUME Count \/ EndStuck PROVE TypeInv'
  <2>1. /\ pc \in {"judge", "stuck"} /\ pc' \in {"clean", "sync"} /\ batch = {} /\ saving = NoSaving
        /\ UNCHANGED <<status, err, row, rowErr, ported, tried, batch, saving, deleting, mixed>>
    BY <1>6 DEF Count, EndStuck
  <2>2. \A p \in Proxies : Steady(p)'
    BY <1>0, <2>1 DEF Steady, NoSaving
  <2>3. Working'
    BY <1>0, <2>1 DEF Working, Untested
  <2> QED
    BY <1>0, <2>1, <2>2, <2>3
<1>7. ASSUME Clean PROVE TypeInv'
  <2>1. /\ pc = "clean" /\ pc' \in {"idle", "purge"} /\ tried' = {} /\ mixed' \in BOOLEAN
        /\ UNCHANGED <<status, err, ported, batch, saving, deleting>>
        /\ row' = [p \in Proxies |-> IF p \in Excess THEN "none" ELSE row[p]]
        /\ rowErr' = [p \in Proxies |-> IF p \in Excess THEN 0 ELSE rowErr[p]]
    BY <1>0, <1>7 DEF Clean, DeleteRows
  <2>2. ASSUME NEW p \in Proxies PROVE Steady(p)'
    <3>1. Steady(p) /\ saving[p] = "none"
      BY <2>1 DEF Steady
    <3>2. CASE p \in Excess
      <4>1. row'[p] = "none" /\ rowErr'[p] = 0 /\ status[p] # "unborn"
        BY <2>1, <3>1, <3>2, ValidationAssumption DEF Steady, Excess
      <4>2. rowErr'[p] + Cardinality(Reporters(p)') <= MaxCount
        BY <1>0, <4>1, Counting, ValidationAssumption DEF MaxCount
      <4>3. MaxCount + 0 = MaxCount
        BY Counting
      <4> QED
        BY <2>1, <3>1, <4>1, <4>2, <4>3 DEF Steady
    <3>3. CASE p \notin Excess
      BY <1>0, <2>1, <3>1, <3>3 DEF Steady
    <3> QED
      BY <3>2, <3>3
  <2>3. Working'
    BY <1>0, <2>1 DEF Working, Untested
  <2> QED
    BY <1>0, <2>1, <2>2, <2>3
<1>8. ASSUME Purge PROVE TypeInv'
  <2>1. /\ pc = "purge" /\ pc' = "idle"
        /\ UNCHANGED <<row, rowErr, ported, tried, batch, saving, deleting, mixed>>
        /\ status' = [p \in Proxies |-> IF p \in ExcessInPool THEN "gone" ELSE status[p]]
        /\ err' = [p \in Proxies |-> IF p \in ExcessInPool THEN 0 ELSE err[p]]
    BY <1>8 DEF Purge, Forget
  <2>2. \A p \in ExcessInPool : status[p] # "unborn"
    BY DEF ExcessInPool, InPool, Statuses
  <2>3. \A p \in Proxies : Steady(p)'
    BY <1>0, <2>1, <2>2, Counting DEF Steady
  <2>4. Working'
    BY <1>0, <2>1, <2>2 DEF Working, Untested
  <2> QED
    BY <1>0, <2>1, <2>3, <2>4 DEF Statuses
<1> QED
  BY <1>1, <1>2, <1>3, <1>4, <1>5, <1>6, <1>7, <1>8 DEF Run

\* The steps of relay requests.
LEMMA RelayTyped ==
  ASSUME TypeInv, NEW r \in Relays,
         (\E p \in Proxies : Pick(r, p)) \/ Answered(r) \/ Report(r) \/ SaveReport(r)
  PROVE  TypeInv'
<1> USE DEF TypeInv, Typed, rowVars, poolVars, runVars, others
<1>0. /\ UNCHANGED <<pc, ported, tried, batch, saving, status, row, admin, deleting, crashes>>
      /\ mixed' \in BOOLEAN
      /\ \A p \in Proxies : Cardinality(Reporters(p)) \in 0 .. Cardinality(Relays)
  BY Counting DEF Pick, Answered, Report, SaveReport, Reporters
<1>1. ASSUME (\E p \in Proxies : Pick(r, p)) \/ Answered(r) PROVE TypeInv'
  <2>1. \A q \in Proxies : Reporters(q)' = Reporters(q)
    BY <1>1 DEF Pick, Answered, Leave, Reporters
  <2>2. /\ at' \in [Relays -> {"idle", "send", "save"}]
        /\ goal' \in [Relays -> Proxies \cup {Nobody}]
        /\ UNCHANGED <<err, rowErr>>
    BY <1>1 DEF Pick, Answered, Leave
  <2>3. \A q \in Proxies : Steady(q)'
    BY <1>0, <2>1, <2>2 DEF Steady
  <2>4. Working'
    BY <1>0, <1>1 DEF Working, Pick, Answered, Leave, Untested
  <2> QED
    BY <1>0, <2>2, <2>3, <2>4
<1>2. ASSUME Report(r) PROVE TypeInv'
  <2>1. goal[r] \in Proxies /\ status[goal[r]] # "unborn"
    BY <1>2 DEF Report, Working
  <2>2. PICK p \in Proxies : p = goal[r]
    BY <2>1
  <2>3. /\ at[r] = "send" /\ at' = [at EXCEPT ![r] = "save"]
        /\ err[p] < MaxErrors /\ rowErr[p] < MaxErrors
        /\ err' = [err EXCEPT ![p] = IF p \in InPool THEN @ + 1 ELSE @]
        /\ UNCHANGED <<rowErr, goal>>
    BY <1>2, <2>2 DEF Report
  <2>4. \A q \in Proxies \ {p} : Reporters(q)' = Reporters(q)
    BY <2>2, <2>3 DEF Reporters
  <2>5. Reporters(p)' \in SUBSET Relays
    BY DEF Reporters
  <2>6. err' \in [Proxies -> Nat]
    BY <2>3
  <2>7. err'[p] <= MaxCount /\ rowErr'[p] + Cardinality(Reporters(p)') <= MaxCount
    BY <2>3, <2>5, Counting, ValidationAssumption DEF MaxCount
  <2>8. status[p] = "gone" => err'[p] = 0
    BY <2>3 DEF InPool, Statuses, Steady
  <2>9. Steady(p)'
    BY <1>0, <2>1, <2>2, <2>6, <2>7, <2>8, <2>3, Counting, <2>5 DEF Steady
  <2>10. \A q \in Proxies \ {p} : Steady(q)'
    BY <1>0, <2>3, <2>4 DEF Steady
  <2>11. Working'
    BY <1>0, <2>3 DEF Working, Untested
  <2> QED
    BY <1>0, <2>3, <2>6, <2>9, <2>10, <2>11
<1>3. ASSUME SaveReport(r) PROVE TypeInv'
  <2>1. goal[r] \in Proxies /\ status[goal[r]] # "unborn"
    BY <1>3 DEF SaveReport, Working
  <2>2. PICK p \in Proxies : p = goal[r]
    BY <2>1
  <2>3. /\ at[r] = "save" /\ at' = [at EXCEPT ![r] = "idle"] /\ goal' = [goal EXCEPT ![r] = Nobody]
        /\ rowErr' = [rowErr EXCEPT ![p] = IF p \in HasRow THEN @ + 1 ELSE @]
        /\ err' = err
    BY <1>3, <2>2 DEF SaveReport, Leave
  <2>4. \A q \in Proxies \ {p} : Reporters(q)' = Reporters(q)
    BY <2>2, <2>3, ValidationAssumption DEF Reporters
  <2>5. Reporters(p) \in SUBSET Relays /\ r \in Reporters(p) /\ Reporters(p)' = Reporters(p) \ {r}
    BY <2>2, <2>3, ValidationAssumption DEF Reporters
  <2>6. Cardinality(Reporters(p)') = Cardinality(Reporters(p)) - 1
    BY <2>5, Counting
  <2>7. rowErr' \in [Proxies -> Nat] /\ rowErr'[p] <= rowErr[p] + 1
    BY <2>3
  <2>8. row[p] = "none" => rowErr'[p] = 0
    BY <2>3 DEF HasRow, Steady
  <2>9. Steady(p)'
    BY <1>0, <2>1, <2>2, <2>3, <2>6, <2>7, <2>8, Counting DEF Steady
  <2>10. \A q \in Proxies \ {p} : Steady(q)'
    BY <1>0, <2>3, <2>4 DEF Steady
  <2>11. Working'
    BY <1>0, <2>3, ValidationAssumption DEF Working, Untested
  <2> QED
    BY <1>0, <2>3, <2>7, <2>9, <2>10, <2>11
<1> QED
  BY <1>1, <1>2, <1>3

\* The admin, subscriptions, on-demand bindings and restarts.
LEMMA OtherTyped ==
  ASSUME TypeInv,
         \/ \E p \in Proxies :
              BindOnDemand(p) \/ Remove(p) \/ DeleteRow(p) \/ InsertRow(p) \/ AddProxy(p)
         \/ AdminClean \/ AdminPurge \/ Restart \/ UNCHANGED vars
  PROVE  TypeInv'
<1> USE DEF TypeInv, Typed, rowVars, poolVars, runVars, relayVars, others
<1>0. /\ \A p \in Proxies : Cardinality(Reporters(p)) \in 0 .. Cardinality(Relays)
      /\ UNCHANGED <<at, goal>> => \A p \in Proxies : Reporters(p)' = Reporters(p)
  BY Counting DEF Reporters
<1>1. ASSUME NEW p \in Proxies, BindOnDemand(p) PROVE TypeInv'
  <2>1. /\ pc = "collect" /\ p \in Untested /\ ported' = ported \cup {p}
        /\ UNCHANGED <<status, err, row, rowErr, pc, tried, batch, saving, at, goal, admin, deleting,
                       crashes, mixed>>
    BY <1>1 DEF BindOnDemand
  <2>2. \A q \in Proxies : Steady(q)'
    BY <1>0, <2>1 DEF Steady
  <2>3. Working'
    BY <2>1 DEF Working, Untested
  <2> QED
    BY <2>1, <2>2, <2>3
<1>2. ASSUME NEW S \in SUBSET InPool, Forget(S),
             deleting' = deleting \cup S \/ deleting' = deleting,
             admin' \in {"idle", "purge"},
             UNCHANGED <<row, rowErr, pc, ported, tried, batch, saving, at, goal, crashes, mixed>>
      PROVE  TypeInv'
  <2>1. /\ status' = [p \in Proxies |-> IF p \in S THEN "gone" ELSE status[p]]
        /\ err' = [p \in Proxies |-> IF p \in S THEN 0 ELSE err[p]]
        /\ \A p \in S : p \in Proxies /\ status[p] # "unborn"
    BY <1>2 DEF Forget, InPool, Statuses
  <2>2. \A p \in Proxies : Steady(p)'
    BY <1>0, <1>2, <2>1, Counting DEF Steady
  <2>3. Working'
    BY <1>2, <2>1 DEF Working, Untested
  <2> QED
    BY <1>2, <2>1, <2>2, <2>3 DEF Statuses
<1>3. ASSUME NEW S \in SUBSET Proxies, DeleteRows(S),
             \A p \in S : status[p] # "unborn" \/ p \notin HasRow,
             deleting' \in SUBSET deleting, admin' \in {"idle", "purge"}, mixed' \in BOOLEAN,
             UNCHANGED <<status, err, pc, ported, tried, batch, saving, at, goal, crashes>>
      PROVE  TypeInv'
  <2>1. /\ row' = [p \in Proxies |-> IF p \in S THEN "none" ELSE row[p]]
        /\ rowErr' = [p \in Proxies |-> IF p \in S THEN 0 ELSE rowErr[p]]
    BY <1>3 DEF DeleteRows
  <2>2. ASSUME NEW p \in Proxies PROVE Steady(p)'
    <3>1. CASE p \in S
      <4>1. row'[p] = "none" /\ rowErr'[p] = 0
        BY <2>1, <3>1
      <4>2. rowErr'[p] + Cardinality(Reporters(p)') <= MaxCount /\ MaxCount + 0 = MaxCount
        BY <1>0, <1>3, <4>1, Counting, ValidationAssumption DEF MaxCount
      <4> QED
        BY <1>3, <4>1, <4>2 DEF Steady
    <3>2. CASE p \notin S
      BY <1>0, <1>3, <2>1, <3>2 DEF Steady
    <3> QED
      BY <3>1, <3>2
  <2>3. Working'
    BY <1>3, <2>1 DEF Working, Untested
  <2> QED
    BY <1>3, <2>1, <2>2, <2>3
<1>4. ASSUME AdminPurge \/ \E p \in Proxies : Remove(p) PROVE TypeInv'
  BY <1>2, <1>4 DEF AdminPurge, Remove, ExcessInPool
<1>5. ASSUME AdminClean \/ \E p \in Proxies : DeleteRow(p) PROVE TypeInv'
  <2>1. CASE AdminClean
    <3>1. \A p \in Excess : p \in Proxies /\ status[p] # "unborn"
      BY ValidationAssumption DEF Excess, HasRow, Steady
    <3> QED
      BY <1>3, <2>1, <3>1 DEF AdminClean
  <2>2. ASSUME NEW p \in Proxies, DeleteRow(p) PROVE TypeInv'
    <3>1. status[p] = "gone" /\ DeleteRows({p}) /\ deleting' = deleting \ {p}
      BY <2>2 DEF DeleteRow, Steady
    <3> QED
      BY <1>3, <2>2, <3>1 DEF DeleteRow
  <2> QED
    BY <1>5, <2>1, <2>2
<1>6. ASSUME NEW p \in Proxies, InsertRow(p) \/ AddProxy(p) PROVE TypeInv'
  <2>1. /\ UNCHANGED <<err, rowErr, pc, ported, tried, batch, saving, at, goal, admin, deleting,
                       crashes, mixed>>
        /\ status[p] = "unborn"
        /\ \/ row[p] = "none" /\ row' = [row EXCEPT ![p] = "new"] /\ status' = status
           \/ row[p] = "new" /\ row' = row /\ status' = [status EXCEPT ![p] = "Untested"]
    BY <1>6 DEF InsertRow, AddProxy
  <2>2. \A q \in Proxies : Steady(q)'
    BY <1>0, <2>1 DEF Steady
  <2>3. Working'
    BY <2>1 DEF Working, Untested
  <2> QED
    BY <2>1, <2>2, <2>3 DEF Statuses
<1>7. CASE Restart
  <2>1. /\ status' = [p \in Proxies |-> Loaded(p)] /\ err' = rowErr
        /\ pc' = "idle" /\ ported' = {} /\ tried' = {} /\ batch' = {} /\ saving' = NoSaving
        /\ at' = [r \in Relays |-> "idle"] /\ goal' = [r \in Relays |-> Nobody]
        /\ admin' = "idle" /\ deleting' = {} /\ mixed' = FALSE
        /\ UNCHANGED <<row, rowErr>>
    BY <1>7 DEF Restart
  <2>2. \A p \in Proxies :
          Loaded(p) = CASE row[p] = "ok" -> "Valid"
                        [] row[p] = "bad" -> "Invalid"
                        [] row[p] = "new" -> "Untested"
                        [] row[p] = "none" -> IF status[p] = "unborn" THEN "unborn" ELSE "gone"
    BY DEF Loaded
  <2>3. ASSUME NEW p \in Proxies PROVE Steady(p)'
    <3>1. Reporters(p)' = {} /\ Cardinality(Reporters(p)') = 0
      <4>1. Reporters(p)' = {}
        BY <2>1 DEF Reporters
      <4> QED
        BY <4>1, FS_EmptySet
    <3>2. /\ rowErr[p] <= MaxCount + (IF row[p] = "bad" THEN 1 ELSE 0)
          /\ row[p] = "none" => rowErr[p] = 0
          /\ rowErr[p] + 0 = rowErr[p]
      BY <1>0, Counting DEF Steady
    <3> QED
      BY <2>1, <2>2, <3>1, <3>2 DEF Steady, NoSaving
  <2>4. Working'
    BY <2>1 DEF Working
  <2>5. crashes' \in 0 .. MaxCrashes
    BY <1>7, ValidationAssumption DEF Restart
  <2>6. status' \in [Proxies -> Statuses \cup {"unborn", "gone"}]
    BY <2>1, <2>2 DEF Statuses
  <2> QED
    BY <2>1, <2>3, <2>4, <2>5, <2>6 DEF NoSaving
<1>8. CASE UNCHANGED vars
  <2>1. \A p \in Proxies : Steady(p)'
    BY <1>0, <1>8 DEF Steady, vars
  <2>2. Working'
    BY <1>8 DEF Working, vars, Untested
  <2> QED
    BY <1>8, <2>1, <2>2 DEF vars
<1> QED
  BY <1>1, <1>4, <1>5, <1>6, <1>7, <1>8

\* Every step keeps the types.
LEMMA NextTyped == TypeInv /\ [Next]_vars => TypeInv'
BY RunTyped, RelayTyped, OtherTyped DEF Next

\* A pool just loaded.
LEMMA InitTyped == Init => TypeInv
<1> SUFFICES ASSUME Init PROVE TypeInv
  OBVIOUS
<1>1. Typed
  <2>1. \A p \in Proxies : status[p] \in Statuses \cup {"unborn", "gone"}
    BY DEF Init, Statuses
  <2>2. status \in [Proxies -> Statuses \cup {"unborn", "gone"}]
    BY <2>1 DEF Init
  <2>3. err \in [Proxies -> Nat] /\ rowErr \in [Proxies -> Nat]
    BY DEF Init
  <2>4. row \in [Proxies -> {"none", "new", "ok", "bad"}] /\ crashes \in 0 .. MaxCrashes
    BY ValidationAssumption DEF Init
  <2> QED
    BY <2>2, <2>3, <2>4 DEF Init, Typed, NoSaving
<1>2. ASSUME NEW p \in Proxies PROVE Steady(p)
  <2>1. Reporters(p) = {} /\ Cardinality(Reporters(p)) = 0
    <3>1. Reporters(p) = {}
      BY DEF Init, Reporters
    <3> QED
      BY <3>1, FS_EmptySet
  <2>2. row[p] \in {"none", "new", "ok"} /\ err[p] = 0 /\ rowErr[p] = 0 /\ 0 + 0 = 0 /\ 0 <= MaxCount
    BY Counting DEF Init
  <2>3. /\ row[p] = "none" => status[p] = "unborn"
        /\ row[p] = "new" => status[p] = "Untested"
        /\ row[p] = "ok" => status[p] = "Valid"
    BY DEF Init
  <2> QED
    BY <2>1, <2>2, <2>3, Counting DEF Init, Steady, NoSaving
<1>3. Working
  BY DEF Init, Working
<1> QED
  BY <1>1, <1>2, <1>3 DEF TypeInv

\* Every variable keeps its type: a proxy has at most one error more than were reported of
\* it, since it is judged Invalid only once.
THEOREM TypeCorrect == Spec => []TypeOK
BY InitTyped, NextTyped, TypedOK, PTL DEF Spec

-----------------------------------------------------------------------------
(* CopiesAgree.  Until two handlers mix their writes, what the pool says   *)
(* of a proxy is what its row says, plus what is on its way there.         *)

\* Proxies that a run may have made Untested, and will judge.
Rechecking(p) == pc \in {"sync", "collect", "judge"} \/ (pc = "stuck" /\ p \in batch)

\* A proxy in both places: a verdict or reports may be on their way to the row.
Equal(p) ==
  IF saving[p] # "none"
  THEN err[p] = IF saving[p] = "ok" THEN 0 ELSE rowErr[p] + 1
  ELSE /\ err[p] = rowErr[p] + Cardinality(Reporters(p))
       /\ \/ status[p] = Loaded(p)
          \/ status[p] = "Untested" /\ row[p] = "ok" /\ Rechecking(p)

\* A proxy in one place only is on its way in, or out.
Agreed(p) ==
  /\ p \in InPool => p \in HasRow \/ (Purging /\ err[p] >= Threshold)
  /\ p \in HasRow => p \in InPool \/ p \in deleting \/ status[p] = "unborn"
  /\ saving[p] # "none" => Reporters(p) = {}
  /\ p \in InPool /\ p \in HasRow => Equal(p)

\* While a clean-up is between database and pool nobody writes verdicts or reports, and no
\* row is left that it would have deleted.
Quiet ==
  Purging =>
    /\ \A p \in Proxies : saving[p] = "none" /\ Reporters(p) = {}
    /\ \A p \in HasRow : rowErr[p] < Threshold

AgreeInv == TypeInv /\ (~mixed => Quiet /\ \A p \in Proxies : Agreed(p))

\* What AgreeInv says of the proxies nobody is writing is CopiesAgree.
LEMMA AgreeInvOK == AgreeInv => CopiesAgree
<1> SUFFICES ASSUME AgreeInv, ~mixed, NEW p \in Proxies, ~Halfway(p)
             PROVE  /\ p \in InPool <=> p \in HasRow
                    /\ err[p] = rowErr[p]
                    /\ Loaded(p) # status[p] =>
                         status[p] = "Untested" /\ row[p] = "ok" /\ pc # "idle"
  BY DEF CopiesAgree
<1> USE DEF AgreeInv, TypeInv, Typed
<1>1. /\ saving[p] = "none" /\ Reporters(p) = {} /\ ~Purging /\ p \notin deleting
      /\ ~(status[p] = "unborn" /\ row[p] = "new")
  BY DEF Halfway, Saving, Reporting, Reporters
<1>2. Agreed(p) /\ Steady(p) /\ Cardinality(Reporters(p)) = 0
  BY <1>1, FS_EmptySet
<1>3. p \in InPool <=> p \in HasRow
  BY <1>1, <1>2 DEF Agreed, Steady, HasRow, InPool, Statuses
<1>4. CASE p \in InPool
  BY <1>1, <1>2, <1>3, <1>4 DEF Agreed, Equal, Rechecking
<1>5. CASE p \notin InPool
  <2>1. row[p] = "none" /\ status[p] \in {"unborn", "gone"} /\ err[p] = 0 /\ rowErr[p] = 0
    BY <1>2, <1>3, <1>5 DEF HasRow, InPool, Statuses, Steady
  <2> QED
    BY <1>3, <2>1 DEF Loaded
<1> QED
  BY <1>3, <1>4, <1>5

\* A clean-up of the database, when nobody is writing.
LEMMA DeletesAgree ==
  ASSUME AgreeInv, ~mixed, DeleteRows(Excess),
         \A p \in Proxies : saving[p] = "none" /\ Reporters(p) = {} /\ Reporters(p)' = {},
         UNCHANGED <<status, err, saving, deleting>>,
         Excess # {} => Purging', Purging => Purging',
         \A p \in Proxies : Rechecking(p) => Rechecking(p)'
  PROVE  Quiet' /\ \A p \in Proxies : Agreed(p)'
<1> USE DEF AgreeInv, TypeInv, Typed
<1>1. /\ row' = [p \in Proxies |-> IF p \in Excess THEN "none" ELSE row[p]]
      /\ rowErr' = [p \in Proxies |-> IF p \in Excess THEN 0 ELSE rowErr[p]]
  BY DEF DeleteRows
<1>2. HasRow' = HasRow \ Excess /\ InPool' = InPool
  BY <1>1 DEF HasRow, InPool
<1>3. Quiet'
  <2>1. \A p \in HasRow' : rowErr'[p] < Threshold
    BY <1>1, <1>2, ValidationAssumption DEF HasRow, Excess
  <2> QED
    BY <2>1 DEF Quiet
<1>4. ASSUME NEW p \in Proxies PROVE Agreed(p)'
  <2>1. Agreed(p) /\ Cardinality(Reporters(p)) = 0
    BY FS_EmptySet
  <2>2. CASE p \in Excess
    <3>1. p \in HasRow /\ rowErr[p] >= Threshold /\ Purging'
      BY <2>2 DEF Excess
    <3>2. p \in InPool => err[p] = rowErr[p]
      BY <2>1, <3>1 DEF Agreed, Equal
    <3> QED
      BY <1>2, <2>2, <3>1, <3>2 DEF Agreed
  <2>3. CASE p \notin Excess
    <3>1. row'[p] = row[p] /\ rowErr'[p] = rowErr[p]
      BY <1>1, <2>3
    <3>2. Equal(p) => Equal(p)'
      BY <3>1 DEF Equal, Loaded
    <3> QED
      BY <1>2, <2>1, <2>3, <3>1, <3>2 DEF Agreed
  <2> QED
    BY <2>2, <2>3
<1> QED
  BY <1>3, <1>4

\* The pool follows: it forgets what has no row any more, and nothing else.
LEMMA PurgeAgrees ==
  ASSUME AgreeInv, ~mixed, Purging, Forget(ExcessInPool),
         \A p \in Proxies : Reporters(p)' = Reporters(p),
         UNCHANGED <<row, rowErr, saving, deleting>>,
         \A p \in Proxies : Rechecking(p) => Rechecking(p)'
  PROVE  Quiet' /\ \A p \in Proxies : Agreed(p)'
<1> USE DEF AgreeInv, TypeInv, Typed
<1>1. /\ status' = [p \in Proxies |-> IF p \in ExcessInPool THEN "gone" ELSE status[p]]
      /\ err' = [p \in Proxies |-> IF p \in ExcessInPool THEN 0 ELSE err[p]]
  BY DEF Forget
<1>2. Quiet /\ HasRow' = HasRow /\ InPool' = InPool \ ExcessInPool
  BY <1>1 DEF HasRow, InPool, Statuses
<1>3. Quiet'
  BY <1>2 DEF Quiet
<1>4. ASSUME NEW p \in Proxies PROVE Agreed(p)'
  <2>1. Agreed(p) /\ saving[p] = "none" /\ Reporters(p) = {} /\ Cardinality(Reporters(p)) = 0
    BY <1>2, FS_EmptySet DEF Quiet
  <2>2. p \in InPool /\ p \in HasRow => p \notin ExcessInPool
    BY <1>2, <2>1, ValidationAssumption DEF Quiet, Agreed, Equal, ExcessInPool
  <2>3. p \in InPool /\ p \notin HasRow => p \in ExcessInPool
    BY <2>1 DEF Agreed, ExcessInPool
  <2>4. p \in InPool' => p \in HasRow /\ status'[p] = status[p] /\ err'[p] = err[p]
    BY <1>1, <1>2, <2>3
  <2>5. p \in HasRow => (p \in InPool => p \in InPool') /\ (status[p] = "unborn" => status'[p] = "unborn")
    BY <1>1, <1>2, <2>2 DEF ExcessInPool, InPool, Statuses
  <2>6. p \in InPool' /\ Equal(p) => Equal(p)'
    BY <2>4 DEF Equal, Loaded
  <2> QED
    BY <1>2, <2>1, <2>4, <2>5, <2>6 DEF Agreed
<1> QED
  BY <1>3, <1>4

\* A step of validate_all keeps the two copies together.
LEMMA RunAgrees ==
  ASSUME AgreeInv, Run, ~mixed'
  PROVE  Quiet' /\ \A p \in Proxies : Agreed(p)'
<1> USE DEF AgreeInv, TypeInv, Typed, rowVars, poolVars, others
<1>0. /\ ~mixed /\ Quiet /\ \A p \in Proxies : Agreed(p) /\ Steady(p)
      /\ UNCHANGED <<at, goal, admin, deleting>>
      /\ \A p \in Proxies : Reporters(p)' = Reporters(p)
  <2>1. ~mixed /\ UNCHANGED <<relayVars, others>>
    BY DEF Run, Recheck, Sync, Collect, Judge, SaveVerdict, Count, EndStuck, Clean, Purge
  <2> QED
    BY <2>1, SameReporters DEF relayVars
<1>1. ASSUME Recheck PROVE Quiet' /\ \A p \in Proxies : Agreed(p)'
  <2>1. /\ pc = "idle" /\ pc' = "sync" /\ UNCHANGED <<err, row, rowErr, saving>>
        /\ status' = [p \in Proxies |->
                        IF status[p] = "Valid" /\ err[p] > 0 THEN "Untested" ELSE status[p]]
    BY <1>1 DEF Recheck
  <2>2. Quiet'
    BY <1>0, <2>1 DEF Quiet, Purging, HasRow
  <2>3. ASSUME NEW p \in Proxies PROVE Agreed(p)'
    <3>1. /\ p \in InPool' <=> p \in InPool
          /\ p \in HasRow' <=> p \in HasRow
          /\ Purging' <=> Purging
          /\ status[p] = "unborn" => status'[p] = "unborn"
      BY <1>0, <2>1 DEF InPool, HasRow, Statuses, Purging
    <3>2. Rechecking(p)' /\ ~Rechecking(p) /\ saving[p] = "none"
      BY <1>0, <2>1 DEF Rechecking, Steady
    <3>3. ASSUME p \in InPool, p \in HasRow PROVE Equal(p)'
      <4>1. status[p] = Loaded(p) /\ err[p] = rowErr[p] + Cardinality(Reporters(p))
        BY <1>0, <3>2, <3>3 DEF Agreed, Equal
      <4>2. status[p] \in Statuses /\ row[p] \in {"new", "ok", "bad"}
        BY <3>3 DEF InPool, HasRow
      <4>3. CASE status'[p] = status[p]
        BY <1>0, <2>1, <3>2, <4>1, <4>2, <4>3 DEF Equal, Loaded, Statuses
      <4>4. CASE status'[p] # status[p]
        <5>1. status[p] = "Valid" /\ status'[p] = "Untested"
          BY <2>1, <4>4
        <5>2. row[p] = "ok"
          BY <4>1, <4>2, <5>1 DEF Loaded
        <5> QED
          BY <1>0, <2>1, <3>2, <4>1, <5>1, <5>2 DEF Equal
      <4> QED
        BY <4>3, <4>4
    <3> QED
      BY <1>0, <2>1, <3>1, <3>3 DEF Agreed
  <2> QED
    BY <2>2, <2>3
<1>2. ASSUME Sync \/ Collect \/ Count \/ EndStuck
      PROVE  Quiet' /\ \A p \in Proxies : Agreed(p)'
  <2>1. UNCHANGED <<status, err, row, rowErr, saving>> /\ (Purging' <=> Purging)
    BY <1>0, <1>2 DEF Sync, Collect, Count, EndStuck, Purging
  <2>2. \A p \in Untested : Rechecking(p) => Rechecking(p)'
    BY <1>2 DEF Sync, Collect, Count, EndStuck, Rechecking, Untested
  <2>3. Quiet'
    BY <1>0, <2>1 DEF Quiet, HasRow
  <2>4. \A p \in Proxies : Equal(p) => Equal(p)'
    BY <1>0, <2>1, <2>2 DEF Equal, Loaded, Untested
  <2>5. \A p \in Proxies : Agreed(p)'
    BY <1>0, <2>1, <2>4 DEF Agreed, InPool, HasRow
  <2> QED
    BY <2>3, <2>5
<1>3. ASSUME NEW p \in Proxies, NEW v \in {"ok", "bad"}, Judge(p, v)
      PROVE  Quiet' /\ \A q \in Proxies : Agreed(q)'
  <2>1. /\ pc \in {"judge", "stuck"} /\ p \in batch /\ batch' = batch \ {p}
        /\ saving' = [saving EXCEPT ![p] = v]
        /\ Reporters(p) = {} /\ ~Purging
        /\ UNCHANGED <<row, rowErr, pc>>
    BY <1>3 DEF Judge, Reporting, Reporters
  <2>2. \/ status' = status /\ err' = err /\ status[p] = "gone"
        \/ /\ status[p] = "Untested"
           /\ status' = [status EXCEPT ![p] = IF v = "ok" THEN "Valid" ELSE "Invalid"]
           /\ err' = [err EXCEPT ![p] = IF v = "ok" THEN 0 ELSE @ + 1]
    <3>1. status[p] \in {"Untested", "gone"}
      BY <1>0, <2>1 DEF Steady
    <3>2. SetStatus(p, IF v = "ok" THEN "Valid" ELSE "Invalid")
      BY <1>3 DEF Judge
    <3>3. CASE v = "ok"
      BY <3>1, <3>2, <3>3 DEF SetStatus, InPool, Statuses
    <3>4. CASE v = "bad"
      BY <3>1, <3>2, <3>4 DEF SetStatus, InPool, Statuses
    <3> QED
      BY <3>3, <3>4
  <2>3. ~Purging'
    BY <1>0, <2>1 DEF Purging
  <2>4. Agreed(p)'
    <3>1. /\ p \in InPool' <=> p \in InPool
          /\ p \in HasRow' <=> p \in HasRow
          /\ status'[p] = "unborn" <=> status[p] = "unborn"
      BY <2>1, <2>2 DEF InPool, HasRow, Statuses
    <3>2. ASSUME p \in InPool, p \in HasRow PROVE Equal(p)'
      <4>1. saving[p] = "none" /\ Cardinality(Reporters(p)) = 0 /\ status[p] # "gone"
        BY <1>0, <2>1, <3>2, FS_EmptySet DEF Steady, InPool, Statuses
      <4>2. err[p] = rowErr[p]
        BY <1>0, <3>2, <4>1 DEF Agreed, Equal
      <4> QED
        BY <2>1, <2>2, <4>1, <4>2 DEF Equal
    <3> QED
      BY <1>0, <2>1, <2>3, <3>1, <3>2 DEF Agreed
  <2>5. ASSUME NEW q \in Proxies \ {p} PROVE Agreed(q)'
    <3>1. /\ status'[q] = status[q] /\ err'[q] = err[q] /\ saving'[q] = saving[q]
          /\ Rechecking(q)' <=> Rechecking(q)
      BY <2>1, <2>2 DEF Rechecking
    <3>2. Equal(q) => Equal(q)'
      BY <1>0, <2>1, <3>1 DEF Equal, Loaded
    <3> QED
      BY <1>0, <2>1, <2>3, <3>1, <3>2 DEF Agreed, InPool, HasRow
  <2> QED
    BY <2>3, <2>4, <2>5 DEF Quiet
<1>4. ASSUME NEW p \in Proxies, SaveVerdict(p)
      PROVE  Quiet' /\ \A q \in Proxies : Agreed(q)'
  <2>1. /\ saving[p] # "none" /\ saving' = [saving EXCEPT ![p] = "none"]
        /\ UNCHANGED <<status, err, pc, batch>>
    BY <1>4 DEF SaveVerdict, Saving
  <2>2. \/ row' = row /\ rowErr' = rowErr /\ p \notin HasRow
        \/ /\ p \in HasRow
           /\ row' = [row EXCEPT ![p] = saving[p]]
           /\ rowErr' = [rowErr EXCEPT ![p] = IF saving[p] = "ok" THEN 0 ELSE @ + 1]
    BY <1>4 DEF SaveVerdict, SaveRow
  <2>3. ~Purging /\ ~Purging' /\ Reporters(p) = {} /\ Cardinality(Reporters(p)) = 0
    BY <1>0, <2>1, FS_EmptySet DEF Quiet, Purging, Agreed
  <2>4. Agreed(p)'
    <3>1. (p \in HasRow' <=> p \in HasRow) /\ (p \in InPool' <=> p \in InPool)
      BY <2>1, <2>2 DEF HasRow, InPool
    <3>2. ASSUME p \in InPool, p \in HasRow PROVE Equal(p)'
      <4>1. /\ err[p] = IF saving[p] = "ok" THEN 0 ELSE rowErr[p] + 1
            /\ status[p] = IF saving[p] = "ok" THEN "Valid" ELSE "Invalid"
        BY <1>0, <2>1, <3>2 DEF Agreed, Equal, Steady, InPool, Statuses
      <4>2. row'[p] = saving[p] /\ rowErr'[p] = err[p] /\ saving'[p] = "none"
        BY <2>1, <2>2, <3>2, <4>1
      <4>3. status'[p] = Loaded(p)'
        BY <2>1, <4>1, <4>2 DEF Loaded
      <4>4. err'[p] = rowErr'[p] + Cardinality(Reporters(p)')
        <5>1. Cardinality(Reporters(p)') = 0
          BY <1>0, <2>3
        <5>2. rowErr'[p] = err[p] /\ err'[p] = err[p] /\ err[p] \in Nat
          BY <2>1, <4>2
        <5> QED
          BY ONLY <5>1, <5>2
      <4> QED
        BY <4>2, <4>3, <4>4 DEF Equal
    <3> QED
      BY <1>0, <2>1, <2>3, <3>1, <3>2 DEF Agreed
  <2>5. ASSUME NEW q \in Proxies \ {p} PROVE Agreed(q)'
    <3>1. /\ row'[q] = row[q] /\ rowErr'[q] = rowErr[q] /\ saving'[q] = saving[q]
          /\ Rechecking(q)' <=> Rechecking(q)
      BY <2>1, <2>2 DEF Rechecking
    <3>2. Equal(q) => Equal(q)'
      BY <1>0, <2>1, <3>1 DEF Equal, Loaded
    <3> QED
      BY <1>0, <2>1, <2>3, <3>1, <3>2 DEF Agreed, InPool, HasRow
  <2> QED
    BY <2>3, <2>4, <2>5 DEF Quiet
<1>5. ASSUME Clean PROVE Quiet' /\ \A p \in Proxies : Agreed(p)'
  <2>1. /\ pc = "clean" /\ pc' = (IF Excess = {} THEN "idle" ELSE "purge") /\ DeleteRows(Excess)
        /\ UNCHANGED <<status, err, saving>>
    BY <1>5 DEF Clean
  <2>2. ASSUME NEW p \in Proxies PROVE saving[p] = "none" /\ Reporters(p) = {}
    <3>1. ~Saving(p) /\ ~Reporting(p)
      BY <1>5 DEF Clean
    <3> QED
      BY <3>1 DEF Saving, Reporting, Reporters
  <2> QED
    BY <1>0, <2>1, <2>2, DeletesAgree DEF Purging, Rechecking
<1>6. ASSUME Purge PROVE Quiet' /\ \A p \in Proxies : Agreed(p)'
  <2>1. Forget(ExcessInPool) /\ pc = "purge" /\ pc' = "idle" /\ UNCHANGED <<row, rowErr, saving>>
    BY <1>6 DEF Purge
  <2> QED
    BY <1>0, <2>1, PurgeAgrees DEF Purging, Rechecking
<1> QED
  BY <1>1, <1>2, <1>3, <1>4, <1>5, <1>6 DEF Run

\* So does a step of a request.
LEMMA RelayAgrees ==
  ASSUME AgreeInv, NEW r \in Relays,
         (\E p \in Proxies : Pick(r, p)) \/ Answered(r) \/ Report(r) \/ SaveReport(r), ~mixed'
  PROVE  Quiet' /\ \A p \in Proxies : Agreed(p)'
<1> USE DEF AgreeInv, TypeInv, Typed, rowVars, poolVars, runVars, others
<1>0. /\ UNCHANGED <<pc, batch, saving, status, row, admin, deleting>>
      /\ ~mixed /\ Quiet /\ \A p \in Proxies : Agreed(p) /\ Steady(p)
  BY DEF Pick, Answered, Report, SaveReport
<1>1. /\ Purging' <=> Purging
      /\ HasRow' = HasRow /\ InPool' = InPool
      /\ \A p \in Proxies : (Rechecking(p)' <=> Rechecking(p)) /\ (Loaded(p)' = Loaded(p))
  BY <1>0 DEF Purging, HasRow, InPool, Rechecking, Loaded
<1>2. CASE (\E p \in Proxies : Pick(r, p)) \/ Answered(r)
  <2>1. UNCHANGED <<err, rowErr>> /\ \A p \in Proxies : Reporters(p)' = Reporters(p)
    BY <1>2 DEF Pick, Answered, Leave, Reporters
  <2>2. \A p \in Proxies : Equal(p) => Equal(p)'
    BY <1>0, <1>1, <2>1 DEF Equal
  <2> QED
    BY <1>0, <1>1, <2>1, <2>2 DEF Quiet, Agreed
<1>3. CASE Report(r)
  <2>1. PICK p \in Proxies : p = goal[r]
    BY <1>3 DEF Report, Working
  <2>2. /\ at[r] = "send" /\ at' = [at EXCEPT ![r] = "save"]
        /\ err' = [err EXCEPT ![p] = IF p \in InPool THEN @ + 1 ELSE @]
        /\ saving[p] = "none" /\ ~Purging
        /\ UNCHANGED <<rowErr, goal>>
    BY <1>3, <2>1 DEF Report, Saving
  <2>3. \A q \in Proxies \ {p} : Reporters(q)' = Reporters(q)
    BY <2>1, <2>2 DEF Reporters
  <2>4. /\ Reporters(p) \in SUBSET Relays /\ r \notin Reporters(p)
        /\ Reporters(p)' = Reporters(p) \cup {r}
    BY <2>1, <2>2 DEF Reporters
  <2>5. /\ Cardinality(Reporters(p)') = Cardinality(Reporters(p)) + 1
        /\ Cardinality(Reporters(p)) \in Nat
    BY <2>4, Counting
  <2>6. ASSUME p \in InPool, p \in HasRow PROVE Equal(p)'
    <3>1. Equal(p) /\ err'[p] = err[p] + 1
      BY <1>0, <2>2, <2>6 DEF Agreed
    <3>2. err'[p] = rowErr'[p] + Cardinality(Reporters(p)')
      BY <2>2, <2>5, <3>1 DEF Equal
    <3> QED
      BY <1>0, <1>1, <2>2, <3>1, <3>2 DEF Equal
  <2>7. Agreed(p)'
    BY <1>0, <1>1, <2>2, <2>6 DEF Agreed
  <2>8. ASSUME NEW q \in Proxies \ {p} PROVE Agreed(q)'
    <3>1. Equal(q) => Equal(q)'
      BY <1>0, <1>1, <2>2, <2>3 DEF Equal
    <3> QED
      BY <1>0, <1>1, <2>2, <2>3, <3>1 DEF Agreed
  <2> QED
    BY <1>1, <2>2, <2>7, <2>8 DEF Quiet
<1>4. CASE SaveReport(r)
  <2>1. PICK p \in Proxies : p = goal[r]
    BY <1>4 DEF SaveReport, Working
  <2>2. /\ at[r] = "save" /\ at' = [at EXCEPT ![r] = "idle"] /\ goal' = [goal EXCEPT ![r] = Nobody]
        /\ rowErr' = [rowErr EXCEPT ![p] = IF p \in HasRow THEN @ + 1 ELSE @]
        /\ err' = err
    BY <1>4, <2>1 DEF SaveReport, Leave
  <2>3. \A q \in Proxies \ {p} : Reporters(q)' = Reporters(q)
    BY <2>1, <2>2, ValidationAssumption DEF Reporters
  <2>4. /\ Reporters(p) \in SUBSET Relays /\ r \in Reporters(p)
        /\ Reporters(p)' = Reporters(p) \ {r}
    BY <2>1, <2>2, ValidationAssumption DEF Reporters
  <2>5. /\ Cardinality(Reporters(p)') = Cardinality(Reporters(p)) - 1
        /\ Cardinality(Reporters(p)) \in Nat
    BY <2>4, Counting
  <2>6. saving[p] = "none" /\ ~Purging
    BY <1>0, <2>4 DEF Agreed, Quiet
  <2>7. ASSUME p \in InPool, p \in HasRow PROVE Equal(p)'
    <3>1. Equal(p) /\ rowErr'[p] = rowErr[p] + 1
      BY <1>0, <2>2, <2>7 DEF Agreed
    <3>2. err'[p] = rowErr'[p] + Cardinality(Reporters(p)')
      BY <2>2, <2>5, <2>6, <3>1 DEF Equal
    <3> QED
      BY <1>0, <1>1, <2>6, <3>1, <3>2 DEF Equal
  <2>8. Agreed(p)'
    BY <1>0, <1>1, <2>2, <2>6, <2>7 DEF Agreed
  <2>9. ASSUME NEW q \in Proxies \ {p} PROVE Agreed(q)'
    <3>1. Equal(q) => Equal(q)'
      BY <1>0, <1>1, <2>2, <2>3 DEF Equal
    <3> QED
      BY <1>0, <1>1, <2>2, <2>3, <3>1 DEF Agreed
  <2> QED
    BY <1>1, <2>6, <2>8, <2>9 DEF Quiet
<1> QED
  BY <1>2, <1>3, <1>4

\* So do the others, and a restart starts from two equal copies.
LEMMA OtherAgrees ==
  ASSUME AgreeInv, ~mixed',
         \/ \E p \in Proxies :
              BindOnDemand(p) \/ Remove(p) \/ DeleteRow(p) \/ InsertRow(p) \/ AddProxy(p)
         \/ AdminClean \/ AdminPurge \/ Restart \/ UNCHANGED vars
  PROVE  Quiet' /\ \A p \in Proxies : Agreed(p)'
<1> USE DEF AgreeInv, TypeInv, Typed, rowVars, poolVars, runVars, relayVars, others
<1>1. ASSUME (\E p \in Proxies : BindOnDemand(p)) \/ UNCHANGED vars
      PROVE  Quiet' /\ \A p \in Proxies : Agreed(p)'
  <2>1. /\ UNCHANGED <<status, err, row, rowErr, pc, batch, saving, at, goal, admin, deleting>>
        /\ ~mixed /\ Quiet /\ \A p \in Proxies : Agreed(p)
    BY <1>1 DEF BindOnDemand, vars
  <2>2. /\ Purging' <=> Purging
        /\ HasRow' = HasRow /\ InPool' = InPool
        /\ \A p \in Proxies : Reporters(p)' = Reporters(p) /\ (Equal(p) => Equal(p)')
    BY <2>1 DEF Purging, HasRow, InPool, Equal, Loaded, Rechecking, Reporters
  <2> QED
    BY <2>1, <2>2 DEF Quiet, Agreed
<1>2. ASSUME NEW p \in Proxies, Remove(p) \/ DeleteRow(p) \/ InsertRow(p) \/ AddProxy(p)
      PROVE  Quiet' /\ \A q \in Proxies : Agreed(q)'
  <2>1. /\ UNCHANGED <<pc, batch, saving, at, goal, admin>>
        /\ ~mixed /\ Quiet /\ \A q \in Proxies : Agreed(q) /\ Steady(q)
        /\ \A q \in Proxies : Reporters(q)' = Reporters(q)
        /\ Purging' <=> Purging
    BY <1>2 DEF Remove, DeleteRow, InsertRow, AddProxy, Reporters, Purging
  <2>2. \A q \in Proxies \ {p} :
          /\ status'[q] = status[q] /\ err'[q] = err[q] /\ row'[q] = row[q] /\ rowErr'[q] = rowErr[q]
          /\ q \in deleting' <=> q \in deleting
    BY <1>2 DEF Remove, DeleteRow, InsertRow, AddProxy, Forget, DeleteRows
  <2>3. ASSUME NEW q \in Proxies \ {p} PROVE Agreed(q)'
    <3>1. Equal(q) => Equal(q)'
      BY <2>1, <2>2 DEF Equal, Loaded, Rechecking
    <3>2. (q \in InPool' <=> q \in InPool) /\ (q \in HasRow' <=> q \in HasRow)
      BY <2>2 DEF InPool, HasRow
    <3> QED
      BY <2>1, <2>2, <3>1, <3>2 DEF Agreed
  <2>4. Agreed(p)' /\ (p \in HasRow' => p \in HasRow \/ rowErr'[p] = 0) /\ rowErr'[p] <= rowErr[p]
    <3>1. CASE Remove(p)
      <4>1. status'[p] = "gone" /\ p \in deleting' /\ UNCHANGED <<row, rowErr>>
        BY <3>1 DEF Remove, Forget
      <4>2. p \notin InPool'
        BY <4>1 DEF InPool, Statuses
      <4> QED
        BY <2>1, <4>1, <4>2 DEF Agreed, HasRow
    <3>2. CASE DeleteRow(p)
      <4>1. status[p] = "gone" /\ status' = status /\ row'[p] = "none" /\ rowErr'[p] = 0
        BY <2>1, <3>2 DEF DeleteRow, DeleteRows, Steady
      <4>2. p \notin InPool' /\ p \notin HasRow'
        BY <4>1 DEF InPool, HasRow, Statuses
      <4> QED
        BY <2>1, <4>1, <4>2 DEF Agreed
    <3>3. CASE InsertRow(p)
      <4>1. status'[p] = "unborn" /\ row'[p] = "new" /\ rowErr'[p] = 0 /\ rowErr[p] = 0
        BY <2>1, <3>3 DEF InsertRow, Steady
      <4>2. p \notin InPool'
        BY <4>1 DEF InPool, Statuses
      <4> QED
        BY <2>1, <4>1, <4>2 DEF Agreed
    <3>4. CASE AddProxy(p)
      <4>1. /\ status[p] = "unborn" /\ status'[p] = "Untested" /\ row'[p] = "new" /\ row[p] = "new"
            /\ UNCHANGED <<err, rowErr>>
        BY <3>4 DEF AddProxy
      <4>2. Reporters(p) = {} /\ Cardinality(Reporters(p)) = 0 /\ saving[p] = "none"
        <5>1. Reporters(p) = {}
          BY <4>1 DEF Reporters, Working
        <5> QED
          BY <2>1, <4>1, <5>1, FS_EmptySet DEF Steady
      <4>3. err[p] = 0 /\ rowErr[p] = 0
        BY <2>1, <4>1 DEF Steady
      <4>4. Loaded(p)' = "Untested"
        BY <4>1 DEF Loaded
      <4>5. Equal(p)'
        <5>1. err'[p] = 0 /\ rowErr'[p] = 0 /\ 0 = 0 + 0 /\ Cardinality(Reporters(p)') = 0
          <6>1. err'[p] = 0 /\ rowErr'[p] = 0
            BY ONLY <4>1, <4>3
          <6>2. Reporters(p)' = Reporters(p)
            BY <2>1
          <6>3. Cardinality(Reporters(p)') = 0
            BY ONLY <4>2, <6>2
          <6> QED
            BY ONLY <6>1, <6>3
        <5>2. status'[p] = Loaded(p)' /\ saving'[p] = "none"
          BY <2>1, <4>1, <4>2, <4>4
        <5> QED
          BY ONLY <5>1, <5>2 DEF Equal
      <4>6. p \in HasRow' /\ p \in HasRow /\ p \in InPool'
        BY <4>1 DEF HasRow, InPool, Statuses
      <4> QED
        BY <2>1, <4>1, <4>2, <4>3, <4>5, <4>6 DEF Agreed
    <3> QED
      BY <1>2, <3>1, <3>2, <3>3, <3>4
  <2>5. Quiet'
    <3>1. \A q \in HasRow' \ {p} : q \in HasRow /\ rowErr'[q] = rowErr[q]
      BY <2>2 DEF HasRow
    <3>2. HasRow' \subseteq Proxies /\ HasRow \subseteq Proxies
      BY DEF HasRow
    <3>3. rowErr[p] \in Nat /\ rowErr'[p] \in Nat
      BY <1>2 DEF Remove, DeleteRow, InsertRow, AddProxy, Forget, DeleteRows
    <3> QED
      BY <2>1, <2>4, <3>1, <3>2, <3>3, ValidationAssumption DEF Quiet
  <2> QED
    BY <2>3, <2>4, <2>5
<1>3. ASSUME AdminClean PROVE Quiet' /\ \A p \in Proxies : Agreed(p)'
  <2>1. /\ ~mixed /\ DeleteRows(Excess) /\ admin' = "purge"
        /\ UNCHANGED <<status, err, pc, batch, saving, at, goal, deleting>>
    BY <1>3 DEF AdminClean
  <2>2. ASSUME NEW p \in Proxies PROVE saving[p] = "none" /\ Reporters(p) = {} /\ Reporters(p)' = {}
    <3>1. ~Saving(p) /\ ~Reporting(p)
      BY <1>3 DEF AdminClean
    <3> QED
      BY <2>1, <3>1 DEF Saving, Reporting, Reporters
  <2> QED
    BY <2>1, <2>2, DeletesAgree DEF Purging, Rechecking
<1>4. ASSUME AdminPurge PROVE Quiet' /\ \A p \in Proxies : Agreed(p)'
  <2>1. /\ ~mixed /\ Forget(ExcessInPool) /\ admin = "purge"
        /\ UNCHANGED <<row, rowErr, pc, batch, saving, at, goal, deleting>>
    BY <1>4 DEF AdminPurge
  <2> QED
    BY <2>1, PurgeAgrees DEF Purging, Rechecking, Reporters
<1>5. ASSUME Restart PROVE Quiet' /\ \A p \in Proxies : Agreed(p)'
  <2>1. /\ pc' = "idle" /\ admin' = "idle" /\ saving' = NoSaving /\ err' = rowErr
        /\ status' = [p \in Proxies |-> Loaded(p)]
        /\ at' = [r \in Relays |-> "idle"]
        /\ UNCHANGED <<row, rowErr>>
    BY <1>5 DEF Restart
  <2>2. Quiet'
    BY <2>1 DEF Quiet, Purging
  <2>3. ASSUME NEW p \in Proxies PROVE Agreed(p)'
    <3>1. Reporters(p)' = {} /\ saving'[p] = "none" /\ rowErr[p] \in Nat
      BY <2>1 DEF Reporters, NoSaving
    <3>2. Cardinality(Reporters(p)') = 0
      BY <3>1, FS_EmptySet
    <3>3. (p \in InPool' <=> p \in HasRow') /\ (p \in InPool' => Loaded(p)' = status'[p])
      BY <2>1 DEF InPool, HasRow, Loaded, Statuses
    <3>4. err'[p] = rowErr'[p] + Cardinality(Reporters(p)')
      BY <2>1, <3>1, <3>2
    <3> QED
      BY <3>1, <3>3, <3>4 DEF Agreed, Equal
  <2> QED
    BY <2>2, <2>3
<1> QED
  BY <1>1, <1>2, <1>3, <1>4, <1>5

\* Pool and database agree on verdicts and error counts of every proxy that no handler is
\* half-way through writing, as long as no two mixed their writes since the last restart.
THEOREM CopiesAgreeAlways == Spec => []CopiesAgree
<1>1. Init => AgreeInv
  <2> SUFFICES ASSUME Init, TypeInv PROVE Quiet /\ \A p \in Proxies : Agreed(p)
    BY InitTyped DEF AgreeInv
  <2>1. Quiet
    BY DEF Init, Quiet, Purging
  <2>2. ASSUME NEW p \in Proxies PROVE Agreed(p)
    <3>1. Reporters(p) = {} /\ saving[p] = "none" /\ err[p] = 0 /\ rowErr[p] = 0
      BY DEF Init, Reporters, NoSaving
    <3>2. Cardinality(Reporters(p)) = 0
      BY <3>1, FS_EmptySet
    <3>3. row[p] \in {"none", "new", "ok"}
      BY DEF Init
    <3>4. /\ row[p] = "none" => status[p] = "unborn"
          /\ row[p] = "new" => status[p] = "Untested"
          /\ row[p] = "ok" => status[p] = "Valid"
      BY DEF Init
    <3>5. (p \in InPool <=> p \in HasRow) /\ (p \in InPool => Loaded(p) = status[p])
      BY <3>3, <3>4 DEF InPool, HasRow, Loaded, Statuses
    <3> QED
      BY <3>1, <3>2, <3>5 DEF Agreed, Equal
  <2> QED
    BY <2>1, <2>2
<1>2. AgreeInv /\ [Next]_vars => AgreeInv'
  <2> SUFFICES ASSUME AgreeInv, [Next]_vars PROVE AgreeInv'
    OBVIOUS
  <2>1. TypeInv'
    BY NextTyped DEF AgreeInv
  <2>2. ASSUME ~mixed' PROVE Quiet' /\ \A p \in Proxies : Agreed(p)'
    BY <2>2, RunAgrees, RelayAgrees, OtherAgrees DEF Next
  <2> QED
    BY <2>1, <2>2 DEF AgreeInv
<1> QED
  BY <1>1, <1>2, AgreeInvOK, PTL DEF Spec

-----------------------------------------------------------------------------
(* Every step of a run leaves it less to do.  Work counts three sets of    *)
(* proxies and the phase of the run; a step that takes a proxy from one    *)
(* set to the next, or goes on to the next phase, makes the sum smaller.   *)

\* The proxies that wait for another round, and those whose verdict is to be saved.
Waiting == Untested \ batch
Unsaved == {p \in Proxies : Saving(p)}

\* Counting proxies.
LEMMA CountingProxies ==
  \A S \in SUBSET Proxies :
    /\ IsFiniteSet(S) /\ Cardinality(S) \in Nat
    /\ Cardinality(S) = 0 <=> S = {}
    /\ \A T \in SUBSET S : Cardinality(T) <= Cardinality(S)
    /\ \A p \in S : Cardinality(S \ {p}) = Cardinality(S) - 1
    /\ \A p \in Proxies : Cardinality(S \cup {p}) <= Cardinality(S) + 1
<1> SUFFICES ASSUME NEW S \in SUBSET Proxies
             PROVE  /\ IsFiniteSet(S) /\ Cardinality(S) \in Nat
                    /\ Cardinality(S) = 0 <=> S = {}
                    /\ \A T \in SUBSET S : Cardinality(T) <= Cardinality(S)
                    /\ \A p \in S : Cardinality(S \ {p}) = Cardinality(S) - 1
                    /\ \A p \in Proxies : Cardinality(S \cup {p}) <= Cardinality(S) + 1
  OBVIOUS
<1>1. IsFiniteSet(S) /\ Cardinality(S) \in Nat
  BY FiniteAssumption, FS_Subset, FS_CardinalityType
<1>2. Cardinality(S) = 0 <=> S = {}
  BY <1>1, FS_EmptySet
<1>3. \A T \in SUBSET S : Cardinality(T) <= Cardinality(S)
  BY <1>1, FS_Subset
<1>4. \A p \in S : Cardinality(S \ {p}) = Cardinality(S) - 1
  BY <1>1, FS_RemoveElement
<1>5. \A p \in Proxies : Cardinality(S \cup {p}) <= Cardinality(S) + 1
  BY <1>1, FS_AddElement
<1> QED
  BY <1>1, <1>2, <1>3, <1>4, <1>5

\* What Work adds up, before a step and after it.
LEMMA Sizes ==
  ASSUME Typed, Typed'
  PROVE  /\ Waiting \in SUBSET Proxies /\ Unsaved \in SUBSET Proxies /\ batch \in SUBSET Proxies
         /\ Cardinality(Waiting) \in Nat /\ Cardinality(Unsaved) \in Nat
         /\ Cardinality(batch) \in Nat /\ Phase \in 0 .. 6
         /\ Work = 5 * Cardinality(Waiting) + 2 * Cardinality(batch) + Cardinality(Unsaved) + Phase
         /\ Cardinality(Waiting') \in Nat /\ Cardinality(Unsaved') \in Nat
         /\ Cardinality(batch') \in Nat /\ Phase' \in 0 .. 6
         /\ Work' = 5 * Cardinality(Waiting') + 2 * Cardinality(batch')
                      + Cardinality(Unsaved') + Phase'
<1>1. /\ Waiting \in SUBSET Proxies /\ Unsaved \in SUBSET Proxies /\ batch \in SUBSET Proxies
      /\ Waiting' \in SUBSET Proxies /\ Unsaved' \in SUBSET Proxies /\ batch' \in SUBSET Proxies
  BY DEF Typed, Waiting, Untested, Unsaved
<1>2. Phase \in 0 .. 6 /\ Phase' \in 0 .. 6
  BY DEF Phase
<1>3. /\ Work = 5 * Cardinality(Waiting) + 2 * Cardinality(batch) + Cardinality(Unsaved) + Phase
      /\ Work' = 5 * Cardinality(Waiting') + 2 * Cardinality(batch')
                   + Cardinality(Unsaved') + Phase'
  BY DEF Work, Waiting, Unsaved
<1> QED
  BY <1>1, <1>2, <1>3, CountingProxies

\* A step of the run itself.
LEMMA WorkFalls ==
  ASSUME TypeInv, TypeInv', Run, pc # "idle"
  PROVE  Work' < Work
<1> DEFINE W  == Cardinality(Waiting)  W2 == Cardinality(Waiting')
           B  == Cardinality(batch)    B2 == Cardinality(batch')
           V  == Cardinality(Unsaved)  V2 == Cardinality(Unsaved')
<1>0. Typed /\ Typed' /\ Working
  BY DEF TypeInv
<1>s. /\ W \in Nat /\ W2 \in Nat /\ B \in Nat /\ B2 \in Nat /\ V \in Nat /\ V2 \in Nat
      /\ Phase \in 0 .. 6 /\ Phase' \in 0 .. 6
      /\ Work = 5 * W + 2 * B + V + Phase /\ Work' = 5 * W2 + 2 * B2 + V2 + Phase'
      /\ Waiting \in SUBSET Proxies /\ Unsaved \in SUBSET Proxies /\ batch \in SUBSET Proxies
  BY <1>0, Sizes
<1>1. ASSUME Waiting' = Waiting, batch' = batch, Unsaved' = Unsaved, Phase' < Phase
      PROVE  Work' < Work
  <2>1. W2 = W /\ B2 = B /\ V2 = V
    BY <1>1
  <2> QED
    BY <2>1, <1>1, <1>s
<1>2. ASSUME Sync \/ Count \/ EndStuck \/ Clean \/ Purge PROVE Work' < Work
  <2>1. Phase' < Phase
    BY <1>2 DEF Phase, Sync, Count, EndStuck, Clean, Purge
  <2>2. UNCHANGED <<batch, saving>>
    BY <1>2 DEF Sync, Count, EndStuck, Clean, Purge, runVars
  <2>3. CASE Purge
    <3>1. W2 <= W
      <4>1. Waiting' \in SUBSET Waiting
        BY <2>2, <2>3 DEF Waiting, Untested, Purge, Forget
      <4> QED
        BY <4>1, <1>s, CountingProxies
    <3>2. B2 = B /\ V2 = V
      BY <2>2 DEF Unsaved, Saving
    <3> QED
      BY <2>1, <3>1, <3>2, <1>s
  <2>4. CASE ~Purge
    <3>1. status' = status
      BY <1>2, <2>4 DEF Sync, Count, EndStuck, Clean, poolVars
    <3> QED
      BY <2>1, <2>2, <3>1, <1>1 DEF Waiting, Untested, Unsaved, Saving
  <2> QED
    BY <2>3, <2>4
<1>3. CASE Collect
  <2>1. /\ pc = "collect" /\ batch = {} /\ UNCHANGED <<status, saving>>
        /\ \/ ported \cap Untested = {} /\ batch' = Untested /\ pc' = "stuck"
           \/ ported \cap Untested # {} /\ batch' = ported \cap Untested /\ pc' = "judge"
    BY <1>3, <1>0 DEF Collect, Working, poolVars
  <2>2. Waiting = Untested /\ batch' \in SUBSET Waiting /\ Waiting' = Waiting \ batch'
    BY <2>1 DEF Waiting, Untested
  <2>3. B = 0 /\ V2 = V /\ W2 = W - B2
    <3>1. B = 0
      BY <2>1, FS_EmptySet
    <3>2. V2 = V
      BY <2>1 DEF Unsaved, Saving
    <3>3. Cardinality(Waiting \ batch') = Cardinality(Waiting) - Cardinality(batch')
      <4>1. IsFiniteSet(Waiting) /\ Waiting \cap batch' = batch'
        BY <1>s, <2>2, CountingProxies
      <4>2. Cardinality(Waiting \ batch') = Cardinality(Waiting) - Cardinality(Waiting \cap batch')
        BY <4>1, FS_Difference
      <4> QED
        BY <4>1, <4>2
    <3> QED
      BY <3>1, <3>2, <3>3, <2>2
  <2>4. CASE ported \cap Untested = {}
    <3>1. Phase = 4 /\ Phase' = 3
      BY <2>1, <2>4 DEF Phase
    <3> QED
      BY <2>3, <3>1, <1>s
  <2>5. CASE ported \cap Untested # {}
    <3>1. Phase = 4 /\ Phase' = 6
      BY <2>1, <2>5 DEF Phase
    <3>2. B2 # 0
      BY <2>1, <2>2, <2>5, <1>s, CountingProxies
    <3> QED
      BY <2>3, <3>1, <3>2, <1>s
  <2> QED
    BY <2>4, <2>5
<1>4. ASSUME NEW p \in Proxies, NEW v \in {"ok", "bad"}, Judge(p, v) PROVE Work' < Work
  <2>1. /\ p \in batch /\ batch' = batch \ {p} /\ pc' = pc
        /\ saving' = [saving EXCEPT ![p] = v]
        /\ SetStatus(p, IF v = "ok" THEN "Valid" ELSE "Invalid")
    BY <1>4 DEF Judge
  <2>2. status[p] \in {"Untested", "gone"} /\ saving \in [Proxies -> {"none", "ok", "bad"}]
    BY <2>1 DEF TypeInv, Typed, Steady
  <2>3. status'[p] # "Untested" /\ \A q \in Proxies \ {p} : status'[q] = status[q]
    <3>1. CASE status[p] = "Untested"
      BY <3>1, <2>1, <1>0 DEF SetStatus, InPool, Statuses, Typed
    <3>2. CASE status[p] = "gone"
      BY <3>2, <2>1 DEF SetStatus, InPool, Statuses, poolVars
    <3> QED
      BY <2>2, <3>1, <3>2
  <2>4. Waiting' = Waiting
    BY <2>1, <2>3 DEF Waiting, Untested
  <2>5. Unsaved' = Unsaved \cup {p}
    BY <2>1, <2>2 DEF Unsaved, Saving
  <2>6. W2 = W /\ V2 <= V + 1 /\ B2 = B - 1 /\ Phase' = Phase
    BY <2>1, <2>4, <2>5, <1>s, CountingProxies DEF Phase
  <2> QED
    BY <2>6, <1>s
<1>5. ASSUME NEW p \in Proxies, SaveVerdict(p) PROVE Work' < Work
  <2>1. /\ Saving(p) /\ saving' = [saving EXCEPT ![p] = "none"]
        /\ UNCHANGED <<status, batch, pc>>
    BY <1>5 DEF SaveVerdict, poolVars
  <2>2. p \in Unsaved /\ Unsaved' = Unsaved \ {p} /\ Waiting' = Waiting
    BY <2>1, <1>0 DEF Unsaved, Saving, Typed, Waiting, Untested
  <2>3. W2 = W /\ V2 = V - 1 /\ B2 = B /\ Phase' = Phase
    BY <2>1, <2>2, <1>s, CountingProxies DEF Phase
  <2> QED
    BY <2>3, <1>s
<1>6. ~Recheck
  BY DEF Recheck
<1> QED
  BY <1>2, <1>3, <1>4, <1>5, <1>6 DEF Run

\* Any other step: only a proxy that comes gives the run more to do.
LEMMA WorkAdded ==
  ASSUME TypeInv, TypeInv', [Next]_vars, ~Run, crashes' = crashes
  PROVE  Work' <= Work + 5 * Cardinality(Newborn)
<1> DEFINE W  == Cardinality(Waiting)  W2 == Cardinality(Waiting')
           B  == Cardinality(batch)    B2 == Cardinality(batch')
           V  == Cardinality(Unsaved)  V2 == Cardinality(Unsaved')
<1>0. Typed /\ Typed' /\ ~Restart
  BY DEF TypeInv, Typed, Restart
<1>s. /\ W \in Nat /\ W2 \in Nat /\ B \in Nat /\ B2 \in Nat /\ V \in Nat /\ V2 \in Nat
      /\ Phase \in 0 .. 6 /\ Phase' \in 0 .. 6
      /\ Work = 5 * W + 2 * B + V + Phase /\ Work' = 5 * W2 + 2 * B2 + V2 + Phase'
      /\ Waiting \in SUBSET Proxies /\ Newborn \in SUBSET Proxies
      /\ Cardinality(Newborn) \in Nat
  BY <1>0, Sizes, CountingProxies DEF Newborn
<1>1. UNCHANGED <<pc, batch, saving>>
  BY <1>0 DEF Next, BindOnDemand, Pick, Answered, Report, SaveReport, AdminClean, AdminPurge, Remove,
              DeleteRow, InsertRow, AddProxy, runVars, vars
<1>2. Waiting' \subseteq Waiting \cup Newborn
  <2>1. \/ status' = status
        \/ \E S \in SUBSET Proxies : Forget(S)
        \/ \E p \in Proxies : AddProxy(p)
    BY <1>0 DEF Next, BindOnDemand, Pick, Answered, Report, SaveReport, AdminClean, AdminPurge, Remove,
                DeleteRow, InsertRow, poolVars, vars, ExcessInPool, InPool
  <2>2. ASSUME NEW S \in SUBSET Proxies, Forget(S) PROVE Waiting' \subseteq Waiting
    BY <2>2, <1>1 DEF Forget, Waiting, Untested
  <2>3. ASSUME NEW p \in Proxies, AddProxy(p) PROVE Waiting' \subseteq Waiting \cup Newborn
    BY <2>3, <1>0, <1>1 DEF AddProxy, Waiting, Untested, Newborn, Typed
  <2> QED
    BY <2>1, <2>2, <2>3, <1>1 DEF Waiting, Untested
<1>3. W2 <= W + Cardinality(Newborn)
  <2>1. /\ IsFiniteSet(Waiting) /\ IsFiniteSet(Newborn)
        /\ Waiting \cup Newborn \in SUBSET Proxies /\ Waiting \cap Newborn \in SUBSET Proxies
    BY <1>s, CountingProxies
  <2>2. Cardinality(Waiting \cup Newborn)
          = W + Cardinality(Newborn) - Cardinality(Waiting \cap Newborn)
    BY <2>1, FS_Union
  <2>3. W2 <= Cardinality(Waiting \cup Newborn) /\ Cardinality(Waiting \cap Newborn) \in Nat
    BY <2>1, <1>2, CountingProxies
  <2> QED
    BY <2>2, <2>3, <1>s
<1>4. B2 = B /\ V2 = V /\ Phase' = Phase
  BY <1>1 DEF Unsaved, Saving, Phase
<1> QED
  BY <1>3, <1>4, <1>s

\* The loop of validate_all comes to its end: every step of a run leaves it less to do, and
\* nothing gives it more but a proxy added meanwhile.
THEOREM RunShortensAlways == Spec => RunShortens
<1>1. ASSUME TypeInv, TypeInv', [Next]_vars, pc # "idle", crashes' = crashes
      PROVE  /\ Run => Work' < Work
             /\ Work' <= Work + 5 * Cardinality(Newborn)
  <2>1. ASSUME Run PROVE Work' < Work
    BY <1>1, <2>1, WorkFalls
  <2>2. ASSUME Run PROVE Work' <= Work + 5 * Cardinality(Newborn)
    <3>1. Typed /\ Typed'
      BY <1>1 DEF TypeInv
    <3>2. Work \in Nat /\ Work' \in Nat
      BY <3>1, Sizes
    <3>3. Cardinality(Newborn) \in Nat
      BY CountingProxies DEF Newborn
    <3> QED
      BY <2>1, <2>2, <3>2, <3>3
  <2>3. ASSUME ~Run PROVE Work' <= Work + 5 * Cardinality(Newborn)
    BY <1>1, <2>3, WorkAdded
  <2> QED
    BY <2>1, <2>2, <2>3
<1>2. TypeInv /\ TypeInv' /\ [Next]_vars =>
        [pc # "idle" /\ crashes' = crashes =>
           /\ Run => Work' < Work
           /\ Work' <= Work + 5 * Cardinality(Newborn)]_vars
  BY <1>1
<1> QED
  BY <1>2, InitTyped, NextTyped, PTL DEF Spec, RunShortens
=============================================================================
