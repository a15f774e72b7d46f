----------------------------- MODULE Validation -----------------------------
(***************************************************************************)
(* The verdicts on the server's proxies: validate_all and the relay's      *)
(* failure reports (src/src/pool/validator.rs, src/src/api/relay.rs), the  *)
(* cleanup of proxies with many errors, and the two copies of every        *)
(* verdict and error count, in the pool (src/src/pool/manager.rs) and in   *)
(* the database (src/src/db.rs).  Every handler writes the two copies one  *)
(* after the other with no lock around both, and the process may be        *)
(* killed between them; startup loads the pool from the database.          *)
(*                                                                         *)
(* Abstractions.  A sync pass is the choice it makes among the Untested    *)
(* proxies and the bindings it gets for them (BindingSync has the rest);   *)
(* the ports of the others play no part here.  A read of the whole pool is *)
(* one step.  An id stands for a proxy, and comes only once.               *)
(***************************************************************************)
EXTENDS Naturals, FiniteSets

CONSTANTS
  Proxies,     \* proxy ids
  Relays,      \* concurrent relay requests (a bound)
  Nobody,      \* no proxy
  Batch,       \* config.validation.batch_size
  Threshold,   \* config.validation.error_threshold
  MaxErrors,   \* bound on the failures reported of a proxy
  MaxCrashes   \* bound on the restarts

ASSUME ValidationAssumption ==
  /\ IsFiniteSet(Relays)
  /\ Nobody \notin Proxies
  /\ Batch \in Nat
  /\ Threshold \in Nat \ {0}
  /\ MaxErrors \in Nat
  /\ MaxCrashes \in Nat

ASSUME FiniteAssumption == IsFiniteSet(Proxies)

VARIABLES
  status,    \* pool: tri-state, or "unborn" / "gone" when not in the pool
  err,       \* pool: error_count
  row,       \* database: never validated, last verdict, or no row
  rowErr,    \* database: error_count
  pc,        \* validate_all: where the holder of validation_lock is
  ported,    \* validate_all: Untested proxies that have a port in this round
  tried,     \* history: proxies this round's sync selected
  batch,     \* validate_all: proxies still to be judged
  saving,    \* verdicts that are in the pool and not yet in the database
  at,        \* relay: where a request is
  goal,      \* relay: the proxy it picked
  admin,     \* cleanup_proxies: between the database and the pool?
  deleting,  \* proxies out of the pool whose row is still to be deleted
  crashes,   \* how many restarts there were
  mixed      \* history: writes of two handlers to one proxy's copies were mixed

poolVars  == <<status, err>>
rowVars   == <<row, rowErr>>
runVars   == <<pc, ported, tried, batch, saving>>
relayVars == <<at, goal>>
others    == <<admin, deleting, crashes>>
vars == <<poolVars, rowVars, runVars, relayVars, others, mixed>>

Statuses == {"Untested", "Valid", "Invalid"}
InPool   == {p \in Proxies : status[p] \in Statuses}
Untested == {p \in Proxies : status[p] = "Untested"}
HasRow   == {p \in Proxies : row[p] # "none"}
NoSaving == [p \in Proxies |-> "none"]

\* Proxies whose two copies some handler is between writing.
Saving(p)    == saving[p] # "none"
Reporting(p) == \E r \in Relays : at[r] = "save" /\ goal[r] = p
Purging      == pc = "purge" \/ admin = "purge"

-----------------------------------------------------------------------------
(* The two copies.                                                         *)

\* ProxyPool::set_status: a Valid proxy starts at no errors, an Invalid one gets one more.
SetStatus(p, s) ==
  IF p \in InPool
  THEN /\ status' = [status EXCEPT ![p] = s]
       /\ err' = [err EXCEPT ![p] = CASE s = "Valid" -> 0
                                      [] s = "Invalid" -> @ + 1
                                      [] OTHER -> @]
  ELSE UNCHANGED poolVars

\* Mutant: a good verdict leaves error_count as it was.
SaveRow_NoReset(p, v) ==
  IF p \in HasRow
  THEN /\ row' = [row EXCEPT ![p] = v]
       /\ rowErr' = [rowErr EXCEPT ![p] = IF v = "ok" THEN @ ELSE @ + 1]
  ELSE UNCHANGED rowVars

\* Database::update_proxy_validation.
SaveRow(p, v) ==
  IF p \in HasRow
  THEN /\ row' = [row EXCEPT ![p] = v]
       /\ rowErr' = [rowErr EXCEPT ![p] = IF v = "ok" THEN 0 ELSE @ + 1]
  ELSE UNCHANGED rowVars

\* Database::cleanup_high_error_proxies.
Excess == {p \in HasRow : rowErr[p] >= Threshold}
DeleteRows(S) ==
  /\ row' = [p \in Proxies |-> IF p \in S THEN "none" ELSE row[p]]
  /\ rowErr' = [p \in Proxies |-> IF p \in S THEN 0 ELSE rowErr[p]]

\* The pool forgets the proxies of S.
Forget(S) ==
  /\ status' = [p \in Proxies |-> IF p \in S THEN "gone" ELSE status[p]]
  /\ err' = [p \in Proxies |-> IF p \in S THEN 0 ELSE err[p]]

ExcessInPool == {p \in InPool : err[p] >= Threshold}

-----------------------------------------------------------------------------
(* validate_all, under validation_lock.                                    *)

\* Mutant: Valid proxies with errors are left alone.
Recheck_Nothing ==
  /\ pc = "idle" /\ InPool # {}
  /\ pc' = "sync"
  /\ UNCHANGED <<poolVars, rowVars, ported, tried, batch, saving, relayVars, others, mixed>>

\* Mutant: so are Invalid ones.
Recheck_Invalid ==
  /\ pc = "idle" /\ InPool # {}
  /\ status' = [p \in Proxies |->
                  IF status[p] \in {"Valid", "Invalid"} /\ err[p] > 0
                  THEN "Untested" ELSE status[p]]
  /\ pc' = "sync"
  /\ UNCHANGED <<err, rowVars, ported, tried, batch, saving, relayVars, others, mixed>>

\* A run begins: Valid proxies with errors are Untested again, in the pool only.
Recheck ==
  /\ pc = "idle" /\ InPool # {}
  /\ status' = [p \in Proxies |->
                  IF status[p] = "Valid" /\ err[p] > 0 THEN "Untested" ELSE status[p]]
  /\ pc' = "sync"
  /\ UNCHANGED <<err, rowVars, ported, tried, batch, saving, relayVars, others, mixed>>

\* A round begins: a sync pass in Validation mode tries the Batch Untested proxies with
\* the fewest errors, and some of them get a binding.
Sync ==
  /\ pc = "sync"
  /\ \E x \in SUBSET Untested :
       /\ Cardinality(x) = Batch \/ (Cardinality(x) < Batch /\ x = Untested)
       /\ \A p \in x, q \in Untested \ x : err[p] <= err[q]
       /\ tried' = x
       /\ ported' \in SUBSET x
  /\ pc' = "collect"
  /\ UNCHANGED <<poolVars, rowVars, batch, saving, relayVars, others, mixed>>

\* A relay request binds a proxy on demand.
BindOnDemand(p) ==
  /\ pc = "collect"
  /\ p \in Untested \ ported
  /\ ported' = ported \cup {p}
  /\ UNCHANGED <<poolVars, rowVars, pc, tried, batch, saving, relayVars, others, mixed>>

\* Mutant: with nothing to validate the loop just ends.
Collect_NoneStuck ==
  /\ pc = "collect"
  /\ batch' = ported \cap Untested
  /\ pc' = IF batch' = {} THEN "clean" ELSE "judge"
  /\ ported' = {}
  /\ UNCHANGED <<poolVars, rowVars, tried, saving, relayVars, others, mixed>>

\* Mutant: as long as a proxy is Untested the loop goes on.
Collect_TriesAgain ==
  /\ pc = "collect"
  /\ batch' = ported \cap Untested
  /\ pc' = IF batch' # {} THEN "judge" ELSE IF Untested # {} THEN "sync" ELSE "clean"
  /\ ported' = {}
  /\ UNCHANGED <<poolVars, rowVars, tried, saving, relayVars, others, mixed>>

\* The Untested proxies with a port are to be judged; if there are none, every Untested
\* proxy left is stuck.
Collect ==
  /\ pc = "collect"
  /\ IF ported \cap Untested = {}
     THEN batch' = Untested /\ pc' = "stuck"
     ELSE batch' = ported \cap Untested /\ pc' = "judge"
  /\ ported' = {}
  /\ UNCHANGED <<poolVars, rowVars, tried, saving, relayVars, others, mixed>>

\* A task of validate_batch has the answer of its request: first the pool ...
Judge(p, v) ==
  /\ \/ pc = "judge"
     \/ pc = "stuck" /\ v = "bad" /\ saving = NoSaving
  /\ p \in batch
  /\ batch' = batch \ {p}
  /\ SetStatus(p, IF v = "ok" THEN "Valid" ELSE "Invalid")
  /\ saving' = [saving EXCEPT ![p] = v]
  /\ mixed' = (mixed \/ Reporting(p) \/ Purging)
  /\ UNCHANGED <<rowVars, pc, ported, tried, relayVars, others>>

\* ... then the database.  Stuck proxies are marked the same way, one by one.
SaveVerdict(p) ==
  /\ Saving(p)
  /\ SaveRow(p, saving[p])
  /\ saving' = [saving EXCEPT ![p] = "none"]
  /\ UNCHANGED <<poolVars, pc, ported, tried, batch, relayVars, others, mixed>>

\* The round ends: another one, if any proxy is Untested.
Count ==
  /\ pc = "judge"
  /\ batch = {} /\ saving = NoSaving
  /\ pc' = IF Untested = {} THEN "clean" ELSE "sync"
  /\ UNCHANGED <<poolVars, rowVars, ported, tried, batch, saving, relayVars, others, mixed>>

EndStuck ==
  /\ pc = "stuck"
  /\ batch = {} /\ saving = NoSaving
  /\ pc' = "clean"
  /\ UNCHANGED <<poolVars, rowVars, ported, tried, batch, saving, relayVars, others, mixed>>

\* Cleanup, in the database first; if it deleted no row the pool is not touched.  Then a
\* sync pass in Normal mode ends the run.
Clean ==
  /\ pc = "clean"
  /\ DeleteRows(Excess)
  /\ pc' = IF Excess = {} THEN "idle" ELSE "purge"
  /\ tried' = {}
  /\ mixed' = (mixed \/ \E p \in Proxies : Saving(p) \/ Reporting(p))
  /\ UNCHANGED <<poolVars, ported, batch, saving, relayVars, others>>

Purge ==
  /\ pc = "purge"
  /\ Forget(ExcessInPool)
  /\ pc' = "idle"
  /\ UNCHANGED <<rowVars, ported, tried, batch, saving, relayVars, others, mixed>>

Run ==
  \/ Recheck
  \/ Sync
  \/ Collect
  \/ \E p \in Proxies, v \in {"ok", "bad"} : Judge(p, v)
  \/ \E p \in Proxies : SaveVerdict(p)
  \/ Count
  \/ EndStuck
  \/ Clean
  \/ Purge

-----------------------------------------------------------------------------
(* Relay requests: pick_random, a failed attempt, a report.                *)

Pick(r, p) ==
  /\ at[r] = "idle"
  /\ status[p] = "Valid"
  /\ at' = [at EXCEPT ![r] = "send"]
  /\ goal' = [goal EXCEPT ![r] = p]
  /\ UNCHANGED <<poolVars, rowVars, runVars, others, mixed>>

Leave(r) == at' = [at EXCEPT ![r] = "idle"] /\ goal' = [goal EXCEPT ![r] = Nobody]

Answered(r) ==
  /\ at[r] = "send"
  /\ Leave(r)
  /\ UNCHANGED <<poolVars, rowVars, runVars, others, mixed>>

\* The attempt failed: increment_error in the pool ...
Report(r) ==
  /\ at[r] = "send"
  /\ err[goal[r]] < MaxErrors /\ rowErr[goal[r]] < MaxErrors
  /\ err' = [err EXCEPT ![goal[r]] = IF goal[r] \in InPool THEN @ + 1 ELSE @]
  /\ at' = [at EXCEPT ![r] = "save"]
  /\ mixed' = (mixed \/ Saving(goal[r]) \/ Purging)
  /\ UNCHANGED <<status, rowVars, runVars, goal, others>>

\* ... then increment_proxy_error_count in the database.
SaveReport(r) ==
  /\ at[r] = "save"
  /\ rowErr' = [rowErr EXCEPT ![goal[r]] = IF goal[r] \in HasRow THEN @ + 1 ELSE @]
  /\ Leave(r)
  /\ UNCHANGED <<poolVars, row, runVars, others, mixed>>

-----------------------------------------------------------------------------
(* The admin's handlers, subscriptions, and restarts.                      *)

\* cleanup_proxies: the database first ...
AdminClean ==
  /\ admin = "idle"
  /\ DeleteRows(Excess)
  /\ admin' = "purge"
  /\ mixed' = (mixed \/ \E p \in Proxies : Saving(p) \/ Reporting(p))
  /\ UNCHANGED <<poolVars, runVars, relayVars, deleting, crashes>>

\* ... "Remove from pool too".
AdminPurge ==
  /\ admin = "purge"
  /\ Forget(ExcessInPool)
  /\ admin' = "idle"
  /\ UNCHANGED <<rowVars, runVars, relayVars, deleting, crashes, mixed>>

\* delete_proxy, delete_subscription, a refresh: first out of the pool ...
Remove(p) ==
  /\ p \in InPool
  /\ Forget({p})
  /\ deleting' = deleting \cup {p}
  /\ UNCHANGED <<rowVars, runVars, relayVars, admin, crashes, mixed>>

\* ... then the row.
DeleteRow(p) ==
  /\ p \in deleting
  /\ DeleteRows({p})
  /\ deleting' = deleting \ {p}
  /\ UNCHANGED <<poolVars, runVars, relayVars, admin, crashes, mixed>>

\* add_subscription, a refresh: first the row ...
InsertRow(p) ==
  /\ status[p] = "unborn" /\ row[p] = "none"
  /\ row' = [row EXCEPT ![p] = "new"]
  /\ UNCHANGED <<poolVars, rowErr, runVars, relayVars, others, mixed>>

\* ... then into the pool.
AddProxy(p) ==
  /\ status[p] = "unborn" /\ row[p] = "new"
  /\ status' = [status EXCEPT ![p] = "Untested"]
  /\ UNCHANGED <<err, rowVars, runVars, relayVars, others, mixed>>

\* load_from_db: the tri-state of a row.
Loaded(p) ==
  CASE row[p] = "ok"  -> "Valid"
    [] row[p] = "bad" -> "Invalid"
    [] row[p] = "new" -> "Untested"
    [] OTHER -> IF status[p] = "unborn" THEN "unborn" ELSE "gone"

\* The process is killed at any point, and started again.
Restart ==
  /\ crashes < MaxCrashes
  /\ crashes' = crashes + 1
  /\ status' = [p \in Proxies |-> Loaded(p)]
  /\ err' = rowErr
  /\ pc' = "idle"
  /\ ported' = {} /\ tried' = {} /\ batch' = {}
  /\ saving' = NoSaving
  /\ at' = [r \in Relays |-> "idle"]
  /\ goal' = [r \in Relays |-> Nobody]
  /\ admin' = "idle"
  /\ deleting' = {}
  /\ mixed' = FALSE
  /\ UNCHANGED rowVars

-----------------------------------------------------------------------------
\* A pool just loaded, of proxies with any verdict and no errors.
Init ==
  /\ row \in [Proxies -> {"none", "new", "ok"}]
  /\ rowErr = [p \in Proxies |-> 0]
  /\ status = [p \in Proxies |-> CASE row[p] = "none" -> "unborn"
                                   [] row[p] = "new"  -> "Untested"
                                   [] OTHER           -> "Valid"]
  /\ err = rowErr
  /\ pc = "idle"
  /\ ported = {} /\ tried = {} /\ batch = {}
  /\ saving = NoSaving
  /\ at = [r \in Relays |-> "idle"]
  /\ goal = [r \in Relays |-> Nobody]
  /\ admin = "idle"
  /\ deleting = {}
  /\ crashes = 0
  /\ mixed = FALSE

Next ==
  \/ Run
  \/ \E p \in Proxies : BindOnDemand(p)
  \/ \E r \in Relays, p \in Proxies : Pick(r, p)
  \/ \E r \in Relays : Answered(r) \/ Report(r) \/ SaveReport(r)
  \/ AdminClean
  \/ AdminPurge
  \/ \E p \in Proxies : Remove(p) \/ DeleteRow(p) \/ InsertRow(p) \/ AddProxy(p)
  \/ Restart

Spec == Init /\ [][Next]_vars

\* The timer of start_background_tasks starts a run again and again, every request of a
\* task ends by its timeout, and a database call ends: the run under way goes on.
FairSpec == Spec /\ WF_vars(Run)

-----------------------------------------------------------------------------
(* Properties.                                                             *)

\* Every variable has its type; errors are bounded by the reports and a last verdict.
TypeOK ==
  /\ status \in [Proxies -> Statuses \cup {"unborn", "gone"}]
  /\ err \in [Proxies -> 0 .. (MaxErrors + Cardinality(Relays) + 1)]
  /\ row \in [Proxies -> {"none", "new", "ok", "bad"}]
  /\ rowErr \in [Proxies -> 0 .. (MaxErrors + Cardinality(Relays) + 1)]
  /\ pc \in {"idle", "sync", "collect", "judge", "stuck", "clean", "purge"}
  /\ ported \in SUBSET Proxies
  /\ tried \in SUBSET Proxies
  /\ batch \in SUBSET Proxies
  /\ saving \in [Proxies -> {"none", "ok", "bad"}]
  /\ at \in [Relays -> {"idle", "send", "save"}]
  /\ goal \in [Relays -> Proxies \cup {Nobody}]
  /\ admin \in {"idle", "purge"}
  /\ deleting \in SUBSET Proxies
  /\ crashes \in 0 .. MaxCrashes
  /\ mixed \in BOOLEAN

\* A proxy some handler is half-way through writing.
Halfway(p) ==
  \/ Saving(p) \/ Reporting(p) \/ Purging \/ p \in deleting
  \/ status[p] = "unborn" /\ row[p] = "new"

\* As long as no handlers mixed their writes to one proxy since the last restart, the
\* database has a row for just the proxies of the pool, with the same error count and
\* verdict, so a restart at any moment brings back what the pool says; only a proxy under
\* recheck is Untested in the pool and Valid in its row, and none is when no run is under
\* way.
CopiesAgree ==
  ~mixed =>
    \A p \in Proxies :
      ~Halfway(p) =>
        /\ p \in InPool <=> p \in HasRow
        /\ err[p] = rowErr[p]
        /\ Loaded(p) # status[p] => status[p] = "Untested" /\ row[p] = "ok" /\ pc # "idle"

\* Every proxy gets its verdict (or leaves), also when its binding never works, proxies
\* keep coming and the process is restarted in the middle of a run.
EveryProxyJudged ==
  \A p \in Proxies : status[p] = "Untested" ~> status[p] # "Untested"

\* A relay failure is not forgotten: a Valid proxy with errors is sooner or later judged
\* again, or gone ("Relay failure feedback", README.md:324).
FailuresRechecked ==
  \A p \in Proxies :
    (status[p] = "Valid" /\ err[p] > 0) ~> ~(status[p] = "Valid" /\ err[p] > 0)

\* What a run has still to do: another round for each Untested proxy, two writes for each
\* proxy of the batch, and the way to its end.
Phase ==
  CASE pc = "judge"   -> 6
    [] pc = "sync"    -> 5
    [] pc = "collect" -> 4
    [] pc = "stuck"   -> 3
    [] pc = "clean"   -> 2
    [] pc = "purge"   -> 1
    [] OTHER          -> 0
Work ==
  5 * Cardinality(Untested \ batch) + 2 * Cardinality(batch)
    + Cardinality({p \in Proxies : Saving(p)}) + Phase

Newborn == {p \in Proxies : status[p] = "unborn" /\ status'[p] # "unborn"}

\* The loop of validate_all has no bound on its rounds, and still ends: every step of a run
\* leaves it less to do, whatever fails to bind or leaves the pool, and nothing gives it
\* more but a proxy added meanwhile, one more round at most.
RunShortens ==
  [][pc # "idle" /\ crashes' = crashes =>
       /\ Run => Work' < Work
       /\ Work' <= Work + 5 * Cardinality(Newborn)]_vars

\* "they were prioritized by sync but binding creation failed, likely bad config"
\* (src/src/pool/validator.rs:56): a proxy is marked stuck only if the sync pass of this
\* round tried to bind it.
StuckWereTried ==
  [][\A p \in Proxies :
       pc = "stuck" /\ status[p] = "Untested" /\ status'[p] = "Invalid" => p \in tried]_vars
=============================================================================
