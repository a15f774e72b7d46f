------------------------------ MODULE Quality ------------------------------
(***************************************************************************)
(* The server's quality checker (src/src/quality/checker.rs): the loop of  *)
(* main.rs and every run an admin triggers select Valid proxies that have  *)
(* a port, and check them in one task for each.  A task writes its verdict *)
(* to the database and then to the pool; proxies are removed and the       *)
(* process is killed at any time.                                          *)
(*                                                                         *)
(* Abstractions.  Every proxy in the pool is Valid, as the checker looks   *)
(* at no other.  Which proxies have a port is decided elsewhere: by the    *)
(* passes of check_all itself, when it finds none to check, of validation  *)
(* and of delete_subscription, and by relay requests, under different      *)
(* locks and with creations that fail (BindingSync).  Here any proxies may *)
(* have one when a run looks.  Quality data is complete, and then fresh or *)
(* STALE_HOURS old, or incomplete.                                         *)
(***************************************************************************)
EXTENDS Naturals, FiniteSets

CONSTANTS
  Proxies,     \* proxy ids
  Runs,        \* concurrent calls of check_all (a bound)
  MaxRetries,  \* MAX_INCOMPLETE_RETRIES
  Limit        \* MAX_QUALITY_CHECKS_PER_RUN

ASSUME SizesAssumption ==
  /\ MaxRetries \in Nat \ {0}
  /\ Limit \in Nat \ {0}

\* ProxyQualityInfo: what is known, and incomplete_retry_count.
Quality == [known : {"nothing", "fresh", "stale", "part"}, tries : 0 .. MaxRetries]
Unknown == [known |-> "nothing", tries |-> 0]

VARIABLES
  pool,     \* the proxies in the pool
  rows,     \* the proxies in the database
  leaving,  \* proxies of which one half of a removal is done
  poolQ,    \* pool: quality of a proxy
  dbQ,      \* database: row of proxy_quality, Unknown for none
  pc,       \* where a run is
  task,     \* run: what the task of a proxy is doing, and with which quality
  asks,     \* history: incomplete verdicts on a proxy since the last complete one
  spoiled,  \* history: proxies two runs checked at once, or of which a write was lost or refused
  crossed   \* history: proxies checked while they were removed

proxyVars == <<pool, rows, leaving>>
runVars   == <<pc, task>>
history   == <<asks, spoiled, crossed>>
vars == <<proxyVars, poolQ, dbQ, runVars, history>>

NoTask == [at |-> "none", q |-> Unknown]

\* The task has not written its verdict to the database.
Checking(r, p) == task[r][p].at \in {"check", "save"}
Busy(r, p) == task[r][p].at # "none"

-----------------------------------------------------------------------------
(* Which proxies need a check.                                             *)

\* Mutant: incomplete data is checked again and again.
NeedsCheck_NoLimit(q) == q.known # "fresh"

\* needs_quality_check of the checker.
NeedsCheck(q) ==
  \/ q.known \in {"nothing", "stale"}
  \/ q.known = "part" /\ q.tries < MaxRetries

Needy == {p \in pool : NeedsCheck(poolQ[p])}

Least(m, n) == IF m <= n THEN m ELSE n

-----------------------------------------------------------------------------
(* A run: check_all, check_batch.                                          *)

\* check_batch spawns a task for each proxy of x, with the quality it has now.
Starts(r, x) ==
  /\ task' = [task EXCEPT ![r] = [p \in Proxies |->
                IF p \in x THEN [at |-> "check", q |-> poolQ[p]] ELSE NoTask]]
  /\ spoiled' = spoiled \cup {p \in x : \E s \in Runs \ {r} : Busy(s, p)}
  /\ crossed' = crossed \cup (x \cap leaving)

\* Of those that need a check, the run takes what has a port, up to the limit.
Select(r) ==
  /\ pc[r] = "idle"
  /\ \E x \in SUBSET Needy \ {{}} : Cardinality(x) <= Limit /\ Starts(r, x)
  /\ pc' = [pc EXCEPT ![r] = "batch"]
  /\ UNCHANGED <<proxyVars, poolQ, dbQ, asks>>

\* check_single: the services answer, or some do not.
Verdicts(q) ==
  {[known |-> "fresh", tries |-> 0],
   [known |-> "part", tries |-> q.tries + 1]}

\* A task has its verdict ...
Answer(r, p) ==
  /\ task[r][p].at = "check"
  /\ \E v \in Verdicts(task[r][p].q) :
       /\ task' = [task EXCEPT ![r][p] = [at |-> "save", q |-> v]]
       /\ asks' = [asks EXCEPT ![p] =
                     IF v.known = "part" THEN Least(@ + 1, MaxRetries + 1) ELSE 0]
  /\ UNCHANGED <<proxyVars, poolQ, dbQ, pc, spoiled, crossed>>

\* ... writes it to the database, where a failure is ignored ...
Save(r, p) ==
  /\ task[r][p].at = "save"
  /\ \/ dbQ' = [dbQ EXCEPT ![p] = task[r][p].q] /\ UNCHANGED spoiled
     \/ spoiled' = spoiled \cup {p} /\ UNCHANGED dbQ
  /\ task' = [task EXCEPT ![r][p].at = "publish"]
  /\ UNCHANGED <<proxyVars, poolQ, pc, asks, crossed>>

\* Mutant: the verdict does not get to the pool.
Publish_Nothing(r, p) ==
  /\ task[r][p].at = "publish"
  /\ task' = [task EXCEPT ![r][p] = NoTask]
  /\ UNCHANGED <<proxyVars, poolQ, dbQ, pc, history>>

\* ... and to the pool, if the proxy is still there.
Publish(r, p) ==
  /\ task[r][p].at = "publish"
  /\ poolQ' = IF p \in pool THEN [poolQ EXCEPT ![p] = task[r][p].q] ELSE poolQ
  /\ task' = [task EXCEPT ![r][p] = NoTask]
  /\ UNCHANGED <<proxyVars, dbQ, pc, history>>

\* check_single returns an error, when it cannot make its HTTP client: no verdict.
Fail(r, p) ==
  /\ task[r][p].at = "check"
  /\ task' = [task EXCEPT ![r][p] = NoTask]
  /\ UNCHANGED <<proxyVars, poolQ, dbQ, pc, history>>

\* All tasks are done.
Finish(r) ==
  /\ pc[r] = "batch"
  /\ \A p \in Proxies : ~Busy(r, p)
  /\ pc' = [pc EXCEPT ![r] = "idle"]
  /\ UNCHANGED <<proxyVars, poolQ, dbQ, task, history>>

-----------------------------------------------------------------------------
(* The others.                                                             *)

\* Mutant: the row of proxy_quality stays.
EraseRow_QualityStays(p) == rows' = rows \ {p} /\ UNCHANGED <<dbQ, spoiled>>

\* DELETE FROM proxy_quality and DELETE FROM proxies, without a transaction: the second
\* may fail, or both.
EraseRow(p) ==
  \/ /\ rows' = rows \ {p} /\ dbQ' = [dbQ EXCEPT ![p] = Unknown]
     /\ UNCHANGED spoiled
  \/ /\ dbQ' \in {dbQ, [dbQ EXCEPT ![p] = Unknown]}
     /\ spoiled' = spoiled \cup {p}
     /\ UNCHANGED rows

ForgetEntry(p) ==
  /\ pool' = pool \ {p}
  /\ poolQ' = [poolQ EXCEPT ![p] = Unknown]

Crosses(p) ==
  crossed' = IF \E r \in Runs : Checking(r, p) THEN crossed \cup {p} ELSE crossed

\* delete_proxy, a refresh or delete_subscription begin with the pool, a clean-up with
\* the database ...
Remove(p) ==
  /\ p \in rows \ leaving
  /\ leaving' = leaving \cup {p}
  /\ \/ p \in pool /\ ForgetEntry(p) /\ UNCHANGED <<rows, dbQ, spoiled>>
     \/ EraseRow(p) /\ UNCHANGED <<pool, poolQ>>
  /\ Crosses(p)
  /\ UNCHANGED <<runVars, asks>>

\* ... and go on with the other.  A clean-up whose deletions failed leaves the pool.
RemoveRest(p) ==
  /\ p \in leaving
  /\ leaving' = leaving \ {p}
  /\ \/ p \in pool /\ ForgetEntry(p) /\ UNCHANGED <<rows, dbQ, spoiled>>
     \/ p \in pool /\ p \in rows /\ UNCHANGED <<pool, poolQ, rows, dbQ, spoiled>>
     \/ p \notin pool /\ EraseRow(p) /\ UNCHANGED <<pool, poolQ>>
  /\ Crosses(p)
  /\ UNCHANGED <<runVars, asks>>

\* 24 hours later; no check takes that long.
Age(p) ==
  /\ \A r \in Runs : ~Busy(r, p)
  /\ LET Aged(q) == IF q.known = "fresh" THEN [q EXCEPT !.known = "stale"] ELSE q IN
     /\ poolQ' = [poolQ EXCEPT ![p] = Aged(@)]
     /\ dbQ' = [dbQ EXCEPT ![p] = Aged(@)]
  /\ UNCHANGED <<proxyVars, runVars, history>>

\* Mutant: incomplete_retry_count is not read back.
Loaded_NotTheCount(q) == [q EXCEPT !.tries = 0]

\* From<ProxyQuality>: extra_json holds incomplete_retry_count.
Loaded(q) == q

\* A kill, and load_from_db; a verdict not yet written is lost.
Restart ==
  /\ pool' = rows
  /\ leaving' = {}
  /\ poolQ' = [p \in Proxies |-> IF p \in rows THEN Loaded(dbQ[p]) ELSE Unknown]
  /\ pc' = [r \in Runs |-> "idle"]
  /\ task' = [r \in Runs |-> [p \in Proxies |-> NoTask]]
  /\ spoiled' = spoiled \cup {p \in Proxies : \E r \in Runs : task[r][p].at = "save"}
  /\ UNCHANGED <<rows, dbQ, asks, crossed>>

-----------------------------------------------------------------------------
Init ==
  /\ pool = Proxies /\ rows = Proxies /\ leaving = {}
  /\ poolQ = [p \in Proxies |-> Unknown]
  /\ dbQ = [p \in Proxies |-> Unknown]
  /\ pc = [r \in Runs |-> "idle"]
  /\ task = [r \in Runs |-> [p \in Proxies |-> NoTask]]
  /\ asks = [p \in Proxies |-> 0]
  /\ spoiled = {} /\ crossed = {}

Check(r) ==
  \/ Select(r)
  \/ \E p \in Proxies : Answer(r, p) \/ Save(r, p) \/ Publish(r, p) \/ Fail(r, p)
  \/ Finish(r)

Next ==
  \/ \E r \in Runs : Check(r)
  \/ \E p \in Proxies : Remove(p) \/ RemoveRest(p) \/ Age(p)
  \/ Restart

Spec == Init /\ [][Next]_vars

-----------------------------------------------------------------------------
(* Properties.                                                             *)

Stages == {"none", "check", "save", "publish"}

\* Every variable has its type.
TypeOK ==
  /\ pool \in SUBSET Proxies
  /\ rows \in SUBSET Proxies
  /\ leaving \in SUBSET Proxies
  /\ poolQ \in [Proxies -> Quality]
  /\ dbQ \in [Proxies -> Quality]
  /\ pc \in [Runs -> {"idle", "batch"}]
  /\ task \in [Runs -> [Proxies -> [at : Stages, q : Quality]]]
  /\ asks \in [Proxies -> 0 .. MaxRetries + 1]
  /\ spoiled \in SUBSET Proxies
  /\ crossed \in SUBSET Proxies

\* "Incomplete quality data can be retried at most this many times" (src/src/quality/
\* checker.rs:10): the services are asked about a proxy they know too little of at most
\* MAX_INCOMPLETE_RETRIES times in a row, also across restarts, unless two runs check it at
\* once, the database refuses a write, or the process is killed with a verdict in hand.
RetriesBounded ==
  \A p \in Proxies \ spoiled : asks[p] <= MaxRetries

\* A verdict is written twice, and the process may be killed in between: when no task is at
\* work on a proxy, pool and database agree on its quality, under the same conditions.
CopiesAgree ==
  \A p \in (pool \cap rows) \ spoiled :
    (\A r \in Runs : ~Busy(r, p)) => poolQ[p] = dbQ[p]

\* A removed proxy takes its quality with it: proxy_quality has no foreign key, and only a
\* check that is under way when the proxy is removed can leave a row without a proxy.
NoOrphans == \A p \in Proxies \ (rows \cup crossed) : dbQ[p] = Unknown
=============================================================================
