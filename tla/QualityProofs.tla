---------------------------- MODULE QualityProofs ----------------------------
(***************************************************************************)
(* Proofs about Quality, for every set of proxies, number of runs and      *)
(* retries, and every limit.                                               *)
(***************************************************************************)
EXTENDS Quality, TLAPS

Saving(r, p) == task[r][p].at = "save"
Publishing(r, p) == task[r][p].at = "publish"

\* Only incomplete data counts tries.
Good(q) == q \in Quality /\ (q.known # "part" => q.tries = 0)

\* All quality data is good, a check is of data that may be tried again, and a run that is
\* not under way has no tasks.
GoodInv ==
  /\ \A p \in Proxies : Good(poolQ[p]) /\ Good(dbQ[p])
  /\ \A r \in Runs, p \in Proxies :
       /\ Good(task[r][p].q)
       /\ task[r][p].at = "check" => task[r][p].q.tries < MaxRetries
       /\ pc[r] = "idle" => ~Busy(r, p)

TypeInv == TypeOK /\ GoodInv

\* A proxy nothing is known of has no tries counted.
LEMMA UnknownGood == Good(Unknown)
BY SizesAssumption DEF Good, Unknown, Quality

\* Starting a batch of proxies in need of a check.
LEMMA StartsGood ==
  ASSUME TypeInv, NEW r \in Runs, NEW x \in SUBSET Needy, Starts(r, x),
         pc' = [pc EXCEPT ![r] = "batch"], UNCHANGED <<poolQ, dbQ>>
  PROVE  /\ task' \in [Runs -> [Proxies -> [at : Stages, q : Quality]]]
         /\ spoiled' \in SUBSET Proxies
         /\ GoodInv'
<1> USE DEF TypeInv, TypeOK
<1>1. \A p \in x : p \in Proxies /\ NeedsCheck(poolQ[p]) /\ Good(poolQ[p])
  BY DEF Needy, GoodInv
<1>2. \A q \in Quality : Good(q) /\ NeedsCheck(q) => q.tries < MaxRetries
  BY SizesAssumption DEF Good, NeedsCheck, Quality
<1>3. NoTask \in [at : Stages, q : Quality]
  BY UnknownGood DEF NoTask, Good, Stages
<1>4. task' \in [Runs -> [Proxies -> [at : Stages, q : Quality]]]
  BY <1>3 DEF Starts, Stages
<1>5. \A p \in Proxies :
        /\ Good(task'[r][p].q)
        /\ task'[r][p].at = "check" => task'[r][p].q.tries < MaxRetries
  BY <1>1, <1>2, UnknownGood DEF Starts, NoTask, GoodInv
<1>6. GoodInv'
  BY <1>5 DEF GoodInv, Starts, Checking, Busy
<1> QED
  BY <1>1, <1>4, <1>6 DEF Starts

\* Every action keeps the types.
LEMMA NextGood == TypeInv /\ [Next]_vars => TypeInv'
<1> SUFFICES ASSUME TypeInv, [Next]_vars PROVE TypeInv'
  OBVIOUS
<1> USE DEF TypeInv, TypeOK, proxyVars, runVars, history
<1>1. CASE UNCHANGED vars
  BY <1>1 DEF vars, GoodInv, Checking, Busy
<1>2. ASSUME NEW r \in Runs, Select(r) PROVE TypeInv'
  <2>1. PICK x \in SUBSET Needy : Starts(r, x)
    BY <1>2 DEF Select
  <2> QED
    BY <1>2, <2>1, StartsGood DEF Select, Starts
<1>3. ASSUME NEW r \in Runs, NEW p \in Proxies, Answer(r, p) PROVE TypeInv'
  <2>1. PICK v \in Verdicts(task[r][p].q) :
          /\ task' = [task EXCEPT ![r][p] = [at |-> "save", q |-> v]]
          /\ asks' = [asks EXCEPT ![p] =
                        IF v.known = "part" THEN Least(@ + 1, MaxRetries + 1) ELSE 0]
    BY <1>3 DEF Answer
  <2>2. task[r][p].q.tries < MaxRetries /\ task[r][p].q.tries \in Nat
    BY <1>3 DEF Answer, GoodInv, Quality
  <2>3. Good(v)
    BY <2>2, SizesAssumption DEF Verdicts, Good, Quality
  <2>4. asks' \in [Proxies -> 0 .. MaxRetries + 1]
    BY <2>1, SizesAssumption DEF Least
  <2>5. task' \in [Runs -> [Proxies -> [at : Stages, q : Quality]]]
    BY <2>1, <2>3 DEF Good, Stages
  <2>6. pc[r] # "idle" /\ UNCHANGED <<pc, poolQ, dbQ>>
    BY <1>3 DEF GoodInv, Answer, Busy
  <2>7. \A s \in Runs, q \in Proxies :
          \/ task'[s][q] = task[s][q]
          \/ s = r /\ q = p /\ task'[s][q].at = "save" /\ task'[s][q].q = v
    BY <2>1
  <2>8. GoodInv'
    BY ONLY GoodInv, <2>3, <2>6, <2>7 DEF GoodInv, Busy
  <2> QED
    BY <1>3, <2>4, <2>5, <2>8 DEF Answer
<1>4. ASSUME NEW r \in Runs, NEW p \in Proxies, Save(r, p) PROVE TypeInv'
  <2>1. /\ task[r][p].at = "save" /\ UNCHANGED <<pc, poolQ>>
        /\ dbQ' = dbQ \/ dbQ' = [dbQ EXCEPT ![p] = task[r][p].q]
        /\ task' = [task EXCEPT ![r][p].at = "publish"]
    BY <1>4 DEF Save
  <2>2. /\ task' \in [Runs -> [Proxies -> [at : Stages, q : Quality]]]
        /\ dbQ' \in [Proxies -> Quality]
    <3>1. task[r] \in [Proxies -> [at : Stages, q : Quality]]
      OBVIOUS
    <3>2. [task[r][p] EXCEPT !.at = "publish"] \in [at : Stages, q : Quality]
      BY <3>1 DEF Stages
    <3>3. [task[r] EXCEPT ![p].at = "publish"] \in [Proxies -> [at : Stages, q : Quality]]
      BY <3>1, <3>2
    <3>4. task' \in [Runs -> [Proxies -> [at : Stages, q : Quality]]]
      BY <2>1, <3>3
    <3>5. task[r][p].q \in Quality
      BY <3>1
    <3> QED
      BY <2>1, <3>4, <3>5
  <2>3. \A s \in Runs, q \in Proxies :
          /\ task'[s][q].q = task[s][q].q
          /\ task'[s][q].at = "check" => task[s][q].at = "check"
          /\ Busy(s, q)' <=> Busy(s, q)
    BY <2>1 DEF Busy
  <2>4. \A q \in Proxies : Good(dbQ'[q])
    BY <2>1 DEF GoodInv
  <2>5. GoodInv'
    BY <2>1, <2>3, <2>4 DEF GoodInv
  <2> QED
    BY <1>4, <2>2, <2>5 DEF Save
<1>5. ASSUME NEW r \in Runs, NEW p \in Proxies, Publish(r, p) PROVE TypeInv'
  <2>1. NoTask \in [at : Stages, q : Quality] /\ Good(NoTask.q)
    BY UnknownGood DEF NoTask, Good, Stages
  <2>2. /\ task' \in [Runs -> [Proxies -> [at : Stages, q : Quality]]]
        /\ poolQ' \in [Proxies -> Quality]
    BY <1>5, <2>1 DEF Publish
  <2>3. GoodInv'
    BY <1>5, <2>1 DEF GoodInv, Publish, Busy, NoTask
  <2> QED
    BY <1>5, <2>2, <2>3 DEF Publish
<1>6. ASSUME NEW r \in Runs, NEW p \in Proxies, Fail(r, p) PROVE TypeInv'
  <2>1. NoTask \in [at : Stages, q : Quality] /\ Good(NoTask.q)
    BY UnknownGood DEF NoTask, Good, Stages
  <2>2. task' \in [Runs -> [Proxies -> [at : Stages, q : Quality]]]
    BY <1>6, <2>1 DEF Fail
  <2>3. GoodInv'
    BY <1>6, <2>1 DEF GoodInv, Fail, Busy, NoTask
  <2> QED
    BY <1>6, <2>2, <2>3 DEF Fail
<1>7. ASSUME NEW r \in Runs, Finish(r) PROVE TypeInv'
  BY <1>7 DEF Finish, GoodInv, Busy
<1>8. ASSUME NEW p \in Proxies, Remove(p) \/ RemoveRest(p) PROVE TypeInv'
  <2>1. /\ poolQ' = poolQ \/ poolQ' = [poolQ EXCEPT ![p] = Unknown]
        /\ dbQ' = dbQ \/ dbQ' = [dbQ EXCEPT ![p] = Unknown]
    BY <1>8 DEF Remove, RemoveRest, ForgetEntry, EraseRow
  <2>2. poolQ' \in [Proxies -> Quality] /\ dbQ' \in [Proxies -> Quality]
    BY <2>1, UnknownGood DEF Good
  <2>3. GoodInv'
    <3>1. UNCHANGED <<task, pc>>
      BY <1>8 DEF Remove, RemoveRest
    <3>2. \A q \in Proxies : Good(poolQ'[q]) /\ Good(dbQ'[q])
      BY <2>1, UnknownGood DEF GoodInv
    <3> QED
      BY <3>1, <3>2 DEF GoodInv, Busy
  <2> QED
    BY <1>8, <2>2, <2>3 DEF Remove, RemoveRest, ForgetEntry, EraseRow, Crosses
<1>9. ASSUME NEW p \in Proxies, Age(p) PROVE TypeInv'
  <2> DEFINE Aged(q) == IF q.known = "fresh" THEN [q EXCEPT !.known = "stale"] ELSE q
  <2>1. \A q : Good(q) => Good(Aged(q))
    BY DEF Good, Quality
  <2>2. poolQ' = [poolQ EXCEPT ![p] = Aged(@)] /\ dbQ' = [dbQ EXCEPT ![p] = Aged(@)]
    BY <1>9 DEF Age
  <2>3. poolQ' \in [Proxies -> Quality] /\ dbQ' \in [Proxies -> Quality]
    BY <2>1, <2>2 DEF Good, GoodInv
  <2>4. \A a \in Proxies : Good(poolQ'[a]) /\ Good(dbQ'[a])
    BY <2>1, <2>2 DEF GoodInv
  <2>5. UNCHANGED <<task, pc>>
    BY <1>9 DEF Age
  <2>6. GoodInv'
    BY <2>4, <2>5 DEF GoodInv, Busy
  <2> QED
    BY <1>9, <2>3, <2>6 DEF Age
<1>10. CASE Restart
  <2>1. NoTask \in [at : Stages, q : Quality] /\ Good(NoTask.q)
    BY UnknownGood DEF NoTask, Good, Stages
  <2>2. poolQ' \in [Proxies -> Quality]
    BY <1>10, UnknownGood DEF Restart, Loaded, Good
  <2>3. GoodInv'
    BY <1>10, <2>1, UnknownGood DEF Restart, Loaded, GoodInv, Busy, NoTask
  <2> QED
    BY <1>10, <2>1, <2>2, <2>3 DEF Restart
<1> QED
  BY <1>1, <1>2, <1>3, <1>4, <1>5, <1>6, <1>7, <1>8, <1>9, <1>10 DEF Next, Check

\* Nothing is known at first.
LEMMA InitGood == Init => TypeInv
<1> SUFFICES ASSUME Init PROVE TypeInv
  OBVIOUS
<1>1. NoTask \in [at : Stages, q : Quality] /\ Good(NoTask.q)
  BY UnknownGood DEF NoTask, Good, Stages
<1>2. GoodInv
  BY <1>1, UnknownGood DEF Init, GoodInv, Busy, NoTask
<1>3. asks \in [Proxies -> 0 .. MaxRetries + 1]
  BY SizesAssumption DEF Init
<1> QED
  BY <1>1, <1>2, <1>3, UnknownGood DEF Init, TypeInv, TypeOK, Good

\* Every variable keeps its type: a proxy has a task only in a run, and no count of tries
\* goes past MAX_INCOMPLETE_RETRIES.
THEOREM TypeCorrect == Spec => []TypeOK
<1>1. TypeInv => TypeOK
  BY DEF TypeInv
<1> QED
  BY <1>1, InitGood, NextGood, PTL DEF Spec

-----------------------------------------------------------------------------
(* RetriesBounded and CopiesAgree.  Of a proxy that one run at a time      *)
(* checks, whose verdicts all get to the database, the count of tries is   *)
(* the same wherever it is kept, once the verdict in hand has got there.   *)

Counted(p) ==
  /\ \A r, s \in Runs : Busy(r, p) /\ Busy(s, p) => r = s
  /\ asks[p] <= MaxRetries
  /\ \A r \in Runs : Busy(r, p) => asks[p] = task[r][p].q.tries
  /\ p \in rows =>
       /\ (\A r \in Runs : ~Saving(r, p)) => asks[p] = dbQ[p].tries
       /\ \A r \in Runs : Publishing(r, p) => dbQ[p] = task[r][p].q
  /\ p \in pool /\ (\A r \in Runs : ~Saving(r, p) /\ ~Publishing(r, p)) =>
       asks[p] = poolQ[p].tries /\ (p \in rows => poolQ[p] = dbQ[p])

CountInv == TypeInv /\ \A p \in Proxies \ spoiled : Counted(p)

\* A step that leaves a proxy alone, or takes it out of the pool or the table.
LEMMA CountedStays ==
  ASSUME NEW p \in Proxies, Counted(p),
         \A s \in Runs : task'[s][p] = task[s][p],
         asks'[p] = asks[p],
         p \in rows' => p \in rows /\ dbQ'[p] = dbQ[p],
         p \in pool' => p \in pool /\ poolQ'[p] = poolQ[p]
  PROVE  Counted(p)'
BY DEF Counted, Busy, Saving, Publishing

\* A run starts with what the pool has.
LEMMA StartsCounted ==
  ASSUME CountInv, NEW r \in Runs, pc[r] = "idle", NEW x \in SUBSET pool, Starts(r, x),
         UNCHANGED <<pool, rows, poolQ, dbQ, asks>>
  PROVE  \A p \in Proxies \ spoiled' : Counted(p)'
<1> SUFFICES ASSUME NEW p \in Proxies \ spoiled' PROVE Counted(p)'
  OBVIOUS
<1>1. p \notin spoiled /\ (p \in x => \A s \in Runs \ {r} : ~Busy(s, p))
  BY DEF Starts, CountInv, TypeInv, TypeOK
<1>2. Counted(p) /\ task[r][p].at = "none"
  BY <1>1 DEF CountInv, TypeInv, GoodInv, Busy
<1>3. \A s \in Runs \ {r} : task'[s] = task[s]
  BY DEF Starts, CountInv, TypeInv, TypeOK
<1>4. task'[r][p] = IF p \in x THEN [at |-> "check", q |-> poolQ[p]] ELSE NoTask
  BY DEF Starts, CountInv, TypeInv, TypeOK
<1>5. CASE p \in x
  <2>1. \A s \in Runs : task[s][p].at = "none"
    BY <1>1, <1>2, <1>5 DEF Busy
  <2>2. p \in pool /\ asks[p] = poolQ[p].tries /\ (p \in rows => poolQ[p] = dbQ[p])
    BY <1>2, <1>5, <2>1 DEF Counted, Saving, Publishing
  <2>3. \A s \in Runs : s # r => task'[s][p].at = "none"
    BY <1>3, <2>1
  <2>4. task'[r][p].at = "check" /\ task'[r][p].q = poolQ[p]
    BY <1>4, <1>5
  <2>5. asks[p] <= MaxRetries
    BY <1>2 DEF Counted
  <2> QED
    BY <2>2, <2>3, <2>4, <2>5 DEF Counted, Busy, Saving, Publishing
<1>6. CASE p \notin x
  <2>1. task'[r][p].at = "none" /\ task[r][p].at = "none"
    BY <1>2, <1>4, <1>6 DEF NoTask
  <2>2. \A s \in Runs : s # r => task'[s][p] = task[s][p]
    BY <1>3
  <2> QED
    BY <1>2, <2>1, <2>2 DEF Counted, Busy, Saving, Publishing
<1> QED
  BY <1>5, <1>6

\* What a step of the task of one proxy in one run leaves alone.
OnlyTask(r, a) == \A s \in Runs, p \in Proxies : s # r \/ p # a => task'[s][p] = task[s][p]

\* A verdict counts one more try, or ends the count.
LEMMA AnswerCounted ==
  ASSUME CountInv, NEW r \in Runs, NEW a \in Proxies, Answer(r, a)
  PROVE  \A p \in Proxies \ spoiled' : Counted(p)'
<1> USE DEF CountInv, TypeInv, TypeOK, proxyVars
<1>1. PICK v \in Verdicts(task[r][a].q) :
        /\ task' = [task EXCEPT ![r][a] = [at |-> "save", q |-> v]]
        /\ asks' = [asks EXCEPT ![a] =
                      IF v.known = "part" THEN Least(@ + 1, MaxRetries + 1) ELSE 0]
  BY DEF Answer
<1>2. /\ UNCHANGED <<pool, rows, poolQ, dbQ, spoiled>> /\ Busy(r, a)
      /\ task[r][a].q.tries < MaxRetries /\ task[r][a].q.tries \in Nat
  BY DEF Answer, Busy, GoodInv, Quality
<1>3. task'[r][a].at = "save" /\ task'[r][a].q = v
  BY <1>1
<1>4. OnlyTask(r, a)
  BY <1>1 DEF OnlyTask
<1>5. ASSUME a \notin spoiled PROVE Counted(a)'
  <2>1. Counted(a)
    BY <1>5
  <2>2. asks[a] = task[r][a].q.tries /\ \A s \in Runs : s # r => ~Busy(s, a)
    BY <1>2, <2>1 DEF Counted
  <2>3. v.tries = asks'[a] /\ asks'[a] <= MaxRetries
    BY <1>1, <1>2, <2>2, SizesAssumption DEF Verdicts, Least
  <2>4. \A s \in Runs : s # r => task'[s][a].at = "none"
    BY <1>4, <2>2 DEF Busy, OnlyTask
  <2> QED
    BY ONLY <1>3, <2>3, <2>4 DEF Counted, Busy, Saving, Publishing
<1>6. ASSUME NEW p \in Proxies \ spoiled, p # a PROVE Counted(p)'
  BY <1>1, <1>2, <1>4, <1>6, CountedStays DEF OnlyTask
<1> QED
  BY <1>2, <1>5, <1>6

\* The database gets the verdict.
LEMMA SaveCounted ==
  ASSUME CountInv, NEW r \in Runs, NEW a \in Proxies, Save(r, a)
  PROVE  \A p \in Proxies \ spoiled' : Counted(p)'
<1> USE DEF CountInv, TypeInv, TypeOK, proxyVars
<1>1. /\ UNCHANGED <<pool, rows, poolQ, asks>> /\ task[r][a].at = "save"
      /\ \/ dbQ' = [dbQ EXCEPT ![a] = task[r][a].q] /\ spoiled' = spoiled
         \/ dbQ' = dbQ /\ spoiled' = spoiled \cup {a}
      /\ task' = [task EXCEPT ![r][a].at = "publish"]
  BY DEF Save
<1>2. task'[r][a].at = "publish" /\ task'[r][a].q = task[r][a].q
  BY <1>1
<1>3. OnlyTask(r, a)
  BY <1>1 DEF OnlyTask
<1>4. ASSUME a \notin spoiled' PROVE Counted(a)'
  <2>1. Counted(a) /\ dbQ'[a] = task[r][a].q
    BY <1>1, <1>4
  <2>2. /\ asks'[a] = task[r][a].q.tries /\ asks'[a] <= MaxRetries
        /\ \A s \in Runs : s # r => ~Busy(s, a)
    BY <1>1, <2>1 DEF Counted, Busy
  <2>3. \A s \in Runs : s # r => task'[s][a].at = "none"
    BY <1>3, <2>2 DEF Busy, OnlyTask
  <2> QED
    BY ONLY <1>2, <2>1, <2>2, <2>3 DEF Counted, Busy, Saving, Publishing
<1>5. ASSUME NEW p \in Proxies \ spoiled, p # a PROVE Counted(p)'
  BY <1>1, <1>3, <1>5, CountedStays DEF OnlyTask
<1> QED
  BY <1>1, <1>4, <1>5

\* The pool gets what the database has.
LEMMA PublishCounted ==
  ASSUME CountInv, NEW r \in Runs, NEW a \in Proxies, Publish(r, a)
  PROVE  \A p \in Proxies \ spoiled' : Counted(p)'
<1> USE DEF CountInv, TypeInv, TypeOK, proxyVars, history
<1>1. /\ UNCHANGED <<pool, rows, dbQ, asks, spoiled>> /\ task[r][a].at = "publish"
      /\ task' = [task EXCEPT ![r][a] = NoTask]
      /\ poolQ' = IF a \in pool THEN [poolQ EXCEPT ![a] = task[r][a].q] ELSE poolQ
  BY DEF Publish
<1>2. task'[r][a].at = "none"
  BY <1>1 DEF NoTask
<1>3. OnlyTask(r, a)
  BY <1>1 DEF OnlyTask
<1>4. ASSUME a \notin spoiled PROVE Counted(a)'
  <2>1. Counted(a)
    BY <1>4
  <2>2. \A s \in Runs : s # r => ~Busy(s, a)
    BY <1>1, <2>1 DEF Counted, Busy
  <2>3. \A s \in Runs : task'[s][a].at = "none"
    BY <1>2, <1>3, <2>2 DEF Busy, OnlyTask
  <2>4. /\ asks[a] = task[r][a].q.tries
        /\ a \in rows => dbQ[a] = task[r][a].q /\ asks[a] = dbQ[a].tries
    BY <1>1, <2>1, <2>2 DEF Counted, Busy, Saving, Publishing
  <2>5. a \in pool => poolQ'[a] = task[r][a].q
    BY <1>1
  <2>6. asks[a] <= MaxRetries
    BY <2>1 DEF Counted
  <2>7. UNCHANGED <<pool, rows, dbQ, asks>>
    BY <1>1
  <2> QED
    BY ONLY <2>3, <2>4, <2>5, <2>6, <2>7 DEF Counted, Busy, Saving, Publishing
<1>5. ASSUME NEW p \in Proxies \ spoiled, p # a PROVE Counted(p)'
  BY <1>1, <1>3, <1>5, CountedStays DEF OnlyTask
<1> QED
  BY <1>1, <1>4, <1>5

\* A task without a verdict changes no count.
LEMMA FailCounted ==
  ASSUME CountInv, NEW r \in Runs, NEW a \in Proxies, Fail(r, a)
  PROVE  \A p \in Proxies \ spoiled' : Counted(p)'
<1> USE DEF CountInv, TypeInv, TypeOK, proxyVars, history
<1>1. /\ UNCHANGED <<pool, rows, poolQ, dbQ, asks, spoiled>> /\ task[r][a].at = "check"
      /\ task' = [task EXCEPT ![r][a] = NoTask]
  BY DEF Fail
<1>2. task'[r][a].at = "none"
  BY <1>1 DEF NoTask
<1>3. OnlyTask(r, a)
  BY <1>1 DEF OnlyTask
<1> SUFFICES ASSUME NEW p \in Proxies \ spoiled PROVE Counted(p)'
  BY <1>1
<1>4. \A s \in Runs : \/ task'[s][p] = task[s][p]
                      \/ task'[s][p].at = "none" /\ task[s][p].at = "check"
  BY <1>1, <1>2, <1>3 DEF OnlyTask
<1>5. Counted(p) /\ UNCHANGED <<pool, rows, poolQ, dbQ, asks>>
  BY <1>1
<1> QED
  BY ONLY <1>4, <1>5 DEF Counted, Busy, Saving, Publishing

\* CountInv is inductive.
LEMMA NextCounted == CountInv /\ [Next]_vars => CountInv'
<1> SUFFICES ASSUME CountInv, [Next]_vars PROVE \A p \in Proxies \ spoiled' : Counted(p)'
  BY NextGood DEF CountInv
<1> USE DEF CountInv, proxyVars, runVars, history
<1>0. TypeOK
  BY DEF TypeInv
<1>1. CASE UNCHANGED <<pool, rows, poolQ, dbQ, task, asks, spoiled>>
  BY <1>1 DEF Counted, Busy, Saving, Publishing
<1>2. ASSUME NEW r \in Runs, Select(r) PROVE \A p \in Proxies \ spoiled' : Counted(p)'
  <2>1. PICK x : x \in SUBSET Needy /\ Starts(r, x)
    BY <1>2 DEF Select
  <2> QED
    BY <1>2, <2>1, StartsCounted DEF Select, Needy
<1>3. ASSUME NEW a \in Proxies, Remove(a) \/ RemoveRest(a) PROVE \A p \in Proxies \ spoiled' : Counted(p)'
  <2>1. /\ UNCHANGED <<task, asks>> /\ spoiled \subseteq spoiled'
        /\ pool' \subseteq pool /\ rows' \subseteq rows
        /\ poolQ' = poolQ \/ (a \notin pool' /\ poolQ' = [poolQ EXCEPT ![a] = Unknown])
        /\ dbQ' = dbQ \/ (a \notin rows' \ spoiled' /\ dbQ' = [dbQ EXCEPT ![a] = Unknown])
    BY <1>3 DEF Remove, RemoveRest, ForgetEntry, EraseRow
  <2> SUFFICES ASSUME NEW p \in Proxies \ spoiled' PROVE Counted(p)'
    OBVIOUS
  <2>2. /\ p \in pool' => p \in pool /\ poolQ'[p] = poolQ[p]
        /\ p \in rows' => p \in rows /\ dbQ'[p] = dbQ[p]
    BY <1>0, <2>1 DEF TypeOK
  <2> QED
    BY <2>1, <2>2, CountedStays
<1>4. ASSUME NEW a \in Proxies, Age(a) PROVE \A p \in Proxies \ spoiled' : Counted(p)'
  <2> DEFINE Aged(q) == IF q.known = "fresh" THEN [q EXCEPT !.known = "stale"] ELSE q
  <2>1. /\ UNCHANGED <<pool, rows, task, asks, spoiled>> /\ \A r \in Runs : ~Busy(r, a)
        /\ poolQ' = [poolQ EXCEPT ![a] = Aged(@)] /\ dbQ' = [dbQ EXCEPT ![a] = Aged(@)]
    BY <1>4 DEF Age
  <2>2. \A q \in Quality : Aged(q).tries = q.tries
    BY DEF Quality
  <2> SUFFICES ASSUME NEW p \in Proxies \ spoiled PROVE Counted(p)'
    BY <2>1
  <2>3. CASE p = a
    <3>1. poolQ'[p] = Aged(poolQ[p]) /\ dbQ'[p] = Aged(dbQ[p])
      BY <1>0, <2>1, <2>3 DEF TypeOK
    <3>2. poolQ'[p].tries = poolQ[p].tries /\ dbQ'[p].tries = dbQ[p].tries
      BY <1>0, <2>2, <3>1 DEF TypeOK
    <3>3. \A s \in Runs : task'[s][p].at = "none" /\ task[s][p].at = "none"
      BY <2>1, <2>3 DEF Busy
    <3> QED
      BY <2>1, <3>1, <3>2, <3>3 DEF Counted, Busy, Saving, Publishing
  <2>4. CASE p # a
    <3>1. poolQ'[p] = poolQ[p] /\ dbQ'[p] = dbQ[p]
      BY <1>0, <2>1, <2>4 DEF TypeOK
    <3> QED
      BY <2>1, <3>1, CountedStays
  <2> QED
    BY <2>3, <2>4
<1>5. CASE Restart
  <2>1. \A r \in Runs, p \in Proxies : task'[r][p].at = "none"
    BY <1>5 DEF Restart, NoTask
  <2>2. /\ UNCHANGED <<rows, dbQ, asks>> /\ pool' = rows
        /\ \A p \in Proxies : p \in rows => poolQ'[p] = dbQ[p]
        /\ \A p \in Proxies \ spoiled' : p \notin spoiled /\ \A r \in Runs : ~Saving(r, p)
    BY <1>0, <1>5 DEF Restart, Loaded, TypeOK, Saving
  <2> SUFFICES ASSUME NEW p \in Proxies \ spoiled' PROVE Counted(p)'
    OBVIOUS
  <2>3. asks[p] <= MaxRetries /\ (p \in rows => asks[p] = dbQ[p].tries)
    BY <2>2 DEF Counted
  <2> QED
    BY ONLY <2>1, <2>2, <2>3 DEF Counted, Busy, Saving, Publishing
<1>6. CASE UNCHANGED vars
  BY <1>1, <1>6 DEF vars
<1>7. CASE \E r \in Runs : Finish(r)
  BY <1>1, <1>7 DEF Finish
<1> QED
  BY <1>2, <1>3, <1>4, <1>5, <1>6, <1>7, AnswerCounted, SaveCounted, PublishCounted, FailCounted
     DEF Next, Check

\* Nothing has been asked at first.
LEMMA InitCounted == Init => CountInv
<1> SUFFICES ASSUME Init, NEW p \in Proxies PROVE Counted(p)
  BY InitGood DEF CountInv
<1>1. \A r \in Runs : task[r][p].at = "none"
  BY DEF Init, NoTask
<1>2. asks[p] = 0 /\ poolQ[p] = Unknown /\ dbQ[p] = Unknown
  BY DEF Init
<1> QED
  BY <1>1, <1>2, SizesAssumption DEF Counted, Unknown, Busy, Saving, Publishing

\* However often the server is killed between two checks, nobody is asked about a proxy more
\* than MAX_INCOMPLETE_RETRIES times in a row for want of an answer.
THEOREM RetriesBoundedAlways == Spec => []RetriesBounded
<1>1. CountInv => RetriesBounded
  BY DEF CountInv, Counted, RetriesBounded
<1> QED
  BY <1>1, InitCounted, NextCounted, PTL DEF Spec

\* Between two checks of a proxy, pool and database say the same about it.
THEOREM CopiesAgreeAlways == Spec => []CopiesAgree
<1>1. CountInv => CopiesAgree
  <2> SUFFICES ASSUME CountInv, NEW p \in (pool \cap rows) \ spoiled, \A r \in Runs : ~Busy(r, p)
               PROVE  poolQ[p] = dbQ[p]
    BY DEF CopiesAgree
  <2>1. Counted(p) /\ \A r \in Runs : ~Saving(r, p) /\ ~Publishing(r, p)
    BY DEF CountInv, TypeInv, TypeOK, Busy, Saving, Publishing
  <2> QED
    BY <2>1 DEF Counted
<1> QED
  BY <1>1, InitCounted, NextCounted, PTL DEF Spec

-----------------------------------------------------------------------------
(* NoOrphans.                                                              *)

OrphanInv ==
  /\ TypeInv
  /\ \A p \in Proxies :
       /\ p \in pool \ rows => p \in leaving
       /\ p \notin rows /\ p \notin crossed =>
            dbQ[p] = Unknown /\ \A r \in Runs : ~Checking(r, p)

\* OrphanInv is inductive.
LEMMA NextOrphan == OrphanInv /\ [Next]_vars => OrphanInv'
<1> SUFFICES ASSUME OrphanInv, [Next]_vars, NEW p \in Proxies
             PROVE  /\ p \in pool' \ rows' => p \in leaving'
                    /\ p \notin rows' /\ p \notin crossed' =>
                         dbQ'[p] = Unknown /\ \A r \in Runs : ~Checking(r, p)'
  BY NextGood DEF OrphanInv
<1> USE DEF OrphanInv, TypeInv, TypeOK, proxyVars, runVars, history
<1>1. CASE UNCHANGED <<pool, rows, leaving, dbQ, task, crossed>>
  BY <1>1 DEF Checking
<1>2. CASE UNCHANGED vars
  BY <1>1, <1>2 DEF vars
<1>3. CASE \E r \in Runs : Select(r)
  <2>1. PICK r \in Runs, x \in SUBSET Needy : Starts(r, x) /\ UNCHANGED <<pool, rows, leaving, dbQ>>
    BY <1>3 DEF Select
  <2>2. \A s \in Runs : Checking(s, p)' => Checking(s, p) \/ p \in x
    BY <2>1 DEF Starts, Checking, NoTask
  <2>3. p \in x /\ p \notin rows => p \in crossed'
    BY <2>1 DEF Starts, Needy
  <2>4. crossed \subseteq crossed'
    BY <2>1 DEF Starts
  <2> QED
    BY <2>1, <2>2, <2>3, <2>4
<1>4. ASSUME NEW r \in Runs, NEW a \in Proxies,
             Answer(r, a) \/ Save(r, a) \/ Publish(r, a) \/ Fail(r, a)
      PROVE  /\ p \in pool' \ rows' => p \in leaving'
             /\ p \notin rows' /\ p \notin crossed' =>
                  dbQ'[p] = Unknown /\ \A s \in Runs : ~Checking(s, p)'
  <2>1. UNCHANGED <<pool, rows, leaving, crossed>> /\ (dbQ'[p] = dbQ[p] \/ (p = a /\ Checking(r, a)))
    BY <1>4 DEF Answer, Save, Publish, Fail, Checking
  <2>2. \A s \in Runs : Checking(s, p)' => Checking(s, p)
    <3>1. /\ \A s \in Runs : s # r \/ p # a => task'[s][p] = task[s][p]
          /\ Checking(r, a) \/ ~Checking(r, a)'
      BY <1>4 DEF Answer, Save, Publish, Fail, Checking, NoTask
    <3> QED
      BY <3>1 DEF Checking
  <2> QED
    BY <2>1, <2>2
<1>5. CASE \E r \in Runs : Finish(r)
  BY <1>1, <1>5 DEF Finish
<1>6. ASSUME NEW a \in Proxies, Remove(a) \/ RemoveRest(a)
      PROVE  /\ p \in pool' \ rows' => p \in leaving'
             /\ p \notin rows' /\ p \notin crossed' =>
                  dbQ'[p] = Unknown /\ \A s \in Runs : ~Checking(s, p)'
  <2>1. task' = task /\ Crosses(a)
    BY <1>6 DEF Remove, RemoveRest
  <2>2. crossed \subseteq crossed' /\ ((\E s \in Runs : Checking(s, a)) => a \in crossed')
    BY <2>1 DEF Crosses
  <2>3. CASE Remove(a)
    BY <2>1, <2>2, <2>3 DEF Remove, ForgetEntry, EraseRow, Checking
  <2>4. CASE RemoveRest(a)
    BY <2>1, <2>2, <2>4 DEF RemoveRest, ForgetEntry, EraseRow, Checking
  <2> QED
    BY <1>6, <2>3, <2>4
<1>7. ASSUME NEW a \in Proxies, Age(a)
      PROVE  /\ p \in pool' \ rows' => p \in leaving'
             /\ p \notin rows' /\ p \notin crossed' =>
                  dbQ'[p] = Unknown /\ \A s \in Runs : ~Checking(s, p)'
  <2>1. UNCHANGED <<pool, rows, leaving, crossed, task>> /\ (dbQ[p] = Unknown => dbQ'[p] = Unknown)
    BY <1>7 DEF Age, Unknown
  <2> QED
    BY <2>1 DEF Checking
<1>8. CASE Restart
  <2>1. \A r \in Runs : ~Checking(r, p)'
    BY <1>8 DEF Restart, Checking, NoTask
  <2> QED
    BY <1>8, <2>1 DEF Restart
<1> QED
  BY <1>2, <1>3, <1>4, <1>5, <1>6, <1>7, <1>8 DEF Next, Check

\* A row of proxy_quality outlives its proxy only by a check that was under way.
THEOREM NoOrphansAlways == Spec => []NoOrphans
<1>1. Init => OrphanInv
  BY InitGood DEF OrphanInv, Init, Checking, NoTask
<1>2. OrphanInv => NoOrphans
  BY DEF OrphanInv, NoOrphans
<1> QED
  BY <1>1, <1>2, NextOrphan, PTL DEF Spec
=============================================================================
