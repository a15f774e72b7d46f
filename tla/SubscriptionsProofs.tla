------------------------- MODULE SubscriptionsProofs -------------------------
(***************************************************************************)
(* Proofs about Subscriptions, for every number of concurrent jobs and     *)
(* every content.                                                          *)
(***************************************************************************)
EXTENDS Subscriptions, FiniteSetTheorems, TLAPS

\* The definitions every step is about.
LEMMA KeyTyped == \A i \in Ids : key(i) \in Keys
BY DEF Ids, key

\* Counting an entry off a list leaves a list.
LEMMA TakesTyped ==
  ASSUME TypeOK, NEW w \in Workers, NEW k \in Keys, Takes(w, k)
  PROVE  left' \in [Workers -> Contents]
<1>1. left[w][k] - 1 \in 0 .. MaxCopies
  BY SizesAssumption DEF Takes, TypeOK, Contents
<1>2. [left[w] EXCEPT ![k] = @ - 1] \in Contents
  BY <1>1 DEF TypeOK, Contents
<1> QED
  BY <1>2 DEF Takes, TypeOK

\* The end of a job leaves typed variables.
LEMMA EndsTyped ==
  ASSUME TypeOK, NEW w \in Workers, Ends(w)
  PROVE  /\ pc' \in [Workers -> Labels] /\ job' \in [Workers -> Jobs]
         /\ got' \in [Workers -> Contents] /\ left' \in [Workers -> Contents]
         /\ old' \in [Workers -> SUBSET Ids]
<1>1. Nothing \in Contents
  BY SizesAssumption DEF Nothing, Contents
<1> QED
  BY <1>1 DEF Ends, Goto, TypeOK, Labels, Jobs

\* A step of a job keeps every variable in its type.
LEMMA StepTyped ==
  ASSUME TypeOK, NEW w \in Workers, Step(w)
  PROVE  TypeOK'
<1> USE DEF TypeOK, copies, workVars, history, Goto, Labels, Jobs
<1>1. ASSUME NEW c \in Contents, Add(w, c) PROVE TypeOK'
  BY <1>1 DEF Add, Begins, Parsed
<1>2. ASSUME NEW c \in Contents, Snapshot(w, c) PROVE TypeOK'
  <2>1. PICK S \in SUBSET pool : old' = [old EXCEPT ![w] = S]
    BY <1>2 DEF Snapshot
  <2> QED
    BY <1>2, <2>1 DEF Snapshot, Parsed
<1>3. CASE Refresh(w)
  BY <1>3 DEF Refresh, Begins
<1>4. CASE FetchFails(w)
  BY <1>4, EndsTyped DEF FetchFails
<1>5. ASSUME NEW i \in Ids, Keep(w, i) PROVE TypeOK'
  BY <1>5, KeyTyped, TakesTyped DEF Keep
<1>6. ASSUME NEW i \in Ids, Forget(w, i) PROVE TypeOK'
  BY <1>6 DEF Forget
<1>7. ASSUME NEW i \in Ids, Drop(w, i) PROVE TypeOK'
  BY <1>7 DEF Drop, Begins
<1>8. ASSUME NEW k \in Keys, NEW i \in Ids, Insert(w, k, i) PROVE TypeOK'
  BY <1>8, TakesTyped DEF Insert
<1>9. CASE Publish(w)
  BY <1>9 DEF Publish
<1>10. CASE Abort(w)
  BY <1>10, EndsTyped DEF Abort
<1>11. CASE Erase(w)
  <2>1. /\ pc' \in [Workers -> Labels] /\ job' \in [Workers -> Jobs]
        /\ got' \in [Workers -> Contents] /\ left' \in [Workers -> Contents]
        /\ old' \in [Workers -> SUBSET Ids]
    BY <1>11, EndsTyped DEF Erase
  <2> QED
    BY <1>11, <2>1 DEF Erase
<1>12. CASE Finish(w)
  BY <1>12, EndsTyped DEF Finish
<1>13. CASE Delete(w)
  BY <1>13 DEF Delete, Begins
<1>14. CASE Wipe(w)
  <2>1. /\ pc' \in [Workers -> Labels] /\ job' \in [Workers -> Jobs]
        /\ got' \in [Workers -> Contents] /\ left' \in [Workers -> Contents]
        /\ old' \in [Workers -> SUBSET Ids]
    BY <1>14, EndsTyped DEF Wipe
  <2> QED
    BY <1>14, <2>1 DEF Wipe
<1>15. CASE Unlist(w)
  BY <1>15, EndsTyped DEF Unlist
<1>16. ASSUME NEW S \in SUBSET rows, Clean(w, S) PROVE TypeOK'
  BY <1>16 DEF Clean, Begins
<1>17. ASSUME NEW i \in Ids, Sweep(w, i) PROVE TypeOK'
  BY <1>17 DEF Sweep
<1>18. CASE Swept(w)
  BY <1>18, EndsTyped DEF Swept
<1> QED
  BY <1>1, <1>2, <1>3, <1>4, <1>5, <1>6, <1>7, <1>8, <1>9, <1>10, <1>11, <1>12, <1>13, <1>14,
     <1>15, <1>16, <1>17, <1>18 DEF Step

\* TypeOK is inductive.
LEMMA NextTyped == TypeOK /\ [Next]_vars => TypeOK'
<1> SUFFICES ASSUME TypeOK, [Next]_vars PROVE TypeOK'
  OBVIOUS
<1>1. CASE UNCHANGED vars
  BY <1>1 DEF TypeOK, vars, copies, workVars, history
<1>2. CASE Restart
  <2>1. Nothing \in Contents
    BY SizesAssumption DEF Nothing, Contents
  <2> QED
    BY <1>2, <2>1 DEF Restart, TypeOK, Labels, Jobs, history
<1> QED
  BY <1>1, <1>2, StepTyped DEF Next

\* The initial state has the types.
LEMMA InitTyped == Init => TypeOK
<1>1. Nothing \in Contents
  BY SizesAssumption DEF Nothing, Contents
<1> SUFFICES ASSUME Init PROVE TypeOK
  OBVIOUS
<1>2. pc \in [Workers -> Labels] /\ job \in [Workers -> Jobs]
  BY DEF Init, Labels, Jobs
<1>3. /\ got \in [Workers -> Contents] /\ left \in [Workers -> Contents]
      /\ old \in [Workers -> SUBSET Ids] /\ hand \in [Workers -> SUBSET Ids]
  BY <1>1 DEF Init
<1>4. {known, raced, crossed, double, lost} \subseteq BOOLEAN
  BY DEF Init
<1> QED
  BY <1>1, <1>2, <1>3, <1>4 DEF Init, TypeOK

\* Every variable keeps its type: no job counts an entry off that is not there.
THEOREM TypeCorrect == Spec => []TypeOK
<1> QED
  BY InitTyped, NextTyped, PTL DEF Spec

-----------------------------------------------------------------------------
(* ListedStay.  What is left in old_map has met no entry yet, so once all  *)
(* entries are gone through it is of keys the content does not list.       *)

Unmet ==
  \A w \in Workers :
    /\ Distinct(old[w])
    /\ \A i \in old[w] : left[w][key(i)] = got[w][key(i)]

Unlisted ==
  \A w \in Workers : pc[w] = "erase" /\ job[w] # "drop" => \A i \in hand[w] : got[w][key(i)] = 0

MatchInv == TypeOK /\ Unmet /\ Unlisted

\* A job that ends has no map any more.
LEMMA EndsMatches ==
  ASSUME TypeOK, NEW w \in Workers, Ends(w)
  PROVE  old'[w] = {} /\ pc'[w] = "idle"
BY DEF Ends, Goto, TypeOK

\* A step of a job keeps both, as it changes its own map only, and takes an entry off its
\* list with the proxy that matches.
LEMMA StepMatches ==
  ASSUME MatchInv, NEW w \in Workers, Step(w)
  PROVE  Unmet' /\ Unlisted'
<1> DEFINE Fine == /\ Distinct(old'[w])
                   /\ \A i \in old'[w] : left'[w][key(i)] = got'[w][key(i)]
                   /\ pc'[w] = "erase" /\ job'[w] # "drop" =>
                        \A i \in hand'[w] : got'[w][key(i)] = 0
<1> USE DEF copies, workVars, history, Goto, MatchInv, TypeOK, Labels
<1>0. \A v \in Workers \ {w} :
        /\ pc'[v] = pc[v] /\ job'[v] = job[v] /\ got'[v] = got[v]
        /\ left'[v] = left[v] /\ old'[v] = old[v] /\ hand'[v] = hand[v]
  BY DEF Step, Add, Snapshot, Refresh, FetchFails, Keep, Forget, Drop, Insert, Publish, Abort,
         Erase, Finish, Delete, Wipe, Unlist, Clean, Sweep, Swept, Begins, Parsed, Ends, Takes
<1> SUFFICES Fine
  BY <1>0 DEF Unmet, Unlisted
<1>1. Distinct(old[w]) /\ \A i \in old[w] : left[w][key(i)] = got[w][key(i)]
  BY DEF Unmet
<1>2. CASE (\E c \in Contents : Add(w, c)) \/ Refresh(w) \/ Delete(w)
             \/ (\E i \in Ids : Drop(w, i)) \/ (\E S \in SUBSET rows : Clean(w, S))
  <2>1. old'[w] = old[w] /\ (left'[w] = got'[w] \/ (left' = left /\ got' = got))
    BY <1>2 DEF Add, Refresh, Delete, Drop, Clean, Begins, Parsed
  <2>2. pc'[w] # "erase" \/ job'[w] = "drop"
    BY <1>2 DEF Add, Refresh, Delete, Drop, Clean, Begins, Parsed
  <2> QED
    BY <1>1, <2>1, <2>2
<1>3. CASE FetchFails(w) \/ Abort(w) \/ Finish(w) \/ Unlist(w) \/ Swept(w)
  BY <1>3, EndsMatches DEF FetchFails, Abort, Finish, Unlist, Swept, Distinct
<1>11. CASE Wipe(w)
  <2>1. CASE Ends(w)
    BY <2>1, EndsMatches DEF Distinct
  <2>2. CASE pc'[w] = "unlist" /\ UNCHANGED <<got, left, old>>
    BY <1>1, <2>2
  <2> QED
    BY <1>11, <2>1, <2>2 DEF Wipe
<1>12. ASSUME NEW i \in Ids, Sweep(w, i) PROVE Fine
  BY <1>1, <1>12 DEF Sweep
<1>4. ASSUME NEW c \in Contents, Snapshot(w, c) PROVE Fine
  <2>1. PICK S \in SUBSET pool : Distinct(S) /\ old' = [old EXCEPT ![w] = S]
    BY <1>4 DEF Snapshot
  <2>2. old'[w] = S /\ left'[w] = c /\ got'[w] = c /\ pc'[w] = "apply"
    BY <1>4, <2>1 DEF Snapshot, Parsed
  <2> QED
    BY <2>1, <2>2
<1>5. ASSUME NEW k \in Keys, Takes(w, k), \A i \in old'[w] : i \in old[w] /\ key(i) # k,
             got' = got
      PROVE  /\ Distinct(old'[w])
             /\ \A i \in old'[w] : left'[w][key(i)] = got'[w][key(i)]
  BY <1>1, <1>5, KeyTyped DEF Takes, Distinct, Contents
<1>6. ASSUME NEW i \in Ids, Keep(w, i) PROVE Fine
  <2>1. \A j \in old'[w] : j \in old[w] /\ key(j) # key(i)
    BY <1>1, <1>6 DEF Keep, Distinct
  <2>2. pc'[w] = "apply"
    BY <1>6 DEF Keep, Takes
  <2> QED
    BY <1>5, <1>6, <2>1, <2>2, KeyTyped DEF Keep
<1>7. ASSUME NEW k \in Keys, NEW i \in Ids, Insert(w, k, i) PROVE Fine
  <2>1. (\A j \in old'[w] : j \in old[w] /\ key(j) # k) /\ pc'[w] = "publish"
    BY <1>7 DEF Insert
  <2> QED
    BY <1>5, <1>7, <2>1 DEF Insert
<1>8. ASSUME NEW i \in Ids, Forget(w, i) PROVE Fine
  <2>1. got[w][key(i)] = 0
    BY <1>1, <1>8, KeyTyped DEF Forget, Nothing
  <2>2. hand'[w] = {i} /\ got' = got /\ left' = left /\ old'[w] = old[w] \ {i}
    BY <1>8 DEF Forget
  <2> QED
    BY <1>1, <2>1, <2>2 DEF Distinct
<1>9. CASE Publish(w)
  BY <1>1, <1>9 DEF Publish
<1>10. CASE Erase(w)
  <2>1. CASE job[w] = "drop"
    BY <1>10, <2>1, EndsMatches DEF Erase, Distinct
  <2>2. CASE job[w] # "drop"
    BY <1>1, <1>10, <2>2 DEF Erase
  <2> QED
    BY <2>1, <2>2
<1> QED
  BY <1>2, <1>3, <1>4, <1>6, <1>7, <1>8, <1>9, <1>10, <1>11, <1>12 DEF Step

\* MatchInv is inductive.
LEMMA NextMatches == MatchInv /\ [Next]_vars => MatchInv'
<1> SUFFICES ASSUME MatchInv, [Next]_vars PROVE Unmet' /\ Unlisted'
  BY NextTyped DEF MatchInv
<1>1. CASE UNCHANGED vars
  BY <1>1 DEF MatchInv, Unmet, Unlisted, vars, workVars
<1>2. CASE Restart
  BY <1>2 DEF Restart, Unmet, Unlisted, Distinct
<1> QED
  BY <1>1, <1>2, StepMatches DEF Next

\* A step that takes a row takes it for a reason.
LEMMA RowsGoWithReason ==
  ASSUME MatchInv, Next, NEW i \in rows \ rows'
  PROVE  \E w \in Workers :
           \/ pc[w] = "wipe"
           \/ i \in hand'[w] /\ job'[w] = "clean"
           \/ i \in hand[w] /\ (job[w] = "drop" \/ got[w][key(i)] = 0)
<1>1. PICK w \in Workers : Step(w)
  BY DEF Next, Restart
<1>2. Erase(w) \/ Wipe(w) \/ \E S \in SUBSET rows : Clean(w, S)
  BY <1>1 DEF Step, Add, Snapshot, Refresh, FetchFails, Keep, Forget, Drop, Insert, Publish,
              Abort, Finish, Delete, Unlist, Sweep, Swept, copies
<1>3. CASE Wipe(w)
  BY <1>3 DEF Wipe
<1>4. CASE Erase(w)
  <2>1. pc[w] = "erase" /\ i \in hand[w]
    BY <1>4 DEF Erase
  <2> QED
    BY <2>1 DEF MatchInv, Unlisted
<1>5. ASSUME NEW S \in SUBSET rows, Clean(w, S)
      PROVE  i \in hand'[w] /\ job'[w] = "clean"
  BY <1>5 DEF Clean, Begins, MatchInv, TypeOK
<1> QED
  BY <1>2, <1>3, <1>4, <1>5

\* However refreshes overlap, and whatever contents repeat, a proxy that a content still
\* lists keeps its row, unless somebody deletes it.
THEOREM ListedStayAlways == Spec => ListedStay
<1>1. Init => MatchInv
  BY InitTyped DEF MatchInv, Unmet, Unlisted, Distinct, Init
<1>2. MatchInv /\ [Next]_vars => MatchInv'
  BY NextMatches
<1>3. MatchInv /\ [Next]_vars =>
        [\A i \in rows \ rows' : \E w \in Workers :
           \/ pc[w] = "wipe"
           \/ i \in hand'[w] /\ job'[w] = "clean"
           \/ i \in hand[w] /\ (job[w] = "drop" \/ got[w][key(i)] = 0)]_vars
  BY RowsGoWithReason
<1> QED
  BY <1>1, <1>2, <1>3, PTL DEF Spec, ListedStay

-----------------------------------------------------------------------------
(* CopiesAgree and NoOrphans.  What a job has in hand is in one copy only, *)
(* and a proxy between its row and its entry is known to the job that made *)
(* it alone.                                                               *)

\* What a job is doing goes with where it is, and with what it has in hand.
HandsBusy ==
  \A w \in Workers :
    /\ pc[w] = "idle" <=> job[w] = "none"
    /\ pc[w] \in {"wipe", "unlist"} <=> job[w] = "delete"
    /\ job[w] = "drop" => pc[w] = "erase"
    /\ pc[w] = "sweep" <=> job[w] = "clean"
    /\ pc[w] \in {"publish", "erase", "sweep"} \/ hand[w] = {}

HandsOut ==
  \A w \in Workers :
    IF pc[w] = "sweep" THEN hand[w] \cap rows = {} ELSE hand[w] \cap pool = {}

HandsApart ==
  \A w \in Workers : pc[w] = "publish" =>
    \A v \in Workers : hand[w] \cap old[v] = {} /\ (v # w => hand[w] \cap hand[v] = {})

HandsKept == \A w \in Workers : pc[w] = "publish" => hand[w] \subseteq rows

\* Nobody fills a subscription that is being deleted, or is gone.
Apart ==
  /\ (\E w \in Workers : job[w] = "delete") => pool = {} /\ \A w \in Workers : ~Filling(w)
  /\ (\E w \in Workers : pc[w] = "unlist") => rows = {}
  /\ \A w \in Workers : Filling(w) => sub = "live"

HandInv ==
  /\ TypeOK /\ HandsBusy /\ HandsOut /\ HandsApart
  /\ ~crossed => HandsKept /\ Apart
  /\ NoOrphans
  /\ CopiesAgree

\* A step changes what one job does.
LEMMA OthersStay ==
  ASSUME TypeOK, NEW w \in Workers, Step(w), NEW v \in Workers \ {w}
  PROVE  pc'[v] = pc[v] /\ job'[v] = job[v] /\ old'[v] = old[v] /\ hand'[v] = hand[v]
BY DEF Step, Add, Snapshot, Refresh, FetchFails, Keep, Forget, Drop, Insert, Publish, Abort,
       Erase, Finish, Delete, Wipe, Unlist, Clean, Sweep, Swept, Begins, Parsed, Ends, Takes,
       Goto, copies, workVars, TypeOK

\* Deletions that cross a job that fills are not forgotten, nor are those that failed.
LEMMA HistoryGrows ==
  ASSUME TypeOK, NEW w \in Workers, Step(w)
  PROVE  (crossed => crossed') /\ (lost => lost')
<1> USE DEF history
<1>1. CASE \/ \E c \in Contents : Add(w, c) \/ Snapshot(w, c)
           \/ Refresh(w) \/ Delete(w) \/ \E i \in Ids : Drop(w, i)
           \/ \E S \in SUBSET rows : Clean(w, S)
  <2>1. ASSUME NEW j, NEW S, Begins(w, j, S) PROVE crossed => crossed'
    BY <2>1, Zenon DEF Begins
  <2>2. (\E j, S : Begins(w, j, S)) \/ crossed' = crossed
    BY <1>1 DEF Add, Snapshot, Refresh, Delete, Drop, Clean
  <2>3. crossed => crossed'
    BY <2>1, <2>2
  <2>4. lost' = lost
    BY <1>1 DEF Add, Snapshot, Refresh, Delete, Drop, Clean
  <2> QED
    BY <2>3, <2>4
<1>2. CASE FetchFails(w) \/ Abort(w) \/ Finish(w) \/ Publish(w) \/ Unlist(w)
  BY <1>2 DEF FetchFails, Abort, Finish, Publish, Unlist
<1>3. CASE (\E i \in Ids : Keep(w, i) \/ Forget(w, i)) \/ \E k \in Keys, i \in Ids : Insert(w, k, i)
  BY <1>3 DEF Keep, Forget, Insert
<1>4. CASE Erase(w) \/ Wipe(w)
  BY <1>4 DEF Erase, Wipe
<1>5. CASE Swept(w) \/ \E i \in Ids : Sweep(w, i)
  <2>1. crossed' = crossed
    BY <1>5 DEF Swept, Sweep
  <2>2. lost => lost'
    BY <1>5, Zenon DEF Swept, Sweep
  <2> QED
    BY <2>1, <2>2
<1> QED
  BY <1>1, <1>2, <1>3, <1>4, <1>5 DEF Step

\* What each action does to what its own job has in hand.
LEMMA StepBusy ==
  ASSUME HandInv, NEW w \in Workers, Step(w)
  PROVE  HandsBusy'
<1> USE DEF HandInv, TypeOK, HandsBusy, Goto, Jobs, Labels, copies, workVars
<1>1. CASE \/ \E c \in Contents : Add(w, c) \/ Snapshot(w, c)
           \/ Refresh(w) \/ Delete(w) \/ \E i \in Ids : Drop(w, i)
           \/ \E S \in SUBSET rows : Clean(w, S)
  BY <1>1, OthersStay DEF Add, Snapshot, Refresh, Delete, Drop, Clean, Begins, Busy, Parsed
<1>2. CASE FetchFails(w) \/ Abort(w) \/ Finish(w) \/ Wipe(w) \/ Unlist(w) \/ Swept(w)
  BY <1>2, OthersStay DEF FetchFails, Abort, Finish, Wipe, Unlist, Swept, Ends
<1>3. CASE (\E i \in Ids : Keep(w, i) \/ Forget(w, i) \/ Sweep(w, i)) \/ Publish(w)
             \/ \E k \in Keys, i \in Ids : Insert(w, k, i)
  BY <1>3, OthersStay DEF Keep, Forget, Sweep, Publish, Insert, Takes
<1>4. CASE Erase(w)
  BY <1>4, OthersStay DEF Erase, Ends
<1> QED
  BY <1>1, <1>2, <1>3, <1>4 DEF Step

\* Whatever moves from one copy to the other passes through one pair of hands.
LEMMA StepApart ==
  ASSUME HandInv, NEW w \in Workers, Step(w)
  PROVE  HandsOut' /\ HandsApart'
<1> USE DEF HandInv, TypeOK, HandsOut, HandsApart, Goto, copies, workVars
<1>1. CASE \/ \E c \in Contents : Add(w, c)
           \/ Refresh(w) \/ Delete(w)
  <2>1. /\ UNCHANGED <<old, hand, rows>> /\ pool' \subseteq pool /\ pc'[w] \notin {"publish", "sweep"}
        /\ hand[w] = {}
    BY <1>1 DEF Add, Refresh, Delete, Begins, Parsed, HandsBusy, Busy
  <2> QED
    BY <2>1, OthersStay
<1>2. CASE FetchFails(w) \/ Abort(w) \/ Finish(w) \/ Wipe(w) \/ Unlist(w)
  <2>1. /\ UNCHANGED <<hand, pool>> /\ old'[w] \subseteq old[w] /\ pc'[w] \notin {"publish", "sweep"}
        /\ rows' \subseteq rows /\ hand[w] = {}
    BY <1>2 DEF FetchFails, Abort, Finish, Wipe, Unlist, Ends, HandsBusy
  <2> QED
    BY <2>1, OthersStay
<1>3. ASSUME NEW c \in Contents, Snapshot(w, c) PROVE HandsOut' /\ HandsApart'
  <2>1. /\ UNCHANGED <<hand, copies>> /\ old'[w] \subseteq pool /\ pc[w] = "fetch" /\ pc'[w] = "apply"
    BY <1>3 DEF Snapshot, Parsed
  <2> QED
    BY <2>1, OthersStay
<1>4. ASSUME NEW i \in Ids, Drop(w, i) PROVE HandsOut' /\ HandsApart'
  <2>1. /\ pool' = pool \ {i} /\ hand'[w] = {i} /\ UNCHANGED <<old, rows>> /\ pc'[w] = "erase"
        /\ i \in pool
    BY <1>4 DEF Drop, Begins
  <2> QED
    BY <2>1, OthersStay
<1>5. ASSUME NEW i \in Ids, Keep(w, i) PROVE HandsOut' /\ HandsApart'
  <2>1. /\ UNCHANGED <<copies, hand, pc>> /\ old'[w] \subseteq old[w]
    BY <1>5 DEF Keep, Takes
  <2> QED
    BY <2>1, OthersStay
<1>6. ASSUME NEW i \in Ids, Forget(w, i) PROVE HandsOut' /\ HandsApart'
  <2>1. /\ pool' = pool \ {i} /\ hand'[w] = {i} /\ i \in old[w] /\ old'[w] \subseteq old[w]
        /\ pc'[w] = "erase" /\ rows' = rows
    BY <1>6 DEF Forget
  <2> QED
    BY <2>1, OthersStay
<1>7. ASSUME NEW k \in Keys, NEW i \in Ids, Insert(w, k, i) PROVE HandsOut' /\ HandsApart'
  <2>1. /\ pool' = pool /\ rows' = rows \cup {i} /\ hand'[w] = {i} /\ old' = old
        /\ i \notin pool /\ \A v \in Workers : i \notin old[v] /\ i \notin hand[v]
        /\ pc'[w] = "publish"
    BY <1>7 DEF Insert, Fresh
  <2> QED
    BY <2>1, OthersStay
<1>8. CASE Publish(w)
  <2>1. /\ pool' = pool \cup hand[w] /\ hand'[w] = {} /\ UNCHANGED <<old, rows>>
        /\ pc[w] = "publish" /\ pc'[w] = "apply"
    BY <1>8 DEF Publish
  <2> QED
    BY <2>1, OthersStay
<1>9. CASE Erase(w)
  <2>1. /\ pool' = pool /\ rows' \subseteq rows /\ hand'[w] = {} /\ old'[w] \subseteq old[w]
        /\ pc'[w] # "publish"
    BY <1>9 DEF Erase, Ends
  <2> QED
    BY <2>1, OthersStay
<1>10. ASSUME NEW S \in SUBSET rows, Clean(w, S) PROVE HandsOut' /\ HandsApart'
  <2>1. /\ rows' = rows \ S /\ hand'[w] = S /\ UNCHANGED <<pool, old>> /\ pc'[w] = "sweep"
        /\ \A v \in Workers : pc[v] = "publish" => hand[v] \cap S = {}
    BY <1>10 DEF Clean, New
  <2> QED
    BY <2>1, OthersStay
<1>11. ASSUME NEW i \in Ids, Sweep(w, i) PROVE HandsOut' /\ HandsApart'
  <2>1. /\ UNCHANGED <<rows, pc, old>> /\ pool' \subseteq pool /\ hand'[w] \subseteq hand[w]
        /\ pc[w] = "sweep"
    BY <1>11 DEF Sweep
  <2> QED
    BY <2>1, OthersStay
<1>12. CASE Swept(w)
  <2>1. /\ UNCHANGED copies /\ hand'[w] = {} /\ old'[w] \subseteq old[w] /\ pc'[w] = "idle"
    BY <1>12 DEF Swept, Ends
  <2> QED
    BY <2>1, OthersStay
<1> QED
  BY <1>1, <1>2, <1>3, <1>4, <1>5, <1>6, <1>7, <1>8, <1>9, <1>10, <1>11, <1>12 DEF Step

\* Only adding and refreshing write rows and entries.
LEMMA OwnFilling ==
  ASSUME HandsBusy, TypeOK, NEW w \in Workers, pc[w] \in {"fetch", "apply", "publish"}
  PROVE  Filling(w)
BY DEF HandsBusy, TypeOK, Filling, Jobs

\* Jobs that fill a subscription have it to themselves, or share it with their like.
LEMMA StepOwned ==
  ASSUME HandInv, NEW w \in Workers, Step(w), ~crossed'
  PROVE  HandsKept' /\ Apart' /\ (rows' # {} => sub' = "live")
<1>0. ~crossed /\ HandsKept /\ Apart /\ (rows # {} => sub = "live")
  BY HistoryGrows DEF HandInv, NoOrphans
<1> USE DEF HandInv, TypeOK, HandsKept, Apart, Filling, Goto, copies, workVars
<1>1. CASE \/ \E c \in Contents : Add(w, c)
           \/ Refresh(w)
  <2>1. /\ UNCHANGED <<hand, rows, pool>> /\ pc'[w] \notin {"publish", "unlist"}
        /\ sub' = "live" /\ job'[w] # "delete" /\ \A v \in Workers \ {w} : job[v] # "delete"
    BY <1>0, <1>1 DEF Add, Refresh, Begins, Parsed
  <2> QED
    BY <1>0, <2>1, OthersStay DEF HandsBusy
<1>2. CASE Delete(w)
  <2>1. /\ UNCHANGED <<hand, rows, sub>> /\ pool' = {} /\ pc'[w] = "wipe" /\ job'[w] = "delete"
        /\ \A v \in Workers \ {w} : ~Filling(v)
    BY <1>0, <1>2 DEF Delete, Begins
  <2> QED
    BY <1>0, <2>1, OthersStay
<1>3. CASE Wipe(w) \/ Unlist(w)
  <2>1. /\ UNCHANGED <<hand, pool>> /\ job[w] = "delete" /\ pc'[w] \in {"unlist", "idle"}
        /\ job'[w] \in {"delete", "none"}
        /\ rows' = {} \/ (rows' = rows /\ sub' = sub /\ pc'[w] = "idle")
    BY <1>0, <1>3 DEF Wipe, Unlist, Ends, HandsBusy
  <2>2. \A v \in Workers : pc[v] # "publish" /\ ~Filling(v)
    BY <1>0, <2>1, OwnFilling
  <2>3. /\ \A v \in Workers : ~Filling(v)' /\ pc'[v] # "publish"
        /\ \A v \in Workers : pc'[v] = "unlist" => rows' = {}
        /\ pool' = {}
    BY <1>0, <2>1, <2>2, OthersStay
  <2> QED
    BY <1>0, <2>1, <2>3
<1>4. CASE FetchFails(w) \/ Abort(w) \/ Finish(w) \/ Swept(w)
  <2>1. /\ UNCHANGED <<pool, rows, sub>> /\ pc'[w] = "idle" /\ job'[w] = "none"
    BY <1>4 DEF FetchFails, Abort, Finish, Swept, Ends
  <2> QED
    BY <1>0, <2>1, OthersStay
<1>5. CASE (\E c \in Contents : Snapshot(w, c))
             \/ (\E i \in Ids : Keep(w, i) \/ Forget(w, i) \/ Sweep(w, i))
  <2>1. /\ UNCHANGED <<rows, sub, job>> /\ pool' \subseteq pool
        /\ pc'[w] \notin {"publish", "unlist"}
    BY <1>5 DEF Snapshot, Parsed, Keep, Forget, Sweep, Takes
  <2> QED
    BY <1>0, <2>1, OthersStay
<1>6. CASE (\E i \in Ids : Drop(w, i)) \/ \E S \in SUBSET rows : Clean(w, S)
  <2>1. /\ rows' \subseteq rows /\ sub' = sub /\ pool' \subseteq pool
        /\ pc'[w] \in {"erase", "sweep"} /\ job'[w] \in {"drop", "clean"}
        /\ \A v \in Workers : pc[v] = "publish" => hand[v] \cap (rows \ rows') = {}
    BY <1>6 DEF Drop, Clean, New, Begins
  <2> QED
    BY <1>0, <2>1, OthersStay
<1>7. ASSUME NEW k \in Keys, NEW i \in Ids, Insert(w, k, i)
      PROVE  HandsKept' /\ Apart' /\ (rows' # {} => sub' = "live")
  <2>1. /\ UNCHANGED <<sub, job, pool>> /\ rows' = rows \cup {i} /\ hand'[w] = {i}
        /\ pc[w] = "apply" /\ pc'[w] = "publish"
    BY <1>7 DEF Insert, Takes
  <2>2. Filling(w)
    BY <2>1, OwnFilling
  <2>3. \A v \in Workers : pc[v] # "unlist"
    BY <1>0, <2>2 DEF HandsBusy
  <2> QED
    BY <1>0, <2>1, <2>2, <2>3, OthersStay
<1>8. CASE Publish(w)
  <2>1. UNCHANGED <<sub, job, rows>> /\ pc[w] = "publish" /\ pc'[w] = "apply"
    BY <1>8 DEF Publish
  <2>2. Filling(w)
    BY <2>1, OwnFilling
  <2> QED
    BY <1>0, <2>1, <2>2, OthersStay
<1>9. CASE Erase(w)
  <2>1. /\ UNCHANGED <<sub, pool>> /\ rows \ hand[w] \subseteq rows' /\ rows' \subseteq rows
        /\ pc[w] = "erase" /\ pc'[w] \in {"apply", "idle"} /\ job'[w] \in {job[w], "none"}
    BY <1>9 DEF Erase, Ends
  <2>2. \A v \in Workers : pc[v] = "publish" => hand[v] \cap hand[w] = {}
    BY <2>1 DEF HandsApart
  <2> QED
    BY <1>0, <2>1, <2>2, OthersStay
<1> QED
  BY <1>1, <1>2, <1>3, <1>4, <1>5, <1>6, <1>7, <1>8, <1>9 DEF Step

\* A step that moves a proxy in one copy has it in hand, or is a deletion.
LEMMA StepAgrees ==
  ASSUME HandInv, NEW w \in Workers, Step(w), ~crossed', ~lost'
  PROVE  /\ pool' \ rows' \subseteq InHand'
         /\ \/ rows' \ pool' \subseteq InHand'
            \/ \E v \in Workers : pc'[v] = "wipe"
<1> DEFINE Held == /\ \A j \in pool' \ rows' : \E v \in Workers : j \in hand'[v]
                   /\ \/ \A j \in rows' \ pool' : \E v \in Workers : j \in hand'[v]
                      \/ \E v \in Workers : pc'[v] = "wipe"
<1>0. /\ ~crossed /\ ~lost /\ HandsKept /\ Apart
      /\ \A i \in pool \ rows : \E v \in Workers : i \in hand[v]
      /\ \/ \A i \in rows \ pool : \E v \in Workers : i \in hand[v]
         \/ \E v \in Workers : pc[v] = "wipe"
  BY HistoryGrows DEF HandInv, CopiesAgree, InHand
<1> SUFFICES Held
  BY DEF InHand
<1> USE DEF HandInv, TypeOK, HandsKept, Apart, Goto, copies, workVars, history
<1>1. CASE \/ \E c \in Contents : Add(w, c) \/ Snapshot(w, c)
           \/ Refresh(w) \/ FetchFails(w) \/ Abort(w) \/ Finish(w) \/ Unlist(w)
           \/ \E i \in Ids : Keep(w, i)
  <2>1. UNCHANGED <<hand, pool, rows>> /\ pc[w] # "wipe"
    BY <1>1 DEF Add, Snapshot, Refresh, FetchFails, Abort, Finish, Unlist, Keep, Begins, Parsed,
                Takes, HandsBusy, Busy
  <2> QED
    BY <1>0, <2>1, OthersStay
<1>2. CASE Delete(w)
  BY <1>2 DEF Delete
<1>3. CASE Wipe(w)
  <2>1. UNCHANGED pool /\ job[w] = "delete" /\ rows' = {}
    BY <1>0, <1>3 DEF Wipe, HandsBusy
  <2> QED
    BY <1>0, <2>1
<1>4. ASSUME NEW i \in Ids, Drop(w, i) \/ Forget(w, i) PROVE Held
  <2>1. /\ pool' = pool \ {i} /\ hand'[w] = {i} /\ hand[w] = {} /\ rows' = rows
        /\ pc[w] # "wipe"
    BY <1>4 DEF Drop, Forget, Begins, Busy, HandsBusy
  <2> QED
    BY <1>0, <2>1, OthersStay
<1>5. ASSUME NEW k \in Keys, NEW i \in Ids, Insert(w, k, i) PROVE Held
  <2>1. /\ pool' = pool /\ hand'[w] = {i} /\ hand[w] = {} /\ rows' = rows \cup {i}
        /\ pc[w] # "wipe"
    BY <1>5 DEF Insert, Takes, HandsBusy
  <2> QED
    BY <1>0, <2>1, OthersStay
<1>6. CASE Publish(w)
  <2>1. /\ pool' = pool \cup hand[w] /\ hand[w] \subseteq rows /\ rows' = rows /\ pc[w] = "publish"
    BY <1>0, <1>6 DEF Publish
  <2> QED
    BY <1>0, <2>1, OthersStay
<1>7. CASE Erase(w)
  <2>1. /\ pool' = pool /\ hand[w] \cap pool = {} /\ rows' = rows \ hand[w] /\ pc[w] = "erase"
    BY <1>0, <1>7 DEF Erase, HandsOut
  <2> QED
    BY <1>0, <2>1, OthersStay
<1>8. ASSUME NEW S \in SUBSET rows, Clean(w, S) PROVE Held
  <2>1. /\ pool' = pool /\ hand[w] = {} /\ hand'[w] = S /\ rows' = rows \ S /\ pc[w] # "wipe"
    BY <1>8 DEF Clean, Begins, Busy, HandsBusy
  <2> QED
    BY <1>0, <2>1, OthersStay
<1>9. ASSUME NEW i \in Ids, Sweep(w, i) PROVE Held
  <2>1. /\ pool' = pool \ {i} /\ hand'[w] = hand[w] \ {i} /\ i \in hand[w] /\ rows' = rows
        /\ hand[w] \cap rows = {} /\ UNCHANGED pc
    BY <1>0, <1>9 DEF Sweep, HandsOut
  <2> QED
    BY <1>0, <2>1, OthersStay
<1>10. CASE Swept(w)
  <2>1. /\ UNCHANGED <<pool, rows>> /\ hand[w] \cap pool = {} /\ hand[w] \cap rows = {}
        /\ pc[w] # "wipe"
    BY <1>0, <1>10 DEF Swept, HandsOut
  <2> QED
    BY <1>0, <2>1, OthersStay
<1> QED
  BY <1>1, <1>2, <1>3, <1>4, <1>5, <1>6, <1>7, <1>8, <1>9, <1>10 DEF Step

\* A new process has one copy and its copy.
LEMMA RestartAgrees == HandInv /\ Restart => HandInv'
<1> SUFFICES ASSUME HandInv, Restart PROVE HandInv'
  OBVIOUS
<1>1. TypeOK'
  BY NextTyped DEF HandInv, Next
<1>2. HandsBusy' /\ HandsOut' /\ HandsApart'
  BY DEF Restart, HandsBusy, HandsOut, HandsApart
<1>3. HandsKept' /\ Apart'
  BY DEF Restart, HandsKept, Apart, Filling
<1>4. NoOrphans'
  BY DEF HandInv, NoOrphans, Restart, history
<1>5. CopiesAgree'
  BY DEF CopiesAgree, Restart
<1> QED
  BY <1>1, <1>2, <1>3, <1>4, <1>5 DEF HandInv

\* HandInv is inductive.
LEMMA NextAgrees == HandInv /\ [Next]_vars => HandInv'
<1> SUFFICES ASSUME HandInv, [Next]_vars PROVE HandInv'
  OBVIOUS
<1>1. CASE UNCHANGED vars
  <2>1. TypeOK'
    BY NextTyped DEF HandInv
  <2> QED
    BY <1>1, <2>1 DEF HandInv, HandsBusy, HandsOut, HandsApart, HandsKept, Apart, Filling,
          NoOrphans, CopiesAgree, InHand, vars, copies, workVars, history
<1>2. ASSUME NEW w \in Workers, Step(w) PROVE HandInv'
  <2>1. TypeOK'
    BY <1>2, StepTyped DEF HandInv
  <2>2. HandsBusy' /\ HandsOut' /\ HandsApart'
    BY <1>2, StepBusy, StepApart
  <2>3. ~crossed' => HandsKept' /\ Apart' /\ (rows' # {} => sub' = "live")
    BY <1>2, StepOwned
  <2>4. CopiesAgree'
    BY <1>2, StepAgrees DEF CopiesAgree
  <2> QED
    BY <2>1, <2>2, <2>3, <2>4 DEF HandInv, NoOrphans
<1> QED
  BY <1>1, <1>2, RestartAgrees DEF Next

\* Before the subscription is added there is nothing of it.
LEMMA InitAgrees == Init => HandInv
<1> SUFFICES ASSUME Init PROVE HandInv
  OBVIOUS
<1>1. HandsBusy /\ HandsOut /\ HandsApart
  BY DEF Init, HandsBusy, HandsOut, HandsApart
<1>2. HandsKept /\ Apart
  BY DEF Init, HandsKept, Apart, Filling
<1>3. NoOrphans /\ CopiesAgree
  BY DEF Init, NoOrphans, CopiesAgree
<1> QED
  BY <1>1, <1>2, <1>3, InitTyped DEF HandInv

\* Whatever jobs overlap and wherever they end, pool and database differ by what is in
\* some job's hands, unless a deletion of the subscription met a job that filled it.
THEOREM CopiesAgreeAlways == Spec => []CopiesAgree
<1>1. HandInv => CopiesAgree
  BY DEF HandInv
<1> QED
  BY <1>1, InitAgrees, NextAgrees, PTL DEF Spec

\* And no row outlives its subscription.
THEOREM NoOrphansAlways == Spec => []NoOrphans
<1>1. HandInv => NoOrphans
  BY DEF HandInv
<1> QED
  BY <1>1, InitAgrees, NextAgrees, PTL DEF Spec

-----------------------------------------------------------------------------
(* Exact.  A job that nothing overlaps, whose content lists each key at    *)
(* most once, finds in the rows what it has met of its content and what    *)
(* the old map still holds, wherever the job before it stopped.            *)

\* Nothing has overlapped, no content repeated a key and no copy was left.
Calm == ~raced /\ ~double /\ ~lost

\* An entry of the key was in the content of a job, and has been gone through.
Met(w, k) == got[w][k] > 0 /\ left[w][k] = 0

\* What a job that fills the subscription has done so far: each row is one of the old ones,
\* of an entry it met, or on its way out, and each entry it met has its row.
InPlace(w) ==
  /\ \A i \in rows : i \in old[w] \/ Met(w, key(i)) \/ (pc[w] = "erase" /\ i \in hand[w])
  /\ \A k \in Keys : Met(w, k) => \E i \in rows : key(i) = k

Alone == \A v, w \in Workers : Busy(v) /\ Busy(w) => v = w

\* A job alone with the subscription.
OwnWork ==
  \A w \in Workers :
    /\ \A k \in Keys : got[w][k] \in 0 .. 1
    /\ old[w] \subseteq pool
    /\ old[w] # {} => Filling(w) /\ pc[w] # "fetch"
    /\ Filling(w) /\ pc[w] # "fetch" => InPlace(w)
    /\ pc[w] = "fetch" => job[w] = "refresh"
    /\ \A k \in Keys : left[w][k] <= got[w][k]
    /\ job[w] = "add" => count = Total(got[w])

\* What the last refresh or addition left, and what went since then.
Left ==
  known =>
    /\ \A w \in Workers : job[w] \in {"none", "drop", "clean"} /\ hand[w] \subseteq trimmed
    /\ \A k \in Keys : Copies(rows \cup trimmed, k) = listed[k]
    /\ count = Cardinality(rows \cup trimmed)

ExactInv ==
  /\ HandInv /\ MatchInv
  /\ crossed => raced
  /\ Calm => Alone /\ Distinct(rows) /\ OwnWork /\ Left

\* A content without repetitions has as many entries as there are proxies, if each entry
\* has its proxy, each proxy its entry, and no two proxies a key in common.
LEMMA CountsEntries ==
  ASSUME NEW S \in SUBSET Ids, NEW c \in Contents, Distinct(S),
         \A k \in Keys : c[k] \in 0 .. 1,
         \A i \in S : c[key(i)] > 0,
         \A k \in Keys : c[k] > 0 => \E i \in S : key(i) = k
  PROVE  Cardinality(S) = Total(c) /\ \A k \in Keys : Copies(S, k) = c[k]
<1>1. Cardinality(S) = Total(c)
  <2> DEFINE g == [i \in S |-> key(i)]
             f == [i \in S |-> <<key(i), 1>>]
  <2>1. IsFiniteSet(S)
    <3>1. g \in Injection(S, Keys)
      BY KeyTyped DEF Injection, IsInjective, Distinct
    <3> QED
      BY ONLY <3>1, KeysAssumption, FS_Injection
  <2>2. \A i \in S : <<key(i), 1>> \in Entries(c)
    <3> SUFFICES ASSUME NEW i \in S PROVE <<key(i), 1>> \in Entries(c)
      OBVIOUS
    <3>1. key(i) \in Keys /\ c[key(i)] = 1
      BY KeyTyped
    <3>2. 1 \in 1 .. MaxCopies
      BY <3>1, SizesAssumption DEF Contents
    <3> QED
      BY <3>1, <3>2 DEF Entries
  <2>3. \A e \in Entries(c) : \E i \in S : e = <<key(i), 1>>
    <3> SUFFICES ASSUME NEW e \in Entries(c) PROVE \E i \in S : e = <<key(i), 1>>
      OBVIOUS
    <3>1. PICK k \in Keys, n \in 1 .. MaxCopies : e = <<k, n>> /\ n <= c[k]
      BY DEF Entries
    <3>2. n = 1 /\ c[k] > 0
      BY <3>1, SizesAssumption
    <3> QED
      BY <3>1, <3>2
  <2>4. f \in Bijection(S, Entries(c))
    <3>1. f \in [S -> Entries(c)]
      BY <2>2
    <3>2. \A i, j \in S : f[i] = f[j] => i = j
      BY DEF Distinct
    <3>3. \A e \in Entries(c) : \E i \in S : f[i] = e
      BY <2>3
    <3> QED
      BY ONLY <3>1, <3>2, <3>3 DEF Bijection, Injection, Surjection, IsInjective
  <2>5. ExistsBijection(S, Entries(c))
    BY ONLY <2>4 DEF ExistsBijection
  <2> QED
    BY ONLY <2>1, <2>5, FS_Bijection DEF Total
<1>2. ASSUME NEW k \in Keys PROVE Copies(S, k) = c[k]
  <2>1. CASE c[k] = 0
    <3>1. {i \in S : key(i) = k} = {}
      BY <2>1
    <3> QED
      BY <2>1, <3>1, FS_EmptySet DEF Copies
  <2>2. CASE c[k] # 0
    <3>1. c[k] = 1
      BY <2>2
    <3>2. PICK i \in S : key(i) = k
      BY <3>1
    <3>3. {j \in S : key(j) = k} = {i}
      BY <3>2 DEF Distinct
    <3> QED
      BY <3>1, <3>3, FS_Singleton DEF Copies
  <2> QED
    BY <2>1, <2>2
<1> QED
  BY <1>1, <1>2

\* A step changes the list of one job.
LEMMA OthersList ==
  ASSUME TypeOK, NEW w \in Workers, Step(w), NEW v \in Workers \ {w}
  PROVE  got'[v] = got[v] /\ left'[v] = left[v]
BY DEF Step, Add, Snapshot, Refresh, FetchFails, Keep, Forget, Drop, Insert, Publish, Abort,
       Erase, Finish, Delete, Wipe, Unlist, Clean, Sweep, Swept, Begins, Parsed, Ends, Takes,
       copies, workVars, TypeOK

\* The steps by which a job begins, and the others.
Opens(w) ==
  \/ \E c \in Contents : Add(w, c)
  \/ Refresh(w)
  \/ Delete(w)
  \/ \E i \in Ids : Drop(w, i)
  \/ \E S \in SUBSET rows : Clean(w, S)

\* Neither an overlap nor a repeated entry is forgotten, and a deletion that crosses a job
\* overlaps it.
LEMMA CalmGrows ==
  ASSUME TypeOK, NEW w \in Workers, Step(w)
  PROVE  /\ raced => raced'
         /\ double => double'
         /\ Calm' => Calm
         /\ (crossed => raced) => (crossed' => raced')
<1> USE DEF history
<1>1. CASE Opens(w)
  <2>1. PICK j, S : Begins(w, j, S)
    BY <1>1 DEF Opens, Add, Refresh, Delete, Drop, Clean
  <2>2. /\ raced' = (raced \/ \E v \in Workers \ {w} : Busy(v))
        /\ crossed' => crossed \/ \E v \in Workers \ {w} : Filling(v) \/ job[v] = "delete"
    BY <2>1, Zenon DEF Begins
  <2>3. \A v \in Workers : Filling(v) \/ job[v] = "delete" => Busy(v)
    BY DEF Filling, Busy
  <2>4. double => double'
    BY <1>1 DEF Opens, Add, Refresh, Delete, Drop, Clean, Parsed
  <2>5. raced => raced'
    BY <2>2
  <2>6. (crossed => raced) => (crossed' => raced')
    BY <2>2, <2>3
  <2>7. lost => lost'
    BY HistoryGrows
  <2>8. Calm' => Calm
    BY <2>4, <2>5, <2>7 DEF Calm
  <2> QED
    BY <2>4, <2>5, <2>6, <2>8
<1>2. CASE ~Opens(w)
  <2>1. UNCHANGED <<raced, crossed>> /\ (double' = double \/ \E c \in Contents : Parsed(w, c))
    BY <1>2 DEF Opens, Step, Snapshot, FetchFails, Keep, Forget, Insert, Publish, Abort, Erase,
                Finish, Wipe, Unlist, Sweep, Swept
  <2>2. ASSUME NEW c, Parsed(w, c) PROVE double => double'
    BY <2>2, Zenon DEF Parsed
  <2>3. double => double'
    BY <2>1, <2>2
  <2>4. lost => lost'
    BY HistoryGrows
  <2> QED
    BY <2>1, <2>3, <2>4 DEF Calm
<1> QED
  BY <1>1, <1>2

\* The job of a step is busy, unless it begins; the others have nothing to do.
LEMMA StepAlone ==
  ASSUME HandInv, NEW w \in Workers, Step(w), Alone, ~raced'
  PROVE  /\ Alone'
         /\ \A v \in Workers \ {w} : ~Busy(v)
         /\ Opens(w) => ~Busy(w)
<1>1. \A v \in Workers \ {w} : ~Busy(v)
  <2>1. CASE Opens(w)
    <3>1. PICK j, S : Begins(w, j, S)
      BY <2>1 DEF Opens, Add, Refresh, Delete, Drop, Clean
    <3> QED
      BY <3>1 DEF Begins
  <2>2. CASE ~Opens(w)
    <3>1. pc[w] # "idle"
      BY <2>2 DEF Opens, Step, Snapshot, FetchFails, Keep, Forget, Insert, Publish, Abort, Erase,
                  Finish, Wipe, Unlist, Sweep, Swept, Takes
    <3> QED
      BY <3>1 DEF HandInv, HandsBusy, Busy, Alone
  <2> QED
    BY <2>1, <2>2
<1>2. \A v \in Workers \ {w} : ~Busy(v)'
  BY <1>1, OthersStay DEF HandInv, Busy
<1>3. Opens(w) => ~Busy(w)
  BY DEF Opens, Add, Refresh, Delete, Drop, Clean, Begins
<1> QED
  BY <1>1, <1>2, <1>3 DEF Alone

\* When nobody has anything in hand, the copies are equal.
LEMMA HandsEmpty ==
  ASSUME HandInv, ~crossed, ~lost, \A v \in Workers : pc[v] \in {"idle", "fetch", "apply"}
  PROVE  pool = rows
<1>1. pool \ rows \subseteq InHand /\ (rows \ pool \subseteq InHand \/ \E w \in Workers : pc[w] = "wipe")
  BY DEF HandInv, CopiesAgree
<1>2. \A v \in Workers : hand[v] = {} /\ pc[v] # "wipe"
  BY DEF HandInv, HandsBusy
<1>3. InHand = {}
  BY <1>2 DEF InHand
<1> QED
  BY <1>1, <1>3, <1>2

\* What a calm step starts from: no other job has anything to do.
LEMMA StepCalm ==
  ASSUME ExactInv, NEW w \in Workers, Step(w), Calm'
  PROVE  /\ Calm /\ ~crossed /\ Alone'
         /\ Distinct(rows) /\ OwnWork /\ Left
         /\ Opens(w) => pool = rows
         /\ Filling(w) => pool \subseteq rows
         /\ \A v \in Workers \ {w} : ~Busy(v) /\ ~Busy(v)' /\ got'[v] = got[v] /\ old'[v] = {}
         /\ Opens(w) => ~Busy(w) /\ old[w] = {} /\ hand[w] = {}
<1>1. Calm /\ Alone /\ Distinct(rows) /\ OwnWork /\ Left /\ ~raced'
  BY CalmGrows DEF ExactInv, HandInv, Calm
<1>2. ~crossed
  BY <1>1 DEF ExactInv, Calm
<1>4. /\ Alone'
      /\ \A v \in Workers \ {w} : ~Busy(v)
      /\ Opens(w) => ~Busy(w)
  BY <1>1, StepAlone DEF ExactInv
<1>3. Opens(w) => pool = rows
  <2>1. Opens(w) => \A v \in Workers : pc[v] = "idle"
    BY <1>4 DEF ExactInv, HandInv, HandsBusy, Busy
  <2> QED
    BY <1>1, <1>2, <2>1, HandsEmpty DEF ExactInv, Calm
<1>5. \A v \in Workers : ~Busy(v) => old[v] = {} /\ hand[v] = {}
  <2>1. \A v \in Workers : old[v] # {} => Filling(v)
    BY <1>1 DEF OwnWork
  <2>2. \A v \in Workers : ~Busy(v) => hand[v] = {}
    BY DEF ExactInv, HandInv, HandsBusy, Busy
  <2> QED
    BY <2>1, <2>2 DEF Filling, Busy
<1>6. \A v \in Workers \ {w} : ~Busy(v)' /\ got'[v] = got[v] /\ old'[v] = {}
  BY <1>4, <1>5, OthersStay, OthersList DEF ExactInv, HandInv, Busy
<1>7. Filling(w) => pool \subseteq rows
  <2> SUFFICES ASSUME Filling(w), NEW i \in pool \ rows PROVE FALSE
    OBVIOUS
  <2>1. PICK v \in Workers : i \in hand[v]
    BY <1>1, <1>2 DEF ExactInv, HandInv, CopiesAgree, Calm, InHand
  <2>2. pc[v] = "sweep" /\ job[v] = "clean"
    BY <2>1 DEF ExactInv, HandInv, HandsOut, HandsBusy
  <2> QED
    BY <1>4, <2>2 DEF Filling, Busy
<1> QED
  BY <1>1, <1>2, <1>3, <1>4, <1>5, <1>6, <1>7

\* A job that is fetching is a refresh, and no list grows.
LEMMA StepFetches ==
  ASSUME ExactInv, NEW w \in Workers, Step(w), Calm'
  PROVE  /\ pc'[w] = "fetch" => job'[w] = "refresh"
         /\ \A k \in Keys : left'[w][k] <= got'[w][k]
<1> USE DEF copies, workVars, Goto
<1>0. TypeOK /\ got[w] \in Contents /\ left[w] \in Contents /\ \A k \in Keys : left[w][k] <= got[w][k]
  BY StepCalm DEF OwnWork, ExactInv, HandInv, TypeOK
<1>1. \A c \in Contents, k \in Keys : c[k] <= c[k]
  BY SizesAssumption DEF Contents
<1>2. Nothing \in Contents
  BY SizesAssumption DEF Nothing, Contents
<1>3. CASE Opens(w) \/ \E c \in Contents : Snapshot(w, c)
  <2>1. pc'[w] = "fetch" => job'[w] = "refresh"
    BY <1>0, <1>3 DEF TypeOK, Opens, Add, Refresh, Delete, Drop, Clean, Snapshot, Begins, Parsed
  <2>2. \/ got'[w] = got[w] /\ left'[w] = left[w]
        \/ \E c \in Contents : got'[w] = c /\ left'[w] = c
    BY <1>0, <1>3 DEF TypeOK, Opens, Add, Refresh, Delete, Drop, Clean, Snapshot, Begins, Parsed
  <2> QED
    BY <1>0, <1>1, <2>1, <2>2
<1>4. CASE FetchFails(w) \/ Abort(w) \/ Finish(w) \/ Unlist(w) \/ Swept(w)
  <2>1. pc'[w] = "idle" /\ got'[w] = Nothing /\ left'[w] = Nothing
    BY <1>0, <1>4 DEF TypeOK, FetchFails, Abort, Finish, Unlist, Swept, Ends
  <2> QED
    BY <1>1, <1>2, <2>1
<1>5. CASE (\E i \in Ids : Forget(w, i) \/ Sweep(w, i)) \/ Publish(w)
  <2>1. pc'[w] # "fetch" /\ UNCHANGED <<got, left>>
    BY <1>0, <1>5 DEF TypeOK, Forget, Sweep, Publish
  <2> QED
    BY <1>0, <2>1
<1>6. CASE Erase(w) \/ Wipe(w)
  <2>1. /\ pc'[w] # "fetch"
        /\ \/ UNCHANGED <<got, left>>
           \/ got'[w] = Nothing /\ left'[w] = Nothing
    BY <1>0, <1>6 DEF TypeOK, Erase, Wipe, Ends
  <2> QED
    BY <1>0, <1>1, <1>2, <2>1
<1>7. CASE (\E i \in Ids : Keep(w, i)) \/ \E k \in Keys, i \in Ids : Insert(w, k, i)
  <2>1. pc'[w] # "fetch" /\ got' = got /\ \E k \in Keys : Takes(w, k)
    BY <1>0, <1>7, KeyTyped DEF TypeOK, Keep, Insert, Takes
  <2>2. PICK k \in Keys : Takes(w, k)
    BY <2>1
  <2>3. \A m \in Keys : left'[w][m] = IF m = k THEN left[w][m] - 1 ELSE left[w][m]
    BY <1>0, <2>2 DEF Takes, TypeOK, Contents
  <2>4. \A m \in Keys : left[w][m] \in Nat /\ got[w][m] \in Nat
    BY <1>0, SizesAssumption DEF Contents
  <2> QED
    BY <1>0, <2>1, <2>3, <2>4
<1> QED
  BY <1>3, <1>4, <1>5, <1>6, <1>7 DEF Step, Opens

\* The work of the job that makes a step stays in place.
LEMMA StepWork ==
  ASSUME ExactInv, NEW w \in Workers, Step(w), Calm'
  PROVE  /\ Distinct(rows')
         /\ \A k \in Keys : got'[w][k] \in 0 .. 1
         /\ old'[w] \subseteq pool'
         /\ old'[w] # {} => Filling(w)' /\ pc'[w] # "fetch"
         /\ Filling(w)' /\ pc'[w] # "fetch" => InPlace(w)'
         /\ job'[w] = "add" => count' = Total(got'[w])
<1> DEFINE Fine == /\ Distinct(rows')
                   /\ \A k \in Keys : got'[w][k] \in 0 .. 1
                   /\ old'[w] \subseteq pool'
                   /\ old'[w] # {} => Filling(w)' /\ pc'[w] # "fetch"
                   /\ Filling(w)' /\ pc'[w] # "fetch" => InPlace(w)'
                   /\ job'[w] = "add" => count' = Total(got'[w])
<1> SUFFICES Fine
  OBVIOUS
<1> USE DEF copies, workVars, history, Goto
<1>0. TypeOK
  BY DEF ExactInv, HandInv
<1>1. /\ ~crossed /\ Distinct(rows)
      /\ Opens(w) => pool = rows
      /\ Filling(w) => pool \subseteq rows
      /\ \A k \in Keys : got[w][k] \in 0 .. 1
      /\ old[w] \subseteq pool
      /\ old[w] # {} => Filling(w) /\ pc[w] # "fetch"
      /\ Filling(w) /\ pc[w] # "fetch" => InPlace(w)
      /\ job[w] = "add" => count = Total(got[w])
      /\ \A v \in Workers \ {w} : ~Busy(v)
      /\ Opens(w) => old[w] = {} /\ hand[w] = {}
  BY StepCalm DEF OwnWork
<1>2. /\ \A i \in old[w] : left[w][key(i)] = got[w][key(i)]
      /\ pc[w] = "erase" /\ job[w] # "drop" => \A i \in hand[w] : got[w][key(i)] = 0
      /\ pc[w] = "idle" <=> job[w] = "none"
      /\ pc[w] \in {"publish", "erase", "sweep"} \/ hand[w] = {}
      /\ pc[w] \in {"fetch", "apply", "publish"} => Filling(w)
  BY <1>0, OwnFilling DEF ExactInv, MatchInv, HandInv, Unmet, Unlisted, HandsBusy
<1>3. ASSUME NEW c \in Contents, Parsed(w, c) PROVE \A k \in Keys : c[k] \in 0 .. 1
  <2>1. ~double'
    BY DEF Calm
  <2>2. \A k \in Keys : ~(c[k] > 1)
    BY <1>3, <2>1 DEF Parsed
  <2> QED
    BY <2>2, SizesAssumption DEF Contents
<1>4. ASSUME NEW c \in Contents, Add(w, c) PROVE Fine
  <2>1. rows = {} /\ old[w] = {} /\ pool = {}
    BY <1>1, <1>4 DEF Add, ExactInv, HandInv, NoOrphans, Opens
  <2>2. /\ got'[w] = c /\ left'[w] = c /\ old'[w] = {} /\ rows' = {} /\ pool' = {}
        /\ count' = Total(c) /\ Parsed(w, c)
    BY <1>0, <1>4, <2>1 DEF Add, Parsed, TypeOK
  <2>3. \A k \in Keys : ~Met(w, k)'
    BY <1>3, <2>2 DEF Met
  <2> QED
    BY <1>3, <2>2, <2>3 DEF Distinct, InPlace
<1>5. CASE Refresh(w) \/ Delete(w) \/ (\E i \in Ids : Drop(w, i)) \/ \E S \in SUBSET rows : Clean(w, S)
  <2>1. /\ rows' \in SUBSET rows /\ UNCHANGED <<got, old>> /\ old[w] = {} /\ job'[w] # "add"
        /\ ~Filling(w)' \/ pc'[w] = "fetch"
    BY <1>0, <1>1, <1>5 DEF Refresh, Delete, Drop, Clean, Begins, Opens, Filling, TypeOK
  <2> QED
    BY <1>1, <2>1 DEF Distinct
<1>13. CASE Wipe(w) \/ \E i \in Ids : Sweep(w, i)
  <2>1. job[w] \in {"delete", "clean"} /\ old[w] = {}
    BY <1>1, <1>13 DEF Wipe, Sweep, ExactInv, HandInv, HandsBusy, Filling
  <2>2. /\ rows' \in SUBSET rows /\ old'[w] = {} /\ job'[w] \in {job[w], "none"}
        /\ got'[w] \in {got[w], Nothing}
    BY <1>0, <1>13, <2>1 DEF Wipe, Sweep, Ends, TypeOK
  <2> QED
    BY <1>1, <2>1, <2>2 DEF Distinct, Filling, Nothing
<1>6. CASE FetchFails(w) \/ Abort(w) \/ Finish(w) \/ Unlist(w) \/ Swept(w)
  <2>1. /\ old'[w] = {} /\ job'[w] = "none" /\ got'[w] = Nothing /\ rows' \in SUBSET rows
    BY <1>0, <1>6 DEF FetchFails, Abort, Finish, Unlist, Swept, Ends, TypeOK
  <2> QED
    BY <1>1, <2>1 DEF Distinct, Filling, Nothing
<1>7. ASSUME NEW c \in Contents, Snapshot(w, c) PROVE Fine
  <2>1. PICK S \in SUBSET pool :
          {key(i) : i \in S} = {key(i) : i \in pool} /\ old' = [old EXCEPT ![w] = S]
    BY <1>7 DEF Snapshot
  <2>2. /\ got'[w] = c /\ left'[w] = c /\ old'[w] = S /\ UNCHANGED <<rows, pool, job, count>>
        /\ pc[w] = "fetch" /\ pc'[w] = "apply" /\ Parsed(w, c)
    BY <1>0, <1>7, <2>1 DEF Snapshot, Parsed, TypeOK
  <2>3. pool = rows
    <3>1. ~lost
      BY StepCalm DEF Calm
    <3>2. \A v \in Workers : pc[v] \in {"idle", "fetch", "apply"}
      BY <1>1, <2>2 DEF ExactInv, HandInv, HandsBusy, Busy
    <3> QED
      BY <1>1, <3>1, <3>2, HandsEmpty DEF ExactInv
  <2>4. S = rows
    <3>1. \A i \in pool : \E j \in S : key(j) = key(i)
      BY <2>1
    <3> QED
      BY <1>1, <2>3, <3>1 DEF Distinct
  <2>5. \A k \in Keys : ~Met(w, k)'
    BY <1>3, <2>2 DEF Met
  <2>6. Filling(w)' /\ job'[w] # "add"
    <3>1. job[w] = "refresh"
      BY <2>2, StepCalm DEF OwnWork
    <3> QED
      BY <2>2, <3>1 DEF Filling
  <2> QED
    BY <1>1, <1>3, <2>2, <2>4, <2>5, <2>6 DEF InPlace
<1>8. ASSUME NEW i \in Ids, Keep(w, i) PROVE Fine
  <2>1. /\ i \in old[w] /\ old'[w] = old[w] \ {i} /\ left[w][key(i)] > 0
        /\ UNCHANGED <<rows, pool, job, count, got, pc>> /\ pc[w] = "apply"
    BY <1>0, <1>8 DEF Keep, Takes, TypeOK
  <2>2. \A k \in Keys : left'[w][k] = IF k = key(i) THEN left[w][k] - 1 ELSE left[w][k]
    BY <1>0, <1>8, KeyTyped DEF Keep, Takes, TypeOK, Contents
  <2>3. key(i) \in Keys /\ got[w][key(i)] = 1 /\ left[w][key(i)] = 1
    BY <1>1, <1>2, <2>1, KeyTyped
  <2>4. /\ Met(w, key(i))'
        /\ \A k \in Keys \ {key(i)} : Met(w, k)' <=> Met(w, k)
    BY <2>1, <2>2, <2>3 DEF Met
  <2>5. Filling(w) /\ InPlace(w)
    BY <1>1, <1>2, <2>1
  <2>6. InPlace(w)'
    <3>1. \A j \in rows' : j \in old'[w] \/ Met(w, key(j))'
      BY <1>0, <2>1, <2>3, <2>4, <2>5, KeyTyped DEF InPlace, TypeOK
    <3>2. \A k \in Keys : Met(w, k)' => \E j \in rows' : key(j) = k
      BY <1>1, <2>1, <2>4, <2>5 DEF InPlace
    <3> QED
      BY <3>1, <3>2 DEF InPlace
  <2> QED
    BY <1>1, <2>1, <2>5, <2>6 DEF Filling
<1>9. ASSUME NEW k \in Keys, NEW i \in Ids, Insert(w, k, i) PROVE Fine
  <2>1. /\ key(i) = k /\ rows' = rows \cup {i} /\ left[w][k] > 0
        /\ \A j \in old[w] : key(j) # k
        /\ UNCHANGED <<pool, job, count, got, old>> /\ pc[w] = "apply" /\ pc'[w] = "publish"
    BY <1>0, <1>9 DEF Insert, Takes, TypeOK
  <2>2. \A m \in Keys : left'[w][m] = IF m = k THEN left[w][m] - 1 ELSE left[w][m]
    BY <1>0, <1>9 DEF Insert, Takes, TypeOK, Contents
  <2>3. left[w][k] <= got[w][k] => got[w][k] = 1 /\ left[w][k] = 1
    BY <1>0, <1>1, <2>1 DEF TypeOK, Contents
  <2>4. Filling(w) /\ InPlace(w)
    BY <1>1, <1>2, <2>1
  <2>5. \A j \in rows : key(j) # k
    BY <2>1, <2>4 DEF InPlace, Met
  <2>6. left[w][k] <= got[w][k]
    BY StepCalm DEF OwnWork
  <2>7. /\ Met(w, k)'
        /\ \A m \in Keys \ {k} : Met(w, m)' <=> Met(w, m)
    BY <2>1, <2>2, <2>3, <2>6 DEF Met
  <2>8. InPlace(w)'
    <3>1. \A j \in rows' : j \in old'[w] \/ Met(w, key(j))'
      BY <1>0, <2>1, <2>4, <2>5, <2>7, KeyTyped DEF InPlace, TypeOK
    <3>2. \A m \in Keys : Met(w, m)' => \E j \in rows' : key(j) = m
      BY <2>1, <2>4, <2>7 DEF InPlace
    <3> QED
      BY <3>1, <3>2 DEF InPlace
  <2>9. Distinct(rows')
    BY <1>1, <2>1, <2>5 DEF Distinct
  <2> QED
    BY <1>1, <2>1, <2>4, <2>8, <2>9 DEF Filling
<1>10. CASE Publish(w)
  <2>1. /\ pc[w] = "publish" /\ pc'[w] = "apply" /\ pool \subseteq pool'
        /\ UNCHANGED <<rows, job, count, got, old, left>>
    BY <1>0, <1>10 DEF Publish, TypeOK
  <2>2. Filling(w) /\ InPlace(w)
    BY <1>1, <1>2, <2>1
  <2>3. InPlace(w)'
    BY <2>1, <2>2 DEF InPlace, Met
  <2> QED
    BY <1>1, <2>1, <2>2, <2>3 DEF Filling
<1>11. ASSUME NEW i \in Ids, Forget(w, i) PROVE Fine
  <2>1. /\ pc[w] = "apply" /\ pc'[w] = "erase" /\ i \in old[w] /\ old'[w] = old[w] \ {i}
        /\ pool' = pool \ {i} /\ hand'[w] = {i} /\ UNCHANGED <<rows, job, count, got, left>>
    BY <1>0, <1>11 DEF Forget, TypeOK
  <2>2. Filling(w) /\ InPlace(w)
    BY <1>1, <1>2, <2>1
  <2>3. InPlace(w)'
    BY <2>1, <2>2 DEF InPlace, Met
  <2> QED
    BY <1>1, <2>1, <2>2, <2>3 DEF Filling
<1>12. CASE Erase(w)
  <2>1. /\ pc[w] = "erase" /\ rows' = rows \ hand[w] /\ UNCHANGED <<pool, count>>
    <3>1. ~lost'
      BY DEF Calm
    <3> QED
      BY <1>12, <3>1 DEF Erase
  <2>2. Distinct(rows')
    BY <1>1, <2>1 DEF Distinct
  <2>3. CASE job[w] = "drop"
    <3>1. old'[w] = {} /\ job'[w] = "none" /\ got'[w] = Nothing
      BY <1>0, <1>12, <2>3 DEF Erase, Ends, TypeOK
    <3> QED
      BY <2>2, <3>1 DEF Filling, Nothing
  <2>4. CASE job[w] # "drop"
    <3>1. pc'[w] = "apply" /\ UNCHANGED <<job, got, left, old>>
      BY <1>0, <1>12, <2>4 DEF Erase, TypeOK
    <3>2. Filling(w) => InPlace(w)'
      <4> SUFFICES ASSUME Filling(w) PROVE InPlace(w)'
        OBVIOUS
      <4>1. InPlace(w)
        BY <1>1, <2>1
      <4>2. \A k \in Keys : Met(w, k)' <=> Met(w, k)
        BY <3>1 DEF Met
      <4>3. \A j \in rows' : j \in old'[w] \/ Met(w, key(j))'
        BY <1>0, <2>1, <3>1, <4>1, <4>2, KeyTyped DEF InPlace, TypeOK
      <4>4. \A j \in hand[w] : ~Met(w, key(j))
        BY <1>2, <2>1, <2>4 DEF Met
      <4>5. \A k \in Keys : Met(w, k)' => \E j \in rows' : key(j) = k
        BY <2>1, <4>1, <4>2, <4>4 DEF InPlace
      <4> QED
        BY <4>3, <4>5 DEF InPlace
    <3> QED
      BY <1>1, <2>1, <2>2, <3>1, <3>2 DEF Filling
  <2> QED
    BY <2>3, <2>4
<1> QED
  BY <1>4, <1>5, <1>6, <1>7, <1>8, <1>9, <1>10, <1>11, <1>12, <1>13 DEF Step

\* What a refresh or an addition leaves when it comes to its end.
LEMMA StepLeft ==
  ASSUME ExactInv, NEW w \in Workers, Step(w), Calm'
  PROVE  Left'
<1>0. TypeOK
  BY DEF ExactInv, HandInv
<1>1. CASE Finish(w)
  <2>1. /\ pc[w] = "apply" /\ left[w] = Nothing /\ old[w] = {} /\ rows' = rows /\ hand' = hand
        /\ listed' = got[w] /\ trimmed' = {} /\ job'[w] = "none"
        /\ count' = IF job[w] = "refresh" /\ sub = "live" THEN Total(got[w]) ELSE count
    BY <1>0, <1>1 DEF Finish, Ends, TypeOK, copies
  <2>2. Filling(w) /\ InPlace(w) /\ Distinct(rows) /\ sub = "live"
    <3>1. Filling(w)
      BY <1>0, <2>1, OwnFilling DEF ExactInv, HandInv
    <3> QED
      BY <2>1, <3>1, StepCalm DEF OwnWork, ExactInv, HandInv, Apart
  <2>3. count' = Total(got[w])
    BY <2>1, <2>2, StepCalm DEF Filling, OwnWork
  <2>4. got[w] \in Contents /\ rows \in SUBSET Ids /\ \A k \in Keys : got[w][k] \in 0 .. 1
    BY <1>0, StepCalm DEF OwnWork, TypeOK
  <2>5. \A i \in rows : got[w][key(i)] > 0
    BY <2>1, <2>2 DEF InPlace, Met
  <2>6. \A k \in Keys : got[w][k] > 0 => \E i \in rows : key(i) = k
    BY <2>1, <2>2 DEF InPlace, Met, Nothing
  <2>7. Cardinality(rows) = Total(got[w]) /\ \A k \in Keys : Copies(rows, k) = got[w][k]
    BY ONLY <2>2, <2>4, <2>5, <2>6, CountsEntries
  <2>8. \A v \in Workers : job'[v] = "none" /\ hand'[v] = {}
    <3>1. \A v \in Workers : job'[v] = "none"
      BY <2>1, StepCalm DEF Busy
    <3>2. HandsBusy'
      BY StepBusy DEF ExactInv
    <3> QED
      BY <3>1, <3>2 DEF HandsBusy
  <2>9. rows' \cup trimmed' = rows
    BY <2>1
  <2>10. \A k \in Keys : Copies(rows \cup trimmed, k)' = listed'[k]
    BY <2>1, <2>7, <2>9 DEF Copies
  <2> QED
    BY <2>3, <2>7, <2>8, <2>9, <2>10 DEF Left
<1>2. CASE Opens(w)
  <2>1. PICK j, S : /\ Begins(w, j, S)
                    /\ j \in {"drop", "clean"} =>
                         S \subseteq rows /\ rows' \cup S = rows /\ hand'[w] = S
    <3>1. CASE (\E c \in Contents : Add(w, c)) \/ Refresh(w) \/ Delete(w)
      BY <3>1 DEF Add, Refresh, Delete
    <3>2. ASSUME NEW i \in Ids, Drop(w, i)
          PROVE  Begins(w, "drop", {i}) /\ {i} \subseteq rows /\ rows' = rows /\ hand'[w] = {i}
      BY <1>0, <1>2, <3>2, StepCalm DEF Drop, TypeOK
    <3>3. ASSUME NEW S \in SUBSET rows, Clean(w, S)
          PROVE  Begins(w, "clean", S) /\ rows' = rows \ S /\ hand'[w] = S
      BY <1>0, <3>3 DEF Clean, TypeOK
    <3> QED
      BY <1>2, <3>1, <3>2, <3>3 DEF Opens
  <2> SUFFICES ASSUME known' PROVE Left'
    BY DEF Left
  <2>2. known /\ j \in {"drop", "clean"} /\ trimmed' = trimmed \cup S
    BY <2>1 DEF Begins
  <2>3. UNCHANGED <<listed, count>> /\ job'[w] = j
    BY <1>0, <1>2, <2>1, <2>2 DEF Opens, Add, Refresh, Delete, Drop, Clean, Begins, TypeOK
  <2>4. rows' \cup trimmed' = rows \cup trimmed
    BY <2>1, <2>2
  <2>5. Left
    BY StepCalm
  <2>6. \A v \in Workers : job'[v] \in {"none", "drop", "clean"} /\ hand'[v] \subseteq trimmed'
    BY <1>0, <2>1, <2>2, <2>3, <2>5, OthersStay DEF Left
  <2> QED
    BY <2>2, <2>3, <2>4, <2>5, <2>6 DEF Left, Copies
<1>3. CASE ~Finish(w) /\ ~Opens(w)
  <2>1. UNCHANGED <<known, trimmed>> /\ pc[w] # "idle"
    BY <1>3 DEF Opens, Step, Snapshot, FetchFails, Keep, Forget, Insert, Publish, Abort,
                Erase, Wipe, Unlist, Sweep, Swept, Takes, Parsed, history
  <2> SUFFICES ASSUME known PROVE Left'
    BY <2>1 DEF Left
  <2>2. Left
    BY StepCalm
  <2>3. job[w] \in {"drop", "clean"} /\ pc[w] \in {"erase", "sweep"}
    BY <2>1, <2>2 DEF Left, ExactInv, HandInv, HandsBusy
  <2>4. Erase(w) \/ Swept(w) \/ \E i \in Ids : Sweep(w, i)
    BY <1>3, <2>3 DEF Opens, Step, Snapshot, FetchFails, Keep, Forget, Insert, Publish, Abort,
                      Wipe, Unlist, Takes
  <2>5. /\ UNCHANGED <<listed, count>> /\ rows' \subseteq rows /\ rows \ hand[w] \subseteq rows'
        /\ job'[w] \in {job[w], "none"} /\ hand'[w] \subseteq hand[w]
    BY <1>0, <2>3, <2>4 DEF Erase, Swept, Sweep, Ends, TypeOK, copies, history
  <2>6. rows' \cup trimmed' = rows \cup trimmed
    BY <2>1, <2>2, <2>5 DEF Left
  <2>7. \A v \in Workers : job'[v] \in {"none", "drop", "clean"} /\ hand'[v] \subseteq trimmed'
    BY <1>0, <2>1, <2>2, <2>3, <2>5, OthersStay DEF Left
  <2> QED
    BY <2>1, <2>2, <2>5, <2>6, <2>7 DEF Left, Copies
<1> QED
  BY <1>1, <1>2, <1>3

\* ExactInv is inductive.
LEMMA NextExact == ExactInv /\ [Next]_vars => ExactInv'
<1> SUFFICES ASSUME ExactInv, [Next]_vars PROVE ExactInv'
  OBVIOUS
<1>1. HandInv' /\ MatchInv'
  BY NextAgrees, NextMatches DEF ExactInv
<1>2. CASE UNCHANGED vars
  BY <1>1, <1>2 DEF ExactInv, Calm, Alone, Busy, OwnWork, InPlace, Met, Filling, Left,
                    Copies, vars, copies, workVars, history
<1>3. CASE Restart
  <2>1. UNCHANGED <<rows, count, known, listed, trimmed, raced, crossed, double, lost>>
    BY <1>3 DEF Restart, history
  <2>2. /\ \A w \in Workers : /\ job'[w] = "none" /\ got'[w] = Nothing /\ left'[w] = Nothing
                              /\ old'[w] = {} /\ pc'[w] = "idle" /\ hand'[w] = {}
    BY <1>3 DEF Restart
  <2>3. Alone' /\ OwnWork'
    BY <2>2 DEF Alone, Busy, OwnWork, Filling, Nothing
  <2>4. Left => Left'
    BY <2>1, <2>2 DEF Left, Copies
  <2> QED
    BY <1>1, <2>1, <2>3, <2>4 DEF ExactInv, Calm
<1>4. ASSUME NEW w \in Workers, Step(w) PROVE ExactInv'
  <2>1. crossed' => raced'
    BY <1>4, CalmGrows DEF ExactInv, HandInv
  <2>2. ASSUME Calm' PROVE Alone' /\ Distinct(rows') /\ OwnWork' /\ Left'
    <3>1. OwnWork'
      <4>1. \A v \in Workers \ {w} :
              /\ \A k \in Keys : got'[v][k] \in 0 .. 1 /\ left'[v][k] <= got'[v][k]
              /\ old'[v] = {} /\ ~Busy(v)'
        BY <1>4, <2>2, StepCalm, OthersList DEF OwnWork, ExactInv, HandInv
      <4>2. \A v \in Workers \ {w} : ~Filling(v)' /\ job'[v] # "add" /\ pc'[v] # "fetch"
        BY <1>1, <4>1 DEF HandInv, HandsBusy, Busy, Filling
      <4>3. /\ pc'[w] = "fetch" => job'[w] = "refresh"
            /\ \A k \in Keys : left'[w][k] <= got'[w][k]
        BY <1>4, <2>2, StepFetches
      <4> QED
        BY <1>4, <2>2, <4>1, <4>2, <4>3, StepWork DEF OwnWork
    <3> QED
      BY <1>4, <2>2, <3>1, StepCalm, StepWork, StepLeft
  <2> QED
    BY <1>1, <2>1, <2>2 DEF ExactInv
<1> QED
  BY <1>2, <1>3, <1>4 DEF Next

\* Nothing is known of a subscription nobody has added.
LEMMA InitExact == Init => ExactInv
<1> SUFFICES ASSUME Init PROVE ExactInv
  OBVIOUS
<1>1. HandInv /\ MatchInv
  BY InitAgrees, InitTyped DEF MatchInv, Unmet, Unlisted, Distinct, Init
<1>2. Alone /\ Distinct(rows) /\ Left /\ ~crossed
  BY DEF Init, Alone, Busy, Distinct, Left
<1>3. OwnWork
  BY DEF Init, OwnWork, Filling, Nothing
<1> QED
  BY <1>1, <1>2, <1>3 DEF ExactInv

\* A refresh that comes to its end leaves pool, rows and proxy_count exact, whatever jobs
\* before it failed or were killed, if none overlapped, no content repeated a key and no
\* deletion failed.
THEOREM ExactAlways == Spec => []Exact
<1>1. ExactInv => Exact
  <2> SUFFICES ASSUME ExactInv, known, AllIdle, Calm
               PROVE  /\ pool = rows
                      /\ \A k \in Keys : Copies(rows \cup trimmed, k) = listed[k]
                      /\ count = Cardinality(rows \cup trimmed)
    BY DEF Exact, Calm
  <2>1. Left /\ ~crossed /\ ~lost
    BY DEF ExactInv, Calm
  <2>2. \A w \in Workers : pc[w] = "idle"
    BY DEF AllIdle, Busy, ExactInv, HandInv, HandsBusy
  <2>3. pool = rows
    BY <2>1, <2>2, HandsEmpty DEF ExactInv
  <2> QED
    BY <2>1, <2>3 DEF Left
<1> QED
  BY <1>1, InitExact, NextExact, PTL DEF Spec

=============================================================================
