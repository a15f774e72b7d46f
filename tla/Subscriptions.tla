---------------------------- MODULE Subscriptions ----------------------------
(***************************************************************************)
(* One subscription of the server and its proxies, in the pool             *)
(* (src/src/pool/manager.rs) and in the database (src/src/db.rs): adding   *)
(* it, the smooth replacement of a refresh, by request or by the timer of  *)
(* main.rs, and its deletion (src/src/api/subscription.rs), the deletion   *)
(* of one proxy (src/src/api/admin.rs), the clean-up of failing proxies at *)
(* the end of a validation (src/src/pool/validator.rs) or by request,      *)
(* failing database calls and kills.  No lock covers a job: every call to  *)
(* the pool and every statement of the database is one step, and jobs      *)
(* interleave.                                                             *)
(*                                                                         *)
(* Abstractions.  No call for one subscription reads or writes the proxies *)
(* of another, so one stands for all.  A key is what a refresh matches by, *)
(* (server, port, proxy_type); a content is how many entries it lists for  *)
(* each key, taken in any order.  Names, configurations, verdicts, ports   *)
(* and quality data stay with the id; any proxies may have failed often    *)
(* enough for a clean-up, but no new one before the pool has it.           *)
(***************************************************************************)
EXTENDS Naturals, FiniteSets

CONSTANTS
  Workers,    \* concurrent jobs (a bound)
  Keys,       \* what identifies an entry
  Names,      \* tells proxies of one key apart (a bound on how many there are at once)
  MaxCopies   \* bound on the entries a content lists for one key

ASSUME SizesAssumption == MaxCopies \in Nat

ASSUME KeysAssumption == IsFiniteSet(Keys)

\* Ids of proxies: fresh UUIDs, and the key of the proxy with it.
Ids    == Keys \X Names
key(i) == i[1]

Contents == [Keys -> 0 .. MaxCopies]
Nothing  == [k \in Keys |-> 0]

\* The entries a content lists, and how many they are.
Entries(c) == {e \in Keys \X (1 .. MaxCopies) : e[2] <= c[e[1]]}
Total(c) == Cardinality(Entries(c))

VARIABLES
  sub,     \* database: the subscription's row, not made yet, there or deleted
  count,   \* database: its proxy_count
  rows,    \* database: the proxies of the subscription
  pool,    \* pool: the proxies of the subscription
  pc,      \* where a worker is
  job,     \* what it is doing
  got,     \* the content it fetched and parsed
  left,    \* the entries of it that are still to be gone through
  old,     \* old_map: old proxies no entry has matched yet
  hand,    \* proxies of which a worker has written one copy and not the other
  known,   \* history: a refresh or addition came to its end, and no other has begun, nor a deletion
  listed,  \* history: the content it applied
  trimmed, \* history: proxies deleted or cleaned up one by one since then
  raced,   \* history: two jobs overlapped
  crossed, \* history: deleting the subscription overlapped adding or refreshing it
  double,  \* history: a content listed a key more than once
  lost     \* history: one copy of a proxy was left: a deletion in the database failed after
           \* that in the pool, or a clean-up found different error counts in the two

copies  == <<rows, pool>>
workVars == <<pc, job, got, left, old, hand>>
history == <<known, listed, trimmed, raced, crossed, double, lost>>
vars == <<sub, count, copies, workVars, history>>

Busy(w) == job[w] # "none"
AllIdle == \A w \in Workers : ~Busy(w)
Filling(w) == job[w] \in {"add", "refresh"}

\* A job begins, one that takes the proxies of S away or, with none, another.
Begins(w, j, S) ==
  /\ ~Busy(w)
  /\ job' = [job EXCEPT ![w] = j]
  /\ known' = (known /\ j \in {"drop", "clean"})
  /\ trimmed' = IF known' THEN trimmed \cup S ELSE {}
  /\ raced' = (raced \/ \E v \in Workers \ {w} : Busy(v))
  /\ crossed' = (crossed \/ \E v \in Workers \ {w} :
                     \/ j = "delete" /\ Filling(v)
                     \/ j \in {"add", "refresh"} /\ job[v] = "delete")

Goto(w, label) == pc' = [pc EXCEPT ![w] = label]

\* A fetch was parsed; an empty result never gets here.
Parsed(w, c) ==
  /\ c # Nothing
  /\ got' = [got EXCEPT ![w] = c]
  /\ left' = [left EXCEPT ![w] = c]
  /\ double' = (double \/ \E k \in Keys : c[k] > 1)
  /\ Goto(w, "apply")

-----------------------------------------------------------------------------
(* Adding and refreshing.                                                  *)

\* add_subscription, after the fetch: the row of the subscription.
Add(w, c) ==
  /\ sub = "unborn"
  /\ Begins(w, "add", {})
  /\ Parsed(w, c)
  /\ sub' = "live"
  /\ count' = Total(c)
  /\ UNCHANGED <<copies, old, hand, listed, lost>>

\* refresh_subscription or refresh_all_subscriptions reads the row, and fetches.
Refresh(w) ==
  /\ sub = "live"
  /\ Begins(w, "refresh", {})
  /\ Goto(w, "fetch")
  /\ UNCHANGED <<sub, count, copies, got, left, old, hand, listed, double, lost>>

\* The job returns an error or its answer.
Ends(w) ==
  /\ Goto(w, "idle")
  /\ job' = [job EXCEPT ![w] = "none"]
  /\ got' = [got EXCEPT ![w] = Nothing]
  /\ left' = [left EXCEPT ![w] = Nothing]
  /\ old' = [old EXCEPT ![w] = {}]

\* The fetch fails, or no proxy could be parsed.
FetchFails(w) ==
  /\ pc[w] = "fetch"
  /\ Ends(w)
  /\ UNCHANGED <<sub, count, copies, hand, history>>

\* Mutant: the map holds every old proxy, also two of one key.
Distinct_Not(S) == TRUE

\* The values of a map by key: of several with one key, it keeps one.
Distinct(S) == \A i, j \in S : key(i) = key(j) => i = j

\* old_map: the proxies of the subscription, by key.
Snapshot(w, c) ==
  /\ pc[w] = "fetch"
  /\ Parsed(w, c)
  /\ \E S \in SUBSET pool :
       /\ Distinct(S)
       /\ {key(i) : i \in S} = {key(i) : i \in pool}
       /\ old' = [old EXCEPT ![w] = S]
  /\ UNCHANGED <<sub, count, copies, job, hand, known, listed, trimmed, raced, crossed, lost>>

\* Mutant: the loop goes on past the last entry.
Takes_TooMany(w, k) ==
  /\ pc[w] = "apply"
  /\ left' = [left EXCEPT ![w][k] = @ - 1]

\* The next entry of the list.
Takes(w, k) ==
  /\ pc[w] = "apply"
  /\ left[w][k] > 0
  /\ left' = [left EXCEPT ![w][k] = @ - 1]

\* Mutant: the match stays in the map.
Keep_InMap(w, i) ==
  /\ i \in old[w]
  /\ Takes(w, key(i))
  /\ UNCHANGED <<sub, count, copies, pc, job, got, old, hand, history>>

\* An entry matches an old proxy: new configuration, same id.
Keep(w, i) ==
  /\ i \in old[w]
  /\ Takes(w, key(i))
  /\ old' = [old EXCEPT ![w] = @ \ {i}]
  /\ UNCHANGED <<sub, count, copies, pc, job, got, hand, history>>

Fresh(i) == i \notin rows \cup pool \cup UNION {old[w] \cup hand[w] : w \in Workers}

\* An entry that matches none: a row for a new proxy ...
Insert(w, k, i) ==
  /\ Takes(w, k)
  /\ \A j \in old[w] : key(j) # k
  /\ key(i) = k /\ Fresh(i)
  /\ rows' = rows \cup {i}
  /\ hand' = [hand EXCEPT ![w] = {i}]
  /\ Goto(w, "publish")
  /\ UNCHANGED <<sub, count, pool, job, got, old, history>>

\* ... and its entry in the pool.
Publish(w) ==
  /\ pc[w] = "publish"
  /\ pool' = pool \cup hand[w]
  /\ hand' = [hand EXCEPT ![w] = {}]
  /\ Goto(w, "apply")
  /\ UNCHANGED <<sub, count, rows, job, got, left, old, history>>

\* update_proxy_config, insert_proxy or, at the end of a refresh, the update of proxy_count
\* fails: the job ends where it is.
Abort(w) ==
  /\ pc[w] = "apply"
  /\ left[w] # Nothing \/ (job[w] = "refresh" /\ old[w] = {})
  /\ Ends(w)
  /\ UNCHANGED <<sub, count, copies, hand, history>>

\* All entries are done: the old proxies that matched none leave the pool ...
Forget(w, i) ==
  /\ pc[w] = "apply"
  /\ left[w] = Nothing
  /\ i \in old[w]
  /\ old' = [old EXCEPT ![w] = @ \ {i}]
  /\ pool' = pool \ {i}
  /\ hand' = [hand EXCEPT ![w] = {i}]
  /\ Goto(w, "erase")
  /\ UNCHANGED <<sub, count, rows, job, got, left, history>>

\* ... and the database; a failure there is ignored.  Also the second half of delete_proxy.
Erase(w) ==
  /\ pc[w] = "erase"
  /\ \/ rows' = rows \ hand[w] /\ UNCHANGED lost
     \/ lost' = TRUE /\ UNCHANGED rows
  /\ hand' = [hand EXCEPT ![w] = {}]
  /\ IF job[w] = "drop"
     THEN Ends(w)
     ELSE Goto(w, "apply") /\ UNCHANGED <<job, got, left, old>>
  /\ UNCHANGED <<sub, count, pool, known, listed, trimmed, raced, crossed, double>>

\* The end: a refresh updates proxy_count, if the subscription is still there.
Finish(w) ==
  /\ pc[w] = "apply"
  /\ left[w] = Nothing /\ old[w] = {}
  /\ count' = IF job[w] = "refresh" /\ sub = "live" THEN Total(got[w]) ELSE count
  /\ known' = TRUE
  /\ listed' = got[w]
  /\ trimmed' = {}
  /\ Ends(w)
  /\ UNCHANGED <<sub, copies, hand, raced, crossed, double, lost>>

-----------------------------------------------------------------------------
(* Deleting.                                                               *)

\* delete_subscription empties the pool ...
Delete(w) ==
  /\ sub # "unborn"
  /\ Begins(w, "delete", {})
  /\ pool' = {}
  /\ Goto(w, "wipe")
  /\ UNCHANGED <<sub, count, rows, got, left, old, hand, listed, double, lost>>

\* Mutant: the row of the subscription goes first.
Wipe_SubFirst(w) ==
  /\ pc[w] = "wipe"
  /\ sub' = "gone" /\ count' = 0
  /\ Goto(w, "unlist")
  /\ UNCHANGED <<copies, job, got, left, old, hand, history>>

\* ... then the database, under its lock but without a transaction: the rows of the
\* proxies, unless that fails ...
Wipe(w) ==
  /\ pc[w] = "wipe"
  /\ \/ rows' = {} /\ Goto(w, "unlist") /\ UNCHANGED <<job, got, left, old, lost>>
     \/ lost' = TRUE /\ Ends(w) /\ UNCHANGED rows
  /\ UNCHANGED <<sub, count, pool, hand, known, listed, trimmed, raced, crossed, double>>

\* ... and its own, unless that does.
Unlist(w) ==
  /\ pc[w] = "unlist"
  /\ \/ sub' = "gone" /\ count' = 0
     \/ UNCHANGED <<sub, count>>
  /\ Ends(w)
  /\ UNCHANGED <<copies, hand, history>>

\* delete_proxy: the pool first.
Drop(w, i) ==
  /\ i \in pool
  /\ Begins(w, "drop", {i})
  /\ pool' = pool \ {i}
  /\ hand' = [hand EXCEPT ![w] = {i}]
  /\ Goto(w, "erase")
  /\ UNCHANGED <<sub, count, rows, got, left, old, listed, double, lost>>

\* Proxies that are new: no request and no check has met them yet.
New == UNION {hand[w] : w \in {v \in Workers : pc[v] = "publish"}}

\* cleanup_high_error_proxies: the database first, by its own counts.
Clean(w, S) ==
  /\ S \subseteq rows \ New
  /\ Begins(w, "clean", S)
  /\ rows' = rows \ S
  /\ hand' = [hand EXCEPT ![w] = S]
  /\ Goto(w, "sweep")
  /\ UNCHANGED <<sub, count, pool, got, left, old, listed, double, lost>>

\* The pool follows, one proxy after the other, by the counts it has: they may tell it of
\* another proxy than the database ...
Sweep(w, i) ==
  /\ pc[w] = "sweep"
  /\ i \in pool
  /\ pool' = pool \ {i}
  /\ hand' = [hand EXCEPT ![w] = @ \ {i}]
  /\ lost' = (lost \/ i \notin hand[w])
  /\ UNCHANGED <<sub, count, rows, pc, job, got, left, old, known, listed, trimmed, raced, crossed, double>>

\* Mutant: the pool keeps what the clean-up took from the database.
Swept_Kept(w) ==
  /\ pc[w] = "sweep"
  /\ hand' = [hand EXCEPT ![w] = {}]
  /\ Ends(w)
  /\ UNCHANGED <<sub, count, copies, history>>

\* ... or not of all.
Swept(w) ==
  /\ pc[w] = "sweep"
  /\ hand' = [hand EXCEPT ![w] = {}]
  /\ lost' = (lost \/ hand[w] \cap pool # {})
  /\ Ends(w)
  /\ UNCHANGED <<sub, count, copies, known, listed, trimmed, raced, crossed, double>>

\* The process is killed, and starts with the pool the database has.
Restart ==
  /\ pc' = [w \in Workers |-> "idle"]
  /\ job' = [w \in Workers |-> "none"]
  /\ got' = [w \in Workers |-> Nothing]
  /\ left' = [w \in Workers |-> Nothing]
  /\ old' = [w \in Workers |-> {}]
  /\ hand' = [w \in Workers |-> {}]
  /\ pool' = rows
  /\ UNCHANGED <<sub, count, rows, history>>

-----------------------------------------------------------------------------
Init ==
  /\ sub = "unborn"
  /\ count = 0
  /\ rows = {}
  /\ pool = {}
  /\ pc = [w \in Workers |-> "idle"]
  /\ job = [w \in Workers |-> "none"]
  /\ got = [w \in Workers |-> Nothing]
  /\ left = [w \in Workers |-> Nothing]
  /\ old = [w \in Workers |-> {}]
  /\ hand = [w \in Workers |-> {}]
  /\ known = FALSE
  /\ listed = Nothing
  /\ trimmed = {}
  /\ raced = FALSE
  /\ crossed = FALSE
  /\ double = FALSE
  /\ lost = FALSE

Step(w) ==
  \/ \E c \in Contents : Add(w, c) \/ Snapshot(w, c)
  \/ Refresh(w)
  \/ FetchFails(w)
  \/ \E i \in Ids : Keep(w, i) \/ Forget(w, i) \/ Drop(w, i) \/ Sweep(w, i)
  \/ \E k \in Keys, i \in Ids : Insert(w, k, i)
  \/ Publish(w)
  \/ Abort(w)
  \/ Erase(w)
  \/ Finish(w)
  \/ Delete(w)
  \/ Wipe(w)
  \/ Unlist(w)
  \/ \E S \in SUBSET rows : Clean(w, S)
  \/ Swept(w)

Next == Restart \/ \E w \in Workers : Step(w)

Spec == Init /\ [][Next]_vars

-----------------------------------------------------------------------------
(* Properties.                                                             *)

Jobs   == {"none", "add", "refresh", "delete", "drop", "clean"}
Labels == {"idle", "fetch", "apply", "publish", "erase", "wipe", "unlist", "sweep"}

\* Every variable has its type.
TypeOK ==
  /\ sub \in {"unborn", "live", "gone"}
  /\ count \in {Total(c) : c \in Contents} \cup {0}
  /\ rows \in SUBSET Ids
  /\ pool \in SUBSET Ids
  /\ pc \in [Workers -> Labels]
  /\ job \in [Workers -> Jobs]
  /\ got \in [Workers -> Contents]
  /\ left \in [Workers -> Contents]
  /\ old \in [Workers -> SUBSET Ids]
  /\ hand \in [Workers -> SUBSET Ids]
  /\ listed \in Contents
  /\ trimmed \in SUBSET Ids
  /\ {known, raced, crossed, double, lost} \subseteq BOOLEAN

InHand == UNION {hand[w] : w \in Workers}

\* Refreshes, additions, clean-ups and deletions of single proxies may overlap, fail half-way
\* and be killed: as long as deleting the subscription overlapped no refresh, and neither a
\* failing deletion nor different counts left one copy of a proxy, what only the pool or
\* only the database has is in some job's hands.
CopiesAgree ==
  ~crossed /\ ~lost =>
    /\ pool \ rows \subseteq InHand
    /\ \/ rows \ pool \subseteq InHand
       \/ \E w \in Workers : pc[w] = "wipe"

\* Under the first condition a subscription that is gone has no rows, and none before it
\* is there, wherever its deletion stops: no foreign key ties the rows to it.
NoOrphans == ~crossed => (rows # {} => sub = "live")

Copies(S, k) == Cardinality({i \in S : key(i) = k})

\* After a refresh that came to its end, and if no jobs have overlapped, no content listed
\* a key twice and no copy was left, pool and database hold exactly the proxies of its
\* content but those deleted or cleaned up since, and proxy_count, which knows nothing of
\* these, is the number of all, whatever failed or was killed before or after it.
Exact ==
  known /\ AllIdle /\ ~raced /\ ~double /\ ~lost =>
    /\ pool = rows
    /\ \A k \in Keys : Copies(rows \cup trimmed, k) = listed[k]
    /\ count = Cardinality(rows \cup trimmed)

\* "Only old proxies that have vanished are deleted" (README.md:335): a proxy loses its row
\* by a deletion, a clean-up, or a refresh whose content has no entry of its key, also when
\* jobs overlap and contents list a key twice.
ListedStay ==
  [][\A i \in rows \ rows' : \E w \in Workers :
       \/ pc[w] = "wipe"
       \/ i \in hand'[w] /\ job'[w] = "clean"
       \/ i \in hand[w] /\ (job[w] = "drop" \/ got[w][key(i)] = 0)]_vars

\* "Only then remove old proxies that no longer appear in the new list" (src/src/api/
\* subscription.rs:179): after a refresh that nothing overlapped, no proxy is left of a key
\* its content does not list.
OldOnesGo ==
  known /\ AllIdle /\ ~raced /\ ~lost =>
    \A i \in pool : listed[key(i)] > 0
=============================================================================
