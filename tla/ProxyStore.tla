----------------------------- MODULE ProxyStore -----------------------------
(***************************************************************************)
(* The client's store of proxies and subscriptions and its file            *)
(* (sing-box-zenproxy/experimental/clashapi/store.go), and the handlers    *)
(* that change it in several calls (subscription.go, remote_fetch.go,      *)
(* proxy_manage.go).  The data is guarded by a lock, one call at a time.   *)
(* Every call that changes it starts a goroutine, which later copies the   *)
(* data under the lock and then, with no lock at all, truncates and writes *)
(* the file.  The process may be killed between any two steps.             *)
(*                                                                         *)
(* Abstractions.  The proxies one call brings are one batch, so a          *)
(* subscription owns a number of batches; proxies of no subscription are   *)
(* a set of ids.  LocalPort, ProxyCount and the time stamps are left out:  *)
(* the calls that change only them just save.                              *)
(***************************************************************************)
EXTENDS Naturals, FiniteSets

CONSTANTS
  Handlers,    \* concurrent HTTP requests (a bound)
  Subs,        \* subscription ids
  Items,       \* ids of proxies added by hand or by a fetch
  Writers,     \* goroutines of save between their copy and their end (a bound)
  Nothing,     \* no subscription
  MaxPending   \* bound on the goroutines of save that have not made their copy

ASSUME StoreAssumption ==
  /\ IsFiniteSet(Handlers)
  /\ Nothing \notin Subs
  /\ MaxPending \in Nat

VARIABLES
  data,      \* ProxyStore.data
  pending,   \* how many goroutines of save have not copied the data yet
  copy,      \* the copy a writer holds
  stage,     \* where a writer is
  file,      \* store.json
  pc,        \* where each handler is
  on,        \* the subscription a handler works on
  raced,     \* history: two handlers worked on one subscription at once
  spoiled    \* history: since the last restart two saves overlapped, or one failed

saveVars == <<copy, stage, file>>
handlerVars == <<pc, on>>
vars == <<data, pending, saveVars, handlerVars, raced, spoiled>>

NoData == [subs |-> {}, owned |-> [s \in Subs |-> 0], items |-> {}]
DataType == [subs : SUBSET Subs, owned : [Subs -> 0 .. Cardinality(Handlers)],
             items : SUBSET Items]

\* The file is absent, cut to nothing, the whole of some data, or the start of one
\* write followed by the end of another.
Whole(d) == [kind |-> "whole", data |-> d]
Broken(kind) == [kind |-> kind, data |-> NoData]

\* load: anything that does not parse gives an empty store.
Load(f) == IF f.kind = "whole" THEN f.data ELSE NoData

-----------------------------------------------------------------------------
(* save and the file.                                                      *)

\* Mutant: save does nothing once the store is empty.
Save_Skipped ==
  pending < MaxPending /\ pending' = IF data' = NoData THEN pending ELSE pending + 1

\* save: the goroutine is started.
Save == pending < MaxPending /\ pending' = pending + 1

\* It copies the data under the read lock.
Copy(w) ==
  /\ pending > 0
  /\ stage[w] = "idle"
  /\ pending' = pending - 1
  /\ copy' = [copy EXCEPT ![w] = data]
  /\ stage' = [stage EXCEPT ![w] = "open"]
  /\ spoiled' = (spoiled \/ \E v \in Writers \ {w} : stage[v] # "idle")
  /\ UNCHANGED <<data, file, handlerVars, raced>>

\* os.WriteFile opens the file and truncates it ...
Truncate(w) ==
  /\ stage[w] = "open"
  /\ file' = Broken("empty")
  /\ stage' = [stage EXCEPT ![w] = "write"]
  /\ UNCHANGED <<data, pending, copy, handlerVars, raced, spoiled>>

\* ... and writes from its start.  If another goroutine wrote since, what it wrote
\* beyond the end of this write stays.
Write(w) ==
  /\ stage[w] = "write"
  /\ \/ file' = Whole(copy[w])
     \/ /\ file.kind # "empty" /\ file # Whole(copy[w])
        /\ file' = Broken("torn")
  /\ stage' = [stage EXCEPT ![w] = "idle"]
  /\ copy' = [copy EXCEPT ![w] = NoData]
  /\ UNCHANGED <<data, pending, handlerVars, raced, spoiled>>

\* A directory or a file cannot be made, or the disk is full: save logs it and ends.
FailSave(w) ==
  /\ stage[w] # "idle"
  /\ file' = file \/ (stage[w] = "write" /\ file' = Broken("torn"))
  /\ stage' = [stage EXCEPT ![w] = "idle"]
  /\ copy' = [copy EXCEPT ![w] = NoData]
  /\ spoiled' = TRUE
  /\ UNCHANGED <<data, pending, handlerVars, raced>>

\* The process is killed, and started again: load.
Restart ==
  /\ data' = Load(file)
  /\ pending' = 0
  /\ copy' = [w \in Writers |-> NoData]
  /\ stage' = [w \in Writers |-> "idle"]
  /\ pc' = [h \in Handlers |-> "idle"]
  /\ on' = [h \in Handlers |-> Nothing]
  /\ spoiled' = FALSE
  /\ UNCHANGED <<file, raced>>

-----------------------------------------------------------------------------
(* Calls to the store.                                                     *)

SaveIf(b) == IF b THEN Save ELSE UNCHANGED pending

AddSubscription(s) == data' = [data EXCEPT !.subs = @ \cup {s}] /\ Save

AddProxies(s) == data' = [data EXCEPT !.owned[s] = @ + 1] /\ Save

RemoveBySubscription(s) ==
  data' = [data EXCEPT !.owned[s] = 0] /\ SaveIf(data.owned[s] > 0)

\* Mutant: the call does not save.
RemoveSubscription_NotSaved(s) ==
  data' = [data EXCEPT !.subs = @ \ {s}] /\ UNCHANGED pending

RemoveSubscription(s) ==
  data' = [data EXCEPT !.subs = @ \ {s}] /\ SaveIf(s \in data.subs)

-----------------------------------------------------------------------------
(* The handlers.                                                           *)

Goto(h, label) == pc' = [pc EXCEPT ![h] = label] /\ UNCHANGED on
Done(h) == pc' = [pc EXCEPT ![h] = "idle"] /\ on' = [on EXCEPT ![h] = Nothing]

\* A handler turns to a subscription.
Take(h, s, label) ==
  /\ pc[h] = "idle"
  /\ pc' = [pc EXCEPT ![h] = label]
  /\ on' = [on EXCEPT ![h] = s]
  /\ raced' = (raced \/ \E g \in Handlers \ {h} : on[g] = s)

\* addSubscription, with the content fetched and parsed: a new id ...
BeginAdd(h, s) ==
  /\ s \notin data.subs /\ data.owned[s] = 0
  /\ Take(h, s, "fill")
  /\ AddSubscription(s)
  /\ UNCHANGED <<saveVars, spoiled>>

\* ... then its proxies.
FillAdd(h) ==
  /\ pc[h] = "fill"
  /\ AddProxies(on[h])
  /\ Done(h)
  /\ UNCHANGED <<saveVars, raced, spoiled>>

\* deleteSubscription and refreshSubscription find it; a refresh then fetches the new
\* content, outside any lock.
Find(h, s) ==
  /\ s \in data.subs
  /\ Take(h, s, "delete") \/ Take(h, s, "refresh")
  /\ UNCHANGED <<data, pending, saveVars, spoiled>>

\* The fetch fails, or gives no proxies: the refresh ends with an error.
FailRefresh(h) ==
  /\ pc[h] = "refresh"
  /\ Done(h)
  /\ UNCHANGED <<data, pending, saveVars, raced, spoiled>>

\* Mutant: the subscription is removed before its proxies.
DeleteProxies_After(h) ==
  /\ pc[h] = "delete"
  /\ RemoveSubscription(on[h])
  /\ Goto(h, "forget")
  /\ UNCHANGED <<saveVars, raced, spoiled>>

\* Mutant: the old proxies are kept.
DropOld_Kept(h) ==
  /\ pc[h] = "refresh"
  /\ UNCHANGED <<data, pending>>
  /\ Goto(h, "replace")
  /\ UNCHANGED <<saveVars, raced, spoiled>>

DeleteProxies(h) ==
  /\ pc[h] = "delete"
  /\ RemoveBySubscription(on[h])
  /\ Goto(h, "forget")
  /\ UNCHANGED <<saveVars, raced, spoiled>>

DeleteEntry(h) ==
  /\ pc[h] = "forget"
  /\ RemoveSubscription(on[h])
  /\ Done(h)
  /\ UNCHANGED <<saveVars, raced, spoiled>>

\* refreshSubscription: the old proxies go ...
DropOld(h) ==
  /\ pc[h] = "refresh"
  /\ RemoveBySubscription(on[h])
  /\ Goto(h, "replace")
  /\ UNCHANGED <<saveVars, raced, spoiled>>

\* ... the new ones come ...
AddNew(h) ==
  /\ pc[h] = "replace"
  /\ AddProxies(on[h])
  /\ Goto(h, "count")
  /\ UNCHANGED <<saveVars, raced, spoiled>>

\* ... and UpdateSubscription writes the count, or nothing, and saves.
UpdateCount(h) ==
  /\ pc[h] = "count"
  /\ UNCHANGED data
  /\ Save
  /\ Done(h)
  /\ UNCHANGED <<saveVars, raced, spoiled>>

\* addStoredProxy, or remoteFetch with ids of the server.
AddProxy(i) ==
  /\ data' = [data EXCEPT !.items = @ \cup {i}]
  /\ Save
  /\ UNCHANGED <<saveVars, handlerVars, raced, spoiled>>

\* deleteStoredProxy.
RemoveProxy(i) ==
  /\ i \in data.items
  /\ data' = [data EXCEPT !.items = @ \ {i}]
  /\ Save
  /\ UNCHANGED <<saveVars, handlerVars, raced, spoiled>>

\* clearStoredProxies: every proxy, no subscription.
ClearProxies ==
  /\ data' = [NoData EXCEPT !.subs = data.subs]
  /\ Save
  /\ UNCHANGED <<saveVars, handlerVars, raced, spoiled>>

\* SetLocalPort, called when a binding is created or deleted.
SetLocalPort ==
  /\ UNCHANGED data
  /\ Save
  /\ UNCHANGED <<saveVars, handlerVars, raced, spoiled>>

-----------------------------------------------------------------------------
Init ==
  /\ data = NoData
  /\ pending = 0
  /\ copy = [w \in Writers |-> NoData]
  /\ stage = [w \in Writers |-> "idle"]
  /\ file = Broken("absent")
  /\ pc = [h \in Handlers |-> "idle"]
  /\ on = [h \in Handlers |-> Nothing]
  /\ raced = FALSE
  /\ spoiled = FALSE

HandlerStep(h) ==
  \/ \E s \in Subs : BeginAdd(h, s) \/ Find(h, s)
  \/ FillAdd(h)
  \/ FailRefresh(h)
  \/ DeleteProxies(h)
  \/ DeleteEntry(h)
  \/ DropOld(h)
  \/ AddNew(h)
  \/ UpdateCount(h)

Next ==
  \/ \E h \in Handlers : HandlerStep(h)
  \/ \E i \in Items : AddProxy(i) \/ RemoveProxy(i)
  \/ ClearProxies
  \/ SetLocalPort
  \/ \E w \in Writers : Copy(w) \/ Truncate(w) \/ Write(w) \/ FailSave(w)
  \/ Restart

Spec == Init /\ [][Next]_vars

-----------------------------------------------------------------------------
(* Properties.                                                             *)

\* Every variable has its type.
TypeOK ==
  /\ data \in DataType
  /\ pending \in 0 .. MaxPending
  /\ copy \in [Writers -> DataType]
  /\ stage \in [Writers -> {"idle", "open", "write"}]
  /\ file \in [kind : {"absent", "empty", "torn", "whole"}, data : DataType]
  /\ pc \in [Handlers -> {"idle", "fill", "delete", "refresh", "forget", "replace", "count"}]
  /\ on \in [Handlers -> Subs \cup {Nothing}]
  /\ raced \in BOOLEAN
  /\ spoiled \in BOOLEAN

\* d has no proxy whose subscription is gone, and no subscription twice over.
Sound(d) == \A s \in Subs : d.owned[s] > 0 => s \in d.subs /\ d.owned[s] = 1

\* As long as no two handlers worked on one subscription at once, the data in memory, in
\* every copy and in a file that can be read is sound at every moment, so a restart
\* between any two calls of a handler finds neither orphans nor duplicates.
AlwaysSound ==
  ~raced => Sound(data) /\ Sound(Load(file)) /\ \A w \in Writers : Sound(copy[w])

Saving == pending > 0 \/ \E w \in Writers : stage[w] # "idle"

\* As long as no two saves overlapped and none failed, once every save has ended a restart
\* would bring back exactly what is in memory.
SavedAtRest == ~spoiled /\ ~Saving => Load(file) = data

Promise == INSTANCE SavedStore WITH
  Empty <- NoData, mem <- data, disk <- Load(file),
  held <- {copy[w] : w \in {v \in Writers : stage[v] # "idle"}},
  saving <- Saving, orderly <- ~spoiled

\* The store and its file implement SavedStore: no change goes without a save to come, the
\* file never gets but nothing or a copy that a save still holds, and while saves do not
\* overlap or fail copies reach it in their order, so that no save undoes a later one.
KeepsPromise == Promise!Spec
=============================================================================
