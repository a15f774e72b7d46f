-------------------------- MODULE ProxyStoreProofs --------------------------
(***************************************************************************)
(* Proofs about ProxyStore, for any number of handlers, subscriptions,     *)
(* proxies, writers and pending saves.                                     *)
(***************************************************************************)
EXTENDS ProxyStore, FiniteSetTheorems, TLAPS

\* The handlers that are about to add a batch to s.
Adders(s) == {h \in Handlers : on[h] = s /\ pc[h] \in {"fill", "replace"}}

\* Between idle and done a handler has its subscription, and each handler adds one batch
\* after the last removal.
HandlerInv ==
  /\ \A h \in Handlers : pc[h] = "idle" <=> on[h] = Nothing
  /\ \A s \in Subs : data.owned[s] + Cardinality(Adders(s)) <= Cardinality(Handlers)

TypeInv == TypeOK /\ HandlerInv

\* The handlers are finitely many, and no set of them has more.
LEMMA AddersBounded ==
  /\ Cardinality(Handlers) \in Nat
  /\ \A S \in SUBSET Handlers :
       /\ IsFiniteSet(S) /\ Cardinality(S) \in Nat /\ Cardinality(S) <= Cardinality(Handlers)
       /\ \A h \in S : Cardinality(S \ {h}) = Cardinality(S) - 1
       /\ \A T \in SUBSET S : Cardinality(T) <= Cardinality(S)
BY StoreAssumption, FS_CardinalityType, FS_Subset, FS_RemoveElement

\* An empty store is of its type.
LEMMA NoDataTyped == NoData \in DataType /\ NoData.subs = {} /\ \A s \in Subs : NoData.owned[s] = 0
BY AddersBounded DEF NoData, DataType

\* What the calls do to the data: none but AddProxies adds a batch.
LEMMA CallsTyped ==
  ASSUME NEW d \in DataType
  PROVE  /\ \A s \in Subs : d.owned[s] \in Nat /\ d.owned[s] <= d.owned[s]
         /\ \A S \in SUBSET Subs : [d EXCEPT !.subs = S] \in DataType
         /\ \A S \in SUBSET Items : [d EXCEPT !.items = S] \in DataType
         /\ \A s \in Subs :
              /\ [d EXCEPT !.owned[s] = 0] \in DataType
              /\ \A t \in Subs :
                   [d EXCEPT !.owned[s] = 0].owned[t] = IF t = s THEN 0 ELSE d.owned[t]
              /\ \A t \in Subs :
                   [d EXCEPT !.owned[s] = @ + 1].owned[t] = d.owned[t] + (IF t = s THEN 1 ELSE 0)
BY AddersBounded DEF DataType

\* Every call that saves does so within the bound.
LEMMA SaveTyped == pending \in 0 .. MaxPending /\ Save => pending' \in 0 .. MaxPending
BY StoreAssumption DEF Save

\* A call that adds no handler to those about to add, and no batch, keeps the bound.
LEMMA AddersShrink ==
  ASSUME TypeInv, data' \in DataType,
         \A s \in Subs : Adders(s)' \subseteq Adders(s) /\ data'.owned[s] <= data.owned[s]
  PROVE  \A s \in Subs : data'.owned[s] + Cardinality(Adders(s)') <= Cardinality(Handlers)
<1> SUFFICES ASSUME NEW s \in Subs
             PROVE  data'.owned[s] + Cardinality(Adders(s)') <= Cardinality(Handlers)
  OBVIOUS
<1>1. Adders(s) \in SUBSET Handlers /\ Adders(s)' \in SUBSET Adders(s)
  BY DEF Adders
<1>2. /\ data.owned[s] \in Nat /\ data'.owned[s] \in Nat /\ data'.owned[s] <= data.owned[s]
      /\ data.owned[s] + Cardinality(Adders(s)) <= Cardinality(Handlers)
  BY AddersBounded DEF TypeInv, TypeOK, HandlerInv, DataType
<1> QED
  BY <1>1, <1>2, AddersBounded

\* Taking a new subscription, or an existing one.
LEMMA TakeTyped ==
  ASSUME TypeInv, NEW h \in Handlers, NEW s \in Subs,
         NEW label \in {"fill", "delete", "refresh"}, Take(h, s, label)
  PROVE  /\ pc' \in [Handlers -> {"idle", "fill", "delete", "refresh", "forget", "replace", "count"}]
         /\ on' \in [Handlers -> Subs \cup {Nothing}]
         /\ raced' \in BOOLEAN
         /\ \A g \in Handlers : pc'[g] = "idle" <=> on'[g] = Nothing
         /\ \A t \in Subs : Adders(t)' \subseteq Adders(t) \cup (IF t = s THEN {h} ELSE {})
         /\ label # "fill" => \A t \in Subs : Adders(t)' \subseteq Adders(t)
BY StoreAssumption DEF TypeInv, TypeOK, HandlerInv, Take, Adders

\* Every handler step keeps the types.
LEMMA HandlerTyped ==
  ASSUME TypeInv, NEW h \in Handlers, HandlerStep(h)
  PROVE  TypeInv'
<1> USE DEF TypeInv, TypeOK, saveVars
<1>1. ASSUME NEW s \in Subs, BeginAdd(h, s) PROVE TypeInv'
  <2>1. data' \in DataType /\ data'.owned = data.owned
    BY <1>1 DEF BeginAdd, AddSubscription, DataType
  <2>2. Take(h, s, "fill") /\ data.owned[s] = 0
    BY <1>1 DEF BeginAdd
  <2>3. \A t \in Subs : data'.owned[t] + Cardinality(Adders(t)') <= Cardinality(Handlers)
    <3> SUFFICES ASSUME NEW t \in Subs
                 PROVE  data'.owned[t] + Cardinality(Adders(t)') <= Cardinality(Handlers)
      OBVIOUS
    <3>1. Adders(t)' \in SUBSET Handlers /\ Adders(t) \in SUBSET Handlers
      BY DEF Adders
    <3>2. data.owned[t] \in Nat /\ data.owned[t] + Cardinality(Adders(t)) <= Cardinality(Handlers)
      BY AddersBounded DEF DataType, HandlerInv
    <3>3. CASE t = s
      BY <2>1, <2>2, <3>1, <3>3, AddersBounded
    <3>4. CASE t # s
      <4>1. Adders(t)' \in SUBSET Adders(t)
        BY <2>2, <3>4, TakeTyped
      <4> QED
        BY <2>1, <3>1, <3>2, <4>1, AddersBounded
    <3> QED
      BY <3>3, <3>4
  <2>4. /\ pc' \in [Handlers -> {"idle", "fill", "delete", "refresh", "forget", "replace", "count"}]
        /\ on' \in [Handlers -> Subs \cup {Nothing}]
        /\ raced' \in BOOLEAN
        /\ \A g \in Handlers : pc'[g] = "idle" <=> on'[g] = Nothing
    BY <2>2, TakeTyped
  <2>5. pending' \in 0 .. MaxPending /\ UNCHANGED <<saveVars, spoiled>>
    BY <1>1, SaveTyped DEF BeginAdd, AddSubscription
  <2> QED
    BY <2>1, <2>3, <2>4, <2>5 DEF HandlerInv
<1>2. ASSUME NEW s \in Subs, Find(h, s) PROVE TypeInv'
  <2>1. Take(h, s, "delete") \/ Take(h, s, "refresh")
    BY <1>2 DEF Find
  <2>2. /\ pc' \in [Handlers -> {"idle", "fill", "delete", "refresh", "forget", "replace", "count"}]
        /\ on' \in [Handlers -> Subs \cup {Nothing}]
        /\ raced' \in BOOLEAN
        /\ \A g \in Handlers : pc'[g] = "idle" <=> on'[g] = Nothing
        /\ \A t \in Subs : Adders(t)' \subseteq Adders(t)
    BY <2>1, TakeTyped
  <2>3. UNCHANGED <<data, pending, saveVars, spoiled>>
    BY <1>2 DEF Find
  <2>4. \A t \in Subs : data'.owned[t] <= data.owned[t]
    BY <2>3, AddersBounded DEF DataType
  <2>5. HandlerInv'
    BY <2>2, <2>3, <2>4, AddersShrink DEF HandlerInv
  <2> QED
    BY <2>2, <2>3, <2>5
<1>3. ASSUME FailRefresh(h) \/ DeleteProxies(h) \/ DeleteEntry(h) \/ DropOld(h) \/ UpdateCount(h)
      PROVE  TypeInv'
  <2>1. /\ data' \in DataType /\ \A t \in Subs : data'.owned[t] <= data.owned[t]
        /\ pending' \in 0 .. MaxPending
        /\ UNCHANGED <<copy, stage, file, raced, spoiled>>
    <3>1. on[h] \in Subs
      BY <1>3 DEF FailRefresh, DeleteProxies, DeleteEntry, DropOld, UpdateCount, HandlerInv
    <3>2. data.subs \in SUBSET Subs
      BY DEF DataType
    <3>3. \/ data' = data
          \/ data' = [data EXCEPT !.owned[on[h]] = 0]
          \/ data' = [data EXCEPT !.subs = @ \ {on[h]}]
      BY <1>3
      DEF FailRefresh, DeleteProxies, DeleteEntry, DropOld, UpdateCount, RemoveBySubscription,
          RemoveSubscription
    <3>4. data' \in DataType /\ \A t \in Subs : data'.owned[t] <= data.owned[t]
      <4>1. CASE data' = data
        BY <4>1, CallsTyped
      <4>2. CASE data' = [data EXCEPT !.owned[on[h]] = 0]
        <5>1. /\ data' \in DataType
              /\ \A t \in Subs : data'.owned[t] = IF t = on[h] THEN 0 ELSE data.owned[t]
          BY ONLY data \in DataType, <3>1, <4>2, CallsTyped
        <5>2. \A t \in Subs : data.owned[t] \in Nat
          BY ONLY data \in DataType, CallsTyped
        <5> QED
          BY ONLY <5>1, <5>2
      <4>3. CASE data' = [data EXCEPT !.subs = @ \ {on[h]}]
        <5>1. data'.owned = data.owned
          BY <4>3 DEF DataType
        <5> QED
          BY <3>2, <4>3, <5>1, CallsTyped
      <4> QED
        BY <3>3, <4>1, <4>2, <4>3
    <3>5. UNCHANGED pending \/ Save
      BY <1>3
      DEF FailRefresh, DeleteProxies, DeleteEntry, DropOld, UpdateCount, RemoveBySubscription,
          RemoveSubscription, SaveIf
    <3>6. UNCHANGED <<copy, stage, file, raced, spoiled>>
      BY <1>3 DEF FailRefresh, DeleteProxies, DeleteEntry, DropOld, UpdateCount
    <3> QED
      BY <3>4, <3>5, <3>6, SaveTyped
  <2>2. /\ pc' \in [Handlers -> {"idle", "fill", "delete", "refresh", "forget", "replace", "count"}]
        /\ on' \in [Handlers -> Subs \cup {Nothing}]
        /\ \A g \in Handlers : pc'[g] = "idle" <=> on'[g] = Nothing
    BY <1>3, StoreAssumption
    DEF FailRefresh, DeleteProxies, DeleteEntry, DropOld, UpdateCount, Goto, Done, HandlerInv
  <2>3. CASE ~DropOld(h)
    <3>1. \A t \in Subs : Adders(t)' \subseteq Adders(t)
      BY <1>3, <2>3, StoreAssumption
      DEF FailRefresh, DeleteProxies, DeleteEntry, UpdateCount, Goto, Done, Adders
    <3> QED
      BY <2>1, <2>2, <3>1, AddersShrink DEF HandlerInv
  <2>4. CASE DropOld(h)
    <3>1. on[h] \in Subs /\ UNCHANGED on
      BY <2>4 DEF DropOld, Goto, HandlerInv
    <3>2. data'.owned = [data.owned EXCEPT ![on[h]] = 0]
      BY <2>4 DEF DropOld, RemoveBySubscription, DataType
    <3>3. \A t \in Subs : data'.owned[t] + Cardinality(Adders(t)') <= Cardinality(Handlers)
      <4> SUFFICES ASSUME NEW t \in Subs
                   PROVE  data'.owned[t] + Cardinality(Adders(t)') <= Cardinality(Handlers)
        OBVIOUS
      <4>1. Adders(t)' \in SUBSET Handlers /\ Adders(t) \in SUBSET Handlers
        BY DEF Adders
      <4>2. data.owned[t] \in Nat /\ data.owned[t] + Cardinality(Adders(t)) <= Cardinality(Handlers)
        BY AddersBounded DEF DataType, HandlerInv
      <4>3. CASE t = on[h]
        <5>1. data'.owned[t] = 0
          BY <3>1, <3>2, <4>3 DEF DataType
        <5> QED
          BY <4>1, <5>1, AddersBounded
      <4>4. CASE t # on[h]
        <5>1. data'.owned[t] = data.owned[t]
          BY <3>1, <3>2, <4>4 DEF DataType
        <5>2. Adders(t)' \in SUBSET Adders(t)
          BY <2>4, <4>4 DEF DropOld, Goto, Adders
        <5> QED
          BY <4>1, <4>2, <5>1, <5>2, AddersBounded
      <4> QED
        BY <4>3, <4>4
    <3> QED
      BY <2>1, <2>2, <3>3 DEF HandlerInv
  <2> QED
    BY <2>3, <2>4
<1>4. ASSUME FillAdd(h) \/ AddNew(h) PROVE TypeInv'
  <2>1. /\ on[h] \in Subs /\ pc[h] \in {"fill", "replace"}
        /\ data' = [data EXCEPT !.owned[on[h]] = @ + 1]
        /\ pending' \in 0 .. MaxPending
        /\ UNCHANGED <<copy, stage, file, raced, spoiled>>
    BY <1>4, StoreAssumption DEF FillAdd, AddNew, AddProxies, Save, HandlerInv
  <2>2. /\ pc' \in [Handlers -> {"idle", "fill", "delete", "refresh", "forget", "replace", "count"}]
        /\ on' \in [Handlers -> Subs \cup {Nothing}]
        /\ \A g \in Handlers : pc'[g] = "idle" <=> on'[g] = Nothing
    BY <1>4, StoreAssumption DEF FillAdd, AddNew, Goto, Done, HandlerInv
  <2>3. \A t \in Subs :
          /\ data.owned[t] \in Nat /\ data.owned[t] + Cardinality(Adders(t)) <= Cardinality(Handlers)
          /\ data'.owned[t] = data.owned[t] + (IF t = on[h] THEN 1 ELSE 0)
    BY <2>1, AddersBounded DEF DataType, HandlerInv
  <2>4. \A t \in Subs : data'.owned[t] + Cardinality(Adders(t)') <= Cardinality(Handlers)
    <3> SUFFICES ASSUME NEW t \in Subs
                 PROVE  data'.owned[t] + Cardinality(Adders(t)') <= Cardinality(Handlers)
      OBVIOUS
    <3>1. Adders(t) \in SUBSET Handlers /\ Adders(t)' \subseteq Adders(t) \ {h}
      BY <1>4, StoreAssumption DEF FillAdd, AddNew, Goto, Done, Adders
    <3>2. Cardinality(Adders(t)') <= Cardinality(Adders(t) \ {h})
      BY <3>1, AddersBounded
    <3>3. /\ Cardinality(Adders(t)') \in Nat /\ Cardinality(Adders(t)) \in Nat
          /\ Cardinality(Adders(t) \ {h}) <= Cardinality(Adders(t))
      BY <3>1, AddersBounded
    <3>4. t = on[h] => Cardinality(Adders(t) \ {h}) = Cardinality(Adders(t)) - 1
      BY <2>1, <3>1, AddersBounded DEF Adders
    <3>5. Cardinality(Adders(t) \ {h}) \in Nat
      BY <3>1, AddersBounded
    <3> QED
      BY <2>3, <3>2, <3>3, <3>4, <3>5, AddersBounded
  <2>5. data' \in DataType
    <3>1. \A t \in Subs : data'.owned[t] \in 0 .. Cardinality(Handlers)
      <4> SUFFICES ASSUME NEW t \in Subs PROVE data'.owned[t] \in 0 .. Cardinality(Handlers)
        OBVIOUS
      <4>1. Adders(t)' \in SUBSET Handlers
        BY DEF Adders
      <4> QED
        BY <2>3, <2>4, <4>1, AddersBounded
    <3> QED
      BY <2>1, <3>1 DEF DataType
  <2> QED
    BY <2>1, <2>2, <2>4, <2>5 DEF HandlerInv
<1> QED
  BY <1>1, <1>2, <1>3, <1>4 DEF HandlerStep

\* A change of the data and the saves only.
LEMMA QuietTyped ==
  ASSUME TypeInv, data' \in DataType, \A s \in Subs : data'.owned[s] <= data.owned[s],
         UNCHANGED handlerVars
  PROVE  HandlerInv'
<1>1. \A s \in Subs : Adders(s)' \subseteq Adders(s)
  BY DEF handlerVars, Adders
<1> QED
  BY <1>1, AddersShrink DEF TypeInv, HandlerInv, handlerVars

\* Every step keeps the types.
LEMMA NextTyped == TypeInv /\ [Next]_vars => TypeInv'
<1> SUFFICES ASSUME TypeInv, [Next]_vars PROVE TypeInv'
  OBVIOUS
<1> USE DEF TypeInv, TypeOK
<1>1. ASSUME NEW h \in Handlers, HandlerStep(h) PROVE TypeInv'
  BY <1>1, HandlerTyped
<1>2. ASSUME (\E i \in Items : AddProxy(i) \/ RemoveProxy(i)) \/ ClearProxies \/ SetLocalPort
      PROVE  TypeInv'
  <2>1. /\ data' \in DataType /\ (\A s \in Subs : data'.owned[s] <= data.owned[s])
        /\ pending' \in 0 .. MaxPending
        /\ UNCHANGED <<saveVars, handlerVars, raced, spoiled>>
    <3>1. data.subs \in SUBSET Subs /\ data.items \in SUBSET Items
      BY DEF DataType
    <3>2. \/ data' = data
          \/ \E S \in SUBSET Items : data' = [data EXCEPT !.items = S]
          \/ data' = [NoData EXCEPT !.subs = data.subs]
      BY <1>2, <3>1 DEF AddProxy, RemoveProxy, ClearProxies, SetLocalPort
    <3>3. data' \in DataType /\ \A s \in Subs : data'.owned[s] <= data.owned[s]
      <4>1. CASE data' = data
        BY <4>1, CallsTyped
      <4>2. CASE \E S \in SUBSET Items : data' = [data EXCEPT !.items = S]
        <5>1. data'.owned = data.owned
          BY <4>2 DEF DataType
        <5>2. \A s \in Subs : data'.owned[s] <= data.owned[s]
          BY <5>1, CallsTyped
        <5>3. PICK S \in SUBSET Items : data' = [data EXCEPT !.items = S]
          BY <4>2
        <5>4. data' \in DataType
          BY <5>3, CallsTyped
        <5> QED
          BY <5>2, <5>4
      <4>3. CASE data' = [NoData EXCEPT !.subs = data.subs]
        <5>1. data'.owned = NoData.owned
          BY <4>3 DEF NoData
        <5>2. \A s \in Subs : data'.owned[s] = 0 /\ data.owned[s] \in Nat
          BY <5>1, NoDataTyped, CallsTyped
        <5>3. data' \in DataType
          BY <3>1, <4>3, NoDataTyped, CallsTyped
        <5> QED
          BY <5>2, <5>3
      <4> QED
        BY <3>2, <4>1, <4>2, <4>3
    <3>4. Save /\ UNCHANGED <<saveVars, handlerVars, raced, spoiled>>
      BY <1>2 DEF AddProxy, RemoveProxy, ClearProxies, SetLocalPort
    <3> QED
      BY <3>3, <3>4, SaveTyped
  <2> QED
    BY <2>1, QuietTyped DEF saveVars, handlerVars
<1>3. ASSUME NEW w \in Writers, Copy(w) \/ Truncate(w) \/ Write(w) \/ FailSave(w) PROVE TypeInv'
  <2>1. data' = data /\ UNCHANGED <<handlerVars, raced>> /\ spoiled' \in BOOLEAN
    BY <1>3 DEF Copy, Truncate, Write, FailSave
  <2>2. /\ pending' \in 0 .. MaxPending
        /\ copy' \in [Writers -> DataType]
        /\ stage' \in [Writers -> {"idle", "open", "write"}]
    BY <1>3, NoDataTyped, StoreAssumption DEF Copy, Truncate, Write, FailSave
  <2>3. file' \in [kind : {"absent", "empty", "torn", "whole"}, data : DataType]
    BY <1>3, NoDataTyped DEF Copy, Truncate, Write, FailSave, Whole, Broken
  <2>4. \A s \in Subs : data'.owned[s] <= data.owned[s]
    BY <2>1, AddersBounded DEF DataType
  <2> QED
    BY <2>1, <2>2, <2>3, <2>4, QuietTyped DEF handlerVars
<1>4. CASE Restart
  <2>1. data' \in DataType
    BY <1>4, NoDataTyped DEF Restart, Load
  <2>2. \A s \in Subs : Adders(s)' = {}
    BY <1>4 DEF Restart, Adders
  <2>3. \A s \in Subs : data'.owned[s] + Cardinality(Adders(s)') <= Cardinality(Handlers)
    BY <2>1, <2>2, AddersBounded, FS_EmptySet DEF DataType
  <2>4. /\ pending' \in 0 .. MaxPending
        /\ copy' \in [Writers -> DataType]
        /\ stage' \in [Writers -> {"idle", "open", "write"}]
        /\ file' = file
    <3>1. /\ pending' = 0 /\ file' = file
          /\ copy' = [w \in Writers |-> NoData]
          /\ stage' = [w \in Writers |-> "idle"]
      BY <1>4 DEF Restart
    <3> QED
      BY <3>1, NoDataTyped, StoreAssumption
  <2>5. spoiled' = FALSE /\ raced' = raced
    BY <1>4 DEF Restart
  <2>6. /\ pc' = [h \in Handlers |-> "idle"] /\ on' = [h \in Handlers |-> Nothing]
    BY <1>4 DEF Restart
  <2>7. /\ pc' \in [Handlers -> {"idle", "fill", "delete", "refresh", "forget", "replace", "count"}]
        /\ on' \in [Handlers -> Subs \cup {Nothing}]
    BY <2>6
  <2>8. TypeOK'
    BY <2>1, <2>4, <2>7, <2>5
  <2>9. HandlerInv'
    BY <2>3, <2>6 DEF HandlerInv
  <2> QED
    BY <2>8, <2>9
<1>5. CASE UNCHANGED vars
  <2>1. \A s \in Subs : data'.owned[s] <= data.owned[s]
    BY <1>5, AddersBounded DEF vars, DataType
  <2> QED
    BY <1>5, <2>1, QuietTyped DEF vars, saveVars, handlerVars
<1> QED
  BY <1>1, <1>2, <1>3, <1>4, <1>5 DEF Next

\* An empty store, and no file.
LEMMA InitTyped == Init => TypeInv
<1> SUFFICES ASSUME Init PROVE TypeInv
  OBVIOUS
<1>1. \A s \in Subs : Adders(s) = {} /\ data.owned[s] = 0
  BY NoDataTyped DEF Init, Adders
<1>2. HandlerInv
  BY <1>1, AddersBounded, FS_EmptySet DEF Init, HandlerInv
<1>3. /\ file \in [kind : {"absent", "empty", "torn", "whole"}, data : DataType]
      /\ copy \in [Writers -> DataType] /\ data \in DataType
  BY NoDataTyped DEF Init, Broken
<1>4. pending \in 0 .. MaxPending
  BY StoreAssumption DEF Init
<1> QED
  BY <1>2, <1>3, <1>4 DEF Init, TypeInv, TypeOK

\* Every variable keeps its type: no subscription ever holds more batches than there are
\* handlers.
THEOREM TypeCorrect == Spec => []TypeOK
<1>1. TypeInv => TypeOK
  BY DEF TypeInv
<1> QED
  BY <1>1, InitTyped, NextTyped, PTL DEF Spec

-----------------------------------------------------------------------------
(* AlwaysSound.  Until two handlers have worked on one subscription, each  *)
(* handler finds its subscription as it left it: there, and with no        *)
(* batches when one is about to be added.                                  *)

Untouched ==
  /\ \A g, h \in Handlers : on[g] = on[h] /\ on[g] # Nothing => g = h
  /\ \A h \in Handlers :
       /\ pc[h] \in {"fill", "refresh", "replace"} => on[h] \in data.subs
       /\ pc[h] \in {"fill", "replace", "forget"} => data.owned[on[h]] = 0

SoundInv ==
  ~raced =>
    Untouched /\ Sound(data) /\ Sound(Load(file)) /\ \A w \in Writers : Sound(copy[w])

\* The empty store is sound.
LEMMA NoDataSound == Sound(NoData)
BY NoDataTyped DEF Sound

\* A handler step, seen from the data, the handler and its subscription.
LEMMA HandlerSound ==
  ASSUME TypeInv, SoundInv, NEW h \in Handlers, HandlerStep(h)
  PROVE  SoundInv'
<1> SUFFICES ASSUME ~raced' PROVE SoundInv'
  BY DEF SoundInv
<1> USE DEF TypeInv, TypeOK
<1>1. ~raced /\ UNCHANGED saveVars
  BY DEF HandlerStep, BeginAdd, Find, FillAdd, FailRefresh, DeleteProxies, DeleteEntry, DropOld,
         AddNew, UpdateCount, Take
<1>2. Untouched /\ Sound(data)
  BY <1>1 DEF SoundInv
<1>3. Untouched' /\ Sound(data')
  <2>1. ASSUME NEW s \in Subs, BeginAdd(h, s) PROVE Untouched' /\ Sound(data')
    <3>1. s \notin data.subs /\ data.owned[s] = 0 /\ data' = [data EXCEPT !.subs = @ \cup {s}]
      BY <2>1 DEF BeginAdd, AddSubscription
    <3>2. data'.subs = data.subs \cup {s} /\ data'.owned = data.owned
      BY <3>1 DEF DataType
    <3>3. \A g \in Handlers \ {h} : on[g] # s /\ on'[g] = on[g] /\ pc'[g] = pc[g]
      BY <1>1, <2>1 DEF BeginAdd, Take
    <3>4. on'[h] = s /\ pc'[h] = "fill"
      BY <2>1 DEF BeginAdd, Take
    <3> QED
      BY <1>2, <3>1, <3>2, <3>3, <3>4 DEF Untouched, Sound
  <2>2. ASSUME NEW s \in Subs, Find(h, s) PROVE Untouched' /\ Sound(data')
    <3>1. s \in data.subs /\ data' = data
      BY <2>2 DEF Find
    <3>2. \A g \in Handlers \ {h} : on[g] # s /\ on'[g] = on[g] /\ pc'[g] = pc[g]
      BY <1>1, <2>2 DEF Find, Take
    <3>3. on'[h] = s /\ pc'[h] \in {"delete", "refresh"}
      BY <2>2 DEF Find, Take
    <3> QED
      BY <1>2, <3>1, <3>2, <3>3 DEF Untouched
  <2>3. ASSUME FailRefresh(h) \/ DeleteProxies(h) \/ DeleteEntry(h) \/ DropOld(h) \/ FillAdd(h)
                 \/ AddNew(h) \/ UpdateCount(h)
        PROVE  Untouched' /\ Sound(data')
    <3>1. on[h] \in Subs
      BY <2>3 DEF FailRefresh, DeleteProxies, DeleteEntry, DropOld, FillAdd, AddNew, UpdateCount,
                  HandlerInv
    <3>2. \A g \in Handlers \ {h} : on[g] # on[h] /\ on'[g] = on[g] /\ pc'[g] = pc[g]
      BY <1>2, <2>3, <3>1, StoreAssumption
      DEF FailRefresh, DeleteProxies, DeleteEntry, DropOld, FillAdd, AddNew, UpdateCount,
          Untouched, Goto, Done
    <3>3. \/ on'[h] = on[h]
          \/ on'[h] = Nothing /\ pc'[h] = "idle"
      BY <2>3 DEF FailRefresh, DeleteProxies, DeleteEntry, DropOld, FillAdd, AddNew, UpdateCount,
                  Goto, Done
    <3>4. CASE FailRefresh(h) \/ UpdateCount(h)
      <4>1. data' = data /\ pc'[h] = "idle"
        BY <3>4 DEF FailRefresh, UpdateCount, Done
      <4> QED
        BY <1>2, <3>2, <3>3, <4>1 DEF Untouched
    <3>5. CASE DeleteProxies(h) \/ DropOld(h)
      <4>1. /\ data'.subs = data.subs
            /\ \A t \in Subs : data'.owned[t] = IF t = on[h] THEN 0 ELSE data.owned[t]
        BY <3>1, <3>5, CallsTyped DEF DeleteProxies, DropOld, RemoveBySubscription, DataType
      <4>2. /\ on' = on
            /\ \/ pc'[h] = "forget"
               \/ pc'[h] = "replace" /\ on[h] \in data.subs
        BY <1>2, <3>5 DEF DeleteProxies, DropOld, Goto, Untouched
      <4> QED
        BY <1>2, <3>1, <3>2, <4>1, <4>2 DEF Untouched, Sound, HandlerInv
    <3>6. CASE DeleteEntry(h)
      <4>1. data'.subs = data.subs \ {on[h]} /\ data'.owned = data.owned
        BY <3>6 DEF DeleteEntry, RemoveSubscription, DataType
      <4>2. data.owned[on[h]] = 0 /\ pc'[h] = "idle"
        BY <1>2, <3>6 DEF DeleteEntry, Untouched, Done
      <4> QED
        BY <1>2, <3>2, <3>3, <4>1, <4>2 DEF Untouched, Sound
    <3>7. CASE FillAdd(h) \/ AddNew(h)
      <4>1. /\ data'.subs = data.subs
            /\ \A t \in Subs : data'.owned[t] = data.owned[t] + (IF t = on[h] THEN 1 ELSE 0)
        BY <3>1, <3>7, CallsTyped DEF FillAdd, AddNew, AddProxies, DataType
      <4>2. /\ data.owned[on[h]] = 0 /\ on[h] \in data.subs /\ pc'[h] \in {"idle", "count"}
        BY <1>2, <3>7 DEF FillAdd, AddNew, Untouched, Done, Goto
      <4>3. \A t \in Subs : data.owned[t] \in Nat
        BY CallsTyped
      <4>4. Sound(data')
        BY <1>2, <4>1, <4>2, <4>3 DEF Sound
      <4>5. Untouched'
        BY <1>2, <3>2, <3>3, <4>1, <4>2, <4>3 DEF Untouched, HandlerInv
      <4> QED
        BY <4>4, <4>5
    <3> QED
      BY <2>3, <3>4, <3>5, <3>6, <3>7
  <2> QED
    BY <2>1, <2>2, <2>3 DEF HandlerStep
<1> QED
  BY <1>1, <1>3 DEF SoundInv, saveVars, Load

\* Every step keeps the data, the copies and the file sound.
LEMMA NextSound == TypeInv /\ SoundInv /\ [Next]_vars => SoundInv'
<1> SUFFICES ASSUME TypeInv, SoundInv, [Next]_vars PROVE SoundInv'
  OBVIOUS
<1> USE DEF TypeInv, TypeOK
<1>1. ASSUME NEW h \in Handlers, HandlerStep(h) PROVE SoundInv'
  BY <1>1, HandlerSound
<1>2. ASSUME (\E i \in Items : AddProxy(i) \/ RemoveProxy(i)) \/ ClearProxies \/ SetLocalPort
      PROVE  SoundInv'
  <2>1. /\ data'.subs = data.subs
        /\ data'.owned = data.owned \/ \A s \in Subs : data'.owned[s] = 0
    BY <1>2, NoDataTyped
    DEF AddProxy, RemoveProxy, ClearProxies, SetLocalPort, DataType, NoData
  <2>2. UNCHANGED <<saveVars, handlerVars, raced>>
    BY <1>2 DEF AddProxy, RemoveProxy, ClearProxies, SetLocalPort
  <2>3. \A h \in Handlers : pc[h] # "idle" => on[h] \in Subs
    BY DEF HandlerInv
  <2> QED
    BY <2>1, <2>2, <2>3 DEF SoundInv, Untouched, Sound, saveVars, handlerVars, Load
<1>3. ASSUME NEW w \in Writers, Copy(w) \/ Truncate(w) \/ Write(w) \/ FailSave(w) PROVE SoundInv'
  <2>1. UNCHANGED <<data, handlerVars, raced>>
    BY <1>3 DEF Copy, Truncate, Write, FailSave
  <2>2. /\ file' = file \/ file' = Whole(copy[w]) \/ file' = Broken("torn") \/ file' = Broken("empty")
        /\ copy' = copy \/ copy' = [copy EXCEPT ![w] = data] \/ copy' = [copy EXCEPT ![w] = NoData]
    BY <1>3 DEF Copy, Truncate, Write, FailSave
  <2>3. Load(file') \in {Load(file), copy[w], NoData}
    BY <2>2 DEF Load, Whole, Broken
  <2>4. \A v \in Writers : copy'[v] \in {copy[v], data, NoData}
    BY <2>2
  <2> QED
    BY <2>1, <2>3, <2>4, NoDataSound DEF SoundInv, Untouched, handlerVars, Load
<1>4. CASE Restart
  <2>1. data' = Load(file) /\ UNCHANGED <<file, raced>> /\ \A w \in Writers : copy'[w] = NoData
    BY <1>4 DEF Restart
  <2>2. \A h \in Handlers : on'[h] = Nothing /\ pc'[h] = "idle"
    BY <1>4 DEF Restart
  <2> QED
    BY <2>1, <2>2, NoDataSound DEF SoundInv, Untouched, Load
<1>5. CASE UNCHANGED vars
  BY <1>5 DEF SoundInv, Untouched, vars, saveVars, handlerVars, Load
<1> QED
  BY <1>1, <1>2, <1>3, <1>4, <1>5 DEF Next

\* At every moment, and after a restart at any moment, the store has no orphans and no
\* subscription twice over, as long as no two handlers worked on one subscription at once.
THEOREM AlwaysSoundAlways == Spec => []AlwaysSound
<1>1. Init => SoundInv
  BY NoDataSound DEF Init, SoundInv, Untouched, Load, Broken
<1>2. TypeInv /\ SoundInv => AlwaysSound
  BY DEF SoundInv, AlwaysSound
<1> QED
  BY <1>1, <1>2, InitTyped, NextTyped, NextSound, PTL DEF Spec

-----------------------------------------------------------------------------
(* SavedAtRest.  Until two saves overlap or one fails, the last one to     *)
(* copy the data has what is in memory, unless another is still to copy    *)
(* it.                                                                     *)

Alone == \A v, w \in Writers : stage[v] # "idle" /\ stage[w] # "idle" => v = w

LastCopy ==
  IF \E w \in Writers : stage[w] # "idle"
  THEN \A w \in Writers : stage[w] # "idle" => copy[w] = data
  ELSE Load(file) = data

FileInv ==
  ~spoiled =>
    /\ Alone
    /\ \A w \in Writers : stage[w] = "write" => file = Broken("empty")
    /\ pending = 0 => LastCopy

\* Whatever changes the data leaves a save behind.
LEMMA ChangeSaved ==
  ASSUME TypeInv,
         \/ \E h \in Handlers : HandlerStep(h)
         \/ \E i \in Items : AddProxy(i) \/ RemoveProxy(i)
         \/ ClearProxies \/ SetLocalPort
  PROVE  pending' # 0 \/ (data' = data /\ pending' = pending)
<1> USE DEF TypeInv, TypeOK, saveVars
<1>1. Save => pending' # 0
  BY StoreAssumption DEF Save
<1>2. ASSUME NEW h \in Handlers, DeleteProxies(h) \/ DropOld(h)
      PROVE  pending' # 0 \/ (data' = data /\ pending' = pending)
  <2>1. on[h] \in Subs /\ RemoveBySubscription(on[h])
    BY <1>2 DEF DeleteProxies, DropOld, HandlerInv
  <2>2. CASE data.owned[on[h]] > 0
    BY <1>1, <2>1, <2>2 DEF RemoveBySubscription, SaveIf
  <2>3. CASE ~(data.owned[on[h]] > 0)
    <3>1. data.owned[on[h]] = 0
      BY <2>1, <2>3, CallsTyped
    <3>2. [data EXCEPT !.owned[on[h]] = 0] = data
      BY <2>1, <3>1 DEF DataType
    <3> QED
      BY <2>1, <2>3, <3>2 DEF RemoveBySubscription, SaveIf
  <2> QED
    BY <2>2, <2>3
<1>3. ASSUME NEW h \in Handlers, DeleteEntry(h)
      PROVE  pending' # 0 \/ (data' = data /\ pending' = pending)
  <2>1. RemoveSubscription(on[h])
    BY <1>3 DEF DeleteEntry
  <2>2. CASE on[h] \in data.subs
    BY <1>1, <2>1, <2>2 DEF RemoveSubscription, SaveIf
  <2>3. CASE on[h] \notin data.subs
    <3>1. [data EXCEPT !.subs = @ \ {on[h]}] = data
      BY <2>3 DEF DataType
    <3> QED
      BY <2>1, <2>3, <3>1 DEF RemoveSubscription, SaveIf
  <2> QED
    BY <2>2, <2>3
<1>4. ASSUME NEW h \in Handlers,
             \/ \E s \in Subs : BeginAdd(h, s) \/ Find(h, s)
             \/ FillAdd(h) \/ FailRefresh(h) \/ AddNew(h) \/ UpdateCount(h)
      PROVE  pending' # 0 \/ (data' = data /\ pending' = pending)
  BY <1>1, <1>4
  DEF BeginAdd, Find, FillAdd, FailRefresh, AddNew, UpdateCount, AddSubscription, AddProxies
<1>5. ASSUME (\E i \in Items : AddProxy(i) \/ RemoveProxy(i)) \/ ClearProxies \/ SetLocalPort
      PROVE  pending' # 0
  BY <1>1, <1>5 DEF AddProxy, RemoveProxy, ClearProxies, SetLocalPort
<1> QED
  BY <1>2, <1>3, <1>4, <1>5 DEF HandlerStep

\* Every step keeps the last copy.
LEMMA NextSaved == TypeInv /\ FileInv /\ [Next]_vars => FileInv'
<1> SUFFICES ASSUME TypeInv, FileInv, [Next]_vars PROVE FileInv'
  OBVIOUS
<1> USE DEF TypeInv, TypeOK, saveVars
<1>1. ASSUME \/ \E h \in Handlers : HandlerStep(h)
             \/ \E i \in Items : AddProxy(i) \/ RemoveProxy(i)
             \/ ClearProxies \/ SetLocalPort
      PROVE  FileInv'
  <2>1. UNCHANGED <<copy, stage, file, spoiled>>
    BY <1>1 DEF HandlerStep, BeginAdd, Find, FillAdd, FailRefresh, DeleteProxies, DeleteEntry,
                DropOld, AddNew, UpdateCount, AddProxy, RemoveProxy, ClearProxies, SetLocalPort
  <2>2. pending' # 0 \/ (data' = data /\ pending' = pending)
    BY <1>1, ChangeSaved
  <2> QED
    BY <2>1, <2>2 DEF FileInv, Alone, LastCopy, Load
<1>2. ASSUME NEW w \in Writers, Copy(w) PROVE FileInv'
  <2> SUFFICES ASSUME ~spoiled' PROVE FileInv'
    BY DEF FileInv
  <2>1. ~spoiled /\ \A v \in Writers \ {w} : stage'[v] = "idle"
    BY <1>2 DEF Copy
  <2>2. stage'[w] = "open" /\ copy'[w] = data' /\ file' = file
    BY <1>2 DEF Copy
  <2> QED
    BY <2>1, <2>2 DEF FileInv, Alone, LastCopy
<1>3. ASSUME NEW w \in Writers, Truncate(w) PROVE FileInv'
  <2>1. /\ stage[w] = "open" /\ stage'[w] = "write" /\ file' = Broken("empty")
        /\ \A v \in Writers \ {w} : stage'[v] = stage[v]
        /\ UNCHANGED <<data, pending, copy, spoiled>>
    BY <1>3 DEF Truncate
  <2> QED
    BY <2>1 DEF FileInv, Alone, LastCopy
<1>4. ASSUME NEW w \in Writers, Write(w) PROVE FileInv'
  <2> SUFFICES ASSUME ~spoiled' PROVE FileInv'
    BY DEF FileInv
  <2>1. /\ stage[w] = "write" /\ stage'[w] = "idle"
        /\ \A v \in Writers \ {w} : stage'[v] = stage[v] /\ copy'[v] = copy[v]
        /\ UNCHANGED <<data, pending, spoiled>>
    BY <1>4 DEF Write
  <2>2. Alone /\ file = Broken("empty")
    BY <2>1 DEF FileInv
  <2>3. file' = Whole(copy[w])
    BY <1>4, <2>2 DEF Write, Broken
  <2>4. \A v \in Writers : stage'[v] = "idle"
    BY <2>1, <2>2 DEF Alone
  <2>5. pending = 0 => copy[w] = data
    BY <2>1 DEF FileInv, LastCopy
  <2>6. Load(file') = copy[w]
    BY <2>3 DEF Load, Whole
  <2> QED
    BY <2>1, <2>4, <2>5, <2>6 DEF FileInv, Alone, LastCopy, Load
<1>5. ASSUME NEW w \in Writers, FailSave(w) PROVE FileInv'
  BY <1>5 DEF FailSave, FileInv
<1>6. CASE Restart
  <2>1. data' = Load(file') /\ \A w \in Writers : stage'[w] = "idle"
    BY <1>6 DEF Restart, Load
  <2> QED
    BY <2>1 DEF FileInv, Alone, LastCopy, Load
<1>7. CASE UNCHANGED vars
  BY <1>7 DEF vars, FileInv, Alone, LastCopy, Load
<1> QED
  BY <1>1, <1>2, <1>3, <1>4, <1>5, <1>6, <1>7 DEF Next

\* When no save is pending or under way, a restart brings back what is in memory, as long
\* as no two saves overlapped and none failed since the last restart.
THEOREM SavedAtRestAlways == Spec => []SavedAtRest
<1>1. Init => FileInv
  BY DEF Init, FileInv, Alone, LastCopy, Load, Broken
<1>2. TypeInv /\ FileInv => SavedAtRest
  BY DEF FileInv, LastCopy, SavedAtRest, Saving, TypeInv, TypeOK
<1> QED
  BY <1>1, <1>2, InitTyped, NextTyped, NextSaved, PTL DEF Spec

-----------------------------------------------------------------------------
(* SavedStore, one lemma for each kind of step that it sees.               *)

\* The copies that writers hold.
Held == {copy[w] : w \in {v \in Writers : stage[v] # "idle"}}

\* A call saves, or does nothing.
LEMMA CallKept ==
  ASSUME TypeInv, TypeInv',
         \/ \E h \in Handlers : HandlerStep(h)
         \/ \E i \in Items : AddProxy(i) \/ RemoveProxy(i)
         \/ ClearProxies \/ SetLocalPort
  PROVE  Promise!Change \/ UNCHANGED Promise!vars
<1>1. UNCHANGED <<copy, stage, file, spoiled>>
  BY DEF HandlerStep, BeginAdd, Find, FillAdd, FailRefresh, DeleteProxies, DeleteEntry, saveVars,
         DropOld, AddNew, UpdateCount, AddProxy, RemoveProxy, ClearProxies, SetLocalPort
<1>2. pending' # 0 \/ (data' = data /\ pending' = pending)
  BY ChangeSaved
<1>3. Held' = Held /\ Load(file)' = Load(file) /\ (~spoiled)' = ~spoiled
  BY <1>1 DEF Held, Load
<1>4. CASE pending' # 0
  <2>1. Saving' = TRUE
    <3>1. pending' > 0
      BY <1>4, StoreAssumption DEF TypeInv, TypeOK
    <3>2. Saving'
      BY <3>1 DEF Saving
    <3>3. Saving' \in BOOLEAN
      BY DEF Saving
    <3> QED
      BY <3>2, <3>3
  <2> QED
    BY <1>3, <2>1 DEF Promise!Change, Held
<1>5. CASE data' = data /\ pending' = pending
  <2>1. Saving' = Saving
    BY <1>1, <1>5 DEF Saving
  <2> QED
    BY <1>3, <1>5, <2>1 DEF Promise!vars, Held
<1> QED
  BY <1>2, <1>4, <1>5

\* A writer takes its copy, and cuts the file.
LEMMA CopyKept ==
  ASSUME TypeInv, TypeInv', NEW w \in Writers, Copy(w)
  PROVE  Promise!Take
<1>1. /\ pending > 0 /\ stage[w] = "idle" /\ stage' = [stage EXCEPT ![w] = "open"]
      /\ copy' = [copy EXCEPT ![w] = data] /\ UNCHANGED <<data, file>>
      /\ spoiled' = (spoiled \/ \E v \in Writers \ {w} : stage[v] # "idle")
      /\ stage \in [Writers -> {"idle", "open", "write"}] /\ copy \in [Writers -> DataType]
      /\ spoiled \in BOOLEAN
  BY DEF Copy, TypeInv, TypeOK
<1>2. Saving = TRUE /\ Saving' = Saving
  <2>1. Saving /\ Saving'
    BY <1>1 DEF Saving
  <2>2. Saving \in BOOLEAN /\ Saving' \in BOOLEAN
    BY DEF Saving
  <2> QED
    BY <2>1, <2>2
<1>3. Held' = Held \cup {data}
  BY <1>1 DEF Held
<1>4. (~spoiled)' = (~spoiled /\ Held = {})
  <2>1. Held = {} <=> ~ \E v \in Writers \ {w} : stage[v] # "idle"
    BY <1>1 DEF Held
  <2> QED
    BY <1>1, <2>1
<1>5. Load(file)' = Load(file)
  BY <1>1 DEF Load
<1> QED
  BY <1>1, <1>2, <1>3, <1>4, <1>5 DEF Promise!Take, Held

LEMMA TruncateKept ==
  ASSUME TypeInv, NEW w \in Writers, Truncate(w)
  PROVE  Promise!Cut
<1>1. /\ stage[w] = "open" /\ stage' = [stage EXCEPT ![w] = "write"]
      /\ file' = Broken("empty") /\ UNCHANGED <<data, pending, copy, spoiled>>
      /\ stage \in [Writers -> {"idle", "open", "write"}]
  BY DEF Truncate, TypeInv, TypeOK
<1>2. Held # {} /\ Held' = Held
  BY <1>1 DEF Held
<1>3. Saving' = Saving
  <2>1. Saving /\ Saving'
    BY <1>1 DEF Saving
  <2>2. Saving \in BOOLEAN /\ Saving' \in BOOLEAN
    BY DEF Saving
  <2> QED
    BY <2>1, <2>2
<1>4. Load(file)' = NoData /\ (~spoiled)' = ~spoiled
  BY <1>1 DEF Load, Broken
<1> QED
  BY <1>1, <1>2, <1>3, <1>4 DEF Promise!Cut, Held

\* A writer that ends gives up its copy, unless another holds an equal one.
LEMMA HeldShrinks ==
  ASSUME NEW w \in Writers,
         stage \in [Writers -> {"idle", "open", "write"}], copy \in [Writers -> DataType],
         stage[w] # "idle", stage' = [stage EXCEPT ![w] = "idle"],
         copy' = [copy EXCEPT ![w] = NoData]
  PROVE  copy[w] \in Held /\ Held' \in {Held, Held \ {copy[w]}}
<1>1. copy[w] \in Held
  BY DEF Held
<1>2. Held' = {copy[v] : v \in {u \in Writers \ {w} : stage[u] # "idle"}}
  BY DEF Held
<1>3. Held' \subseteq Held /\ Held \ {copy[w]} \subseteq Held'
  BY <1>2 DEF Held
<1> QED
  BY <1>1, <1>3

\* A writer writes its copy, the only one unless two have overlapped.
LEMMA WriteKept ==
  ASSUME TypeInv, FileInv, NEW w \in Writers, Write(w)
  PROVE  \E d \in Held : Promise!Put(d)
<1>1. /\ stage[w] = "write" /\ stage' = [stage EXCEPT ![w] = "idle"]
      /\ copy' = [copy EXCEPT ![w] = NoData] /\ UNCHANGED <<data, pending, spoiled>>
      /\ stage \in [Writers -> {"idle", "open", "write"}] /\ copy \in [Writers -> DataType]
      /\ spoiled \in BOOLEAN /\ pending \in Nat
  BY DEF Write, TypeInv, TypeOK
<1>2. copy[w] \in Held /\ Held' \in {Held, Held \ {copy[w]}}
  BY <1>1, HeldShrinks
<1>3. Load(file') = copy[w] \/ (spoiled /\ Load(file') = NoData)
  <2>1. CASE file' = Whole(copy[w])
    BY <2>1 DEF Load, Whole
  <2>2. CASE file.kind # "empty" /\ file' = Broken("torn")
    BY <1>1, <2>2 DEF FileInv, Load, Broken
  <2> QED
    BY <2>1, <2>2 DEF Write
<1>4. ~spoiled \/ ~Saving' => Held' = {}
  <2>1. ~spoiled => \A v \in Writers \ {w} : stage[v] = "idle"
    BY <1>1 DEF FileInv, Alone
  <2>2. (\A v \in Writers : stage'[v] = "idle") => Held' = {}
    BY DEF Held
  <2>3. ~spoiled => \A v \in Writers : stage'[v] = "idle"
    BY <1>1, <2>1
  <2>4. ~Saving' => \A v \in Writers : stage'[v] = "idle"
    BY DEF Saving
  <2> QED
    BY <2>2, <2>3, <2>4
<1>5. ~spoiled /\ ~Saving' => Load(file') = data
  <2>1. ~Saving' => pending = 0
    BY <1>1 DEF Saving
  <2>2. ~spoiled /\ pending = 0 => copy[w] = data
    BY <1>1 DEF FileInv, LastCopy
  <2> QED
    BY <1>3, <2>1, <2>2
<1>6. Saving' \in BOOLEAN /\ (~spoiled)' = ~spoiled /\ Load(file)' = Load(file')
  BY <1>1 DEF Saving, Load
<1>7. Promise!Put(copy[w])
  BY <1>1, <1>2, <1>3, <1>4, <1>5, <1>6 DEF Promise!Put, Held
<1> QED
  BY <1>2, <1>7 DEF Promise!Put

\* A save ends without having written its copy.
LEMMA FailKept ==
  ASSUME TypeInv, NEW w \in Writers, FailSave(w)
  PROVE  \E d \in Held : Promise!Fail(d)
<1>1. /\ stage[w] # "idle" /\ stage' = [stage EXCEPT ![w] = "idle"]
      /\ copy' = [copy EXCEPT ![w] = NoData] /\ data' = data
      /\ file' = file \/ file' = Broken("torn")
      /\ stage \in [Writers -> {"idle", "open", "write"}] /\ copy \in [Writers -> DataType]
  BY DEF FailSave, TypeInv, TypeOK
<1>2. copy[w] \in Held /\ Held' \in {Held, Held \ {copy[w]}}
  BY <1>1, HeldShrinks
<1>3. Load(file)' \in {Load(file), NoData}
  BY <1>1 DEF Load, Broken
<1>4. ~Saving' => Held' = {}
  BY DEF Saving, Held
<1>5. Saving' \in BOOLEAN
  BY DEF Saving
<1>6. (~spoiled)' = FALSE
  BY DEF FailSave
<1>7. Promise!Fail(copy[w])
  BY <1>1, <1>2, <1>3, <1>4, <1>5, <1>6 DEF Promise!Fail, Held
<1> QED
  BY <1>2, <1>7 DEF Promise!Fail

\* A restart.
LEMMA RestartKept ==
  ASSUME Restart
  PROVE  Promise!Crash
<1>1. Held' = {} /\ data' = Load(file) /\ Load(file)' = Load(file)
  BY DEF Restart, Held, Load
<1>2. Saving' = FALSE
  <2>1. ~Saving'
    BY DEF Restart, Saving
  <2>2. Saving' \in BOOLEAN
    BY DEF Saving
  <2> QED
    BY <2>1, <2>2
<1>3. (~spoiled)' = TRUE
  BY DEF Restart
<1> QED
  BY <1>1, <1>2, <1>3 DEF Promise!Crash, Held

\* Every step is a step of SavedStore or a stutter.
LEMMA StepKept ==
  TypeInv /\ TypeInv' /\ FileInv /\ [Next]_vars => [Promise!Next]_(Promise!vars)
<1> SUFFICES ASSUME TypeInv, TypeInv', FileInv, [Next]_vars
             PROVE  Promise!Next \/ UNCHANGED Promise!vars
  OBVIOUS
<1>1. CASE UNCHANGED vars
  BY <1>1 DEF vars, saveVars, Promise!vars, Load, Saving
<1>2. ASSUME NEW w \in Writers, Copy(w) \/ Truncate(w) \/ Write(w) \/ FailSave(w) PROVE Promise!Next
  <2>1. (\E d \in Held : Promise!Put(d) \/ Promise!Fail(d)) => Promise!Next
    BY DEF Held, Promise!Next
  <2> QED
    BY <1>2, <2>1, CopyKept, TruncateKept, WriteKept, FailKept DEF Promise!Next
<1>3. CASE Restart
  BY <1>3, RestartKept DEF Promise!Next
<1>4. CASE \/ \E h \in Handlers : HandlerStep(h)
           \/ \E i \in Items : AddProxy(i) \/ RemoveProxy(i)
           \/ ClearProxies \/ SetLocalPort
  BY <1>4, CallKept DEF Promise!Next
<1> QED
  BY <1>1, <1>2, <1>3, <1>4 DEF Next

\* The store and its file implement SavedStore: every change is saved, and the file gets
\* nothing but copies that saves hold, in their order while they do not overlap.
THEOREM PromiseKept == Spec => KeepsPromise
<1>1. Init => Promise!Init
  <2> SUFFICES ASSUME Init PROVE Promise!Init
    OBVIOUS
  <2>1. Held = {} /\ Load(file) = NoData /\ data = NoData
    BY DEF Init, Held, Load, Broken
  <2>2. Saving = FALSE
    <3>1. ~Saving /\ Saving \in BOOLEAN
      BY DEF Init, Saving
    <3> QED
      BY <3>1
  <2>3. (~spoiled) = TRUE
    BY DEF Init
  <2> QED
    BY <2>1, <2>2, <2>3 DEF Promise!Init, Held
<1>2. Init => FileInv
  BY DEF Init, FileInv, Alone, LastCopy, Load, Broken
<1> QED
  BY <1>1, <1>2, InitTyped, NextTyped, NextSaved, StepKept, PTL
  DEF Spec, KeepsPromise, Promise!Spec
=============================================================================
