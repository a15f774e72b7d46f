------------------------- MODULE BindingSyncProofs -------------------------
(***************************************************************************)
(* Proofs about BindingSync, for every set of proxies, relays and          *)
(* background passes and every max_proxies, batch_size and number of       *)
(* timeouts.                                                               *)
(***************************************************************************)
EXTENDS BindingSync, FiniteSetTheorems, TLAPS

-----------------------------------------------------------------------------
(* Calls to sing-box.                                                      *)

\* What a call is made of.
LEMMA CallType ==
  ASSUME ApiTypeOK, NEW n \in Slots
  PROVE  /\ timeouts \in Slots /\ Live \in Calls
         /\ calls[n].at \notin {"none"} <=> calls[n] # NoCall
         /\ calls[n] # NoCall =>
              /\ calls[n].proxy \in Proxies /\ calls[n].port \in Ports /\ n <= timeouts
              /\ \/ calls[n].op = "create" /\ calls[n].at \in CreateStages \cup Ended
                 \/ calls[n].op = "remove" /\ calls[n].at \in RemoveStages \cup Ended
<1>1. timeouts \in Slots /\ calls[n] \in Calls /\ Live \in Calls
  BY DEF ApiTypeOK, Live
<1>2. calls[n] # NoCall => n <= timeouts
  BY <1>1, SizesAssumption DEF ApiTypeOK, Slots
<1> QED
  BY <1>1, <1>2 DEF Calls, NoCall, CreateStages, RemoveStages, Ended

LEMMA LiveType ==
  ASSUME ApiTypeOK
  PROVE  Live.at # "none" \/ Live # NoCall => Live.proxy \in Proxies /\ Live.port \in Ports
<1>1. timeouts \in Slots
  BY DEF ApiTypeOK
<1> QED
  BY <1>1, CallType DEF Live, NoCall

\* A call that goes on keeps all but its stage, and one that nobody waits for ends away.
LEMMA GotoFacts ==
  ASSUME ApiTypeOK, NEW n \in Slots, calls[n] # NoCall, NEW stage, Goto(n, stage)
  PROVE  /\ calls' = [calls EXCEPT ![n] = calls'[n]]
         /\ \/ calls'[n] = [op |-> calls[n].op, proxy |-> calls[n].proxy,
                            port |-> calls[n].port, at |-> stage]
            \/ stage \in Ended /\ n # timeouts /\ calls'[n] = NoCall
<1>1. calls \in [Slots -> Calls]
  BY DEF ApiTypeOK
<1>2. calls[n] = [op |-> calls[n].op, proxy |-> calls[n].proxy,
                  port |-> calls[n].port, at |-> calls[n].at]
  BY <1>1 DEF Calls, NoCall
<1>3. [calls[n] EXCEPT !.at = stage] =
        [op |-> calls[n].op, proxy |-> calls[n].proxy, port |-> calls[n].port, at |-> stage]
  BY <1>2
<1> QED
  BY <1>1, <1>3 DEF Goto

\* The stages a step leads from and to, and what it does to the tag's resources.
LEMMA StepFacts ==
  ASSUME ApiTypeOK, NEW n \in Slots, ApiStep(n)
  PROVE  /\ calls[n] # NoCall
         /\ calls' = [calls EXCEPT ![n] = calls'[n]]
         /\ \/ /\ calls'[n].op = calls[n].op /\ calls'[n].proxy = calls[n].proxy
               /\ calls'[n].port = calls[n].port /\ calls'[n] \in Calls /\ calls'[n] # NoCall
            \/ n # timeouts /\ calls'[n] = NoCall
         /\ \A q \in Proxies \ {calls[n].proxy} :
              /\ q \in entries' <=> q \in entries
              /\ q \in outbounds' <=> q \in outbounds
              /\ inbound'[q] = inbound[q]
              /\ q \in routes' <=> q \in routes
<1> DEFINE c == calls[n]
<1> DEFINE Next2(S) ==
      \E stage \in S :
        \/ calls'[n] = [op |-> c.op, proxy |-> c.proxy, port |-> c.port, at |-> stage]
        \/ stage \in Ended /\ n # timeouts /\ calls'[n] = NoCall
<1>1. c # NoCall /\ c \in Calls
  BY DEF ApiStep, Check, CreateOutbound, CreateInbound, Undo, BindRoute, Record, DropEntry,
         UnbindRoute, CloseInbound, RemoveOutbound, At, NoCall, ApiTypeOK
<1>2. ASSUME NEW stage \in CreateStages \cup Ended, c.op = "create", Goto(n, stage)
      PROVE  calls' = [calls EXCEPT ![n] = calls'[n]] /\ Next2(CreateStages \cup Ended)
  BY <1>1, <1>2, GotoFacts
<1>3. ASSUME NEW stage \in RemoveStages \cup Ended, c.op = "remove", Goto(n, stage)
      PROVE  calls' = [calls EXCEPT ![n] = calls'[n]] /\ Next2(RemoveStages \cup Ended)
  BY <1>1, <1>3, GotoFacts
<1>4. c.op = "create" <=> c.at \in CreateStages \/ (c.op = "create" /\ c.at \in Ended)
  BY <1>1 DEF Calls, NoCall, CreateStages, RemoveStages, Ended
<1>5. c.op = "remove" <=> c.at \in RemoveStages \/ (c.op = "remove" /\ c.at \in Ended)
  BY <1>1 DEF Calls, NoCall, CreateStages, RemoveStages, Ended
<1>6. CASE \/ Check(n) \/ CreateOutbound(n) \/ CreateInbound(n)
           \/ Undo(n) \/ BindRoute(n) \/ Record(n)
  <2>1. c.op = "create"
    BY <1>6, <1>4 DEF Check, CreateOutbound, CreateInbound, Undo, BindRoute, Record, At, CreateStages
  <2>2. PICK stage \in CreateStages \cup Ended : Goto(n, stage)
    BY <1>6 DEF Check, CreateOutbound, CreateInbound, Undo, BindRoute, Record, Enters,
                CreateStages, Ended
  <2>3. calls' = [calls EXCEPT ![n] = calls'[n]] /\ Next2(CreateStages \cup Ended)
    BY <2>1, <2>2, <1>2
  <2>4. Next2(CreateStages \cup Ended) =>
          \/ /\ calls'[n].op = c.op /\ calls'[n].proxy = c.proxy
             /\ calls'[n].port = c.port /\ calls'[n] \in Calls /\ calls'[n] # NoCall
          \/ n # timeouts /\ calls'[n] = NoCall
    BY <1>1, <2>1 DEF Calls, NoCall
  <2>5. \A q \in Proxies \ {c.proxy} :
              /\ q \in entries' <=> q \in entries
              /\ q \in outbounds' <=> q \in outbounds
              /\ inbound'[q] = inbound[q]
              /\ q \in routes' <=> q \in routes
    BY <1>6 DEF Check, CreateOutbound, CreateInbound, Undo, BindRoute, Record, resources, ApiTypeOK
  <2> QED
    BY <1>1, <2>3, <2>4, <2>5
<1>7. CASE DropEntry(n) \/ UnbindRoute(n) \/ CloseInbound(n) \/ RemoveOutbound(n)
  <2>1. c.op = "remove"
    BY <1>7, <1>5 DEF DropEntry, UnbindRoute, CloseInbound, RemoveOutbound, At, RemoveStages
  <2>2. PICK stage \in RemoveStages \cup Ended : Goto(n, stage)
    BY <1>7 DEF DropEntry, UnbindRoute, CloseInbound, RemoveOutbound, Enters, RemoveStages, Ended
  <2>3. calls' = [calls EXCEPT ![n] = calls'[n]] /\ Next2(RemoveStages \cup Ended)
    BY <2>1, <2>2, <1>3
  <2>4. Next2(RemoveStages \cup Ended) =>
          \/ /\ calls'[n].op = c.op /\ calls'[n].proxy = c.proxy
             /\ calls'[n].port = c.port /\ calls'[n] \in Calls /\ calls'[n] # NoCall
          \/ n # timeouts /\ calls'[n] = NoCall
    BY <1>1, <2>1 DEF Calls, NoCall
  <2>5. \A q \in Proxies \ {c.proxy} :
              /\ q \in entries' <=> q \in entries
              /\ q \in outbounds' <=> q \in outbounds
              /\ inbound'[q] = inbound[q]
              /\ q \in routes' <=> q \in routes
    BY <1>7 DEF DropEntry, UnbindRoute, CloseInbound, RemoveOutbound, ApiTypeOK
  <2> QED
    BY <1>1, <2>3, <2>4, <2>5
<1> QED
  BY <1>6, <1>7 DEF ApiStep

\* A step of sing-box keeps the types.
LEMMA StepTyped ==
  ASSUME ApiTypeOK, NEW n \in Slots, ApiStep(n), timeouts' = timeouts
  PROVE  ApiTypeOK'
<1>0. /\ calls[n] # NoCall
      /\ calls' = [calls EXCEPT ![n] = calls'[n]] /\ calls'[n] \in Calls
      /\ calls[n].proxy \in Proxies /\ calls[n].port \in Ports /\ n <= timeouts
  BY StepFacts, CallType DEF Calls
<1>1. calls' \in [Slots -> Calls] /\ \A m \in Slots : m > timeouts => calls'[m] = NoCall
  BY <1>0, SizesAssumption DEF ApiTypeOK, Slots
<1>2. /\ entries' \in SUBSET Proxies /\ outbounds' \in SUBSET Proxies
      /\ inbound' \in [Proxies -> Ports \cup {NoPort}] /\ routes' \in SUBSET Proxies
  BY <1>0 DEF ApiTypeOK, ApiStep, Check, CreateOutbound, CreateInbound, Undo, BindRoute, Record,
              DropEntry, UnbindRoute, CloseInbound, RemoveOutbound, resources
<1>3. mixed' \in BOOLEAN
  BY DEF ApiTypeOK, ApiStep, Check, CreateOutbound, CreateInbound, Undo, BindRoute, Record,
         DropEntry, UnbindRoute, CloseInbound, RemoveOutbound, Enters
<1> QED
  BY <1>1, <1>2, <1>3 DEF ApiTypeOK

\* A call is put in the slot of the live one, or taken from there.
LEMMA SlotTyped ==
  ASSUME ApiTypeOK, UNCHANGED <<resources, mixed>>,
         \/ (\E c \in Calls : Ask(c)) /\ UNCHANGED timeouts
         \/ Answered
         \/ GivenUp
  PROVE  /\ ApiTypeOK'
         /\ (Answered \/ GivenUp) => Live' = NoCall
         /\ GivenUp => timeouts' # 0
<1>1. timeouts \in Slots /\ calls \in [Slots -> Calls] /\ NoCall \in Calls
  BY DEF ApiTypeOK, Calls
<1>2. CASE (\E c \in Calls : Ask(c)) /\ UNCHANGED timeouts
  <2>1. calls' \in [Slots -> Calls] /\ \A m \in Slots : m > timeouts => calls'[m] = NoCall
    BY <1>1, <1>2, SizesAssumption DEF Ask, ApiTypeOK, Slots
  <2>2. ~Answered \/ Live' = NoCall
    BY <1>1 DEF Answered, Live
  <2>3. ~GivenUp
    BY <1>1, <1>2, SizesAssumption DEF GivenUp, Slots
  <2> QED
    BY <1>2, <2>1, <2>2, <2>3 DEF ApiTypeOK, resources
<1>3. CASE Answered
  <2>1. calls' \in [Slots -> Calls] /\ \A m \in Slots : m > timeouts => calls'[m] = NoCall
    BY <1>1, <1>3, SizesAssumption DEF Answered, ApiTypeOK, Slots
  <2>2. Live' = NoCall
    BY <1>1, <1>3 DEF Answered, Live
  <2>3. ~GivenUp
    BY <1>1, <1>3, SizesAssumption DEF GivenUp, Slots, Answered
  <2> QED
    BY <1>3, <2>1, <2>2, <2>3 DEF ApiTypeOK, resources, Answered
<1>4. CASE GivenUp
  <2>1. timeouts' \in Slots /\ timeouts' # 0 /\ timeouts' > timeouts /\ timeouts' = timeouts + 1
    BY <1>1, <1>4, SizesAssumption DEF GivenUp, Slots
  <2>2. calls' \in [Slots -> Calls] /\ \A m \in Slots : m > timeouts => calls'[m] = NoCall
    BY <1>1, <1>4, SizesAssumption DEF GivenUp, ApiTypeOK, Slots
  <2>3. Live' = NoCall
    BY <2>1, <2>2 DEF Live
  <2>4. \A m \in Slots : m > timeouts' => m > timeouts
    BY <1>1, <2>1 DEF Slots
  <2> QED
    BY <1>4, <2>1, <2>2, <2>3, <2>4 DEF ApiTypeOK, resources
<1> QED
  BY <1>2, <1>3, <1>4

-----------------------------------------------------------------------------
(* Types.                                                                  *)

\* The startup state: the ports of the initial bindings are ports of the pool, since no
\* more than Max proxies are bound.
LEMMA InitTyped == Init => TypeOK
<1> SUFFICES ASSUME Init PROVE TypeOK
  OBVIOUS
<1>1. PICK S \in SUBSET With("Valid") :
         /\ Cardinality(S) <= Max
         /\ inbound \in [Proxies -> 0 .. Cardinality(S)]
         /\ \A p \in Proxies : inbound[p] # NoPort <=> p \in S
         /\ \A p, q \in S : inbound[p] = inbound[q] => p = q
         /\ used = {inbound[p] : p \in S}
         /\ entries = S /\ outbounds = S /\ routes = S
  BY DEF Init
<1>2. Cardinality(S) \in Nat
  BY FiniteAssumption, FS_Subset, FS_CardinalityType DEF With
<1>3. inbound \in [Proxies -> Ports \cup {NoPort}] /\ used \in SUBSET Ports
  <2>1. inbound \in [Proxies -> Ports \cup {NoPort}]
    BY <1>1, <1>2, SizesAssumption DEF Ports, NoPort
  <2>2. S \subseteq Proxies
    BY DEF With
  <2> QED
    BY <1>1, <2>1, <2>2
<1>4. \A p \in Proxies \ InPool : port[p] = NoPort
  BY <1>1 DEF Init, InPool, With, Statuses
<1>5. /\ pc \in [Actors -> PassStates \cup RelayStates]
      /\ \A t \in Syncers : pc[t] \in PassStates
      /\ \A r \in Relays : pc[r] \in RelayStates
  BY DEF Init, Actors, PassStates, RelayStates
<1>6. plan \in [Syncers -> [Proxies -> Ports \cup {NoPort}]]
  BY DEF Init, NoPorts
<1>7. ApiTypeOK
  <2>1. S \subseteq Proxies
    BY DEF With
  <2>2. calls \in [Slots -> Calls] /\ \A n \in Slots : calls[n] = NoCall
    BY DEF Init, Calls
  <2>3. timeouts \in Slots
    BY SizesAssumption DEF Init, Slots
  <2> QED
    BY <1>1, <1>3, <2>1, <2>2, <2>3 DEF ApiTypeOK, Init
<1>8. \A r \in Relays : pc[r] = "idle"
  BY DEF Init, Actors
<1> QED
  BY <1>3, <1>4, <1>5, <1>6, <1>7, <1>8 DEF Init, TypeOK

\* One lemma per group of actions that keep every variable in its type.
LEMMA PassTyped ==
  ASSUME TypeOK, NEW t \in Syncers, PassStep(t)
  PROVE  TypeOK'
<1> USE DEF TypeOK, Actors, Syncers, PassStates, RelayStates, NoPort,
            poolVars, singboxVars, passVars, relayVars, history, InPool
<1>a. UNCHANGED <<apiVars, timeouts>> => ApiTypeOK'
  BY DEF apiVars, resources, ApiTypeOK
<1>0. /\ t \in Actors /\ t \notin Relays /\ Relays \subseteq Actors
      /\ \A r \in Relays : r # t
  BY NamesAssumption
<1>1. ASSUME NEW mode \in Modes, Begin(t, mode) PROVE TypeOK'
  BY <1>0, <1>1, <1>a DEF Begin
<1>2. CASE BeginEmpty(t)
  BY <1>0, <1>2, <1>a DEF BeginEmpty
<1>3. CASE Withdraw(t)
  BY <1>0, <1>3, <1>a DEF Withdraw
<1>4. CASE LockManager(t)
  BY <1>0, <1>4, <1>a DEF LockManager
<1>5. ASSUME NEW p \in Proxies, RemoveBinding(t, p) PROVE TypeOK'
  <2>1. plan[t][p] \in Ports
    BY <1>5 DEF RemoveBinding, ToRemove
  <2>2. Removal(p, plan[t][p]) \in Calls
    BY <2>1 DEF Calls, Removal, RemoveStages
  <2>3. ApiTypeOK'
    BY <1>5, <2>2, SlotTyped DEF RemoveBinding
  <2> QED
    BY <1>5, <2>3 DEF RemoveBinding
<1>6. ASSUME NEW p \in Proxies, CreateBinding(t, p) PROVE TypeOK'
  <2>1. \A x \in Free : x \in Ports /\ Creation(p, x) \in Calls
    BY DEF Free, Calls, Creation, CreateStages
  <2>2. ApiTypeOK'
    <3>1. CASE UNCHANGED calls
      BY <1>6, <3>1 DEF CreateBinding, ApiTypeOK, resources
    <3>2. CASE \E x \in Free : Ask(Creation(p, x))
      BY <1>6, <2>1, <3>2, SlotTyped DEF CreateBinding
    <3> QED
      BY <1>6, <3>1, <3>2 DEF CreateBinding
  <2>3. used' \in SUBSET Ports
    BY <1>6, <2>1 DEF CreateBinding, Allocate
  <2> QED
    BY <1>6, <2>2, <2>3 DEF CreateBinding
<1>10. CASE Removed(t) \/ NotCreated(t)
  <2>1. ApiTypeOK'
    BY <1>10, SlotTyped DEF Removed, NotCreated, Unanswered
  <2> QED
    BY <1>10, <2>1 DEF Removed, NotCreated
<1>11. CASE Created(t)
  <2>1. ApiTypeOK'
    BY <1>11, SlotTyped DEF Created
  <2>2. Live.proxy \in Proxies /\ Live.port \in Ports
    BY <1>11, LiveType DEF Created
  <2>3. plan' \in [Syncers -> [Proxies -> Ports \cup {NoPort}]]
    BY <1>11, <2>2 DEF Created
  <2> QED
    BY <1>11, <2>1, <2>3 DEF Created
<1>7. CASE UnlockManager(t)
  BY <1>0, <1>7, <1>a DEF UnlockManager
<1>8. CASE UnsetPorts(t)
  BY <1>0, <1>8, <1>a DEF UnsetPorts
<1>9. CASE SetPorts(t)
  BY <1>0, <1>9, <1>a DEF SetPorts, NoPorts
<1> QED
  BY <1>1, <1>2, <1>3, <1>4, <1>5, <1>6, <1>7, <1>8, <1>9, <1>10, <1>11 DEF PassStep

\* A step of a relay request keeps every variable in its type.
LEMMA RelayTyped ==
  ASSUME TypeOK, NEW r \in Relays, RelayStep(r)
  PROVE  TypeOK'
<1> USE DEF TypeOK, Actors, Syncers, PassStates, RelayStates, NoPort,
            poolVars, singboxVars, passVars, relayVars, history, InPool
<1>a. UNCHANGED <<apiVars, timeouts>> => ApiTypeOK'
  BY DEF apiVars, resources, ApiTypeOK
<1>0. /\ r \in Actors /\ r \notin Syncers
      /\ \A t \in Syncers : r # t /\ t \in Actors
  BY NamesAssumption
<1>1. ASSUME NEW p \in Proxies, PickBound(r, p) PROVE TypeOK'
  BY <1>0, <1>1, <1>a DEF PickBound
<1>2. ASSUME NEW p \in Proxies, PickUnbound(r, p) PROVE TypeOK'
  BY <1>0, <1>2, <1>a DEF PickUnbound
<1>3. CASE RecheckBound(r)
  BY <1>0, <1>3, <1>a DEF RecheckBound
<1>4. CASE RecheckUnbound(r)
  <2>1. PICK x \in Free : Allocate(x) /\ Ask(Creation(goal[r], x))
    BY <1>4 DEF RecheckUnbound
  <2>2. x \in Ports /\ goal[r] \in Proxies
    BY <1>4 DEF Free, RecheckUnbound
  <2>3. Creation(goal[r], x) \in Calls
    BY <2>2 DEF Calls, Creation, CreateStages
  <2>4. ApiTypeOK' /\ used' \in SUBSET Ports
    BY <1>4, <2>1, <2>2, <2>3, SlotTyped DEF RecheckUnbound, Allocate
  <2> QED
    BY <1>0, <1>4, <2>4 DEF RecheckUnbound
<1>11. CASE RecheckNoPort(r)
  BY <1>0, <1>11, <1>a DEF RecheckNoPort
<1>5. CASE CreateOnDemand(r)
  <2>1. ApiTypeOK'
    BY <1>5, SlotTyped DEF CreateOnDemand
  <2>2. Live.port \in Ports
    BY <1>5, LiveType DEF CreateOnDemand
  <2> QED
    BY <1>0, <1>5, <2>1, <2>2 DEF CreateOnDemand
<1>6. CASE FailOnDemand(r)
  <2>1. ApiTypeOK'
    BY <1>6, SlotTyped DEF FailOnDemand, Unanswered
  <2> QED
    BY <1>0, <1>6, <2>1 DEF FailOnDemand
<1>7. CASE StorePort(r)
  BY <1>0, <1>7, <1>a DEF StorePort
<1>8. CASE Send(r)
  BY <1>0, <1>8, <1>a DEF Send
<1>9. CASE DropWaiting(r)
  BY <1>0, <1>9, <1>a DEF DropWaiting
<1>10. CASE DropCreate(r)
  <2>1. ApiTypeOK'
    BY <1>10, SlotTyped DEF DropCreate
  <2>2. Live.port \in Ports
    BY <1>10, LiveType DEF DropCreate, GivenUp
  <2> QED
    BY <1>0, <1>10, <2>1, <2>2 DEF DropCreate
<1> QED
  BY <1>1, <1>2, <1>3, <1>4, <1>5, <1>6, <1>7, <1>8, <1>9, <1>10, <1>11 DEF RelayStep

\* So does a step of sing-box ...
LEMMA ExecuteTyped ==
  ASSUME TypeOK, NEW n \in Slots, Execute(n)
  PROVE  TypeOK'
<1>1. ApiTypeOK'
  BY StepTyped DEF Execute, TypeOK
<1> QED
  BY <1>1 DEF Execute, TypeOK, poolVars, passVars, relayVars, history, InPool

\* ... and so do the other writers of the pool.
LEMMA PoolTyped ==
  ASSUME TypeOK,
         \/ \E p \in Proxies : AddProxy(p) \/ RemoveProxy(p)
         \/ \E p \in Proxies, s \in Statuses : SetStatus(p, s)
         \/ \E S \in SUBSET InPool, b \in Background : DeleteSubscription(S, b)
  PROVE  TypeOK'
<1> USE DEF TypeOK, NoPort, singboxVars, passVars, relayVars, history, InPool, Statuses
<1>a. UNCHANGED <<apiVars, timeouts>> => ApiTypeOK'
  BY DEF apiVars, resources, ApiTypeOK
<1>1. ASSUME NEW p \in Proxies, AddProxy(p) PROVE TypeOK'
  BY <1>1, <1>a DEF AddProxy
<1>2. ASSUME NEW p \in Proxies, RemoveProxy(p) PROVE TypeOK'
  BY <1>2, <1>a DEF RemoveProxy, Forget
<1>3. ASSUME NEW p \in Proxies, NEW s \in Statuses, SetStatus(p, s) PROVE TypeOK'
  BY <1>3, <1>a DEF SetStatus
<1>4. ASSUME NEW S \in SUBSET InPool, NEW b \in Background, DeleteSubscription(S, b)
      PROVE TypeOK'
  BY <1>4, <1>a, NamesAssumption DEF DeleteSubscription, Forget, Actors, Syncers, PassStates
<1> QED
  BY <1>1, <1>2, <1>3, <1>4

\* TypeOK is inductive.
LEMMA NextTyped == TypeOK /\ [Next]_vars => TypeOK'
<1> SUFFICES ASSUME TypeOK, [Next]_vars PROVE TypeOK'
  OBVIOUS
<1>1. CASE UNCHANGED vars
  BY <1>1 DEF TypeOK, vars, poolVars, singboxVars, passVars, relayVars, history, InPool,
              apiVars, resources, ApiTypeOK
<1> QED
  BY <1>1, PassTyped, RelayTyped, ExecuteTyped, PoolTyped DEF Next

\* Every variable keeps its type: no step writes a port outside the pool's range, and a
\* proxy that left the pool never gets a port there again.
THEOREM TypeCorrect == Spec => []TypeOK
<1>1. Init => TypeOK
  BY InitTyped
<1>2. TypeOK /\ [Next]_vars => TypeOK'
  BY NextTyped
<1> QED
  BY <1>1, <1>2, PTL DEF Spec

-----------------------------------------------------------------------------
(* sing-box: what the resources of a tag are, told from the calls at work  *)
(* on it, as long as no two calls were.                                    *)

\* A binding that has an entry is whole.
Entered == \A p \in entries : inbound[p] # NoPort /\ p \in routes /\ p \in outbounds

\* How far a call that is at work has got with its tag, which has no entry meanwhile.
Way(c) ==
  /\ c.at \in AtWork => c.proxy \notin entries
  /\ c.at \in {"outbound", "inbound", "undo", "unout"} => inbound[c.proxy] = NoPort
  /\ c.at \in {"route", "enter"} => inbound[c.proxy] = c.port
  /\ c.at \in {"outbound", "inbound", "undo", "route", "close", "unout"} => c.proxy \notin routes
  /\ c.at \in {"inbound", "route", "enter"} => c.proxy \in outbounds
  /\ c.at = "enter" => c.proxy \in routes

OnWay == \A n \in Slots : Way(calls[n])

OneWorker ==
  \A m, n \in Slots :
    calls[m].at \in AtWork /\ calls[n].at \in AtWork /\ calls[m].proxy = calls[n].proxy => m = n

\* A tag without an entry, at which nobody works, has no inbound and no route.
Clean ==
  \A p \in Proxies \ entries :
    \/ \E n \in Slots : calls[n].at \in AtWork /\ calls[n].proxy = p
    \/ inbound[p] = NoPort /\ p \notin routes

OneListener == \A p, q \in Proxies : inbound[p] = inbound[q] /\ inbound[p] # NoPort => p = q

ApiInv == Entered /\ OnWay /\ OneWorker /\ Clean /\ OneListener

\* What takes no call to work, from work or through it changes none of this.
LEMMA WorkKept ==
  ASSUME ApiInv, UNCHANGED resources,
         \A m \in Slots : calls[m].at \in AtWork \/ calls'[m].at \in AtWork => calls'[m] = calls[m]
  PROVE  ApiInv'
<1> USE DEF resources
<1>1. Entered' /\ OneListener'
  BY DEF ApiInv, Entered, OneListener
<1>2. OnWay'
  BY DEF ApiInv, OnWay, Way, AtWork, CreateStages, RemoveStages
<1>3. OneWorker' /\ Clean'
  BY DEF ApiInv, OneWorker, Clean
<1> QED
  BY <1>1, <1>2, <1>3 DEF ApiInv

\* A step of a call that works on its tag alone: the tag is all there is to look at.
LEMMA TagKept ==
  ASSUME ApiTypeOK, ApiInv, NEW n \in Slots, ApiStep(n),
         \A m \in Slots \ {n} : calls[m].at \in AtWork => calls[m].proxy # calls[n].proxy,
         Way(calls[n])',
         calls[n].proxy \in entries' =>
           /\ inbound'[calls[n].proxy] # NoPort
           /\ calls[n].proxy \in routes' /\ calls[n].proxy \in outbounds',
         \/ calls[n].proxy \in entries'
         \/ calls'[n].at \in AtWork
         \/ inbound'[calls[n].proxy] = NoPort /\ calls[n].proxy \notin routes',
         \A q \in Proxies \ {calls[n].proxy} :
           inbound'[calls[n].proxy] # NoPort => inbound[q] # inbound'[calls[n].proxy]
  PROVE  ApiInv'
<1> DEFINE p == calls[n].proxy
<1>1. /\ p \in Proxies
      /\ \A m \in Slots \ {n} : calls'[m] = calls[m]
      /\ calls'[n].at \in AtWork => calls'[n].proxy = p
      /\ \A q \in Proxies \ {p} :
           /\ q \in entries' <=> q \in entries
           /\ q \in outbounds' <=> q \in outbounds
           /\ inbound'[q] = inbound[q]
           /\ q \in routes' <=> q \in routes
  BY StepFacts, CallType DEF ApiTypeOK, NoCall, AtWork, CreateStages, RemoveStages
<1>2. \A m \in Slots \ {n} : calls[m].at \in AtWork => calls[m].proxy \in Proxies \ {p}
  BY CallType DEF AtWork, CreateStages, RemoveStages
<1>3. entries \subseteq Proxies /\ entries' \subseteq Proxies
  <2>1. entries' \subseteq entries \cup {p}
    BY DEF ApiStep, Check, CreateOutbound, CreateInbound, Undo, BindRoute, Record, DropEntry,
           UnbindRoute, CloseInbound, RemoveOutbound, resources
  <2> QED
    BY <1>1, <2>1 DEF ApiTypeOK
<1>4. Entered'
  BY <1>1, <1>3 DEF ApiInv, Entered
<1>5. OnWay'
  <2> SUFFICES ASSUME NEW m \in Slots PROVE Way(calls[m])'
    BY DEF OnWay
  <2>1. CASE m = n
    BY <2>1
  <2>2. CASE m # n
    <3>1. calls'[m] = calls[m] /\ Way(calls[m])
      BY <1>1, <2>2 DEF ApiInv, OnWay
    <3>2. CASE calls[m].at \in AtWork
      BY <1>1, <1>2, <2>2, <3>1, <3>2 DEF Way
    <3>3. CASE calls[m].at \notin AtWork
      BY <3>1, <3>3 DEF Way, AtWork, CreateStages, RemoveStages
    <3> QED
      BY <3>2, <3>3
  <2> QED
    BY <2>1, <2>2
<1>6. OneWorker'
  BY <1>1, <1>2 DEF ApiInv, OneWorker
<1>7. Clean'
  <2> SUFFICES ASSUME NEW q \in Proxies \ entries'
               PROVE  \/ \E m \in Slots : calls'[m].at \in AtWork /\ calls'[m].proxy = q
                      \/ inbound'[q] = NoPort /\ q \notin routes'
    BY DEF Clean
  <2>1. CASE q = p
    BY <1>1, <2>1
  <2>2. CASE q # p
    <3>1. \/ \E m \in Slots : calls[m].at \in AtWork /\ calls[m].proxy = q
          \/ inbound[q] = NoPort /\ q \notin routes
      BY <1>1, <2>2 DEF ApiInv, Clean
    <3> QED
      BY <1>1, <2>2, <3>1
  <2> QED
    BY <2>1, <2>2
<1>8. OneListener'
  BY <1>1 DEF ApiInv, OneListener
<1> QED
  BY <1>4, <1>5, <1>6, <1>7, <1>8 DEF ApiInv

\* Every step of sing-box that does not mix two calls keeps the resources in order.
LEMMA ApiKept ==
  ASSUME ApiTypeOK, ApiInv, NEW n \in Slots, ApiStep(n), ~mixed'
  PROVE  ApiInv'
<1> DEFINE c == calls[n]
           p == calls[n].proxy
           NoOther == \A m \in Slots \ {n} : calls[m].at \in AtWork => calls[m].proxy # p
           Stage(s) == calls'[n].at = s /\ calls'[n].proxy = p /\ calls'[n].port = c.port
           Over == calls'[n].at \in {"done", "failed", "none"}
<1>1. /\ c # NoCall /\ p \in Proxies /\ c.port \in Ports /\ c.port # NoPort
      /\ calls' = [calls EXCEPT ![n] = calls'[n]]
      /\ Way(c)
  BY StepFacts, CallType DEF ApiInv, OnWay, Ports, NoPort
<1>2. ASSUME NEW s, Goto(n, s) PROVE Stage(s) \/ (s \in Ended /\ Over)
  <2>1. \/ calls'[n] = [op |-> c.op, proxy |-> p, port |-> c.port, at |-> s]
        \/ s \in Ended /\ calls'[n] = NoCall
    BY <1>1, <1>2, GotoFacts
  <2> QED
    BY <2>1 DEF NoCall
<1>3. ASSUME NEW s \in Ended, Goto(n, s) PROVE Over
  BY <1>2, <1>3 DEF Ended
<1>4. c.at \in AtWork => NoOther
  BY DEF ApiInv, OneWorker
<1>5. \A s : Enters(n, s) => NoOther
  BY DEF Enters
<1>6. \A q \in Proxies \ {p} : inbound[p] # NoPort => inbound[q] # inbound[p]
  BY <1>1 DEF ApiInv, OneListener
<1>7. Over => Way(calls[n])' /\ calls'[n].at \notin AtWork
  BY DEF Way, AtWork, CreateStages, RemoveStages
<1>8. CASE Check(n)
  <2>1. CASE Goto(n, "failed")
    <3>1. calls'[n].at \notin AtWork /\ calls[n].at \notin AtWork /\ UNCHANGED resources
      BY <1>3, <1>7, <1>8, <2>1 DEF Check, At, AtWork, CreateStages, RemoveStages, Ended
    <3> QED
      BY <1>1, <3>1, WorkKept DEF ApiTypeOK
  <2>2. CASE p \notin entries /\ Enters(n, "outbound")
    <3>1. NoOther /\ Stage("outbound") /\ UNCHANGED resources
      BY <1>2, <1>5, <1>8, <2>2 DEF Enters, Ended, Check
    <3>2. inbound[p] = NoPort /\ p \notin routes
      <4>1. c.at = "check"
        BY <1>8 DEF Check, At
      <4> QED
        BY <1>1, <2>2, <3>1, <4>1 DEF ApiInv, Clean, AtWork, CreateStages, RemoveStages
    <3>3. Way(calls[n])' /\ calls'[n].at \in AtWork
      BY <2>2, <3>1, <3>2 DEF Way, AtWork, CreateStages, RemoveStages, resources
    <3> QED
      BY <2>2, <3>1, <3>2, <3>3, TagKept DEF resources
  <2> QED
    BY <1>8, <2>1, <2>2 DEF Check
<1>9. CASE CreateOutbound(n)
  <2>1. /\ c.at = "outbound" /\ NoOther /\ p \notin entries
        /\ inbound[p] = NoPort /\ p \notin routes
    BY <1>1, <1>4, <1>9 DEF CreateOutbound, At, Way, AtWork, CreateStages
  <2>2. UNCHANGED <<entries, inbound, routes>>
    BY <1>9 DEF CreateOutbound
  <2>3. Over \/ (Stage("inbound") /\ p \in outbounds')
    BY <1>1, <1>2, <1>3, <1>9 DEF CreateOutbound, Ended
  <2>4. Way(calls[n])'
    BY <1>7, <2>1, <2>2, <2>3 DEF Way
  <2> QED
    BY <2>1, <2>2, <2>4, TagKept
<1>10. CASE CreateInbound(n)
  <2>1. /\ c.at = "inbound" /\ NoOther /\ p \notin entries /\ p \in outbounds
        /\ inbound[p] = NoPort /\ p \notin routes
    BY <1>1, <1>4, <1>10 DEF CreateInbound, At, Way, AtWork, CreateStages
  <2>2. UNCHANGED <<entries, outbounds, routes>>
    BY <1>10 DEF CreateInbound
  <2>3. \/ Stage("undo") /\ inbound' = inbound
        \/ /\ Stage("route") /\ ~Listening(c.port) /\ inbound'[p] = c.port
    BY <1>1, <1>2, <1>10 DEF CreateInbound, Ended, ApiTypeOK
  <2>4. Way(calls[n])' /\ calls'[n].at \in AtWork
    BY <2>1, <2>2, <2>3 DEF Way, AtWork, CreateStages
  <2>5. \A q \in Proxies \ {p} : inbound'[p] # NoPort => inbound[q] # inbound'[p]
    BY <2>1, <2>3 DEF Listening
  <2> QED
    BY <2>1, <2>2, <2>4, <2>5, TagKept
<1>11. CASE Undo(n)
  <2>1. /\ c.at = "undo" /\ NoOther /\ p \notin entries
        /\ inbound[p] = NoPort /\ p \notin routes
    BY <1>1, <1>4, <1>11 DEF Undo, At, Way, AtWork, CreateStages
  <2>2. UNCHANGED <<entries, inbound, routes>> /\ Over
    BY <1>3, <1>11 DEF Undo, Ended
  <2> QED
    BY <1>7, <2>1, <2>2, TagKept
<1>12. CASE BindRoute(n)
  <2>1. /\ c.at = "route" /\ NoOther /\ p \notin entries /\ p \in outbounds
        /\ inbound[p] = c.port
    BY <1>1, <1>4, <1>12 DEF BindRoute, At, Way, AtWork, CreateStages
  <2>2. UNCHANGED <<entries, inbound, outbounds>> /\ Stage("enter") /\ p \in routes'
    BY <1>1, <1>2, <1>12 DEF BindRoute, Ended
  <2>3. Way(calls[n])' /\ calls'[n].at \in AtWork
    BY <2>1, <2>2 DEF Way, AtWork, CreateStages
  <2> QED
    BY <1>6, <2>1, <2>2, <2>3, TagKept
<1>13. CASE Record(n)
  <2>1. /\ c.at = "enter" /\ NoOther /\ p \in outbounds /\ p \in routes
        /\ inbound[p] = c.port
    BY <1>1, <1>4, <1>13 DEF Record, At, Way, AtWork, CreateStages
  <2>2. UNCHANGED <<inbound, outbounds, routes>> /\ Over /\ p \in entries'
    BY <1>1, <1>3, <1>13 DEF Record, Ended
  <2> QED
    BY <1>1, <1>6, <1>7, <2>1, <2>2, TagKept
<1>14. CASE DropEntry(n)
  <2>1. CASE Goto(n, "failed") /\ UNCHANGED entries
    <3>1. calls'[n].at \notin AtWork /\ calls[n].at \notin AtWork /\ UNCHANGED resources
      BY <1>3, <1>7, <1>14, <2>1
      DEF DropEntry, At, AtWork, CreateStages, RemoveStages, Ended, resources
    <3> QED
      BY <1>1, <3>1, WorkKept DEF ApiTypeOK
  <2>2. CASE p \in entries /\ Enters(n, "unroute") /\ entries' = entries \ {p}
    <3>1. NoOther /\ Stage("unroute") /\ UNCHANGED <<outbounds, inbound, routes>>
      BY <1>2, <1>5, <1>14, <2>2 DEF Enters, Ended, DropEntry
    <3>2. Way(calls[n])' /\ calls'[n].at \in AtWork
      BY <2>2, <3>1 DEF Way, AtWork, CreateStages, RemoveStages
    <3> QED
      BY <1>6, <2>2, <3>1, <3>2, TagKept
  <2> QED
    BY <1>14, <2>1, <2>2 DEF DropEntry
<1>15. CASE UnbindRoute(n)
  <2>1. c.at = "unroute" /\ NoOther /\ p \notin entries
    BY <1>1, <1>4, <1>15 DEF UnbindRoute, At, Way, AtWork, RemoveStages
  <2>2. UNCHANGED <<entries, inbound, outbounds>> /\ Stage("close") /\ p \notin routes'
    BY <1>1, <1>2, <1>15 DEF UnbindRoute, Ended
  <2>3. Way(calls[n])' /\ calls'[n].at \in AtWork
    BY <2>1, <2>2 DEF Way, AtWork, CreateStages, RemoveStages
  <2> QED
    BY <1>6, <2>1, <2>2, <2>3, TagKept
<1>16. CASE CloseInbound(n)
  <2>1. c.at = "close" /\ NoOther /\ p \notin entries /\ p \notin routes
    BY <1>1, <1>4, <1>16 DEF CloseInbound, At, Way, AtWork, RemoveStages
  <2>2. UNCHANGED <<entries, routes, outbounds>> /\ Stage("unout") /\ inbound'[p] = NoPort
    BY <1>1, <1>2, <1>16 DEF CloseInbound, Ended, ApiTypeOK
  <2>3. Way(calls[n])' /\ calls'[n].at \in AtWork
    BY <2>1, <2>2 DEF Way, AtWork, CreateStages, RemoveStages
  <2> QED
    BY <2>1, <2>2, <2>3, TagKept
<1>17. CASE RemoveOutbound(n)
  <2>1. /\ c.at = "unout" /\ NoOther /\ p \notin entries
        /\ inbound[p] = NoPort /\ p \notin routes
    BY <1>1, <1>4, <1>17 DEF RemoveOutbound, At, Way, AtWork, RemoveStages
  <2>2. UNCHANGED <<entries, inbound, routes>> /\ Over
    BY <1>3, <1>17 DEF RemoveOutbound, Ended
  <2> QED
    BY <1>7, <2>1, <2>2, TagKept
<1> QED
  BY <1>8, <1>9, <1>10, <1>11, <1>12, <1>13, <1>14, <1>15, <1>16, <1>17 DEF ApiStep

\* Nor does the server disturb it when it sends a call, reads an answer or gives up.
LEMMA ApiAsked ==
  ASSUME ApiTypeOK, ApiInv, UNCHANGED resources,
         \/ Live = NoCall /\ \E p \in Proxies, x \in Ports : Ask(Creation(p, x)) \/ Ask(Removal(p, x))
         \/ Answered
         \/ GivenUp
         \/ UNCHANGED calls
  PROVE  ApiInv'
<1>1. timeouts \in Slots /\ calls \in [Slots -> Calls]
  BY DEF ApiTypeOK
<1> SUFFICES \A m \in Slots :
               calls[m].at \in AtWork \/ calls'[m].at \in AtWork => calls'[m] = calls[m]
  BY WorkKept
<1>2. \A m \in Slots \ {timeouts} : calls'[m] = calls[m]
  BY <1>1 DEF Ask, Answered, GivenUp
<1>3. \/ calls'[timeouts] = Live
      \/ Live.at \notin AtWork /\ calls'[timeouts].at \notin AtWork
  BY <1>1 DEF Ask, Answered, GivenUp, Live, NoCall, Creation, Removal, AtWork, CreateStages,
              RemoveStages, Ended
<1> QED
  BY <1>2, <1>3 DEF Live

-----------------------------------------------------------------------------
(* Who claims a port: the pool, the plan of a pass, a request that created *)
(* a binding and has not told the pool.  As long as all is orderly every   *)
(* claim is backed by sing-box and by the allocator.                       *)

\* Ports in use that no claim can rest on: of the call under way, unless it is a creation
\* that succeeded, and of requests dropped mid-call.
Reserved == IF Live.op = "create" /\ Live.at = "done" THEN dropped ELSE dropped \cup {Live.port}
Counted  == used \ Reserved

Backed(p, x) == p \in entries /\ inbound[p] = x /\ x \in Counted

Unclaimed(p) ==
  /\ port[p] = NoPort
  /\ \A t \in Syncers : InPass(t) => plan[t][p] = NoPort
  /\ \A r \in Relays : pc[r] = "store" => goal[r] # p

\* No two passes at once, and one user of the mutex, who alone waits for a call.
Alone == \A t, u \in Syncers : InPass(t) /\ InPass(u) => t = u

Held ==
  /\ \A t \in Syncers : pc[t] = "sync" <=> mgr = t
  /\ \A r \in Relays : pc[r] = "create" <=> mgr = r
  /\ \A r \in Relays : pc[r] = "create" => Live.op = "create" /\ Live.proxy = goal[r]
  /\ mgr = Nobody => Live = NoCall

PoolBacked  == \A p \in Proxies : port[p] # NoPort => Backed(p, port[p])
PlanBacked  == \A t \in Syncers : InPass(t) =>
                 \A p \in Proxies : plan[t][p] # NoPort => Backed(p, plan[t][p])
RelayBacked == \A r \in Relays : pc[r] = "store" => via[r] # NoPort /\ Backed(goal[r], via[r])

\* A binding a request has created is not yet known to the pool, a pass or another request.
RelayAlone ==
  \A r \in Relays : pc[r] = "store" =>
    /\ port[goal[r]] = NoPort
    /\ \A t \in Syncers : InPass(t) => plan[t][goal[r]] = NoPort
    /\ \A s \in Relays : pc[s] = "store" /\ goal[s] = goal[r] => s = r

\* Nor is one whose creation was answered, and the answer not read.
LiveDone ==
  Live.op = "create" /\ Live.at = "done" => Backed(Live.proxy, Live.port) /\ Unclaimed(Live.proxy)

\* While a pass is calling sing-box, the pool does not advertise what it will remove,
\* and what it creates is selected.
Withdrawn ==
  \A t \in Syncers :
    /\ InPass(t) => todo[t] \subseteq sel[t]
    /\ pc[t] \in {"lock", "sync"} => \A p \in ToRemove(t) : port[p] = NoPort
    /\ pc[t] = "sync" /\ Live.op = "create" => Live.proxy \in sel[t]

\* A removal that has yet to close its listener is of one nobody claims any more, and
\* the only one at that binding.
Removals ==
  \A n \in Slots : calls[n].op = "remove" =>
    /\ calls[n].at \in {"drop", "unroute", "close"} =>
         inbound[calls[n].proxy] = calls[n].port /\ calls[n].port \notin Counted
    /\ calls[n].at = "drop" => calls[n].proxy \in entries
OneRemoval ==
  \A m, n \in Slots :
    calls[m].at = "drop" /\ calls[n].at = "drop" /\ calls[m].proxy = calls[n].proxy => m = n

LiveUsed     == Live # NoCall => Live.port \in used \ dropped
UsedListened == \A x \in Counted : Listening(x)

\* A port whose request was dropped is never freed, so nobody else is given it.
DroppedUsed == dropped \subseteq used

\* The listener a call is about is there.
Opened(c) ==
  \/ c.op = "create" /\ c.at \in {"route", "enter", "done"}
  \/ c.op = "remove" /\ c.at \in {"drop", "unroute", "close"}

ListenedUsed ==
  timeouts = 0 =>
    /\ \A p \in Proxies : inbound[p] # NoPort => inbound[p] \in used
    /\ Live # NoCall /\ ~Opened(Live) => ~Listening(Live.port)

Holdings == Held /\ Removals /\ OneRemoval /\ LiveUsed /\ UsedListened /\ DroppedUsed /\ ListenedUsed
Backing  == Alone /\ PoolBacked /\ PlanBacked /\ RelayBacked /\ RelayAlone /\ LiveDone /\ Withdrawn
Claims   == ApiInv /\ Holdings /\ Backing

ClaimsInv == TypeOK /\ (Orderly => Claims)


\* The inductive invariant has the two properties as its consequences.
LEMMA ClaimsImply == ClaimsInv => Routed /\ PortsAccounted
<1> SUFFICES ASSUME ClaimsInv, Orderly PROVE Routed /\ PortsAccounted
  BY DEF Routed, PortsAccounted
<1>1. TypeOK /\ Claims
  BY DEF ClaimsInv
<1>2. ASSUME NEW p \in InPool, port[p] # NoPort PROVE Forwards(p, port[p]) /\ port[p] \in used
  BY <1>1, <1>2 DEF InPool, Claims, Backing, PoolBacked, Backed, Counted, Forwards, ApiInv, Entered
<1>3. ASSUME NEW x \in used PROVE Listening(x) \/ x \in dropped \cup {Live.port}
  BY <1>1, <1>3 DEF Claims, Holdings, UsedListened, Counted, Reserved
<1>4. timeouts = 0 => \A p \in Proxies : inbound[p] # NoPort => inbound[p] \in used
  BY <1>1 DEF Claims, Holdings, ListenedUsed
<1> QED
  BY <1>2, <1>3, <1>4 DEF Routed, PortsAccounted

\* After startup each bound proxy is backed, and nothing else claims a port.
LEMMA InitClaims == Init => Claims
<1> SUFFICES ASSUME Init PROVE Claims
  OBVIOUS
<1>0. TypeOK
  BY InitTyped
<1>1. PICK S \in SUBSET With("Valid") :
         /\ Cardinality(S) <= Max
         /\ inbound \in [Proxies -> 0 .. Cardinality(S)]
         /\ \A p \in Proxies : inbound[p] # NoPort <=> p \in S
         /\ \A p, q \in S : inbound[p] = inbound[q] => p = q
         /\ used = {inbound[p] : p \in S}
         /\ entries = S /\ outbounds = S /\ routes = S
  BY DEF Init
<1>2. /\ \A t \in Syncers : ~InPass(t) /\ pc[t] = "idle"
      /\ \A r \in Relays : pc[r] = "idle"
      /\ mgr = Nobody /\ Nobody \notin Syncers \cup Relays
  BY NamesAssumption DEF Init, InPass, Actors
<1>3. /\ Live = NoCall /\ \A n \in Slots : calls[n] = NoCall
      /\ timeouts = 0 /\ dropped = {} /\ NoPort \notin used
  BY <1>0 DEF Init, Live, TypeOK, ApiTypeOK, Ports, NoPort
<1>4. S \subseteq Proxies
  BY DEF With
<1>5. Counted = used
  BY <1>3 DEF Counted, Reserved, NoCall
<1>6. ApiInv
  BY <1>1, <1>3, <1>4
  DEF ApiInv, Entered, OnWay, Way, OneWorker, Clean, OneListener, NoCall, AtWork, CreateStages,
      RemoveStages
<1>7. Holdings
  <2>1. Held
    BY <1>2, <1>3 DEF Held
  <2>2. Removals /\ OneRemoval /\ LiveUsed /\ DroppedUsed
    BY <1>3 DEF Removals, OneRemoval, LiveUsed, DroppedUsed, NoCall
  <2>3. UsedListened /\ ListenedUsed
    BY <1>1, <1>3, <1>4, <1>5 DEF UsedListened, ListenedUsed, Listening
  <2> QED
    BY <2>1, <2>2, <2>3 DEF Holdings
<1>8. Backing
  <2>1. PoolBacked
    BY <1>1, <1>4, <1>5 DEF Init, PoolBacked, Backed
  <2>2. Alone /\ PlanBacked /\ RelayBacked /\ RelayAlone /\ LiveDone /\ Withdrawn
    BY <1>2, <1>3 DEF Alone, PlanBacked, RelayBacked, RelayAlone, LiveDone, Withdrawn, NoCall
  <2> QED
    BY <2>1, <2>2 DEF Backing
<1> QED
  BY <1>6, <1>7, <1>8 DEF Claims

-----------------------------------------------------------------------------
(* Steps of sing-box.                                                      *)

\* The call the server waits for keeps all but its stage, and only an answer 201 makes
\* its port one that can be claimed.
LEMMA ExecuteLive ==
  ASSUME TypeOK, NEW n \in Slots, Execute(n)
  PROVE  /\ Live'.op = Live.op /\ Live'.proxy = Live.proxy /\ Live'.port = Live.port
         /\ Live' = NoCall <=> Live = NoCall
         /\ n # timeouts => Live' = Live
         /\ Live.at = "done" => n # timeouts
         /\ Counted \subseteq Counted'
         /\ \/ Counted' = Counted
            \/ /\ n = timeouts /\ Record(n) /\ Live.op = "create"
               /\ Counted' \subseteq Counted \cup {Live.port}
<1>1. /\ calls' = [calls EXCEPT ![n] = calls'[n]] /\ calls[n] # NoCall /\ ApiTypeOK
      /\ \/ /\ calls'[n].op = calls[n].op /\ calls'[n].proxy = calls[n].proxy
            /\ calls'[n].port = calls[n].port /\ calls'[n] # NoCall
         \/ n # timeouts
      /\ timeouts' = timeouts /\ used' = used /\ dropped' = dropped
      /\ calls \in [Slots -> Calls] /\ timeouts \in Slots
  BY StepFacts DEF Execute, TypeOK, ApiTypeOK, history
<1>2. n # timeouts => Live' = Live
  BY <1>1 DEF Live
<1>3. /\ Live'.op = Live.op /\ Live'.proxy = Live.proxy /\ Live'.port = Live.port
      /\ Live' = NoCall <=> Live = NoCall
  BY <1>1, <1>2 DEF Live
<1>4. Live.at = "done" => n # timeouts
  BY DEF Live, Execute, ApiStep, Check, CreateOutbound, CreateInbound, Undo, BindRoute, Record,
         DropEntry, UnbindRoute, CloseInbound, RemoveOutbound, At
<1>5. CASE n # timeouts
  BY <1>1, <1>2, <1>4, <1>5 DEF Counted, Reserved
<1>6. CASE n = timeouts
  <2>1. Live.at # "done"
    BY <1>4, <1>6
  <2>2. Reserved = dropped \cup {Live.port}
    BY <2>1 DEF Reserved
  <2>3. Reserved' = Reserved \/ (Live.op = "create" /\ Live'.at = "done" /\ Reserved' = dropped)
    BY <1>1, <1>3, <2>2 DEF Reserved
  <2>4. ASSUME Live.op = "create", Live'.at = "done" PROVE Record(n)
    <3>1. calls[n].op = "create" /\ calls'[n].at = "done"
      BY <1>1, <1>6, <2>4 DEF Live
    <3>2. calls[n].at \notin RemoveStages
      BY <1>1, <3>1, CallType DEF CreateStages, RemoveStages, Ended
    <3>3. \A s : Goto(n, s) => s = "done"
      BY <1>1, <3>1, GotoFacts DEF NoCall
    <3> QED
      BY <3>2, <3>3 DEF Execute, ApiStep, Check, CreateOutbound, CreateInbound, Undo, BindRoute,
         Record, DropEntry, UnbindRoute, CloseInbound, RemoveOutbound, At, Enters, RemoveStages
  <2> QED
    BY <1>1, <1>3, <1>4, <1>6, <2>2, <2>3, <2>4 DEF Counted
<1> QED
  BY <1>2, <1>3, <1>4, <1>5, <1>6

\* What a step of sing-box may do to a tag: an inbound comes or goes only while the tag has
\* no entry, and an entry goes only by a removal, which nobody's claim rests on.
LEMMA ExecuteTag ==
  ASSUME TypeOK, Claims, NEW n \in Slots, Execute(n)
  PROVE  LET p == calls[n].proxy IN
         /\ p \in Proxies /\ calls[n].port \in Ports /\ calls[n].port # NoPort /\ n <= timeouts
         /\ \A q \in Proxies \ {p} : inbound'[q] = inbound[q] /\ (q \in entries' <=> q \in entries)
         /\ \/ inbound'[p] = inbound[p]
            \/ /\ calls[n].at \in AtWork /\ p \notin entries
               /\ \/ /\ calls[n].at = "inbound" /\ ~Listening(calls[n].port)
                     /\ inbound[p] = NoPort /\ inbound'[p] = calls[n].port
                  \/ /\ calls[n].at = "close" /\ inbound[p] = calls[n].port
                     /\ calls[n].port \notin Counted /\ inbound'[p] = NoPort
         /\ \/ p \in entries' <=> p \in entries
            \/ /\ calls[n].at = "enter" /\ p \notin entries /\ inbound[p] = calls[n].port
               /\ inbound'[p] = inbound[p]
            \/ /\ calls[n].at = "drop" /\ inbound[p] = calls[n].port
               /\ calls[n].port \notin Counted
<1> DEFINE p == calls[n].proxy
<1>1. /\ p \in Proxies /\ calls[n].port \in Ports /\ calls[n].port # NoPort /\ n <= timeouts
      /\ calls[n].at \in RemoveStages => calls[n].op = "remove"
      /\ \A q \in Proxies \ {p} : inbound'[q] = inbound[q] /\ (q \in entries' <=> q \in entries)
      /\ ApiTypeOK /\ ApiStep(n)
  <2>1. ApiTypeOK /\ ApiStep(n)
    BY DEF TypeOK, Execute
  <2>2. calls[n] # NoCall
    BY <2>1, StepFacts
  <2>3. /\ p \in Proxies /\ calls[n].port \in Ports /\ n <= timeouts
        /\ \/ calls[n].op = "create" /\ calls[n].at \in CreateStages \cup Ended
           \/ calls[n].op = "remove" /\ calls[n].at \in RemoveStages \cup Ended
    BY <2>1, <2>2, CallType
  <2>4. \A q \in Proxies \ {p} : inbound'[q] = inbound[q] /\ (q \in entries' <=> q \in entries)
    BY <2>1, StepFacts
  <2>5. calls[n].port # NoPort
    BY <2>3 DEF Ports, NoPort
  <2>6. calls[n].at \in RemoveStages => calls[n].op = "remove"
    BY <2>3 DEF CreateStages, RemoveStages, Ended
  <2> QED
    BY <2>1, <2>3, <2>4, <2>5, <2>6
<1>2. Way(calls[n])
  BY DEF Claims, ApiInv, OnWay
<1>3. calls[n].op = "remove" /\ calls[n].at \in {"drop", "unroute", "close"} =>
        inbound[p] = calls[n].port /\ calls[n].port \notin Counted
  BY DEF Claims, Holdings, Removals
<1>4. CASE CreateInbound(n)
  BY <1>1, <1>2, <1>4 DEF CreateInbound, At, Way, AtWork, CreateStages, ApiTypeOK
<1>5. CASE CloseInbound(n)
  BY <1>1, <1>2, <1>3, <1>5 DEF CloseInbound, At, Way, AtWork, RemoveStages, ApiTypeOK
<1>6. CASE Record(n)
  BY <1>1, <1>2, <1>6 DEF Record, At, Way, AtWork, CreateStages
<1>7. CASE DropEntry(n)
  BY <1>1, <1>3, <1>7 DEF DropEntry, At, RemoveStages
<1>8. CASE Check(n) \/ CreateOutbound(n) \/ Undo(n) \/ BindRoute(n) \/ UnbindRoute(n)
             \/ RemoveOutbound(n)
  BY <1>1, <1>8 DEF Check, CreateOutbound, Undo, BindRoute, UnbindRoute, RemoveOutbound, resources
<1> QED
  BY <1>1, <1>4, <1>5, <1>6, <1>7, <1>8 DEF ApiStep

\* So whatever is backed stays so.
LEMMA ExecuteBacked ==
  ASSUME TypeOK, Claims, NEW n \in Slots, Execute(n), NEW q \in Proxies, NEW y, Backed(q, y)
  PROVE  Backed(q, y)'
<1>1. y \in Counted'
  BY ExecuteLive DEF Backed
<1>2. q \in entries' /\ inbound'[q] = y
  BY ExecuteTag DEF Backed
<1> QED
  BY <1>1, <1>2 DEF Backed

\* The listener of the call the server waits for comes and goes with its stage.
LEMMA ExecuteOpened ==
  ASSUME TypeOK, Claims, Execute(timeouts)
  PROVE  \/ /\ CloseInbound(timeouts) /\ Live.op = "remove" /\ Live.at = "close"
            /\ inbound[Live.proxy] = Live.port
            /\ inbound' = [inbound EXCEPT ![Live.proxy] = NoPort]
         \/ Opened(Live)'
         \/ inbound' = inbound /\ ~Opened(Live)
<1> DEFINE c == Live
           p == Live.proxy
<1>1. /\ timeouts \in Slots /\ timeouts' = timeouts /\ calls \in [Slots -> Calls] /\ ApiTypeOK
      /\ ApiStep(timeouts) /\ c = calls[timeouts] /\ Live' = calls'[timeouts]
  BY DEF Execute, TypeOK, ApiTypeOK, Live
<1>2. /\ c # NoCall
      /\ \/ c.op = "create" /\ c.at \in CreateStages \cup Ended
         \/ c.op = "remove" /\ c.at \in RemoveStages \cup Ended
  BY <1>1, StepFacts, CallType
<1>3. ASSUME NEW s, Goto(timeouts, s) PROVE Live'.at = s /\ Live'.op = c.op
  <2>1. Live' = [op |-> c.op, proxy |-> p, port |-> c.port, at |-> s]
    BY <1>1, <1>2, <1>3, GotoFacts
  <2> QED
    BY <2>1
<1>4. CASE CloseInbound(timeouts)
  <2>1. c.at = "close" /\ inbound' = [inbound EXCEPT ![p] = NoPort]
    BY <1>1, <1>4 DEF CloseInbound, At
  <2>2. c.op = "remove"
    BY <1>2, <2>1 DEF CreateStages, Ended
  <2>3. inbound[p] = c.port
    BY <1>1, <2>1, <2>2 DEF Claims, Holdings, Removals
  <2> QED
    BY <1>4, <2>1, <2>2, <2>3
<1>5. CASE Check(timeouts) \/ CreateOutbound(timeouts) \/ Undo(timeouts)
             \/ RemoveOutbound(timeouts)
  <2>1. c.at \in {"check", "outbound", "undo", "unout"} /\ inbound' = inbound
    BY <1>1, <1>5 DEF Check, CreateOutbound, Undo, RemoveOutbound, At, resources
  <2> QED
    BY <2>1 DEF Opened
<1>6. CASE CreateInbound(timeouts)
  <2>1. c.at = "inbound"
    BY <1>1, <1>6 DEF CreateInbound, At
  <2>2. c.op = "create" /\ ~Opened(c)
    BY <1>2, <2>1 DEF RemoveStages, Ended, Opened
  <2>3. CASE Goto(timeouts, "undo") /\ UNCHANGED inbound
    BY <2>2, <2>3
  <2>4. CASE Goto(timeouts, "route")
    BY <1>3, <2>2, <2>4 DEF Opened
  <2> QED
    BY <1>6, <2>3, <2>4 DEF CreateInbound
<1>7. CASE BindRoute(timeouts) \/ Record(timeouts)
  <2>1. c.at \in {"route", "enter"} /\ (Goto(timeouts, "enter") \/ Goto(timeouts, "done"))
    BY <1>1, <1>7 DEF BindRoute, Record, At
  <2>2. c.op = "create"
    BY <1>2, <2>1 DEF RemoveStages, Ended
  <2> QED
    BY <1>3, <2>1, <2>2 DEF Opened
<1>8. CASE DropEntry(timeouts) \/ UnbindRoute(timeouts)
  <2>1. c.at \in {"drop", "unroute"}
    BY <1>1, <1>8 DEF DropEntry, UnbindRoute, At
  <2>2. c.op = "remove"
    BY <1>2, <2>1 DEF CreateStages, Ended
  <2>3. c.at = "drop" => p \in entries
    BY <1>1, <2>2 DEF Claims, Holdings, Removals
  <2>4. Goto(timeouts, "unroute") \/ Goto(timeouts, "close")
    BY <1>1, <1>8, <2>3 DEF DropEntry, UnbindRoute, At, Enters
  <2> QED
    BY <1>3, <2>2, <2>4 DEF Opened
<1> QED
  BY <1>1, <1>4, <1>5, <1>6, <1>7, <1>8 DEF ApiStep

\* A step of sing-box keeps what the allocator and the calls under way rest on ...
LEMMA ExecuteHoldings ==
  ASSUME TypeOK, Claims, NEW n \in Slots, Execute(n)
  PROVE  Holdings'
<1> DEFINE c == calls[n]
           p == calls[n].proxy
<1>1. /\ calls' = [calls EXCEPT ![n] = calls'[n]] /\ c # NoCall
      /\ \A m \in Slots \ {n} : calls'[m] = calls[m]
      /\ \/ /\ calls'[n].op = c.op /\ calls'[n].proxy = p /\ calls'[n].port = c.port
         \/ calls'[n] = NoCall
      /\ UNCHANGED <<used, timeouts, mgr, pc, goal, dropped>>
      /\ calls \in [Slots -> Calls] /\ timeouts \in Slots /\ ApiTypeOK /\ ApiStep(n)
  BY StepFacts DEF Execute, TypeOK, ApiTypeOK, history, relayVars
<1>2. /\ Live'.op = Live.op /\ Live'.proxy = Live.proxy /\ Live'.port = Live.port
      /\ Live' = NoCall <=> Live = NoCall
  BY ExecuteLive
<1>3. Held' /\ LiveUsed' /\ DroppedUsed'
  BY <1>1, <1>2 DEF Claims, Holdings, Held, LiveUsed, DroppedUsed
<1>4. /\ calls'[n].at # "drop"
      /\ calls'[n].op = "remove" /\ calls'[n].at \in {"unroute", "close"} =>
           /\ c.at \in {"drop", "unroute"} /\ c.op = "remove" /\ inbound'[p] = inbound[p]
           /\ calls'[n].proxy = p /\ calls'[n].port = c.port
  <2>1. ASSUME NEW s, Goto(n, s) PROVE calls'[n].at \in {s, "none"}
    <3>1. calls'[n] = [op |-> c.op, proxy |-> p, port |-> c.port, at |-> s] \/ calls'[n] = NoCall
      BY <1>1, <2>1, GotoFacts
    <3> QED
      BY <3>1 DEF NoCall
  <2>2. CASE \/ Check(n) \/ CreateOutbound(n) \/ CreateInbound(n) \/ Undo(n) \/ BindRoute(n)
             \/ Record(n) \/ CloseInbound(n) \/ RemoveOutbound(n)
    BY <2>1, <2>2 DEF Check, CreateOutbound, CreateInbound, Undo, BindRoute, Record,
                      CloseInbound, RemoveOutbound, Enters
  <2>3. CASE DropEntry(n) \/ UnbindRoute(n)
    <3>1. c.at \in {"drop", "unroute"} /\ calls'[n].at # "drop" /\ inbound' = inbound
      BY <2>1, <2>3 DEF DropEntry, UnbindRoute, At, Enters
    <3> QED
      BY <1>1, <3>1 DEF NoCall
  <2> QED
    BY <1>1, <2>2, <2>3 DEF ApiStep
<1>5. OneRemoval'
  <2> SUFFICES ASSUME NEW l \in Slots, NEW m \in Slots, calls'[l].at = "drop",
                      calls'[m].at = "drop", calls'[l].proxy = calls'[m].proxy
               PROVE  l = m
    BY DEF OneRemoval
  <2>1. l # n /\ m # n
    BY <1>4
  <2> QED
    BY <1>1, <2>1 DEF Claims, Holdings, OneRemoval
<1>6. ASSUME NEW m \in Slots, calls[m].op = "remove",
             calls[m].at \in {"drop", "unroute", "close"}
      PROVE  calls[m].port \notin Counted'
  <2>1. inbound[calls[m].proxy] = calls[m].port /\ calls[m].port \notin Counted
    BY <1>6 DEF Claims, Holdings, Removals
  <2>2. CASE Counted' = Counted
    BY <2>1, <2>2
  <2>3. CASE /\ n = timeouts /\ Record(n) /\ Live.op = "create"
             /\ Counted' \subseteq Counted \cup {Live.port}
    <3>1. /\ c.at = "enter" /\ c.op = "create" /\ c.port = Live.port
          /\ p \in Proxies /\ calls[m].proxy \in Proxies /\ c.port # NoPort
          /\ inbound[p] = c.port /\ p \notin entries
      <4>1. c.at = "enter" /\ c = Live
        BY <2>3 DEF Record, At, Live
      <4>2. Way(c) /\ c.at \in AtWork
        BY <4>1 DEF Claims, ApiInv, OnWay, AtWork, CreateStages
      <4>3. calls[m].proxy \in Proxies
        BY <1>1, <1>6, CallType DEF NoCall
      <4> QED
        BY <2>3, <4>1, <4>2, <4>3, ExecuteTag DEF Way
    <3>2. ASSUME calls[m].port = c.port PROVE FALSE
      <4>1. calls[m].proxy = p
        BY <2>1, <3>1, <3>2 DEF Claims, ApiInv, OneListener
      <4>2. calls[m].at # "drop"
        BY <1>6, <3>1, <4>1 DEF Claims, Holdings, Removals
      <4>3. m = n
        BY <1>6, <3>1, <4>1, <4>2
        DEF Claims, ApiInv, OneWorker, AtWork, CreateStages, RemoveStages
      <4> QED
        BY <1>6, <3>1, <4>3
    <3> QED
      BY <2>1, <2>3, <3>1, <3>2
  <2> QED
    BY <2>2, <2>3, ExecuteLive
<1>7. Removals'
  <2> SUFFICES ASSUME NEW m \in Slots, calls'[m].op = "remove",
                      calls'[m].at \in {"drop", "unroute", "close"}
               PROVE  /\ inbound'[calls'[m].proxy] = calls'[m].port
                      /\ calls'[m].port \notin Counted'
                      /\ calls'[m].at = "drop" => calls'[m].proxy \in entries'
    BY DEF Removals
  <2>1. CASE m = n
    <3>1. inbound[p] = c.port /\ c.port \notin Counted'
      BY <1>4, <1>6, <2>1 DEF Claims, Holdings, Removals
    <3> QED
      BY <1>4, <2>1, <3>1
  <2>2. CASE m # n
    <3>1. /\ calls'[m] = calls[m] /\ calls[m].proxy \in Proxies
          /\ inbound[calls[m].proxy] = calls[m].port /\ calls[m].port \notin Counted'
          /\ calls[m].at = "drop" => calls[m].proxy \in entries
      <4>1. calls'[m] = calls[m] /\ calls[m].proxy \in Proxies
        BY <1>1, <2>2, CallType DEF NoCall
      <4> QED
        BY <1>6, <4>1 DEF Claims, Holdings, Removals
    <3>2. calls[m].proxy = p => inbound'[p] = inbound[p]
      <4>1. CASE calls[m].at = "drop"
        BY <3>1, <4>1, ExecuteTag
      <4>2. CASE calls[m].at # "drop"
        BY <2>2, <3>1, <4>2, ExecuteTag
        DEF Claims, ApiInv, OneWorker, AtWork, CreateStages, RemoveStages
      <4> QED
        BY <4>1, <4>2
    <3>3. calls[m].at = "drop" => calls[m].proxy \in entries'
      <4> SUFFICES ASSUME calls[m].at = "drop", calls[m].proxy = p PROVE p \in entries'
        BY <3>1, ExecuteTag
      <4>1. c.at # "drop"
        BY <2>2 DEF Claims, Holdings, OneRemoval
      <4> QED
        BY <3>1, <4>1, ExecuteTag
    <3> QED
      BY <3>1, <3>2, <3>3, ExecuteTag
  <2> QED
    BY <2>1, <2>2
<1>8. UsedListened'
  <2> SUFFICES ASSUME NEW x \in Counted' PROVE \E q \in Proxies : inbound'[q] = x
    BY DEF UsedListened, Listening
  <2>1. CASE x \in Counted
    <3>1. PICK q \in Proxies : inbound[q] = x
      BY <2>1 DEF Claims, Holdings, UsedListened, Listening
    <3>2. x # NoPort
      BY <2>1 DEF Counted, TypeOK, Ports, NoPort
    <3> QED
      BY <2>1, <3>1, <3>2, ExecuteTag
  <2>2. CASE x \notin Counted
    <3>1. n = timeouts /\ Record(n) /\ x = Live.port
      BY <2>2, ExecuteLive
    <3>2. c.at = "enter" /\ c = Live /\ inbound' = inbound
      BY <3>1 DEF Record, At, Live
    <3>3. inbound[p] = x
      BY <3>1, <3>2 DEF Claims, ApiInv, OnWay, Way
    <3> QED
      BY <3>2, <3>3, ExecuteTag
  <2> QED
    BY <2>1, <2>2
<1>9. ListenedUsed'
  <2> SUFFICES ASSUME timeouts = 0
               PROVE  /\ \A q \in Proxies : inbound'[q] # NoPort => inbound'[q] \in used
                      /\ Live' # NoCall /\ ~Opened(Live)' =>
                           \A q \in Proxies : inbound'[q] # Live'.port
    BY <1>1 DEF ListenedUsed, Listening
  <2>1. n = timeouts /\ c = Live
    BY <1>1, SizesAssumption, CallType DEF Live, Slots
  <2>2. c.port \in used /\ p \in Proxies
    BY <1>1, <2>1, ExecuteTag DEF Claims, Holdings, LiveUsed
  <2>3. ASSUME NEW q \in Proxies, inbound'[q] # NoPort PROVE inbound'[q] \in used
    BY <2>2, <2>3, ExecuteTag DEF Claims, Holdings, ListenedUsed
  <2>4. ASSUME ~Opened(Live)', NEW q \in Proxies PROVE inbound'[q] # Live'.port
    <3>1. CASE CloseInbound(timeouts)
      <4>1. /\ p \in Proxies /\ c.port # NoPort /\ inbound \in [Proxies -> Ports \cup {NoPort}]
            /\ Live'.port = c.port
        BY <1>1, <1>2, <2>1, <2>2, ExecuteTag DEF ApiTypeOK
      <4>2. c.at = "close"
        BY <2>1, <3>1 DEF CloseInbound, At
      <4>3. Opened(Live)
        <5>1. c.op = "remove"
          BY <1>1, <4>2, CallType DEF CreateStages, Ended
        <5> QED
          BY <2>1, <4>2, <5>1 DEF Opened
      <4>4. inbound[p] = c.port /\ inbound' = [inbound EXCEPT ![p] = NoPort]
        BY <2>1, <2>4, <3>1, <4>2, <4>3, ExecuteOpened
      <4> QED
        BY <4>1, <4>4 DEF Claims, ApiInv, OneListener
    <3>2. CASE inbound' = inbound /\ ~Opened(Live)
      BY <1>1, <1>2, <2>1, <3>2 DEF Claims, Holdings, ListenedUsed, Listening
    <3> QED
      BY <2>1, <2>4, <3>1, <3>2, ExecuteOpened
  <2> QED
    BY <2>3, <2>4
<1> QED
  BY <1>3, <1>5, <1>7, <1>8, <1>9 DEF Holdings

\* ... and every claim.
LEMMA ExecuteClaims ==
  ASSUME TypeOK, Claims, NEW n \in Slots, Execute(n), ~mixed'
  PROVE  Claims'
<1>1. UNCHANGED <<status, port, used, timeouts, pc, sel, plan, todo, goal, via, dropped>>
  BY DEF Execute, poolVars, passVars, relayVars, history
<1>2. ApiInv'
  BY ApiKept DEF TypeOK, Claims, Execute
<1>3. Holdings'
  BY ExecuteHoldings
<1>4. \A t \in Syncers : InPass(t)' <=> InPass(t)
  BY <1>1 DEF InPass
<1>5. PoolBacked' /\ PlanBacked' /\ RelayBacked'
  <2>1. PoolBacked'
    BY <1>1, ExecuteBacked DEF Claims, Backing, PoolBacked
  <2>2. PlanBacked'
    BY <1>1, <1>4, ExecuteBacked DEF Claims, Backing, PlanBacked
  <2>3. RelayBacked'
    BY <1>1, ExecuteBacked DEF Claims, Backing, RelayBacked, TypeOK
  <2> QED
    BY <2>1, <2>2, <2>3
<1>6. Alone' /\ RelayAlone'
  BY <1>1, <1>4 DEF Claims, Backing, Alone, RelayAlone
<1>7. /\ Live'.op = Live.op /\ Live'.proxy = Live.proxy /\ Live'.port = Live.port
      /\ Live' = NoCall <=> Live = NoCall
  BY ExecuteLive
<1>8. Withdrawn'
  BY <1>1, <1>4, <1>7 DEF Claims, Backing, Withdrawn, ToRemove
<1>9. LiveDone'
  <2> SUFFICES ASSUME Live.op = "create", Live'.at = "done"
               PROVE  Backed(Live.proxy, Live.port)' /\ Unclaimed(Live.proxy)'
    BY <1>7 DEF LiveDone
  <2>0. Live.proxy \in Proxies
    BY LiveType DEF TypeOK, NoCall
  <2>1. CASE Live.at = "done"
    <3>1. Backed(Live.proxy, Live.port) /\ Unclaimed(Live.proxy)
      BY <2>1 DEF Claims, Backing, LiveDone
    <3>2. Backed(Live.proxy, Live.port)'
      BY <2>0, <3>1, <1>7, ExecuteBacked DEF Backed
    <3> QED
      BY <1>1, <1>4, <1>7, <3>1, <3>2 DEF Unclaimed
  <2>2. CASE Live.at # "done"
    <3>1. n = timeouts /\ Live = calls[n]
      BY <2>2, ExecuteLive DEF Live
    <3>2. Live.port \in used \ dropped /\ Live # NoCall
      BY DEF Claims, Holdings, LiveUsed, NoCall
    <3>3. Live.port \in Counted' \ Counted
      BY <1>1, <1>7, <2>2, <3>2 DEF Counted, Reserved
    <3>4. Record(n)
      BY <3>3, ExecuteLive
    <3>5. /\ Live.at = "enter" /\ entries' = entries \cup {Live.proxy} /\ inbound' = inbound
          /\ Way(Live)
      BY <3>1, <3>4 DEF Record, At, Claims, ApiInv, OnWay
    <3>6. Live.proxy \notin entries /\ inbound[Live.proxy] = Live.port
      BY <3>5 DEF Way, AtWork, CreateStages
    <3>7. Unclaimed(Live.proxy)
      BY <2>0, <3>6 DEF Claims, Backing, PoolBacked, PlanBacked, RelayBacked, Backed, Unclaimed
    <3> QED
      BY <1>1, <1>4, <1>7, <3>3, <3>5, <3>6, <3>7 DEF Backed, Unclaimed
  <2> QED
    BY <2>1, <2>2
<1> QED
  BY <1>2, <1>3, <1>5, <1>6, <1>8, <1>9 DEF Claims, Backing

-----------------------------------------------------------------------------
(* Steps of the server.                                                    *)

\* What calls nobody leaves sing-box, the allocator and what is backed alone.
LEMMA BoxKept ==
  ASSUME Claims, UNCHANGED singboxVars, dropped' = dropped
  PROVE  /\ ApiInv' /\ Removals' /\ OneRemoval' /\ LiveUsed' /\ UsedListened' /\ DroppedUsed'
         /\ ListenedUsed' /\ Live' = Live
         /\ \A q, y : Backed(q, y)' <=> Backed(q, y)
<1> USE DEF singboxVars, apiVars, resources
<1>1. Live' = Live /\ Counted' = Counted
  BY DEF Live, Counted, Reserved
<1>2. ApiInv'
  BY WorkKept DEF Claims
<1>3. Removals' /\ OneRemoval' /\ LiveUsed' /\ UsedListened' /\ DroppedUsed' /\ ListenedUsed'
  BY <1>1 DEF Claims, Holdings, Removals, OneRemoval, LiveUsed, UsedListened, Listening,
              DroppedUsed, ListenedUsed, Opened
<1> QED
  BY <1>1, <1>2, <1>3 DEF Backed

\* A step after which nobody claims more than before keeps the claims, if it keeps what
\* backs those that are left.
LEMMA FewerClaims ==
  ASSUME TypeOK, Backing, port' = port,
         \A t \in Syncers : InPass(t)' <=> InPass(t),
         \A t \in Syncers : InPass(t) => \A p \in Proxies : plan'[t][p] \in {plan[t][p], NoPort},
         \A r \in Relays : pc'[r] = "store" =>
           pc[r] = "store" /\ goal'[r] = goal[r] /\ via'[r] = via[r],
         \A p \in Proxies, x \in Ports : Backed(p, x) /\ ~Unclaimed(p)' => Backed(p, x)'
  PROVE  Alone' /\ PoolBacked' /\ PlanBacked' /\ RelayBacked' /\ RelayAlone'
<1>1. Alone'
  BY DEF Backing, Alone
<1>2. PoolBacked'
  BY DEF Backing, PoolBacked, Unclaimed, TypeOK
<1>3. PlanBacked'
  <2> SUFFICES ASSUME NEW t \in Syncers, InPass(t)', NEW p \in Proxies, plan'[t][p] # NoPort
               PROVE  Backed(p, plan[t][p])' /\ plan'[t][p] = plan[t][p]
    BY DEF PlanBacked
  <2>1. plan'[t][p] = plan[t][p] /\ plan[t][p] \in Ports /\ Backed(p, plan[t][p])
    BY DEF Backing, PlanBacked, TypeOK
  <2>2. ~Unclaimed(p)'
    BY DEF Unclaimed
  <2> QED
    BY <2>1, <2>2 DEF Backed
<1>4. RelayBacked'
  <2> SUFFICES ASSUME NEW r \in Relays, pc'[r] = "store"
               PROVE  via'[r] # NoPort /\ Backed(goal[r], via[r])'
    BY DEF RelayBacked
  <2>1. /\ pc[r] = "store" /\ goal'[r] = goal[r] /\ via'[r] = via[r]
        /\ goal[r] \in Proxies /\ via[r] \in Ports /\ via[r] # NoPort
        /\ Backed(goal[r], via[r])
    BY DEF Backing, RelayBacked, TypeOK
  <2>2. ~Unclaimed(goal[r])'
    BY <2>1 DEF Unclaimed
  <2> QED
    BY <2>1, <2>2 DEF Backed
<1>5. RelayAlone'
  <2> SUFFICES ASSUME NEW r \in Relays, pc'[r] = "store"
               PROVE  /\ port'[goal'[r]] = NoPort
                      /\ \A t \in Syncers : InPass(t)' => plan'[t][goal'[r]] = NoPort
                      /\ \A s \in Relays : pc'[s] = "store" /\ goal'[s] = goal'[r] => s = r
    BY DEF RelayAlone
  <2>1. pc[r] = "store" /\ goal'[r] = goal[r] /\ goal[r] \in Proxies
    BY DEF TypeOK
  <2> QED
    BY <2>1 DEF Backing, RelayAlone
<1> QED
  BY <1>1, <1>2, <1>3, <1>4, <1>5

\* A pass that begins alone copies the ports of the pool, so its plan is backed.
LEMMA BeginClaims ==
  ASSUME TypeOK, Claims, ~overlap, NEW t \in Syncers, NEW mode \in Modes,
         Begin(t, mode), ~overlap'
  PROVE  Claims'
<1> USE DEF Begin, poolVars, relayVars
<1>1. \A u \in Syncers \ {t} : ~InPass(u) /\ ~InPass(u)'
  BY DEF InPass, TypeOK, Actors
<1>2. \A r \in Relays : pc'[r] = pc[r]
  BY NamesAssumption DEF TypeOK, Actors
<1>3. /\ ApiInv' /\ Removals' /\ OneRemoval' /\ LiveUsed' /\ UsedListened' /\ DroppedUsed'
      /\ ListenedUsed' /\ Live' = Live
      /\ \A q, y : Backed(q, y)' <=> Backed(q, y)
  BY BoxKept
<1>4. Held'
  BY <1>1, <1>2, <1>3 DEF Claims, Holdings, Held, TypeOK, Actors
<1>5. Alone' /\ PoolBacked'
  BY <1>1, <1>3 DEF Claims, Backing, Alone, PoolBacked
<1>6. PlanBacked'
  BY <1>1, <1>3 DEF Claims, Backing, PlanBacked, PoolBacked, TypeOK
<1>7. RelayBacked' /\ RelayAlone'
  BY <1>1, <1>2, <1>3 DEF Claims, Backing, RelayBacked, RelayAlone, TypeOK
<1>8. LiveDone'
  <2> SUFFICES ASSUME Live.op = "create", Live.at = "done" PROVE Unclaimed(Live.proxy)'
    BY <1>3 DEF Claims, Backing, LiveDone
  <2>1. Live.proxy \in Proxies /\ Unclaimed(Live.proxy)
    BY DEF Claims, Backing, LiveDone, Backed, TypeOK, ApiTypeOK
  <2>2. port' = port /\ plan'[t] = port
    BY DEF TypeOK
  <2>3. \A u \in Syncers : InPass(u)' => plan'[u][Live.proxy] = NoPort
    BY <1>1, <2>1, <2>2 DEF Unclaimed
  <2>4. \A r \in Relays : pc'[r] = "store" => goal'[r] # Live.proxy
    BY <1>2, <2>1 DEF Unclaimed
  <2> QED
    BY <1>3, <2>1, <2>2, <2>3, <2>4 DEF Unclaimed
<1>9. Withdrawn'
  BY <1>1, <1>3 DEF Claims, Backing, Withdrawn, ToRemove, TypeOK, Actors, InPass
<1> QED
  BY <1>3, <1>4, <1>5, <1>6, <1>7, <1>8, <1>9 DEF Claims, Holdings, Backing

\* The steps of a pass that move ports in the pool.
LEMMA PoolWriteClaims ==
  ASSUME TypeOK, Claims, NEW t \in Syncers,
         BeginEmpty(t) \/ Withdraw(t) \/ LockManager(t) \/ UnlockManager(t) \/
         UnsetPorts(t) \/ SetPorts(t)
  PROVE  Claims'
<1> USE DEF poolVars, passVars, relayVars, history
<1>0. /\ \A u \in Syncers \ {t} : pc'[u] = pc[u]
      /\ \A r \in Relays : pc'[r] = pc[r]
  BY NamesAssumption DEF TypeOK, Actors, BeginEmpty, Withdraw, LockManager, UnlockManager,
                         UnsetPorts, SetPorts
<1>1. \A u \in Syncers : InPass(u)' => InPass(u) /\ (pc'[u] # "idle")
  BY <1>0 DEF InPass, TypeOK, Actors, BeginEmpty, Withdraw, LockManager, UnlockManager,
              UnsetPorts, SetPorts
<1>2. UNCHANGED singboxVars /\ UNCHANGED relayVars /\ dropped' = dropped
  BY DEF BeginEmpty, Withdraw, LockManager, UnlockManager, UnsetPorts, SetPorts
<1>3. /\ ApiInv' /\ Removals' /\ OneRemoval' /\ LiveUsed' /\ UsedListened' /\ DroppedUsed'
      /\ ListenedUsed' /\ Live' = Live
      /\ \A q, y : Backed(q, y)' <=> Backed(q, y)
  BY <1>2, BoxKept
<1>4. Held'
  <2>1. CASE LockManager(t) \/ UnlockManager(t)
    <3>1. /\ \A u \in Syncers : u \in Actors /\ u # Nobody
          /\ \A r \in Relays : r # Nobody /\ r \notin Syncers
      BY NamesAssumption DEF Actors
    <3> QED
      BY <1>0, <1>2, <1>3, <2>1, <3>1 DEF LockManager, UnlockManager, Claims, Holdings, Held, TypeOK
  <2>2. CASE BeginEmpty(t) \/ Withdraw(t) \/ UnsetPorts(t) \/ SetPorts(t)
    <3>1. mgr' = mgr /\ pc[t] # "sync" /\ pc'[t] # "sync"
      BY NamesAssumption, <2>2
      DEF BeginEmpty, Withdraw, UnsetPorts, SetPorts, TypeOK, Actors, Syncers
    <3> QED
      BY <1>0, <1>2, <1>3, <3>1 DEF Claims, Holdings, Held
  <2> QED
    BY <2>1, <2>2
<1>5. \A u \in Syncers : InPass(u)' => plan'[u] = plan[u]
  BY <1>1 DEF InPass, TypeOK, Actors, BeginEmpty, Withdraw, LockManager, UnlockManager,
              UnsetPorts, SetPorts
<1>6. Alone' /\ PlanBacked' /\ RelayBacked'
  <2>1. Alone' /\ PlanBacked'
    BY <1>1, <1>3, <1>5 DEF Claims, Backing, Alone, PlanBacked, Backed
  <2>2. RelayBacked'
    BY <1>0, <1>2, <1>3 DEF Claims, Backing, RelayBacked, Backed
  <2> QED
    BY <2>1, <2>2
<1>7. \A p \in Proxies :
        \/ port'[p] \in {port[p], NoPort}
        \/ pc[t] = "set" /\ plan[t][p] # NoPort /\ port'[p] = plan[t][p]
  BY DEF TypeOK, BeginEmpty, Withdraw, LockManager, UnlockManager, UnsetPorts, SetPorts
<1>8. PoolBacked'
  BY <1>3, <1>7 DEF Claims, Backing, PoolBacked, PlanBacked, InPass
<1>9. \A p \in Proxies : Unclaimed(p) => Unclaimed(p)'
  BY <1>0, <1>1, <1>2, <1>5, <1>7 DEF Unclaimed, InPass
<1>10. LiveDone'
  <2>1. Backed(Live.proxy, Live.port) => Live.proxy \in Proxies
    BY DEF Backed, TypeOK, ApiTypeOK
  <2> QED
    BY <1>3, <1>9, <2>1 DEF Claims, Backing, LiveDone
<1>11. RelayAlone'
  <2> SUFFICES ASSUME NEW r \in Relays, pc'[r] = "store"
               PROVE  /\ port'[goal'[r]] = NoPort
                      /\ \A u \in Syncers : InPass(u)' => plan'[u][goal'[r]] = NoPort
                      /\ \A s \in Relays : pc'[s] = "store" /\ goal'[s] = goal'[r] => s = r
    BY DEF RelayAlone
  <2>1. pc[r] = "store" /\ goal[r] \in Proxies /\ goal'[r] = goal[r]
    BY <1>0, <1>2 DEF TypeOK
  <2>2. port'[goal[r]] = NoPort
    BY <2>1, <1>7 DEF Claims, Backing, RelayAlone, InPass
  <2> QED
    BY <1>0, <1>1, <1>2, <1>5, <2>1, <2>2 DEF Claims, Backing, RelayAlone
<1>12. Withdrawn'
  <2> USE DEF Claims, Backing, Withdrawn, ToRemove, Alone, InPass, TypeOK, Actors
  <2>1. CASE Withdraw(t)
    BY <2>1, <1>0, <1>3 DEF Withdraw
  <2>2. CASE SetPorts(t)
    BY <2>2, <1>0, <1>3 DEF SetPorts
  <2>3. CASE LockManager(t)
    <3>1. Live = NoCall
      BY <2>3 DEF LockManager, Holdings, Held
    <3> QED
      BY <2>3, <3>1, <1>0, <1>3 DEF LockManager, NoCall
  <2>4. CASE BeginEmpty(t) \/ UnlockManager(t) \/ UnsetPorts(t)
    BY <2>4, <1>0, <1>1, <1>3 DEF BeginEmpty, UnlockManager, UnsetPorts
  <2> QED
    BY <2>1, <2>2, <2>3, <2>4
<1> QED
  BY <1>3, <1>4, <1>6, <1>8, <1>10, <1>11, <1>12 DEF Claims, Holdings, Backing

\* The other writers of the pool only take ports away from it.
LEMMA PoolClaims ==
  ASSUME TypeOK, Claims,
         \/ \E p \in Proxies : AddProxy(p) \/ RemoveProxy(p)
         \/ \E p \in Proxies, s \in Statuses : SetStatus(p, s)
         \/ \E S \in SUBSET InPool, b \in Background : DeleteSubscription(S, b)
  PROVE  Claims'
<1> USE DEF passVars, relayVars, history
<1>1. /\ UNCHANGED <<mgr, sel, plan, todo, goal, via, dropped>>
      /\ UNCHANGED singboxVars
  BY DEF AddProxy, RemoveProxy, SetStatus, DeleteSubscription
<1>2. \A p \in Proxies : port'[p] \in {port[p], NoPort}
  BY DEF AddProxy, RemoveProxy, SetStatus, DeleteSubscription, Forget
<1>3. \A t \in Syncers :
        /\ InPass(t)' <=> InPass(t)
        /\ InPass(t) => pc'[t] = pc[t]
  BY NamesAssumption
  DEF AddProxy, RemoveProxy, SetStatus, DeleteSubscription, InPass, TypeOK, Actors, Syncers
<1>4. \A r \in Relays : pc'[r] = pc[r] /\ (pc[r] = "store" => goal[r] \in Proxies)
  BY NamesAssumption
  DEF AddProxy, RemoveProxy, SetStatus, DeleteSubscription, TypeOK, Actors, Syncers
<1>5. /\ ApiInv' /\ Removals' /\ OneRemoval' /\ LiveUsed' /\ UsedListened' /\ DroppedUsed'
      /\ ListenedUsed' /\ Live' = Live
      /\ \A q, y : Backed(q, y)' <=> Backed(q, y)
  BY <1>1, BoxKept
<1>6. Held'
  BY <1>1, <1>3, <1>4, <1>5 DEF Claims, Holdings, Held, InPass
<1>7. Alone' /\ PoolBacked' /\ PlanBacked' /\ RelayBacked'
  <2>1. PoolBacked'
    BY <1>2, <1>5 DEF Claims, Backing, PoolBacked
  <2>2. Alone' /\ PlanBacked'
    BY <1>1, <1>3, <1>5 DEF Claims, Backing, Alone, PlanBacked
  <2>3. RelayBacked'
    BY <1>1, <1>4, <1>5 DEF Claims, Backing, RelayBacked, Backed
  <2> QED
    BY <2>1, <2>2, <2>3
<1>8. RelayAlone'
  <2> SUFFICES ASSUME NEW r \in Relays, pc[r] = "store"
               PROVE  /\ port'[goal[r]] = NoPort
                      /\ \A t \in Syncers : InPass(t) => plan[t][goal[r]] = NoPort
                      /\ \A s \in Relays : pc[s] = "store" /\ goal[s] = goal[r] => s = r
    BY <1>1, <1>3, <1>4 DEF RelayAlone
  <2>1. port[goal[r]] = NoPort /\ goal[r] \in Proxies
    BY <1>4 DEF Claims, Backing, RelayAlone
  <2>2. port'[goal[r]] = NoPort
    BY ONLY <1>2, <2>1
  <2> QED
    BY <2>2 DEF Claims, Backing, RelayAlone
<1>9. \A p \in Proxies : Unclaimed(p) => Unclaimed(p)'
  BY <1>1, <1>2, <1>3, <1>4 DEF Unclaimed
<1>10. LiveDone'
  <2>1. Backed(Live.proxy, Live.port) => Live.proxy \in Proxies
    BY DEF Backed, TypeOK, ApiTypeOK
  <2> QED
    BY <1>5, <1>9, <2>1 DEF Claims, Backing, LiveDone
<1>11. Withdrawn'
  BY <1>1, <1>2, <1>3, <1>5 DEF Claims, Backing, Withdrawn, ToRemove, InPass
<1> QED
  BY <1>5, <1>6, <1>7, <1>8, <1>10, <1>11 DEF Claims, Holdings, Backing

-----------------------------------------------------------------------------
(* Calls the server makes, and how they end for it.                        *)

\* A creation is sent with a port that was free: nothing is claimed by it yet.
LEMMA AskCreation ==
  ASSUME TypeOK, Claims, Live = NoCall, NEW p \in Proxies, NEW x \in Free,
         Ask(Creation(p, x)), used' = used \cup {x}, UNCHANGED <<resources, timeouts, dropped>>
  PROVE  /\ ApiInv' /\ Removals' /\ OneRemoval' /\ LiveUsed' /\ UsedListened' /\ DroppedUsed'
         /\ ListenedUsed'
         /\ Live' = Creation(p, x)
         /\ \A q, y : Backed(q, y)' <=> Backed(q, y)
<1> USE DEF resources
<1>1. x \in Ports /\ x # NoPort /\ x \notin used
  BY DEF Free, Ports, NoPort
<1>2. /\ timeouts \in Slots /\ timeouts' = timeouts /\ calls \in [Slots -> Calls] /\ ApiTypeOK
      /\ calls' = [calls EXCEPT ![timeouts] = Creation(p, x)]
  BY DEF TypeOK, ApiTypeOK, Ask
<1>3. Live' = Creation(p, x) /\ Live'.port = x /\ Live'.op = "create" /\ Live'.at = "check"
  BY <1>2 DEF Live, Creation
<1>4. Counted' = Counted
  <2>1. Reserved = dropped \cup {NoPort} /\ Reserved' = dropped \cup {x}
    BY <1>3 DEF Reserved, NoCall
  <2>2. NoPort \notin used
    BY DEF TypeOK, Ports, NoPort
  <2>3. dropped \subseteq used
    BY DEF Claims, Holdings, DroppedUsed
  <2> QED
    BY <1>1, <2>1, <2>2, <2>3 DEF Counted
<1>5. ApiInv'
  BY <1>1, <1>2, ApiAsked DEF Claims
<1>6. Removals' /\ OneRemoval'
  BY <1>2, <1>4 DEF Creation, Claims, Holdings, Removals, OneRemoval
<1>7. LiveUsed' /\ DroppedUsed' /\ UsedListened'
  BY <1>1, <1>3, <1>4 DEF Claims, Holdings, LiveUsed, DroppedUsed, UsedListened, Listening
<1>8. ListenedUsed'
  BY <1>1, <1>3 DEF Claims, Holdings, ListenedUsed, Listening
<1> QED
  BY <1>3, <1>4, <1>5, <1>6, <1>7, <1>8 DEF Backed

\* A call is over for the server, and its port is freed, or is left to nobody.
Freed ==
  /\ used' = used \ {Live.port} /\ dropped' = dropped
  /\ \/ Live.op = "remove" /\ (Answered \/ GivenUp)
     \/ Unanswered
Left == GivenUp /\ used' = used /\ dropped' = dropped \cup {Live.port}

\* Or a creation was answered with success, and its port can be claimed.
Gained == Answered /\ Live.op = "create" /\ Live.at = "done" /\ UNCHANGED <<used, dropped>>

LEMMA CallEnds ==
  ASSUME TypeOK, Claims, UNCHANGED <<resources, mixed>>, Freed \/ Left \/ Gained
  PROVE  /\ ApiInv' /\ Removals' /\ OneRemoval' /\ LiveUsed' /\ UsedListened' /\ DroppedUsed'
         /\ ListenedUsed'
         /\ Live' = NoCall /\ Live # NoCall
         /\ Freed \/ Left => Counted' = Counted \ {Live.port}
         /\ Gained => Counted' = Counted
<1>1. timeouts \in Slots /\ calls \in [Slots -> Calls] /\ ApiTypeOK
  BY DEF TypeOK, ApiTypeOK
<1>2. Answered \/ GivenUp
  BY DEF Freed, Left, Gained, Unanswered
<1>3. Live' = NoCall /\ (GivenUp => timeouts' # 0) /\ Live # NoCall
  <2>1. Live # NoCall
    BY <1>2 DEF Answered, GivenUp, NoCall, Ended
  <2>2. Live' = NoCall /\ (GivenUp => timeouts' # 0)
    BY ONLY <1>1, <1>2, SlotTyped, UNCHANGED <<resources, mixed>>
  <2> QED
    BY <2>1, <2>2
<1> USE DEF resources
<1>4. Live.port \in used \ dropped /\ Live.port \in Ports /\ NoPort \notin used
  <2>1. used \subseteq Ports /\ Live.port \in used \ dropped
    BY <1>3 DEF Claims, Holdings, LiveUsed, TypeOK
  <2>2. NoPort \notin Ports
    BY DEF Ports, NoPort
  <2> QED
    BY <2>1, <2>2
<1>5. Reserved' = dropped' \cup {NoPort}
  BY <1>3 DEF Reserved, NoCall
<1>6. Freed \/ Left => Counted' = Counted \ {Live.port}
  BY <1>4, <1>5 DEF Freed, Left, Counted, Reserved
<1>7. Gained => Counted' = Counted
  BY <1>4, <1>5 DEF Gained, Counted, Reserved
<1>8. Counted' \subseteq Counted
  BY <1>6, <1>7
<1>9. \A m \in Slots : calls'[m] = calls[m] \/ calls'[m] = NoCall
  BY <1>1, <1>2 DEF Answered, GivenUp
<1>10. ApiInv'
  BY <1>1, <1>2, ApiAsked DEF Claims
<1>11. Removals' /\ OneRemoval'
  <2>1. NoCall.op # "remove" /\ NoCall.at # "drop"
    BY DEF NoCall
  <2> QED
    BY <1>8, <1>9, <2>1 DEF Claims, Holdings, Removals, OneRemoval
<1>12. LiveUsed' /\ UsedListened'
  BY <1>3, <1>8 DEF Claims, Holdings, LiveUsed, UsedListened, Listening
<1>13. DroppedUsed'
  BY <1>4 DEF Claims, Holdings, DroppedUsed, Freed, Left, Gained
<1>14. ListenedUsed'
  <2> SUFFICES ASSUME timeouts' = 0, NEW p \in Proxies, inbound[p] # NoPort
               PROVE  inbound[p] \in used'
    BY <1>3 DEF ListenedUsed
  <2>1. Answered /\ ~GivenUp /\ timeouts = 0
    BY <1>2, <1>3 DEF Answered
  <2>2. inbound[p] \in used
    BY <2>1 DEF Claims, Holdings, ListenedUsed
  <2>3. CASE Freed
    <3>1. ~Opened(Live)
      BY <2>1, <2>3 DEF Freed, Unanswered, Answered, Ended, Opened
    <3>2. inbound[p] # Live.port
      BY <1>3, <2>1, <3>1 DEF Claims, Holdings, ListenedUsed, Listening
    <3> QED
      BY <2>2, <2>3, <3>2 DEF Freed
  <2> QED
    BY <2>1, <2>2, <2>3 DEF Left, Gained
<1> QED
  BY <1>3, <1>6, <1>7, <1>10, <1>11, <1>12, <1>13, <1>14

\* The port of the call under way, if anything is backed by it, is of the binding just
\* created, and nobody claims it.
LEMMA LivePort ==
  ASSUME TypeOK, Claims, NEW p \in Proxies, Backed(p, Live.port), Live # NoCall
  PROVE  Live.op = "create" /\ Live.at = "done" /\ p = Live.proxy /\ Unclaimed(p)
<1>1. Live.op = "create" /\ Live.at = "done"
  BY DEF Backed, Counted, Reserved
<1>2. Backed(Live.proxy, Live.port) /\ Unclaimed(Live.proxy) /\ Live.proxy \in Proxies
  BY <1>1, LiveType DEF Claims, Backing, LiveDone, TypeOK
<1>3. Live.port # NoPort
  BY LiveType DEF TypeOK, Ports, NoPort
<1> QED
  BY <1>1, <1>2, <1>3 DEF Backed, Claims, ApiInv, OneListener

\* So whatever is claimed stays backed when the port of that call is freed or left.
LEMMA StillBacked ==
  ASSUME TypeOK, Claims, UNCHANGED <<resources, mixed>>, Freed \/ Left,
         NEW p \in Proxies, NEW x \in Ports, Backed(p, x)
  PROVE  Unclaimed(p) \/ Backed(p, x)'
<1>1. Counted' = Counted \ {Live.port} /\ Live # NoCall
  BY CallEnds
<1>2. CASE x = Live.port
  BY <1>1, <1>2, LivePort
<1>3. CASE x # Live.port
  BY <1>1, <1>3 DEF Backed, resources
<1> QED
  BY <1>2, <1>3

\* A pass sends a removal: only its own plan still claimed that port, and no longer does.
LEMMA RemoveClaims ==
  ASSUME TypeOK, Claims, NEW t \in Syncers, NEW p \in Proxies, RemoveBinding(t, p)
  PROVE  Claims'
<1> DEFINE x == plan[t][p]
<1> USE DEF RemoveBinding, poolVars, relayVars, history
<1>0. /\ x \in Ports /\ x # NoPort /\ InPass(t) /\ p \in ToRemove(t) /\ pc[t] = "sync"
      /\ timeouts \in Slots /\ calls \in [Slots -> Calls] /\ Live = NoCall
      /\ calls' = [calls EXCEPT ![timeouts] = Removal(p, x)]
      /\ UNCHANGED <<status, port, used, resources, timeouts, mixed, mgr, pc, sel, todo, goal, via, dropped>>
  BY DEF ToRemove, TypeOK, ApiTypeOK, InPass, Ask
<1>1. Backed(p, x) /\ port[p] = NoPort
  BY <1>0 DEF Claims, Backing, PlanBacked, Withdrawn
<1>2. \A r \in Relays : pc[r] = "store" => goal[r] # p /\ goal[r] \in Proxies
  BY <1>0 DEF Claims, Backing, RelayAlone, TypeOK
<1>3. \A u \in Syncers : (InPass(u) <=> u = t) /\ (InPass(u)' <=> InPass(u))
  BY <1>0 DEF Claims, Backing, Alone, InPass
<1>4. Live' = Removal(p, x) /\ Live'.op = "remove" /\ Live'.port = x /\ Live'.at = "drop"
  BY <1>0 DEF Live, Removal
<1>5. Counted' = Counted \ {x} /\ x \in used \ dropped
  <2>1. NoPort \notin used
    BY DEF TypeOK, Ports, NoPort
  <2>2. Reserved = dropped \cup {NoPort} /\ Reserved' = dropped \cup {x}
    BY <1>0, <1>4 DEF Reserved, NoCall
  <2> QED
    BY <1>0, <1>1, <2>1, <2>2 DEF Counted, Backed
<1>6. /\ plan'[t][p] = NoPort
      /\ \A q \in Proxies \ {p} : plan'[t][q] = plan[t][q]
  BY DEF TypeOK
<1>7. ApiInv'
  BY <1>0, ApiAsked DEF Claims, TypeOK
<1>8. Holdings'
  <2>1. Held'
    <3>1. \A r \in Relays : pc[r] # "create"
      <4>1. mgr = t /\ t \notin Relays
        BY <1>0, NamesAssumption DEF Claims, Holdings, Held
      <4> QED
        BY <4>1 DEF Claims, Holdings, Held
    <3>2. mgr # Nobody
      BY <1>0, NamesAssumption DEF Claims, Holdings, Held, Actors
    <3> QED
      BY <1>0, <3>1, <3>2 DEF Claims, Holdings, Held
  <2>2. Removals'
    <3> SUFFICES ASSUME NEW n \in Slots, calls'[n].op = "remove",
                        calls'[n].at \in {"drop", "unroute", "close"}
                 PROVE  /\ inbound[calls'[n].proxy] = calls'[n].port
                        /\ calls'[n].port \notin Counted'
                        /\ calls'[n].at = "drop" => calls'[n].proxy \in entries
      BY <1>0 DEF Removals, resources
    <3>1. CASE n = timeouts
      <4>1. calls'[n] = Removal(p, x) /\ calls'[n].proxy = p /\ calls'[n].port = x
        BY <1>0, <3>1 DEF Removal
      <4> QED
        BY <1>1, <1>5, <4>1 DEF Backed
    <3>2. CASE n # timeouts
      BY <1>0, <1>5, <3>2 DEF Claims, Holdings, Removals
    <3> QED
      BY <3>1, <3>2
  <2>3. OneRemoval'
    <3>1. ASSUME NEW n \in Slots \ {timeouts}, calls[n].at = "drop" PROVE calls[n].proxy # p
      <4>1. calls[n].op = "remove"
        BY <3>1, CallType DEF TypeOK, NoCall, CreateStages, Ended
      <4>2. inbound[calls[n].proxy] = calls[n].port /\ calls[n].port \notin Counted
        BY <3>1, <4>1 DEF Claims, Holdings, Removals
      <4> QED
        BY <1>1, <4>2 DEF Backed
    <3>2. calls'[timeouts].proxy = p /\ \A n \in Slots \ {timeouts} : calls'[n] = calls[n]
      BY <1>0 DEF Removal
    <3> QED
      BY <3>1, <3>2 DEF Claims, Holdings, OneRemoval
  <2>4. LiveUsed' /\ DroppedUsed' /\ UsedListened'
    BY <1>0, <1>4, <1>5 DEF Claims, Holdings, LiveUsed, DroppedUsed, UsedListened, Listening, resources
  <2>5. ListenedUsed'
    BY <1>0, <1>4 DEF Claims, Holdings, ListenedUsed, Opened, resources
  <2> QED
    BY <2>1, <2>2, <2>3, <2>4, <2>5 DEF Holdings
<1>9. Unclaimed(p)'
  BY <1>0, <1>1, <1>2, <1>3, <1>6 DEF Unclaimed
<1>10. \A q \in Proxies, y \in Ports : Backed(q, y) /\ ~Unclaimed(q)' => Backed(q, y)'
  <2> SUFFICES ASSUME NEW q \in Proxies \ {p}, NEW y \in Ports, Backed(q, y) PROVE Backed(q, y)'
    BY <1>9
  <2>1. y # x
    BY <1>0, <1>1 DEF Claims, ApiInv, OneListener, Backed
  <2> QED
    BY <1>0, <1>5, <2>1 DEF Backed, resources
<1>11. Alone' /\ PoolBacked' /\ PlanBacked' /\ RelayBacked' /\ RelayAlone'
  BY <1>0, <1>3, <1>6, <1>10, FewerClaims DEF Claims
<1>12. LiveDone'
  BY <1>4 DEF LiveDone
<1>13. Withdrawn'
  <2>1. \A u \in Syncers : pc[u] \in {"lock", "sync"} => u = t
    BY <1>3 DEF InPass
  <2> QED
    BY <1>0, <1>3, <1>4, <1>6, <2>1 DEF Claims, Backing, Withdrawn, ToRemove
<1> QED
  BY <1>7, <1>8, <1>11, <1>12, <1>13 DEF Claims, Backing

\* The other calls of a pass: a port is allocated for one that is not claimed before the
\* plan has it, and the port that is freed is nobody's.
LEMMA CallClaims ==
  ASSUME TypeOK, Claims, NEW t \in Syncers,
         \/ \E p \in Proxies : CreateBinding(t, p)
         \/ Removed(t) \/ Created(t) \/ NotCreated(t)
  PROVE  Claims'
<1> USE DEF poolVars, relayVars, history
<1>0. /\ pc[t] = "sync" /\ InPass(t) /\ mgr = t /\ t # Nobody
      /\ UNCHANGED <<port, mgr, pc, sel, goal, via, dropped>> /\ resources' = resources
      /\ \A u \in Syncers : (InPass(u)' <=> InPass(u)) /\ (InPass(u) => u = t)
      /\ \A r \in Relays : pc[r] # "create"
  <2>1. /\ pc[t] = "sync" /\ UNCHANGED <<port, mgr, pc, sel, goal, via, dropped>>
        /\ resources' = resources
    BY DEF CreateBinding, Removed, Created, NotCreated, passVars
  <2>2. mgr = t /\ t # Nobody /\ t \notin Relays
    BY <2>1, NamesAssumption DEF Claims, Holdings, Held, Actors
  <2>3. InPass(t) /\ \A u \in Syncers : (InPass(u)' <=> InPass(u)) /\ (InPass(u) => u = t)
    BY <2>1 DEF InPass, Claims, Backing, Alone
  <2> QED
    BY <2>1, <2>2, <2>3 DEF Claims, Holdings, Held
<1>1. Held'
  BY <1>0 DEF Claims, Holdings, Held
<1>2. ASSUME plan' = plan, \A p \in Proxies, x \in Ports : Backed(p, x) => Unclaimed(p) \/ Backed(p, x)'
      PROVE  Alone' /\ PoolBacked' /\ PlanBacked' /\ RelayBacked' /\ RelayAlone'
  <2>1. \A p \in Proxies : Unclaimed(p) => Unclaimed(p)'
    BY <1>0, <1>2 DEF Unclaimed
  <2> QED
    BY <1>0, <1>2, <2>1, FewerClaims DEF Claims
<1>3. ASSUME NEW p \in Proxies, CreateBinding(t, p) PROVE Claims'
  <2>1. UNCHANGED <<timeouts, mixed, plan>> /\ Live = NoCall /\ p \in todo[t] /\ p \in sel[t]
    BY <1>0, <1>3 DEF CreateBinding, Claims, Backing, Withdrawn
  <2>2. /\ ApiInv' /\ Removals' /\ OneRemoval' /\ LiveUsed' /\ UsedListened' /\ DroppedUsed'
        /\ ListenedUsed'
        /\ Live' = NoCall \/ \E x \in Free : Live' = Creation(p, x)
        /\ \A q, y : Backed(q, y)' <=> Backed(q, y)
    <3>1. CASE Free = {} /\ UNCHANGED <<used, calls>>
      <4>1. UNCHANGED singboxVars
        BY <1>0, <2>1, <3>1 DEF singboxVars, apiVars
      <4> QED
        BY <1>0, <2>1, <4>1, BoxKept
    <3>2. CASE \E x \in Free : Allocate(x) /\ Ask(Creation(p, x))
      <4>1. PICK x \in Free : Allocate(x) /\ Ask(Creation(p, x))
        BY <3>2
      <4>2. used' = used \cup {x}
        BY <4>1 DEF Allocate
      <4> QED
        BY <1>0, <2>1, <4>1, <4>2, AskCreation
    <3> QED
      BY <1>3, <3>1, <3>2 DEF CreateBinding
  <2>3. Alone' /\ PoolBacked' /\ PlanBacked' /\ RelayBacked' /\ RelayAlone'
    BY <1>2, <2>1, <2>2
  <2>4. LiveDone'
    BY <2>2 DEF LiveDone, NoCall, Creation
  <2>5. Withdrawn'
    <3>1. todo'[t] \subseteq todo[t]
      BY <1>3 DEF CreateBinding, TypeOK
    <3>2. Live'.op = "create" => Live'.proxy = p
      BY <2>2 DEF NoCall, Creation
    <3>3. \A u \in Syncers : pc[u] \in {"lock", "sync"} => u = t
      BY <1>0 DEF InPass
    <3> QED
      BY <1>0, <2>1, <3>1, <3>2, <3>3 DEF Claims, Backing, Withdrawn, ToRemove
  <2> QED
    BY <1>1, <2>2, <2>3, <2>4, <2>5 DEF Claims, Holdings, Backing
<1>4. CASE Removed(t) \/ NotCreated(t)
  <2>1. Freed /\ UNCHANGED mixed /\ UNCHANGED <<plan, todo>>
    BY <1>0, <1>4 DEF Removed, NotCreated, Freed, Unanswered, passVars
  <2>2. /\ ApiInv' /\ Removals' /\ OneRemoval' /\ LiveUsed' /\ UsedListened' /\ DroppedUsed'
        /\ ListenedUsed' /\ Live' = NoCall
    BY <1>0, <2>1, CallEnds
  <2>3. Alone' /\ PoolBacked' /\ PlanBacked' /\ RelayBacked' /\ RelayAlone'
    BY <1>0, <1>2, <2>1, StillBacked
  <2>4. LiveDone' /\ Withdrawn'
    BY <1>0, <2>1, <2>2 DEF LiveDone, NoCall, Claims, Backing, Withdrawn, ToRemove
  <2> QED
    BY <1>1, <2>2, <2>3, <2>4 DEF Claims, Holdings, Backing
<1>5. CASE Created(t)
  <2> DEFINE p == Live.proxy
             x == Live.port
  <2>1. Gained /\ UNCHANGED <<mixed, todo>> /\ plan' = [plan EXCEPT ![t][p] = x]
    BY <1>0, <1>5 DEF Created, Gained
  <2>2. /\ ApiInv' /\ Removals' /\ OneRemoval' /\ LiveUsed' /\ UsedListened' /\ DroppedUsed'
        /\ ListenedUsed' /\ Live' = NoCall /\ Counted' = Counted
    BY <1>0, <2>1, CallEnds
  <2>3. Backed(p, x) /\ Unclaimed(p) /\ p \in Proxies /\ p \in sel[t]
    BY <1>0, <2>1, LiveType DEF Gained, Claims, Backing, LiveDone, Withdrawn, TypeOK
  <2>4. \A q, y : Backed(q, y)' <=> Backed(q, y)
    BY <1>0, <2>2 DEF Backed, resources
  <2>5. plan'[t][p] = x /\ \A q \in Proxies \ {p} : plan'[t][q] = plan[t][q]
    BY <2>1, <2>3 DEF TypeOK
  <2>6. Alone' /\ PoolBacked'
    BY <1>0, <2>4 DEF Claims, Backing, Alone, PoolBacked
  <2>7. PlanBacked'
    BY <1>0, <2>3, <2>4, <2>5 DEF Claims, Backing, PlanBacked
  <2>8. RelayBacked'
    BY <1>0, <2>4 DEF Claims, Backing, RelayBacked, Backed
  <2>9. RelayAlone'
    BY <1>0, <2>3, <2>5 DEF Claims, Backing, RelayAlone, Unclaimed, TypeOK
  <2>10. LiveDone'
    BY <2>2 DEF LiveDone, NoCall
  <2>11. Withdrawn'
    <3>1. \A u \in Syncers : pc[u] \in {"lock", "sync"} => u = t
      BY <1>0 DEF InPass
    <3> QED
      BY <1>0, <2>1, <2>2, <2>3, <2>5, <3>1 DEF Claims, Backing, Withdrawn, ToRemove, NoCall
  <2> QED
    BY <1>1, <2>2, <2>6, <2>7, <2>8, <2>9, <2>10, <2>11 DEF Claims, Holdings, Backing
<1> QED
  BY <1>3, <1>4, <1>5

\* A relay request creates a binding only under the mutex, and stores a backed port; one
\* dropped inside its call leaves a dropped port behind, which backs nothing.
LEMMA RelayClaims ==
  ASSUME TypeOK, Claims, NEW r \in Relays, RelayStep(r)
  PROVE  Claims'
<1> USE DEF poolVars, passVars
<1>0. /\ r \in Actors /\ r \notin Syncers /\ r # Nobody
      /\ \A t \in Syncers : t \in Actors /\ t # Nobody
      /\ \A s \in Relays : s \in Actors /\ s \notin Syncers /\ s # Nobody
  BY NamesAssumption DEF Actors
<1>1. \A t \in Syncers : pc'[t] = pc[t] /\ (InPass(t)' <=> InPass(t))
  BY <1>0
  DEF RelayStep, PickBound, PickUnbound, RecheckBound, RecheckUnbound, RecheckNoPort,
      CreateOnDemand, FailOnDemand, StorePort, Send, DropWaiting, DropCreate, TypeOK, InPass
<1>2. \A s \in Relays \ {r} : pc'[s] = pc[s] /\ goal'[s] = goal[s] /\ via'[s] = via[s]
  BY <1>0
  DEF RelayStep, PickBound, PickUnbound, RecheckBound, RecheckUnbound, RecheckNoPort,
      CreateOnDemand, FailOnDemand, StorePort, Send, DropWaiting, DropCreate, TypeOK, relayVars
<1>3. UNCHANGED passVars
  BY DEF RelayStep, PickBound, PickUnbound, RecheckBound, RecheckUnbound, RecheckNoPort,
         CreateOnDemand, FailOnDemand, StorePort, Send, DropWaiting, DropCreate
<1>4. ASSUME pc'[r] # "store"
      PROVE  \A s \in Relays : pc'[s] = "store" =>
               pc[s] = "store" /\ goal'[s] = goal[s] /\ via'[s] = via[s]
  BY <1>2, <1>4
<1>5. ASSUME port' = port, pc'[r] # "store", pc[r] # "store",
             \A p \in Proxies, x \in Ports : Backed(p, x) => Unclaimed(p) \/ Backed(p, x)'
      PROVE  /\ Alone' /\ PoolBacked' /\ PlanBacked' /\ RelayBacked' /\ RelayAlone'
             /\ \A p \in Proxies : Unclaimed(p) => Unclaimed(p)'
  <2>1. \A p \in Proxies : Unclaimed(p) => Unclaimed(p)'
    BY <1>1, <1>2, <1>3, <1>5 DEF Unclaimed
  <2> QED
    BY <1>1, <1>3, <1>4, <1>5, <2>1, FewerClaims DEF Claims
<1>6. ASSUME port' = port, Live'.op = "create" => \A t \in Syncers : pc[t] # "sync"
      PROVE  Withdrawn'
  BY <1>1, <1>3, <1>6 DEF Claims, Backing, Withdrawn, ToRemove
<1>7. CASE \/ \E p \in Proxies : PickBound(r, p) \/ PickUnbound(r, p)
           \/ RecheckBound(r) \/ RecheckNoPort(r) \/ Send(r) \/ DropWaiting(r)
  <2>1. /\ UNCHANGED <<port, mgr, dropped>> /\ UNCHANGED singboxVars
        /\ pc'[r] \notin {"store", "create"} /\ pc[r] \notin {"store", "create"}
    BY <1>0, <1>7 DEF PickBound, PickUnbound, RecheckBound, RecheckNoPort, Send, DropWaiting,
                      TypeOK, history
  <2>2. /\ ApiInv' /\ Removals' /\ OneRemoval' /\ LiveUsed' /\ UsedListened' /\ DroppedUsed'
        /\ ListenedUsed' /\ Live' = Live
        /\ \A q, y : Backed(q, y)' <=> Backed(q, y)
    BY <2>1, BoxKept
  <2>3. Held'
    BY <1>1, <1>2, <2>1, <2>2 DEF Claims, Holdings, Held
  <2>4. /\ Alone' /\ PoolBacked' /\ PlanBacked' /\ RelayBacked' /\ RelayAlone'
        /\ \A p \in Proxies : Unclaimed(p) => Unclaimed(p)'
    BY <1>5, <2>1, <2>2
  <2>5. LiveDone'
    <3>1. Backed(Live.proxy, Live.port) => Live.proxy \in Proxies
      BY DEF Backed, TypeOK, ApiTypeOK
    <3> QED
      BY <2>2, <2>4, <3>1 DEF Claims, Backing, LiveDone
  <2>6. Withdrawn'
    BY <1>1, <1>3, <2>1, <2>2 DEF Claims, Backing, Withdrawn, ToRemove
  <2> QED
    BY <2>2, <2>3, <2>4, <2>5, <2>6 DEF Claims, Holdings, Backing
<1>8. CASE RecheckUnbound(r)
  <2> DEFINE p == goal[r]
  <2>1. PICK x \in Free : Allocate(x) /\ Ask(Creation(p, x))
    BY <1>8 DEF RecheckUnbound
  <2>2. /\ UNCHANGED <<port, timeouts, mixed, dropped, goal>> /\ resources' = resources
        /\ mgr = Nobody /\ mgr' = r /\ pc'[r] = "create" /\ pc[r] = "lock" /\ p \in Proxies
        /\ Live = NoCall /\ used' = used \cup {x}
    BY <1>0, <1>8, <2>1 DEF RecheckUnbound, relayVars, TypeOK, Allocate, Claims, Holdings, Held
  <2>3. /\ ApiInv' /\ Removals' /\ OneRemoval' /\ LiveUsed' /\ UsedListened' /\ DroppedUsed'
        /\ ListenedUsed' /\ Live' = Creation(p, x)
        /\ \A q, y : Backed(q, y)' <=> Backed(q, y)
    BY <2>1, <2>2, AskCreation
  <2>4. Live'.op = "create" /\ Live'.proxy = p /\ Live'.at = "check"
    BY <2>3 DEF Creation
  <2>5. (\A t \in Syncers : pc[t] # "sync") /\ (\A s \in Relays : pc[s] # "create")
    BY <1>0, <2>2 DEF Claims, Holdings, Held
  <2>6. Held'
    BY <1>0, <1>1, <1>2, <2>2, <2>4, <2>5 DEF Held
  <2>7. Alone' /\ PoolBacked' /\ PlanBacked' /\ RelayBacked' /\ RelayAlone'
    BY <1>5, <2>2, <2>3
  <2>8. LiveDone' /\ Withdrawn'
    BY <1>6, <2>2, <2>4, <2>5 DEF LiveDone
  <2> QED
    BY <2>3, <2>6, <2>7, <2>8 DEF Claims, Holdings, Backing
<1>9. CASE CreateOnDemand(r)
  <2> DEFINE p == goal[r]
             x == Live.port
  <2>1. /\ pc[r] = "create" /\ mgr = r /\ Live.op = "create" /\ Live.proxy = p /\ p \in Proxies
    BY <1>9 DEF CreateOnDemand, Claims, Holdings, Held, TypeOK
  <2>2. /\ Gained /\ UNCHANGED <<port, goal, mixed>> /\ resources' = resources
        /\ mgr' = Nobody /\ pc'[r] = "store" /\ via'[r] = x
    BY <1>0, <1>9, <2>1 DEF CreateOnDemand, Gained, TypeOK, history
  <2>3. /\ ApiInv' /\ Removals' /\ OneRemoval' /\ LiveUsed' /\ UsedListened' /\ DroppedUsed'
        /\ ListenedUsed' /\ Live' = NoCall /\ Counted' = Counted
    BY <2>2, CallEnds
  <2>4. Backed(p, x) /\ Unclaimed(p) /\ x # NoPort
    BY <2>1, <2>2, LiveType DEF Gained, Claims, Backing, LiveDone, TypeOK, Ports, NoPort
  <2>5. \A q, y : Backed(q, y)' <=> Backed(q, y)
    BY <2>2, <2>3 DEF Backed, resources
  <2>6. (\A t \in Syncers : pc[t] # "sync") /\ (\A s \in Relays \ {r} : pc[s] # "create")
    BY <1>0, <2>1 DEF Claims, Holdings, Held
  <2>7. Held'
    BY <1>0, <1>1, <1>2, <2>2, <2>3, <2>6 DEF Held
  <2>8. Alone' /\ PoolBacked' /\ PlanBacked'
    BY <1>1, <1>3, <2>2, <2>5 DEF Claims, Backing, Alone, PoolBacked, PlanBacked
  <2>9. RelayBacked'
    <3> SUFFICES ASSUME NEW s \in Relays, pc'[s] = "store"
                 PROVE  via'[s] # NoPort /\ Backed(goal[s], via[s])'
      BY DEF RelayBacked
    <3>1. CASE s = r
      BY <3>1, <2>2, <2>4, <2>5 DEF Backed
    <3>2. CASE s # r
      <4>1. pc[s] = "store" /\ goal'[s] = goal[s] /\ via'[s] = via[s]
        BY <1>2, <3>2
      <4>2. via[s] # NoPort /\ Backed(goal[s], via[s])
        BY <4>1 DEF Claims, Backing, RelayBacked
      <4> QED
        BY <2>5, <4>1, <4>2 DEF Backed
    <3> QED
      BY <3>1, <3>2
  <2>10. RelayAlone'
    BY <1>1, <1>2, <1>3, <2>2, <2>4 DEF Claims, Backing, RelayAlone, Unclaimed
  <2>11. LiveDone' /\ Withdrawn'
    BY <1>6, <2>2, <2>3 DEF LiveDone, NoCall
  <2> QED
    BY <2>3, <2>7, <2>8, <2>9, <2>10, <2>11 DEF Claims, Holdings, Backing
<1>10. CASE FailOnDemand(r) \/ DropCreate(r)
  <2>1. pc[r] = "create" /\ mgr = r
    BY <1>10 DEF FailOnDemand, DropCreate, Claims, Holdings, Held
  <2>2. /\ Freed \/ Left
        /\ UNCHANGED <<port, mixed>> /\ resources' = resources
        /\ mgr' = Nobody /\ pc'[r] = "idle"
    BY <1>0, <1>10 DEF FailOnDemand, DropCreate, Freed, Left, TypeOK, history
  <2>3. /\ ApiInv' /\ Removals' /\ OneRemoval' /\ LiveUsed' /\ UsedListened' /\ DroppedUsed'
        /\ ListenedUsed' /\ Live' = NoCall
    BY <2>2, CallEnds
  <2>4. (\A t \in Syncers : pc[t] # "sync") /\ (\A s \in Relays \ {r} : pc[s] # "create")
    BY <1>0, <2>1 DEF Claims, Holdings, Held
  <2>5. Held'
    BY <1>0, <1>1, <1>2, <2>2, <2>3, <2>4 DEF Held
  <2>6. Alone' /\ PoolBacked' /\ PlanBacked' /\ RelayBacked' /\ RelayAlone'
    BY <1>5, <2>1, <2>2, StillBacked
  <2>7. LiveDone' /\ Withdrawn'
    BY <1>6, <2>2, <2>3 DEF LiveDone, NoCall
  <2> QED
    BY <2>3, <2>5, <2>6, <2>7 DEF Claims, Holdings, Backing
<1>11. CASE StorePort(r)
  <2> DEFINE p == goal[r]
  <2>1. /\ UNCHANGED <<mgr, goal, via, dropped>> /\ UNCHANGED singboxVars
        /\ pc'[r] = "send" /\ pc[r] = "store" /\ p \in Proxies
    BY <1>0, <1>11 DEF StorePort, relayVars, history, TypeOK
  <2>2. /\ \A q \in Proxies \ {p} : port'[q] = port[q]
        /\ port'[p] \in {port[p], via[r]}
    BY <1>11, <2>1 DEF StorePort, TypeOK
  <2>3. /\ ApiInv' /\ Removals' /\ OneRemoval' /\ LiveUsed' /\ UsedListened' /\ DroppedUsed'
        /\ ListenedUsed' /\ Live' = Live
        /\ \A q, y : Backed(q, y)' <=> Backed(q, y)
    BY <2>1, BoxKept
  <2>4. Held'
    BY <1>1, <1>2, <2>1, <2>3 DEF Claims, Holdings, Held
  <2>5. Alone' /\ PlanBacked'
    BY <1>1, <1>3, <2>3 DEF Claims, Backing, Alone, PlanBacked
  <2>6. PoolBacked'
    BY <2>1, <2>2, <2>3 DEF Claims, Backing, PoolBacked, RelayBacked, Backed
  <2>7. RelayBacked'
    BY <1>4, <2>1, <2>3 DEF Claims, Backing, RelayBacked, Backed
  <2>8. RelayAlone'
    <3>1. \A s \in Relays : pc'[s] = "store" =>
            pc[s] = "store" /\ goal[s] # p /\ goal[s] \in Proxies /\ s # r
      BY <1>4, <2>1 DEF Claims, Backing, RelayAlone, TypeOK
    <3> QED
      BY <1>1, <1>3, <1>4, <2>1, <2>2, <3>1 DEF Claims, Backing, RelayAlone
  <2>9. LiveDone'
    <3> SUFFICES ASSUME Live.op = "create", Live.at = "done"
                 PROVE  Backed(Live.proxy, Live.port)' /\ Unclaimed(Live.proxy)'
      BY <2>3 DEF LiveDone
    <3>1. Backed(Live.proxy, Live.port) /\ Unclaimed(Live.proxy) /\ Live.proxy \in Proxies
      BY DEF Claims, Backing, LiveDone, Backed, TypeOK, ApiTypeOK
    <3>2. Live.proxy # p
      BY <2>1, <3>1 DEF Unclaimed
    <3> QED
      BY <1>1, <1>3, <1>4, <2>1, <2>2, <2>3, <3>1, <3>2 DEF Unclaimed, Backed
  <2>10. Withdrawn'
    <3>1. \A t \in Syncers : InPass(t) => plan[t][p] = NoPort
      BY <2>1 DEF Claims, Backing, RelayAlone
    <3>2. \A t \in Syncers : pc[t] \in {"lock", "sync"} =>
            \A q \in ToRemove(t) : port[q] = NoPort /\ q \in Proxies \ {p}
      BY <3>1 DEF Claims, Backing, Withdrawn, ToRemove, InPass
    <3> QED
      BY <1>1, <1>3, <2>2, <2>3, <3>2 DEF Claims, Backing, Withdrawn, ToRemove
  <2> QED
    BY <2>3, <2>4, <2>5, <2>6, <2>7, <2>8, <2>9, <2>10 DEF Claims, Holdings, Backing
<1> QED
  BY <1>7, <1>8, <1>9, <1>10, <1>11 DEF RelayStep

\* That two passes have overlapped, or two calls were mixed, is not forgotten.
LEMMA DisorderGrows ==
  ASSUME TypeOK, Next, Orderly'
  PROVE  Orderly
<1>1. ASSUME NEW t \in Syncers, PassStep(t) PROVE (overlap => overlap') /\ mixed' = mixed
  BY <1>1 DEF PassStep, Begin, BeginEmpty, Withdraw, LockManager, RemoveBinding, CreateBinding,
         Removed, Created, NotCreated, UnlockManager, UnsetPorts, SetPorts, TypeOK, singboxVars,
         apiVars, history
<1>2. ASSUME NEW r \in Relays, RelayStep(r) PROVE overlap' = overlap /\ mixed' = mixed
  BY <1>2 DEF RelayStep, PickBound, PickUnbound, RecheckBound, RecheckUnbound, RecheckNoPort,
         CreateOnDemand, FailOnDemand, StorePort, Send, DropWaiting, DropCreate, singboxVars,
         apiVars, history
<1>3. ASSUME NEW n \in Slots, Execute(n) PROVE overlap' = overlap /\ (mixed => mixed')
  BY <1>3 DEF Execute, ApiStep, Check, CreateOutbound, CreateInbound, Undo, BindRoute, Record,
         DropEntry, UnbindRoute, CloseInbound, RemoveOutbound, Enters, history, TypeOK, ApiTypeOK
<1>4. ASSUME \/ \E p \in Proxies : AddProxy(p) \/ RemoveProxy(p)
             \/ \E p \in Proxies, s \in Statuses : SetStatus(p, s)
             \/ \E S \in SUBSET InPool, b \in Background : DeleteSubscription(S, b)
      PROVE  overlap' = overlap /\ mixed' = mixed
  BY <1>4 DEF AddProxy, RemoveProxy, SetStatus, DeleteSubscription, singboxVars, apiVars, history
<1> QED
  BY <1>1, <1>2, <1>3, <1>4 DEF Next, Orderly

\* ClaimsInv is inductive.
LEMMA NextClaims == ClaimsInv /\ [Next]_vars => ClaimsInv'
<1> SUFFICES ASSUME ClaimsInv, [Next]_vars, Orderly' PROVE Claims'
  BY NextTyped DEF ClaimsInv
<1>1. CASE UNCHANGED vars
  <2>1. TypeOK /\ Claims
    BY <1>1 DEF ClaimsInv, Orderly, vars, singboxVars, apiVars, history
  <2>2. /\ UNCHANGED singboxVars /\ dropped' = dropped
        /\ UNCHANGED <<port, mgr, pc, sel, plan, todo, goal, via>>
    BY <1>1 DEF vars, poolVars, passVars, relayVars, history
  <2>3. /\ ApiInv' /\ Removals' /\ OneRemoval' /\ LiveUsed' /\ UsedListened' /\ DroppedUsed'
        /\ ListenedUsed' /\ Live' = Live
        /\ \A q, y : Backed(q, y)' <=> Backed(q, y)
    BY <2>1, <2>2, BoxKept
  <2>4. Held' /\ Withdrawn'
    BY <2>1, <2>2, <2>3 DEF Claims, Holdings, Backing, Held, Withdrawn, ToRemove, InPass
  <2>5. Alone' /\ PoolBacked' /\ PlanBacked' /\ RelayAlone'
    BY <2>1, <2>2, <2>3 DEF Claims, Backing, Alone, PoolBacked, PlanBacked, RelayAlone, InPass
  <2>6. RelayBacked'
    BY <2>1, <2>2, <2>3 DEF Claims, Backing, RelayBacked, Backed
  <2>7. LiveDone'
    BY <2>1, <2>2, <2>3 DEF Claims, Backing, LiveDone, Backed, Unclaimed, InPass
  <2> QED
    BY <2>3, <2>4, <2>5, <2>6, <2>7 DEF Claims, Holdings, Backing
<1>2. CASE Next
  <2>1. Orderly /\ ~overlap /\ ~overlap' /\ ~mixed'
    BY <1>2, DisorderGrows DEF ClaimsInv, Orderly
  <2>2. TypeOK /\ Claims
    BY <2>1 DEF ClaimsInv
  <2>3. ASSUME NEW t \in Syncers, PassStep(t) PROVE Claims'
    BY <2>1, <2>2, <2>3, BeginClaims, PoolWriteClaims, RemoveClaims, CallClaims DEF PassStep
  <2> QED
    BY <1>2, <2>1, <2>2, <2>3, RelayClaims, ExecuteClaims, PoolClaims DEF Next
<1> QED
  BY <1>1, <1>2

\* As long as all is orderly, every port the pool, a pass, a request or the call under way
\* holds is backed by sing-box and by the allocator, with all that needs.
THEOREM ClaimsHold == Spec => []ClaimsInv
<1>1. Init => ClaimsInv
  BY InitTyped, InitClaims DEF ClaimsInv
<1>2. ClaimsInv /\ [Next]_vars => ClaimsInv'
  BY NextClaims
<1> QED
  BY <1>1, <1>2, PTL DEF Spec

\* As long as neither two passes overlapped nor sing-box worked on one tag for two calls,
\* it forwards every port of the pool to that very proxy, however calls time out and are
\* executed late, step by step.
THEOREM RoutedAlways == Spec => []Routed
<1>1. ClaimsInv => Routed
  BY ClaimsImply
<1> QED
  BY <1>1, ClaimsHold, PTL

\* Under the same condition, a port the allocator counts as used is listened on, is that
\* of the call under way, or was allocated for a request dropped inside create_binding;
\* and while every call was answered it counts every port sing-box listens on.
THEOREM PortsAccountedAlways == Spec => []PortsAccounted
<1>1. ClaimsInv => PortsAccounted
  BY ClaimsImply
<1> QED
  BY <1>1, ClaimsHold, PTL

-----------------------------------------------------------------------------
(* The refinement.  As long as all is orderly, a step either leaves what   *)
(* sing-box forwards alone and moves what the pool advertises towards it,  *)
(* or it begins or ends to forward to one proxy the pool does not          *)
(* advertise.                                                              *)

Readvertised ==
  Forwarded' = Forwarded /\ \A p \in Proxies : port'[p] \in {port[p], Forwarded[p], NoPort}

Rebound ==
  /\ port' = port
  /\ \E p \in Proxies, x \in Ports \cup {NoPort} :
       /\ port[p] = NoPort
       /\ x # NoPort => Forwarded[p] = NoPort /\ \A q \in Proxies : Forwarded[q] # x
       /\ Forwarded' = [Forwarded EXCEPT ![p] = x]

\* What is backed is forwarded.
LEMMA BackedForwarded ==
  ASSUME Claims, NEW p \in Proxies, NEW x, Backed(p, x)
  PROVE  Forwarded[p] = x
BY DEF Claims, ApiInv, Entered, Backed, Forwarded

\* sing-box begins to forward when it binds the route and ends when it unbinds it; at both
\* the tag has no entry, so that nobody advertises it.
LEMMA ExecuteMoves ==
  ASSUME TypeOK, Claims, NEW n \in Slots, Execute(n)
  PROVE  Readvertised \/ Rebound
<1> DEFINE c == calls[n]
           p == calls[n].proxy
<1>1. /\ p \in Proxies /\ c.port \in Ports /\ port' = port /\ Way(c) /\ ApiTypeOK
      /\ \A q \in Proxies \ {p} :
           /\ q \in outbounds' <=> q \in outbounds
           /\ inbound'[q] = inbound[q]
           /\ q \in routes' <=> q \in routes
  BY StepFacts, ExecuteTag DEF Execute, poolVars, Claims, ApiInv, OnWay, TypeOK
<1>2. \A q \in Proxies \ {p} : Forwarded'[q] = Forwarded[q]
  BY <1>1 DEF Forwarded
<1>3. ASSUME p \notin routes, p \notin routes' PROVE Readvertised
  <2>1. Forwarded'[p] = Forwarded[p]
    BY <1>1, <1>3 DEF Forwarded
  <2>2. Forwarded' = Forwarded
    BY <1>2, <2>1 DEF Forwarded
  <2> QED
    BY <1>1, <2>2 DEF Readvertised
<1>4. ASSUME p \notin entries PROVE port[p] = NoPort
  BY <1>1, <1>4 DEF Claims, Backing, PoolBacked, Backed
<1>5. CASE Check(n) \/ Record(n) \/ DropEntry(n)
  <2>1. UNCHANGED <<inbound, routes, outbounds>>
    BY <1>5 DEF Check, Record, DropEntry, resources
  <2> QED
    BY <1>1, <2>1 DEF Forwarded, Readvertised
<1>6. CASE CreateOutbound(n) \/ CreateInbound(n) \/ Undo(n) \/ CloseInbound(n) \/ RemoveOutbound(n)
  <2>1. c.at \in {"outbound", "inbound", "undo", "close", "unout"} /\ routes' = routes
    BY <1>6 DEF CreateOutbound, CreateInbound, Undo, CloseInbound, RemoveOutbound, At
  <2>2. p \notin routes
    BY <1>1, <2>1 DEF Way
  <2> QED
    BY <1>3, <2>1, <2>2
<1>7. CASE BindRoute(n)
  <2>1. /\ c.at = "route" /\ routes' = routes \cup {p} /\ UNCHANGED <<inbound, outbounds>>
    BY <1>7 DEF BindRoute, At
  <2>2. /\ p \notin routes /\ inbound[p] = c.port /\ p \notin entries
    BY <1>1, <2>1 DEF Way, AtWork, CreateStages
  <2>3. port[p] = NoPort /\ Forwarded[p] = NoPort
    BY <1>1, <1>4, <2>2 DEF Forwarded
  <2>4. ASSUME NEW q \in Proxies PROVE Forwarded[q] # c.port
    <3>1. c.port # NoPort
      BY <1>1 DEF Ports, NoPort
    <3>2. inbound[q] = c.port => q = p
      BY <1>1, <2>2, <3>1 DEF Claims, ApiInv, OneListener
    <3> QED
      BY <2>3, <3>1, <3>2 DEF Forwarded
  <2>5. Forwarded'[p] \in {c.port, NoPort}
    BY <1>1, <2>1, <2>2 DEF Forwarded
  <2>6. Forwarded' = [Forwarded EXCEPT ![p] = Forwarded'[p]]
    BY <1>2 DEF Forwarded
  <2> QED
    BY <1>1, <2>3, <2>4, <2>5, <2>6 DEF Rebound
<1>8. CASE UnbindRoute(n)
  <2>1. c.at = "unroute" /\ routes' = routes \ {p}
    BY <1>8 DEF UnbindRoute, At
  <2>2. p \notin entries
    BY <1>1, <2>1 DEF Way, AtWork, RemoveStages
  <2>3. port[p] = NoPort
    BY <1>4, <2>2
  <2>4. Forwarded'[p] = NoPort
    BY <1>1, <2>1 DEF Forwarded
  <2>5. Forwarded' = [Forwarded EXCEPT ![p] = NoPort]
    BY <1>2, <2>4 DEF Forwarded
  <2> QED
    BY <1>1, <2>3, <2>5 DEF Rebound
<1> QED
  BY <1>5, <1>6, <1>7, <1>8 DEF Execute, ApiStep

\* The server itself moves nothing in sing-box, and what a pass or a request writes to the
\* pool is backed.
LEMMA ServerMoves ==
  ASSUME TypeOK, Claims,
         \/ \E t \in Syncers : PassStep(t)
         \/ \E r \in Relays : RelayStep(r)
         \/ \E p \in Proxies : AddProxy(p) \/ RemoveProxy(p)
         \/ \E p \in Proxies, s \in Statuses : SetStatus(p, s)
         \/ \E S \in SUBSET InPool, b \in Background : DeleteSubscription(S, b)
  PROVE  Readvertised
<1> USE DEF poolVars, singboxVars, apiVars
<1>0. resources' = resources => Forwarded' = Forwarded
  BY DEF resources, Forwarded
<1>1. ASSUME NEW t \in Syncers, PassStep(t) PROVE Readvertised
  <2>1. resources' = resources
    BY <1>1 DEF PassStep, Begin, BeginEmpty, Withdraw, LockManager, RemoveBinding, CreateBinding,
                Removed, Created, NotCreated, UnlockManager, UnsetPorts, SetPorts
  <2>2. CASE SetPorts(t)
    <3>1. \A p \in Proxies : plan[t][p] # NoPort => Forwarded[p] = plan[t][p]
      BY <2>2, BackedForwarded DEF Claims, Backing, PlanBacked, SetPorts, InPass
    <3> QED
      BY <1>0, <2>1, <2>2, <3>1 DEF SetPorts, TypeOK, Readvertised
  <2>3. CASE Withdraw(t) \/ UnsetPorts(t)
    BY <1>0, <2>1, <2>3 DEF Withdraw, UnsetPorts, TypeOK, Readvertised
  <2>4. CASE ~(SetPorts(t) \/ Withdraw(t) \/ UnsetPorts(t))
    <3>1. port' = port
      BY <1>1, <2>4 DEF PassStep, Begin, BeginEmpty, LockManager, RemoveBinding, CreateBinding,
                        Removed, Created, NotCreated, UnlockManager
    <3> QED
      BY <1>0, <2>1, <3>1 DEF Readvertised
  <2> QED
    BY <2>2, <2>3, <2>4
<1>2. ASSUME NEW r \in Relays, RelayStep(r) PROVE Readvertised
  <2>1. resources' = resources
    BY <1>2 DEF RelayStep, PickBound, PickUnbound, RecheckBound, RecheckUnbound, RecheckNoPort,
                CreateOnDemand, FailOnDemand, StorePort, Send, DropWaiting, DropCreate
  <2>2. CASE StorePort(r)
    <3>1. goal[r] \in Proxies /\ Forwarded[goal[r]] = via[r]
      BY <2>2, BackedForwarded DEF StorePort, TypeOK, Claims, Backing, RelayBacked
    <3> QED
      BY <1>0, <2>1, <2>2, <3>1 DEF StorePort, TypeOK, Readvertised
  <2>3. CASE ~StorePort(r)
    <3>1. port' = port
      BY <1>2, <2>3 DEF RelayStep, PickBound, PickUnbound, RecheckBound, RecheckUnbound,
                        RecheckNoPort, CreateOnDemand, FailOnDemand, Send, DropWaiting, DropCreate
    <3> QED
      BY <1>0, <2>1, <3>1 DEF Readvertised
  <2> QED
    BY <2>2, <2>3
<1>3. CASE \/ \E p \in Proxies : AddProxy(p) \/ RemoveProxy(p)
           \/ \E p \in Proxies, s \in Statuses : SetStatus(p, s)
           \/ \E S \in SUBSET InPool, b \in Background : DeleteSubscription(S, b)
  BY <1>0, <1>3 DEF AddProxy, RemoveProxy, SetStatus, DeleteSubscription, Forget, TypeOK,
                    Readvertised
<1> QED
  BY <1>1, <1>2, <1>3

\* Every step of the server and of sing-box is a step of PortMap, or none that it sees.
LEMMA StepPromise ==
  ASSUME ClaimsInv, ClaimsInv', Next
  PROVE  Promise!Next
<1>1. port' \in Promise!Maps /\ Forwarded' \in Promise!Maps
  BY DEF ClaimsInv, TypeOK, ApiTypeOK, Forwarded, Promise!Maps
<1>2. CASE ~Orderly'
  BY <1>1, <1>2 DEF Promise!Next, Promise!Lapse
<1>3. CASE Orderly'
  <2>1. Orderly
    BY <1>3, DisorderGrows DEF ClaimsInv
  <2>2. TypeOK /\ Claims /\ Orderly' = Orderly
    BY <1>3, <2>1 DEF ClaimsInv, TypeOK, ApiTypeOK, Orderly
  <2>3. Readvertised \/ Rebound
    BY <2>2, ExecuteMoves, ServerMoves DEF Next
  <2>4. CASE Readvertised
    BY <1>1, <2>1, <2>2, <2>4 DEF Readvertised, Promise!Next, Promise!Advertise
  <2>5. CASE Rebound
    <3>1. PICK p \in Proxies, x \in Ports \cup {NoPort} :
            /\ port[p] = NoPort
            /\ x # NoPort => Forwarded[p] = NoPort /\ \A q \in Proxies : Forwarded[q] # x
            /\ Forwarded' = [Forwarded EXCEPT ![p] = x]
      BY <2>5 DEF Rebound
    <3>2. Promise!Rebind(p, x)
      BY <2>2, <2>5, <3>1 DEF Rebound, Promise!Rebind
    <3> QED
      BY <2>1, <3>2 DEF Promise!Next
  <2> QED
    BY <2>3, <2>4, <2>5
<1> QED
  BY <1>2, <1>3

\* Pool and sing-box implement PortMap: what readers of the pool rely on without a lock.
THEOREM PromiseKept == Spec => KeepsPromise
<1>1. Init => Promise!Init
  <2> SUFFICES ASSUME Init PROVE Promise!Init
    OBVIOUS
  <2>1. OneListener /\ TypeOK /\ Orderly
    BY InitTyped, InitClaims DEF Claims, ApiInv, Init, Orderly
  <2>2. Forwarded = inbound /\ port = inbound
    BY <2>1 DEF Init, Forwarded, TypeOK, ApiTypeOK
  <2> QED
    BY <2>1, <2>2 DEF OneListener, TypeOK, ApiTypeOK, Orderly, Promise!Init, Promise!Maps
<1>2. ClaimsInv /\ ClaimsInv' /\ [Next]_vars => [Promise!Next]_(Promise!vars)
  <2> SUFFICES ASSUME ClaimsInv, ClaimsInv', [Next]_vars PROVE [Promise!Next]_(Promise!vars)
    OBVIOUS
  <2>1. CASE UNCHANGED vars
    BY <2>1 DEF vars, poolVars, singboxVars, apiVars, resources, history, Forwarded, Orderly,
                Promise!vars
  <2> QED
    BY <2>1, StepPromise
<1> QED
  BY <1>1, <1>2, ClaimsHold, PTL DEF Spec, KeepsPromise, Promise!Spec

-----------------------------------------------------------------------------
(* AtRest.  A pass alone with sing-box, with every call answered, has a    *)
(* plan that is what sing-box does; this is what it writes to the pool.    *)

Calm == Orderly /\ ~crossed /\ timeouts = 0

\* While every call was answered, no two were at work at once.
MixedLate == mixed => timeouts # 0

\* Nothing is bound for a proxy before it comes to the pool.
BornFirst ==
  /\ \A p \in Proxies : status[p] = "unborn" => inbound[p] = NoPort
  /\ \A t \in Syncers : InPass(t) => \A p \in sel[t] : status[p] # "unborn"
  /\ \A r \in Relays : pc[r] # "idle" => status[goal[r]] # "unborn"

\* The plan of a pass is what sing-box does, but for what the call under way changes.
PassKnows ==
  \A t \in Syncers : InPass(t) =>
    /\ Creating = {}
    /\ \A p \in InPool : plan[t][p] = inbound[p] \/ (p = Live.proxy /\ Opened(Live))

PoolKnows ==
  (\A t \in Syncers : ~InPass(t)) =>
    \A p \in InPool :
      \/ inbound[p] = port[p]
      \/ p = Live.proxy /\ Opened(Live)
      \/ \E r \in Relays : pc[r] = "store" /\ goal[r] = p

Known == BornFirst /\ PassKnows /\ PoolKnows

KnownInv == ClaimsInv /\ MixedLate /\ (Calm => Known)

\* After startup the pool has the ports of the bindings that were made.
LEMMA InitKnown == Init => MixedLate /\ Known
<1> SUFFICES ASSUME Init PROVE MixedLate /\ Known
  OBVIOUS
<1>1. /\ \A t \in Syncers : ~InPass(t)
      /\ \A r \in Relays : pc[r] = "idle"
  BY DEF Init, InPass, Actors
<1>2. \A p \in Proxies : status[p] = "unborn" => inbound[p] = NoPort
  BY DEF Init, With
<1>3. \A p \in InPool : inbound[p] = port[p]
  BY DEF Init
<1> QED
  BY <1>1, <1>2, <1>3 DEF Init, MixedLate, Known, BornFirst, PassKnows, PoolKnows

\* Only a call given up on is still at work when the next is sent.
LEMMA NextMixedLate ==
  ASSUME TypeOK, MixedLate, [Next]_vars
  PROVE  MixedLate'
<1>1. timeouts \in Nat /\ MaxTimeouts \in Nat
  BY SizesAssumption DEF TypeOK, ApiTypeOK, Slots
<1>2. ASSUME NEW n \in Slots, Execute(n) PROVE MixedLate'
  <2>1. timeouts' = timeouts /\ ApiTypeOK /\ ApiStep(n) /\ calls[n] # NoCall /\ n \in Nat
    BY <1>2, StepFacts DEF Execute, TypeOK, Slots
  <2>2. CASE \E s : Enters(n, s)
    <3> SUFFICES ASSUME timeouts = 0, NEW m \in Slots \ {n}, calls[m].at \in AtWork PROVE FALSE
      BY <2>1, <2>2 DEF MixedLate, Enters
    <3>1. n <= 0 /\ m <= 0 /\ m \in Nat
      BY <2>1, CallType DEF AtWork, CreateStages, RemoveStages, Slots
    <3> QED
      BY <2>1, <3>1
  <2>3. CASE ~\E s : Enters(n, s)
    BY <2>1, <2>3 DEF ApiStep, Check, CreateOutbound, CreateInbound, Undo, BindRoute, Record,
                      DropEntry, UnbindRoute, CloseInbound, RemoveOutbound, MixedLate
  <2> QED
    BY <2>2, <2>3
<1>3. ASSUME mixed' = mixed, timeouts' = timeouts \/ timeouts' = timeouts + 1 PROVE MixedLate'
  BY <1>1, <1>3 DEF MixedLate
<1>4. ASSUME NEW t \in Syncers, PassStep(t) PROVE MixedLate'
  <2> USE DEF singboxVars, apiVars
  <2>1. mixed' = mixed
    BY <1>4 DEF PassStep, Begin, BeginEmpty, Withdraw, LockManager, RemoveBinding, CreateBinding,
                Removed, Created, NotCreated, UnlockManager, UnsetPorts, SetPorts
  <2>2. timeouts' = timeouts \/ timeouts' = timeouts + 1
    BY <1>4 DEF PassStep, Begin, BeginEmpty, Withdraw, LockManager, RemoveBinding, CreateBinding,
                Removed, Created, NotCreated, UnlockManager, UnsetPorts, SetPorts,
                Unanswered, Answered, GivenUp
  <2> QED
    BY <1>3, <2>1, <2>2
<1>5. ASSUME NEW r \in Relays, RelayStep(r) PROVE MixedLate'
  <2> USE DEF singboxVars, apiVars
  <2>1. mixed' = mixed
    BY <1>5 DEF RelayStep, PickBound, PickUnbound, RecheckBound, RecheckUnbound, RecheckNoPort,
                CreateOnDemand, FailOnDemand, StorePort, Send, DropWaiting, DropCreate
  <2>2. timeouts' = timeouts \/ timeouts' = timeouts + 1
    BY <1>5 DEF RelayStep, PickBound, PickUnbound, RecheckBound, RecheckUnbound, RecheckNoPort,
                CreateOnDemand, FailOnDemand, StorePort, Send, DropWaiting, DropCreate,
                Unanswered, Answered, GivenUp
  <2> QED
    BY <1>3, <2>1, <2>2
<1>6. CASE \/ \E p \in Proxies : AddProxy(p) \/ RemoveProxy(p)
           \/ \E p \in Proxies, s \in Statuses : SetStatus(p, s)
           \/ \E S \in SUBSET InPool, b \in Background : DeleteSubscription(S, b)
           \/ UNCHANGED vars
  BY <1>3, <1>6 DEF AddProxy, RemoveProxy, SetStatus, DeleteSubscription, vars, singboxVars, apiVars
<1> QED
  BY <1>2, <1>4, <1>5, <1>6 DEF Next

\* The steps of a pass that call nobody.
LEMMA PoolWriteKnown ==
  ASSUME TypeOK, Claims, Known, Calm', NEW t \in Syncers,
         \/ \E mode \in Modes : Begin(t, mode)
         \/ BeginEmpty(t) \/ Withdraw(t) \/ LockManager(t) \/ UnlockManager(t)
         \/ UnsetPorts(t) \/ SetPorts(t)
  PROVE  Known'
<1> USE DEF singboxVars, apiVars, resources, poolVars, passVars, relayVars
<1>0. /\ \A u \in Syncers \ {t} : pc'[u] = pc[u]
      /\ \A r \in Relays : pc'[r] = pc[r]
      /\ UNCHANGED <<status, inbound, goal>> /\ Live' = Live
  BY NamesAssumption DEF TypeOK, Actors, Begin, BeginEmpty, Withdraw, LockManager,
                         UnlockManager, UnsetPorts, SetPorts, Live
<1>1. \A u \in Syncers \ {t} : (InPass(u)' <=> InPass(u)) /\ sel'[u] = sel[u] /\ plan'[u] = plan[u]
  BY <1>0 DEF InPass, TypeOK, Begin, BeginEmpty, Withdraw, LockManager, UnlockManager,
              UnsetPorts, SetPorts
<1>2. Creating' = Creating /\ InPool' = InPool /\ (Opened(Live)' <=> Opened(Live))
  BY <1>0 DEF Creating, InPool, Opened
<1>3. CASE \E mode \in Modes : Begin(t, mode)
  <2>1. Creating = {} /\ (\A u \in Syncers \ {t} : ~InPass(u)) /\ ~InPass(t)
    BY <1>3 DEF Begin, Calm, Orderly, InPass
  <2>2. InPass(t)' /\ plan'[t] = port /\ sel'[t] \subseteq InPool
    BY <1>3 DEF Begin, TypeOK, Actors, InPass
  <2>3. \A p \in InPool : inbound[p] = port[p] \/ (p = Live.proxy /\ Opened(Live))
    BY <2>1 DEF Known, PoolKnows, Creating
  <2>4. BornFirst'
    BY <1>0, <1>1, <2>2 DEF Known, BornFirst, InPool, Statuses
  <2>5. PassKnows' /\ PoolKnows'
    BY <1>0, <1>1, <1>2, <2>1, <2>2, <2>3 DEF PassKnows, PoolKnows
  <2> QED
    BY <2>4, <2>5 DEF Known
<1>4. CASE BeginEmpty(t)
  <2>1. InPool = {} /\ ~InPass(t)' /\ sel' = sel
    BY <1>4 DEF BeginEmpty, InPass, TypeOK, Actors
  <2> QED
    BY <1>0, <1>1, <1>2, <2>1 DEF Known, BornFirst, PassKnows, PoolKnows
<1>5. CASE Withdraw(t) \/ LockManager(t) \/ UnlockManager(t) \/ UnsetPorts(t)
  <2>1. InPass(t) /\ InPass(t)' /\ sel' = sel /\ plan' = plan
    BY <1>5 DEF Withdraw, LockManager, UnlockManager, UnsetPorts, InPass, TypeOK, Actors
  <2> QED
    BY <1>0, <1>1, <1>2, <2>1 DEF Known, BornFirst, PassKnows, PoolKnows
<1>6. CASE SetPorts(t)
  <2>1. InPass(t) /\ ~InPass(t)'
    BY <1>6 DEF SetPorts, InPass, TypeOK, Actors
  <2>2. \A u \in Syncers : ~InPass(u)'
    BY <1>1, <2>1 DEF Claims, Backing, Alone
  <2>3. ASSUME NEW p \in InPool PROVE port'[p] = inbound[p] \/ (p = Live.proxy /\ Opened(Live))
    <3>1. port'[p] = IF plan[t][p] # NoPort THEN plan[t][p] ELSE port[p]
      BY <1>6 DEF SetPorts, InPool, TypeOK
    <3>2. plan[t][p] = inbound[p] \/ (p = Live.proxy /\ Opened(Live))
      BY <2>1 DEF Known, PassKnows
    <3>3. port[p] # NoPort => inbound[p] = port[p]
      BY DEF Claims, Backing, PoolBacked, Backed, InPool
    <3> QED
      BY <3>1, <3>2, <3>3
  <2>4. BornFirst'
    BY <1>0, <2>2 DEF Known, BornFirst
  <2> QED
    BY <1>0, <1>2, <2>2, <2>3, <2>4 DEF Known, PassKnows, PoolKnows
<1> QED
  BY <1>3, <1>4, <1>5, <1>6

\* A call of a pass changes its plan and, in the end, the bindings alike.
LEMMA PassCallKnown ==
  ASSUME TypeOK, Claims, Known, Calm', NEW t \in Syncers,
         \/ \E p \in Proxies : RemoveBinding(t, p) \/ CreateBinding(t, p)
         \/ Removed(t) \/ Created(t) \/ NotCreated(t)
  PROVE  Known'
<1> USE DEF poolVars, relayVars, history
<1>1. /\ InPass(t) /\ \A u \in Syncers : (InPass(u)' <=> InPass(u)) /\ (InPass(u) => u = t)
      /\ UNCHANGED <<status, port, pc, sel, goal, inbound>>
  BY DEF RemoveBinding, CreateBinding, Removed, Created, NotCreated, passVars, resources,
         InPass, Claims, Backing, Alone
<1>2. Creating' = Creating /\ InPool' = InPool
  BY <1>1 DEF Creating, InPool
<1>3. BornFirst'
  BY <1>1 DEF Known, BornFirst
<1> SUFFICES \A p \in InPool : plan'[t][p] = inbound[p] \/ (p = Live'.proxy /\ Opened(Live)')
  <2>1. PassKnows'
    BY <1>1, <1>2 DEF Known, PassKnows
  <2>2. PoolKnows'
    BY <1>1 DEF PoolKnows
  <2> QED
    BY <1>3, <2>1, <2>2 DEF Known
<1>4. /\ \A p \in InPool : plan[t][p] = inbound[p] \/ (p = Live.proxy /\ Opened(Live))
      /\ timeouts \in Slots /\ calls \in [Slots -> Calls] /\ InPool \subseteq Proxies
  BY <1>1 DEF Known, PassKnows, TypeOK, ApiTypeOK, InPool
<1>5. ~GivenUp
  BY <1>4, SizesAssumption DEF GivenUp, Calm, Slots
<1>6. ~Opened(NoCall)
  BY DEF Opened, NoCall
<1>7. ASSUME NEW p \in Proxies, RemoveBinding(t, p)
      PROVE  \A q \in InPool : plan'[t][q] = inbound[q] \/ (q = Live'.proxy /\ Opened(Live)')
  <2>1. Live = NoCall /\ calls' = [calls EXCEPT ![timeouts] = Removal(p, plan[t][p])]
         /\ timeouts' = timeouts /\ plan' = [plan EXCEPT ![t][p] = NoPort]
    BY <1>7 DEF RemoveBinding, Ask
  <2>2. Live' = Removal(p, plan[t][p])
    BY <1>4, <2>1 DEF Live
  <2>3. Live'.proxy = p /\ Opened(Live)'
    BY <2>2 DEF Removal, Opened
  <2>4. \A q \in Proxies \ {p} : plan'[t][q] = plan[t][q]
    BY <2>1 DEF TypeOK
  <2> QED
    BY <1>4, <1>6, <2>1, <2>3, <2>4
<1>8. CASE \E p \in Proxies : CreateBinding(t, p)
  BY <1>4, <1>6, <1>8 DEF CreateBinding
<1>9. CASE Removed(t) \/ NotCreated(t)
  <2>1. plan' = plan /\ Answered
    BY <1>5, <1>9 DEF Removed, NotCreated, Unanswered, passVars
  <2>2. Live.at \in Ended /\ (Live.op = "create" => Live.at = "failed")
    BY <1>5, <1>9, <2>1 DEF Answered, Removed, NotCreated, Unanswered
  <2>3. ~Opened(Live)
    BY <2>2 DEF Opened, Ended
  <2> QED
    BY <1>4, <2>1, <2>3
<1>10. CASE Created(t)
  <2>1. Backed(Live.proxy, Live.port) /\ plan' = [plan EXCEPT ![t][Live.proxy] = Live.port]
    BY <1>10 DEF Created, Claims, Backing, LiveDone
  <2>2. Live.proxy \in Proxies /\ inbound[Live.proxy] = Live.port
    BY <2>1 DEF Backed, TypeOK, ApiTypeOK
  <2> QED
    BY <1>4, <2>1, <2>2 DEF TypeOK
<1> QED
  BY <1>7, <1>8, <1>9, <1>10

\* A request that creates meets no pass, and stores what it created.
LEMMA RelayKnown ==
  ASSUME TypeOK, Claims, Known, Calm', NEW r \in Relays, RelayStep(r)
  PROVE  Known'
<1> USE DEF poolVars, passVars, relayVars, history
<1>0. /\ \A t \in Syncers : InPass(t)' <=> InPass(t)
      /\ \A s \in Relays \ {r} : pc'[s] = pc[s] /\ goal'[s] = goal[s]
      /\ UNCHANGED <<status, sel, plan, inbound>>
  BY NamesAssumption
  DEF RelayStep, PickBound, PickUnbound, RecheckBound, RecheckUnbound, RecheckNoPort,
      CreateOnDemand, FailOnDemand, StorePort, Send, DropWaiting, DropCreate, TypeOK, Actors,
      InPass, singboxVars, apiVars, resources
<1>1. InPool' = InPool /\ InPool \subseteq Proxies
  BY <1>0 DEF InPool
<1>2. timeouts \in Slots /\ calls \in [Slots -> Calls]
  BY DEF TypeOK, ApiTypeOK
<1>3. ~GivenUp
  BY <1>2, SizesAssumption DEF GivenUp, Calm, Slots
<1>4. ~Opened(NoCall)
  BY DEF Opened, NoCall
<1>5. CASE \/ \E p \in Proxies : PickBound(r, p) \/ PickUnbound(r, p)
           \/ RecheckBound(r) \/ RecheckNoPort(r) \/ Send(r) \/ DropWaiting(r)
  <2>1. /\ pc[r] # "store" /\ pc'[r] \notin {"create", "store"} /\ UNCHANGED <<port, calls, timeouts>>
        /\ pc'[r] # "idle" => status[goal'[r]] # "unborn"
    BY <1>5 DEF PickBound, PickUnbound, RecheckBound, RecheckNoPort, Send, DropWaiting,
                TypeOK, Actors, Known, BornFirst, InPool, Statuses, singboxVars, apiVars
  <2>2. Creating' \subseteq Creating
    BY <1>0, <2>1 DEF Creating
  <2>3. Live' = Live /\ (Opened(Live)' <=> Opened(Live))
    BY <2>1 DEF Live, Opened
  <2> QED
    BY <1>0, <1>1, <2>1, <2>2, <2>3 DEF Known, BornFirst, PassKnows, PoolKnows
<1>6. CASE FailOnDemand(r)
  <2>1. /\ pc[r] = "create" /\ pc'[r] = "idle" /\ UNCHANGED port
        /\ Live.op = "create" /\ Live.at = "failed"
    BY <1>3, <1>6 DEF FailOnDemand, Unanswered, TypeOK, Actors
  <2>2. ~Opened(Live)
    BY <2>1 DEF Opened
  <2>3. Creating' \subseteq Creating
    BY <1>0, <2>1 DEF Creating
  <2> QED
    BY <1>0, <1>1, <2>1, <2>2, <2>3 DEF Known, BornFirst, PassKnows, PoolKnows
<1>7. CASE RecheckUnbound(r)
  <2>1. /\ UNCHANGED <<port, goal>> /\ pc[r] = "lock" /\ pc'[r] = "create" /\ mgr = Nobody
        /\ \A t \in Syncers : ~InPass(t)
    BY <1>7 DEF RecheckUnbound, Calm, TypeOK, Actors
  <2>2. ~Opened(Live)
    BY <1>4, <2>1 DEF Claims, Holdings, Held
  <2> QED
    BY <1>0, <1>1, <2>1, <2>2 DEF Known, BornFirst, PassKnows, PoolKnows
<1>8. CASE CreateOnDemand(r)
  <2>1. /\ UNCHANGED <<port, goal>> /\ pc[r] = "create" /\ pc'[r] = "store"
        /\ Live.proxy = goal[r]
    BY <1>8 DEF CreateOnDemand, TypeOK, Actors, Claims, Holdings, Held
  <2>2. \A t \in Syncers : ~InPass(t)
    BY <2>1 DEF Known, PassKnows, Creating
  <2> QED
    BY <1>0, <1>1, <2>1, <2>2 DEF Known, BornFirst, PassKnows, PoolKnows
<1>9. CASE StorePort(r)
  <2>1. /\ UNCHANGED <<goal, calls, timeouts>> /\ pc[r] = "store" /\ pc'[r] = "send"
        /\ goal[r] \in Proxies /\ \A q \in Proxies \ {goal[r]} : port'[q] = port[q]
        /\ goal[r] \in InPool => port'[goal[r]] = inbound[goal[r]]
    BY <1>9 DEF StorePort, TypeOK, Actors, Claims, Backing, RelayBacked, Backed, singboxVars, apiVars
  <2>2. \A t \in Syncers : ~InPass(t)
    BY <2>1 DEF Known, PassKnows, Creating
  <2>3. Live' = Live /\ (Opened(Live)' <=> Opened(Live))
    BY <2>1 DEF Live, Opened
  <2> QED
    BY <1>0, <1>1, <2>1, <2>2, <2>3 DEF Known, BornFirst, PassKnows, PoolKnows
<1>10. CASE DropCreate(r)
  BY <1>3, <1>10 DEF DropCreate
<1> QED
  BY <1>5, <1>6, <1>7, <1>8, <1>9, <1>10 DEF RelayStep

\* A creation is of a proxy that has come to the pool.
LEMMA LiveBorn ==
  ASSUME TypeOK, Claims, BornFirst, Live.op = "create"
  PROVE  status[Live.proxy] # "unborn"
<1>1. mgr # Nobody /\ mgr \in Actors
  BY DEF Claims, Holdings, Held, TypeOK, NoCall
<1>2. CASE mgr \in Syncers
  <2>1. pc[mgr] = "sync" /\ Live.proxy \in sel[mgr]
    BY <1>2 DEF Claims, Holdings, Backing, Held, Withdrawn
  <2> QED
    BY <1>2, <2>1 DEF BornFirst, InPass
<1>3. CASE mgr \in Relays
  BY <1>3 DEF Claims, Holdings, Held, BornFirst
<1> QED
  BY <1>1, <1>2, <1>3 DEF Actors

\* What sing-box does for the call under way is what this call was to change.
LEMMA ExecuteKnown ==
  ASSUME TypeOK, Claims, Known, timeouts = 0, NEW n \in Slots, Execute(n)
  PROVE  Known'
<1> DEFINE p == Live.proxy
<1>1. UNCHANGED <<status, port, pc, sel, plan, goal>>
  BY DEF Execute, poolVars, passVars, relayVars
<1>2. n = timeouts /\ Live = calls[n] /\ Live # NoCall
  BY SizesAssumption, StepFacts, CallType DEF Live, Execute, TypeOK, Slots
<1>3. p \in Proxies /\ Live'.proxy = p /\ \A q \in Proxies \ {p} : inbound'[q] = inbound[q]
  BY <1>2, ExecuteTag, ExecuteLive
<1>4. /\ InPool' = InPool /\ InPool \subseteq Proxies /\ Creating' = Creating
      /\ \A t \in Syncers : InPass(t)' <=> InPass(t)
  BY <1>1 DEF InPool, Creating, InPass
<1>5. \/ /\ inbound[p] = Live.port /\ inbound'[p] = NoPort
         /\ Live.op = "remove" /\ Live.at = "close"
      \/ Opened(Live)'
      \/ inbound'[p] = inbound[p] /\ ~Opened(Live)
  BY <1>2, <1>3, ExecuteOpened DEF TypeOK, ApiTypeOK
<1>6. ASSUME Live.op = "remove", Live.at = "close"
      PROVE  port[p] = NoPort /\ \A t \in Syncers : InPass(t) => plan[t][p] = NoPort
  <2>1. inbound[p] = Live.port /\ Live.port \notin Counted
    BY <1>2, <1>6 DEF Claims, Holdings, Removals
  <2> QED
    BY <1>3, <2>1 DEF Claims, Backing, PoolBacked, PlanBacked, Backed
<1>7. BornFirst'
  <2>1. ASSUME status[p] = "unborn" PROVE inbound'[p] = NoPort
    <3>1. Live.op # "create" /\ inbound[p] = NoPort
      BY <1>3, <2>1, LiveBorn DEF Known, BornFirst
    <3>2. calls[n].at # "inbound"
      BY <1>2, <3>1, CallType DEF TypeOK, RemoveStages, Ended
    <3> QED
      BY <1>2, <3>1, <3>2, ExecuteTag
  <2> QED
    BY <1>1, <1>3, <1>4, <2>1 DEF Known, BornFirst
<1>8. PassKnows'
  <2> SUFFICES ASSUME NEW t \in Syncers, InPass(t), NEW q \in InPool
               PROVE  plan[t][q] = inbound'[q] \/ (q = Live'.proxy /\ Opened(Live)')
    BY <1>1, <1>4 DEF Known, PassKnows
  <2>1. plan[t][q] = inbound[q] \/ (q = p /\ Opened(Live))
    BY DEF Known, PassKnows
  <2> QED
    BY <1>3, <1>4, <1>5, <1>6, <2>1
<1>9. PoolKnows'
  <2> SUFFICES ASSUME \A t \in Syncers : ~InPass(t), NEW q \in InPool
               PROVE  \/ inbound'[q] = port[q]
                      \/ q = Live'.proxy /\ Opened(Live)'
                      \/ \E r \in Relays : pc[r] = "store" /\ goal[r] = q
    BY <1>1, <1>4 DEF PoolKnows
  <2>1. \/ inbound[q] = port[q] \/ (q = p /\ Opened(Live))
        \/ \E r \in Relays : pc[r] = "store" /\ goal[r] = q
    BY DEF Known, PoolKnows
  <2> QED
    BY <1>3, <1>4, <1>5, <1>6, <2>1
<1> QED
  BY <1>7, <1>8, <1>9 DEF Known

\* The other writers of the pool bring unbound proxies, or take some away.
LEMMA PoolKnown ==
  ASSUME TypeOK, Claims, Known,
         \/ \E p \in Proxies : AddProxy(p) \/ RemoveProxy(p)
         \/ \E p \in Proxies, s \in Statuses : SetStatus(p, s)
         \/ \E S \in SUBSET InPool, b \in Background : DeleteSubscription(S, b)
  PROVE  Known'
<1> USE DEF passVars, relayVars
<1>1. UNCHANGED <<inbound, sel, plan, goal>> /\ Live' = Live
  BY DEF AddProxy, RemoveProxy, SetStatus, DeleteSubscription, singboxVars, apiVars, resources, Live
<1>2. \A p \in Proxies :
        /\ status'[p] = "unborn" => status[p] = "unborn"
        /\ p \in InPool' => \/ p \in InPool /\ port'[p] = port[p]
                            \/ status[p] = "unborn" /\ port'[p] = port[p] /\ p \notin InPool
  BY DEF AddProxy, RemoveProxy, SetStatus, DeleteSubscription, Forget, InPool, Statuses, TypeOK
<1>3. \A t \in Syncers : InPass(t)' <=> InPass(t)
  BY NamesAssumption
  DEF AddProxy, RemoveProxy, SetStatus, DeleteSubscription, InPass, TypeOK, Actors, Syncers
<1>4. \A r \in Relays : pc'[r] = pc[r] /\ (pc[r] # "idle" => goal[r] \in Proxies)
  BY NamesAssumption
  DEF AddProxy, RemoveProxy, SetStatus, DeleteSubscription, TypeOK, Actors, Syncers
<1>5. BornFirst'
  <2>1. \A t \in Syncers : sel[t] \subseteq Proxies
    BY DEF TypeOK
  <2> QED
    BY <1>1, <1>2, <1>3, <1>4, <2>1 DEF Known, BornFirst
<1>6. \A p \in Proxies : status[p] = "unborn" =>
        /\ inbound[p] = NoPort /\ port[p] = NoPort
        /\ \A t \in Syncers : InPass(t) => plan[t][p] = NoPort
  BY DEF Known, BornFirst, Claims, Backing, PoolBacked, PlanBacked, Backed
<1>7. /\ Creating' = Creating /\ InPool' \subseteq Proxies
      /\ Opened(Live)' <=> Opened(Live)
  BY <1>1, <1>4 DEF Creating, InPool, Opened
<1>8. PassKnows'
  BY <1>1, <1>2, <1>3, <1>6, <1>7 DEF Known, PassKnows
<1>9. PoolKnows'
  BY <1>1, <1>2, <1>3, <1>4, <1>6, <1>7 DEF Known, PoolKnows
<1> QED
  BY <1>5, <1>8, <1>9 DEF Known

\* What is calm now was calm before.
LEMMA CalmBefore ==
  ASSUME TypeOK, Next, Calm'
  PROVE  Calm
<1>1. Orderly
  BY DisorderGrows DEF Calm
<1>2. timeouts \in Slots
  BY DEF TypeOK, ApiTypeOK
<1>3. ~GivenUp
  BY <1>2, SizesAssumption DEF GivenUp, Calm, Slots
<1>4. ASSUME NEW t \in Syncers, PassStep(t) PROVE ~crossed /\ timeouts = 0
  BY <1>3, <1>4 DEF PassStep, Begin, BeginEmpty, Withdraw, LockManager, RemoveBinding,
       CreateBinding, Removed, Created, NotCreated, Unanswered, Answered, UnlockManager,
       UnsetPorts, SetPorts, Calm, TypeOK, singboxVars, apiVars, history
<1>5. ASSUME NEW r \in Relays, RelayStep(r) PROVE ~crossed /\ timeouts = 0
  BY <1>3, <1>5 DEF RelayStep, PickBound, PickUnbound, RecheckBound, RecheckUnbound,
       RecheckNoPort, CreateOnDemand, FailOnDemand, StorePort, Send, DropWaiting, DropCreate,
       Unanswered, Answered, Calm, TypeOK, singboxVars, apiVars, history
<1>6. ASSUME NEW n \in Slots, Execute(n) PROVE ~crossed /\ timeouts = 0
  BY <1>6 DEF Execute, Calm, history
<1>7. ASSUME \/ \E p \in Proxies : AddProxy(p) \/ RemoveProxy(p)
             \/ \E p \in Proxies, s \in Statuses : SetStatus(p, s)
             \/ \E S \in SUBSET InPool, b \in Background : DeleteSubscription(S, b)
      PROVE  ~crossed /\ timeouts = 0
  <2>1. UNCHANGED history /\ UNCHANGED timeouts
    <3>1. CASE \E p \in Proxies : AddProxy(p) \/ RemoveProxy(p)
      BY <3>1 DEF AddProxy, RemoveProxy, singboxVars
    <3>2. CASE \E p \in Proxies, s \in Statuses : SetStatus(p, s)
      BY <3>2 DEF SetStatus, singboxVars
    <3>3. CASE \E S \in SUBSET InPool, b \in Background : DeleteSubscription(S, b)
      BY <3>3 DEF DeleteSubscription, singboxVars
    <3> QED
      BY <1>7, <3>1, <3>2, <3>3, Zenon
  <2> QED
    BY <2>1 DEF Calm, history
<1>8. ~crossed /\ timeouts = 0
  BY <1>4, <1>5, <1>6, <1>7, Zenon DEF Next
<1> QED
  BY <1>1, <1>8 DEF Calm

\* KnownInv is inductive.
LEMMA NextKnown == KnownInv /\ [Next]_vars => KnownInv'
<1> SUFFICES ASSUME KnownInv, [Next]_vars, Calm' PROVE Known'
  BY NextClaims, NextMixedLate DEF KnownInv, ClaimsInv
<1>1. CASE UNCHANGED vars
  BY <1>1 DEF KnownInv, Calm, Orderly, Known, BornFirst, PassKnows, PoolKnows, InPass, InPool,
              Creating, Live, Opened, vars, poolVars, singboxVars, apiVars, resources, passVars,
              relayVars, history
<1>2. CASE Next
  <2>1. TypeOK /\ Calm
    BY <1>2, CalmBefore DEF KnownInv, ClaimsInv
  <2>2. Claims /\ Known /\ timeouts = 0
    BY <2>1 DEF KnownInv, ClaimsInv, Calm
  <2>3. ASSUME NEW t \in Syncers, PassStep(t) PROVE Known'
    BY <2>1, <2>2, <2>3, PoolWriteKnown, PassCallKnown DEF PassStep
  <2> QED
    BY <1>2, <2>1, <2>2, <2>3, RelayKnown, ExecuteKnown, PoolKnown DEF Next
<1> QED
  BY <1>1, <1>2

\* A quiet server, in which nothing went wrong, advertises every binding of its proxies.
THEOREM AtRestAlways == Spec => []AtRest
<1>1. Init => KnownInv
  BY InitTyped, InitClaims, InitKnown DEF KnownInv, ClaimsInv
<1>2. KnownInv /\ [Next]_vars => KnownInv'
  BY NextKnown
<1>3. KnownInv => AtRest
  <2> SUFFICES ASSUME KnownInv, ~overlap, ~crossed, timeouts = 0, Creating = {},
                      \A t \in Syncers : ~InPass(t), NEW p \in InPool
               PROVE  inbound[p] = port[p]
    BY DEF AtRest
  <2>1. TypeOK /\ Claims /\ Known
    BY DEF KnownInv, ClaimsInv, MixedLate, Calm, Orderly
  <2>2. mgr = Nobody
    BY <2>1 DEF TypeOK, Actors, Claims, Holdings, Held, Creating, InPass
  <2>3. ~Opened(Live)
    BY <2>1, <2>2 DEF Claims, Holdings, Held, Opened, NoCall
  <2> QED
    BY <2>1, <2>3 DEF Known, PoolKnows, Creating
<1> QED
  BY <1>1, <1>2, <1>3, PTL DEF Spec
=============================================================================
