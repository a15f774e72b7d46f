---------------------------- MODULE BindingSync ----------------------------
(***************************************************************************)
(* The server's port bindings: the in-memory proxy pool                    *)
(* (src/src/pool/manager.rs), the SingboxManager with its port pool        *)
(* (src/src/singbox/process.rs), the sync pass that makes the bindings of  *)
(* sing-box follow the pool (src/src/api/subscription.rs) and the relay    *)
(* requests that read a port, or create a binding on demand                *)
(* (src/src/api/relay.rs).  Three copies of one fact are kept: the port    *)
(* the pool advertises for a proxy, the ports the allocator counts as      *)
(* used, and what sing-box really listens on, which BindingApi models.     *)
(*                                                                         *)
(* Sync passes run in two ways.  Those of validate_all and check_all run   *)
(* under validation_lock, so one process, Validator, stands for all of     *)
(* them.  The pass delete_subscription spawns does not take that lock: it  *)
(* runs in one of the Background slots.                                    *)
(*                                                                         *)
(* Abstractions.  Ports are offsets from base_port.  The order by          *)
(* error_count inside a class of proxies is any order.  A proxy id is a    *)
(* UUID and never comes back once removed.  pool.get_all() is one step.    *)
(***************************************************************************)
EXTENDS BindingApi

CONSTANTS
  Relays,       \* concurrent relay requests
  Validator,    \* the holder of validation_lock
  Background    \* slots for the passes delete_subscription spawns (a bound)

Syncers == Background \cup {Validator}
Actors  == Syncers \cup Relays

ASSUME NamesAssumption ==
  /\ Validator \notin Background
  /\ Syncers \cap Relays = {}
  /\ Nobody \notin Actors \cup Proxies

ASSUME FiniteAssumption == IsFiniteSet(Proxies)

VARIABLES
  status,    \* pool: tri-state of a proxy, or "unborn" / "gone" when not in the pool
  port,      \* pool: local_port of a proxy
  used,      \* PortPool.used
  mgr,       \* holder of AppState.singbox, the mutex around SingboxManager
  pc,        \* where each actor is
  sel,       \* sync pass: the selected proxies
  plan,      \* sync pass: the ports read at the start, then the assignments
  todo,      \* sync pass: selected proxies whose binding is still to be created
  goal,      \* relay: the proxy it was asked for, or picked
  via,       \* relay: the port it will send through
  overlap,   \* history: a pass began while another was under way
  crossed,   \* history: an on-demand creation and a sync pass crossed
  dropped    \* history: ports allocated for requests that were dropped mid-call

poolVars    == <<status, port>>
singboxVars == <<used, apiVars, timeouts>>
passVars    == <<sel, plan, todo>>
relayVars   == <<goal, via>>
history     == <<overlap, crossed, dropped>>
vars == <<poolVars, singboxVars, mgr, pc, passVars, relayVars, history>>

Statuses == {"Untested", "Valid", "Invalid"}
InPool   == {p \in Proxies : status[p] \in Statuses}
With(s)  == {p \in Proxies : status[p] = s}

Least(m, n) == IF m <= n THEN m ELSE n
NoPorts     == [p \in Proxies |-> NoPort]

-----------------------------------------------------------------------------
(* Selection: which proxies a pass wants bound.                            *)

\* Every way to take the first n of S, sorted by error_count alone.
AnyOf(S, n) == {x \in SUBSET S : Cardinality(x) = Least(n, Cardinality(S))}

\* Classes in the order the code appends them: Valid with a port, Valid without,
\* Untested, Invalid.
Rank(p) ==
  CASE status[p] = "Valid" /\ port[p] # NoPort -> 1
    [] status[p] = "Valid" /\ port[p] = NoPort -> 2
    [] status[p] = "Untested" -> 3
    [] OTHER -> 4

\* Every way to take the first n of S when S is ordered by class.
FirstOf(S, n) ==
  {x \in AnyOf(S, n) : \A p \in x, q \in S \ x : Rank(p) <= Rank(q)}

Modes == {"Normal", "Validation", "QualityCheck"}

\* x is a selection sync_proxy_bindings can make in a mode.  In QualityCheck, nq is
\* the set of Valid proxies whose quality information is missing or old.
Selects(mode, x) ==
  \/ /\ mode = "Normal"
     /\ x \in FirstOf(InPool, Max)
  \/ /\ mode = "Validation"
     /\ x \cap With("Valid") \in FirstOf(With("Valid"), Max)
     /\ x \ With("Valid") \in AnyOf(With("Untested"), Batch)
  \/ /\ mode = "QualityCheck"
     /\ \E nq \in SUBSET With("Valid") :
          /\ x \ nq \in FirstOf(With("Valid") \ nq, Max)
          /\ x \cap nq \in AnyOf(nq, Batch)

-----------------------------------------------------------------------------
(* The port pool, used by the holder of mgr, and sing-box on its own.      *)

\* Mutant: the offset loop runs one port too far.
Free_OneTooMany == (1 .. (Max + Batch + 1)) \ used

Free == Ports \ used

\* PortPool::allocate gives x, the lowest port of Free.
Allocate(x) ==
  /\ \A y \in Free : x <= y
  /\ used' = used \cup {x}

\* sing-box goes on with a call, also one the server gave up on.
Execute(n) ==
  /\ ApiStep(n)
  /\ UNCHANGED <<poolVars, used, timeouts, mgr, pc, passVars, relayVars, history>>

-----------------------------------------------------------------------------
(* The pool's other writers.                                               *)

\* A subscription brings a proxy (add_subscription, refresh_subscription_core).
AddProxy(p) ==
  /\ status[p] = "unborn"
  /\ status' = [status EXCEPT ![p] = "Untested"]
  /\ UNCHANGED <<port, singboxVars, mgr, pc, passVars, relayVars, history>>

\* The proxies of S leave the pool; their bindings are not touched.
Forget(S) ==
  /\ status' = [p \in Proxies |-> IF p \in S THEN "gone" ELSE status[p]]
  /\ port' = [p \in Proxies |-> IF p \in S THEN NoPort ELSE port[p]]

\* delete_proxy, cleanup_proxies, the cleanup of validate_all, a refresh.
RemoveProxy(p) ==
  /\ p \in InPool
  /\ Forget({p})
  /\ UNCHANGED <<singboxVars, mgr, pc, passVars, relayVars, history>>

\* delete_subscription: S are its proxies; a background pass is spawned.
DeleteSubscription(S, b) ==
  /\ pc[b] = "idle"
  /\ Forget(S)
  /\ pc' = [pc EXCEPT ![b] = "spawned"]
  /\ UNCHANGED <<singboxVars, mgr, passVars, relayVars, history>>

\* set_status, called by validate_all between its passes: a verdict on an Untested
\* proxy, or a Valid one with relay errors sent back to Untested.
SetStatus(p, s) ==
  /\ pc[Validator] = "idle"
  /\ \/ status[p] = "Untested" /\ s \in {"Valid", "Invalid"}
     \/ status[p] = "Valid" /\ s = "Untested"
  /\ status' = [status EXCEPT ![p] = s]
  /\ UNCHANGED <<port, singboxVars, mgr, pc, passVars, relayVars, history>>

-----------------------------------------------------------------------------
(* A sync pass: sync_proxy_bindings, with SingboxManager::sync_bindings.   *)

InPass(t) == pc[t] \notin {"idle", "spawned"}

\* Relays that created a binding, or are about to, and have not told the pool.
Creating == {r \in Relays : pc[r] \in {"create", "store"}}

\* The pass reads the whole pool: the current ports, and its selection.
Begin(t, mode) ==
  /\ t = Validator => pc[t] = "idle"
  /\ t # Validator => pc[t] = "spawned" /\ mode = "Normal"
  /\ InPool # {}
  /\ \E x \in SUBSET InPool :
       /\ Selects(mode, x)
       /\ sel' = [sel EXCEPT ![t] = x]
       /\ todo' = [todo EXCEPT ![t] = {p \in x : port[p] = NoPort}]
  /\ plan' = [plan EXCEPT ![t] = port]
  /\ pc' = [pc EXCEPT ![t] = "clear"]
  /\ overlap' = (overlap \/ \E u \in Syncers \ {t} : InPass(u))
  /\ crossed' = (crossed \/ Creating # {})
  /\ UNCHANGED <<poolVars, singboxVars, mgr, relayVars, dropped>>

\* With an empty pool the pass returns at once.
BeginEmpty(t) ==
  /\ t = Validator => pc[t] = "idle"
  /\ t # Validator => pc[t] = "spawned"
  /\ InPool = {}
  /\ pc' = [pc EXCEPT ![t] = "idle"]
  /\ UNCHANGED <<poolVars, singboxVars, mgr, passVars, relayVars, history>>

\* Mutant: ports are cleared only at the end, with the selected ones.
Withdraw_Nothing(t) ==
  /\ pc[t] = "clear"
  /\ pc' = [pc EXCEPT ![t] = "lock"]
  /\ UNCHANGED <<poolVars, singboxVars, mgr, passVars, relayVars, history>>

\* The pool stops advertising the proxies that had a port and were not selected.
Withdraw(t) ==
  /\ pc[t] = "clear"
  /\ port' = [p \in Proxies |->
                IF p \notin sel[t] /\ plan[t][p] # NoPort THEN NoPort ELSE port[p]]
  /\ pc' = [pc EXCEPT ![t] = "lock"]
  /\ UNCHANGED <<status, singboxVars, mgr, passVars, relayVars, history>>

LockManager(t) ==
  /\ pc[t] = "lock"
  /\ mgr = Nobody
  /\ mgr' = t
  /\ pc' = [pc EXCEPT ![t] = "sync"]
  /\ UNCHANGED <<poolVars, singboxVars, passVars, relayVars, history>>

\* Bindings to remove: a port at the start of the pass, and not selected.
ToRemove(t) == {p \in Proxies \ sel[t] : plan[t][p] # NoPort}

\* remove_binding: DELETE is sent, and the pass drops the port from its list.
RemoveBinding(t, p) ==
  /\ pc[t] = "sync"
  /\ Live = NoCall
  /\ p \in ToRemove(t)
  /\ Ask(Removal(p, plan[t][p]))
  /\ plan' = [plan EXCEPT ![t][p] = NoPort]
  /\ UNCHANGED <<poolVars, used, resources, timeouts, mixed, mgr, pc, sel, todo, relayVars, history>>

\* 204, 404 or no answer: "Free port anyway".
Removed(t) ==
  /\ pc[t] = "sync"
  /\ Live.op = "remove"
  /\ Answered \/ GivenUp
  /\ used' = used \ {Live.port}
  /\ UNCHANGED <<poolVars, resources, mixed, mgr, pc, passVars, relayVars, history>>

\* create_binding, once every removal has been tried: a port is allocated and POST is
\* sent, unless no port is left.
CreateBinding(t, p) ==
  /\ pc[t] = "sync"
  /\ Live = NoCall
  /\ ToRemove(t) = {}
  /\ p \in todo[t]
  /\ todo' = [todo EXCEPT ![t] = @ \ {p}]
  /\ \/ Free = {} /\ UNCHANGED <<used, calls>>
     \/ \E x \in Free : Allocate(x) /\ Ask(Creation(p, x))
  /\ UNCHANGED <<poolVars, resources, timeouts, mixed, mgr, pc, sel, plan, relayVars, history>>

\* Mutant: sync_bindings returns the kept assignments only.
Created_NotReported(t) ==
  /\ pc[t] = "sync"
  /\ Live.op = "create" /\ Live.at = "done"
  /\ Answered
  /\ UNCHANGED <<poolVars, used, resources, mixed, mgr, pc, passVars, relayVars, history>>

\* 201: the port is one of the assignments.
Created(t) ==
  /\ pc[t] = "sync"
  /\ Live.op = "create" /\ Live.at = "done"
  /\ Answered
  /\ plan' = [plan EXCEPT ![t][Live.proxy] = Live.port]
  /\ UNCHANGED <<poolVars, used, resources, mixed, mgr, pc, sel, todo, relayVars, history>>

\* A call to create ends without success: an error answers it, or nothing.
Unanswered ==
  /\ Live.op = "create"
  /\ (Live.at = "failed" /\ Answered) \/ GivenUp

\* The port is freed, though sing-box may still come to listen on it.
NotCreated(t) ==
  /\ pc[t] = "sync"
  /\ Unanswered
  /\ used' = used \ {Live.port}
  /\ UNCHANGED <<poolVars, resources, mixed, mgr, pc, passVars, relayVars, history>>

\* Mutant: the mutex is still held while the pool is updated, and after.
UnlockManager_Kept(t) ==
  /\ pc[t] = "sync"
  /\ Live = NoCall
  /\ ToRemove(t) = {}
  /\ todo[t] = {}
  /\ pc' = [pc EXCEPT ![t] = "unset"]
  /\ UNCHANGED <<poolVars, singboxVars, mgr, passVars, relayVars, history>>

UnlockManager(t) ==
  /\ pc[t] = "sync"
  /\ Live = NoCall
  /\ ToRemove(t) = {}
  /\ todo[t] = {}
  /\ mgr' = Nobody
  /\ pc' = [pc EXCEPT ![t] = "unset"]
  /\ UNCHANGED <<poolVars, singboxVars, passVars, relayVars, history>>

\* "Update pool and DB", after the mutex is dropped: first every selected proxy
\* loses its port ...
UnsetPorts(t) ==
  /\ pc[t] = "unset"
  /\ port' = [p \in Proxies |-> IF p \in sel[t] THEN NoPort ELSE port[p]]
  /\ pc' = [pc EXCEPT ![t] = "set"]
  /\ UNCHANGED <<status, singboxVars, mgr, passVars, relayVars, history>>

\* ... then the assignments are written, to the proxies still in the pool.
SetPorts(t) ==
  /\ pc[t] = "set"
  /\ port' = [p \in Proxies |->
                IF p \in InPool /\ plan[t][p] # NoPort THEN plan[t][p] ELSE port[p]]
  /\ pc' = [pc EXCEPT ![t] = "idle"]
  /\ sel' = [sel EXCEPT ![t] = {}]
  /\ plan' = [plan EXCEPT ![t] = NoPorts]
  /\ UNCHANGED <<status, singboxVars, mgr, todo, relayVars, history>>

PassStep(t) ==
  \/ \E mode \in Modes : Begin(t, mode)
  \/ BeginEmpty(t)
  \/ Withdraw(t)
  \/ LockManager(t)
  \/ \E p \in Proxies : RemoveBinding(t, p) \/ CreateBinding(t, p)
  \/ Removed(t)
  \/ Created(t)
  \/ NotCreated(t)
  \/ UnlockManager(t)
  \/ UnsetPorts(t)
  \/ SetPorts(t)

-----------------------------------------------------------------------------
(* A relay request.                                                        *)

\* The proxy is found in the pool, with a port (asked for or picked at random) ...
PickBound(r, p) ==
  /\ pc[r] = "idle"
  /\ p \in InPool
  /\ port[p] # NoPort
  /\ goal' = [goal EXCEPT ![r] = p]
  /\ via' = [via EXCEPT ![r] = port[p]]
  /\ pc' = [pc EXCEPT ![r] = "send"]
  /\ UNCHANGED <<poolVars, singboxVars, mgr, passVars, history>>

\* ... or asked for and without one: "On-demand binding".
PickUnbound(r, p) ==
  /\ pc[r] = "idle"
  /\ p \in InPool
  /\ port[p] = NoPort
  /\ goal' = [goal EXCEPT ![r] = p]
  /\ pc' = [pc EXCEPT ![r] = "lock"]
  /\ UNCHANGED <<poolVars, singboxVars, mgr, passVars, via, history>>

\* "Lock and re-check": the port is there now, and the mutex is dropped.
RecheckBound(r) ==
  /\ pc[r] = "lock"
  /\ mgr = Nobody
  /\ port[goal[r]] # NoPort
  /\ via' = [via EXCEPT ![r] = port[goal[r]]]
  /\ pc' = [pc EXCEPT ![r] = "send"]
  /\ UNCHANGED <<poolVars, singboxVars, mgr, passVars, goal, history>>

\* It is not: create_binding allocates a port and sends POST ...
RecheckUnbound(r) ==
  /\ pc[r] = "lock"
  /\ mgr = Nobody
  /\ port[goal[r]] = NoPort
  /\ \E x \in Free : Allocate(x) /\ Ask(Creation(goal[r], x))
  /\ mgr' = r
  /\ pc' = [pc EXCEPT ![r] = "create"]
  /\ crossed' = (crossed \/ \E t \in Syncers : InPass(t))
  /\ UNCHANGED <<poolVars, resources, timeouts, mixed, passVars, relayVars, overlap, dropped>>

\* ... or finds no port left, and the request ends with an error.
RecheckNoPort(r) ==
  /\ pc[r] = "lock"
  /\ mgr = Nobody
  /\ port[goal[r]] = NoPort
  /\ Free = {}
  /\ pc' = [pc EXCEPT ![r] = "idle"]
  /\ goal' = [goal EXCEPT ![r] = Nobody]
  /\ UNCHANGED <<poolVars, singboxVars, mgr, passVars, via, history>>

\* 201: the mutex is dropped.
CreateOnDemand(r) ==
  /\ pc[r] = "create"
  /\ Live.at = "done"
  /\ Answered
  /\ mgr' = Nobody
  /\ via' = [via EXCEPT ![r] = Live.port]
  /\ pc' = [pc EXCEPT ![r] = "store"]
  /\ UNCHANGED <<poolVars, used, resources, mixed, passVars, goal, history>>

\* Mutant: the error path keeps the mutex.
FailOnDemand_Kept(r) ==
  /\ pc[r] = "create"
  /\ Unanswered
  /\ used' = used \ {Live.port}
  /\ pc' = [pc EXCEPT ![r] = "idle"]
  /\ goal' = [goal EXCEPT ![r] = Nobody]
  /\ UNCHANGED <<poolVars, resources, mixed, mgr, passVars, via, history>>

\* create_binding fails and frees the port, and the request ends with an error.
FailOnDemand(r) ==
  /\ pc[r] = "create"
  /\ Unanswered
  /\ used' = used \ {Live.port}
  /\ mgr' = Nobody
  /\ pc' = [pc EXCEPT ![r] = "idle"]
  /\ goal' = [goal EXCEPT ![r] = Nobody]
  /\ UNCHANGED <<poolVars, resources, mixed, passVars, via, history>>

\* The pool learns the port after the mutex was dropped.
StorePort(r) ==
  /\ pc[r] = "store"
  /\ port' = [port EXCEPT ![goal[r]] = IF goal[r] \in InPool THEN via[r] ELSE @]
  /\ pc' = [pc EXCEPT ![r] = "send"]
  /\ UNCHANGED <<status, singboxVars, mgr, passVars, relayVars, history>>

\* do_relay through 127.0.0.1:via, and the answer names goal in X-Proxy-Id.
Send(r) ==
  /\ pc[r] = "send"
  /\ pc' = [pc EXCEPT ![r] = "idle"]
  /\ goal' = [goal EXCEPT ![r] = Nobody]
  /\ via' = [via EXCEPT ![r] = NoPort]
  /\ UNCHANGED <<poolVars, singboxVars, mgr, passVars, history>>

\* The caller hangs up, and the server drops the handler while it waits for the mutex ...
DropWaiting(r) ==
  /\ pc[r] = "lock"
  /\ pc' = [pc EXCEPT ![r] = "idle"]
  /\ goal' = [goal EXCEPT ![r] = Nobody]
  /\ UNCHANGED <<poolVars, singboxVars, mgr, passVars, via, history>>

\* ... or inside create_binding: the mutex is released and nothing frees the port.
DropCreate(r) ==
  /\ pc[r] = "create"
  /\ GivenUp
  /\ dropped' = dropped \cup {Live.port}
  /\ mgr' = Nobody
  /\ pc' = [pc EXCEPT ![r] = "idle"]
  /\ goal' = [goal EXCEPT ![r] = Nobody]
  /\ UNCHANGED <<poolVars, used, resources, mixed, passVars, via, overlap, crossed>>

RelayStep(r) ==
  \/ \E p \in Proxies : PickBound(r, p) \/ PickUnbound(r, p)
  \/ RecheckBound(r)
  \/ RecheckUnbound(r)
  \/ RecheckNoPort(r)
  \/ CreateOnDemand(r)
  \/ FailOnDemand(r)
  \/ StorePort(r)
  \/ Send(r)
  \/ DropWaiting(r)
  \/ DropCreate(r)

-----------------------------------------------------------------------------
\* After startup: the pool as loaded from the database, and bindings for k of the
\* first Max Valid proxies (sync_bindings with no current ports, on a fresh sing-box).
Init ==
  /\ status \in [Proxies -> Statuses \cup {"unborn"}]
  /\ \E S \in SUBSET With("Valid") :
       /\ Cardinality(S) <= Max
       /\ inbound \in [Proxies -> 0 .. Cardinality(S)]
       /\ \A p \in Proxies : inbound[p] # NoPort <=> p \in S
       /\ \A p, q \in S : inbound[p] = inbound[q] => p = q
       /\ used = {inbound[p] : p \in S}
       /\ entries = S /\ outbounds = S /\ routes = S
  /\ port = inbound
  /\ calls = [n \in Slots |-> NoCall]
  /\ timeouts = 0
  /\ mixed = FALSE
  /\ mgr = Nobody
  /\ pc = [a \in Actors |-> "idle"]
  /\ sel = [t \in Syncers |-> {}]
  /\ plan = [t \in Syncers |-> NoPorts]
  /\ todo = [t \in Syncers |-> {}]
  /\ goal = [r \in Relays |-> Nobody]
  /\ via = [r \in Relays |-> NoPort]
  /\ overlap = FALSE
  /\ crossed = FALSE
  /\ dropped = {}

Next ==
  \/ \E t \in Syncers : PassStep(t)
  \/ \E r \in Relays : RelayStep(r)
  \/ \E n \in Slots : Execute(n)
  \/ \E p \in Proxies : AddProxy(p) \/ RemoveProxy(p)
  \/ \E p \in Proxies, s \in Statuses : SetStatus(p, s)
  \/ \E S \in SUBSET InPool, b \in Background : DeleteSubscription(S, b)

Spec == Init /\ [][Next]_vars

\* Every call to sing-box ends, by its answer or by the client's 10 s timeout, so a
\* task that is not waiting for a mutex goes on; a tokio mutex is granted in arrival
\* order, so a task that waits for one that keeps being released gets it.  (Timeouts are
\* bounded here, so it is its answer that ends a call once they are used up.)
Advance(t) ==
  \/ t # Validator /\ (Begin(t, "Normal") \/ BeginEmpty(t))
  \/ Withdraw(t)
  \/ \E p \in Proxies : RemoveBinding(t, p) \/ CreateBinding(t, p)
  \/ Removed(t) \/ Created(t) \/ NotCreated(t)
  \/ UnlockManager(t)
  \/ UnsetPorts(t)
  \/ SetPorts(t)

Answer(r) == CreateOnDemand(r) \/ FailOnDemand(r) \/ StorePort(r) \/ Send(r)

Recheck(r) == RecheckBound(r) \/ RecheckUnbound(r) \/ RecheckNoPort(r)

Fairness ==
  /\ \A t \in Syncers : WF_vars(Advance(t)) /\ SF_vars(LockManager(t))
  /\ \A r \in Relays : WF_vars(Answer(r)) /\ SF_vars(Recheck(r))
  /\ WF_vars(Execute(timeouts))

FairSpec == Spec /\ Fairness

-----------------------------------------------------------------------------
(* Properties.                                                             *)

PassStates  == {"idle", "spawned", "clear", "lock", "sync", "unset", "set"}
RelayStates == {"idle", "lock", "create", "store", "send"}

\* Every variable has its type; a proxy outside the pool has no port there, and a
\* request under way has a proxy.
TypeOK ==
  /\ status \in [Proxies -> Statuses \cup {"unborn", "gone"}]
  /\ port \in [Proxies -> Ports \cup {NoPort}]
  /\ used \in SUBSET Ports
  /\ ApiTypeOK
  /\ mgr \in Actors \cup {Nobody}
  /\ pc \in [Actors -> PassStates \cup RelayStates]
  /\ \A t \in Syncers : pc[t] \in PassStates
  /\ \A r \in Relays : pc[r] \in RelayStates
  /\ sel \in [Syncers -> SUBSET Proxies]
  /\ plan \in [Syncers -> [Proxies -> Ports \cup {NoPort}]]
  /\ todo \in [Syncers -> SUBSET Proxies]
  /\ goal \in [Relays -> Proxies \cup {Nobody}]
  /\ \A r \in Relays : pc[r] # "idle" => goal[r] \in Proxies
  /\ via \in [Relays -> Ports \cup {NoPort}]
  /\ overlap \in BOOLEAN
  /\ crossed \in BOOLEAN
  /\ dropped \in SUBSET Ports
  /\ \A p \in Proxies \ InPool : port[p] = NoPort

\* Neither two passes overlapped, nor did sing-box work on one tag for two calls at once.
Orderly == ~overlap /\ ~mixed

\* As long as all was orderly, and even if calls to sing-box time out and are executed
\* late, between the steps of later ones, sing-box forwards every port the pool advertises
\* to that very proxy, and the allocator counts it as used.  Relays, validation and
\* quality checks read the pool's port with no lock: this is what makes it safe.
Routed ==
  Orderly => \A p \in InPool : port[p] # NoPort => Forwards(p, port[p]) /\ port[p] \in used

\* As long as all was orderly, what the allocator counts as used is listened on, is the
\* port of the call under way or is that of a request dropped inside create_binding; and
\* while every call was answered it knows every port sing-box listens on, so that the
\* lowest free port it picks is never one a listener already holds.  (A listener may still
\* be of no use: those of proxies deleted from the pool stay, and keep their ports.)
PortsAccounted ==
  Orderly =>
    /\ \A x \in used : Listening(x) \/ x \in dropped \cup {Live.port}
    /\ timeouts = 0 => \A p \in Proxies : inbound[p] # NoPort => inbound[p] \in used

\* When no pass and no on-demand creation is under way, every call was answered, no passes
\* overlapped and no on-demand creation crossed a pass, the pool knows the binding of
\* each of its proxies: none is bound in sing-box and unreachable through the pool.
AtRest ==
  (/\ ~overlap /\ ~crossed /\ timeouts = 0
   /\ Creating = {} /\ \A t \in Syncers : ~InPass(t))
    => \A p \in InPool : inbound[p] = port[p]

\* "Lock and re-check to avoid duplicate bindings from concurrent requests"
\* (src/src/api/relay.rs:78): as long as no call was given up and no request crossed a
\* pass, a request that re-checked under the mutex and goes on to create a binding never
\* asks for one that a proxy of the pool already has.
OnDemandOnce ==
  ~crossed /\ timeouts = 0 =>
    \A r \in Relays :
      pc[r] = "create" /\ Live.at = "check" /\ goal[r] \in InPool => goal[r] \notin entries

\* Where sing-box forwards to each proxy.
Forwarded == [p \in Proxies |-> IF p \in routes \cap outbounds THEN inbound[p] ELSE NoPort]

Promise == INSTANCE PortMap WITH adv <- port, lsn <- Forwarded, trusted <- Orderly

\* Pool and sing-box together implement PortMap: as long as all is orderly, a binding is
\* made, moved or removed only while the pool does not advertise it, and what the pool
\* advertises anew is where sing-box forwards to it, so that a reader of the pool, who
\* takes no lock, never meets a port that changes hands under its entry.
KeepsPromise == Promise!Spec

\* Every pass that was begun or spawned comes to its end, whatever other passes and
\* requests compete for the mutex around SingboxManager.
PassesEnd == \A t \in Syncers : pc[t] # "idle" ~> pc[t] = "idle"

\* Every relay request is answered, also one that waits for that mutex.
RelaysAnswered == \A r \in Relays : pc[r] # "idle" ~> pc[r] = "idle"
=============================================================================
