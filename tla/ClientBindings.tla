--------------------------- MODULE ClientBindings ---------------------------
(***************************************************************************)
(* The dynamic bindings of the client, sing-box-zenproxy                   *)
(* (sing-box-zenproxy/experimental/clashapi/bindings.go and                *)
(* proxy_manage.go): HTTP handlers, each a goroutine of its own, that      *)
(* create and delete bindings one by one, in batches or after a fetch.  A  *)
(* binding is an entry of the manager's map, an inbound that listens, an   *)
(* outbound, a route from one to the other, a port of the PortPool and the *)
(* local_port of a stored proxy.  Each of these sits behind a lock of its  *)
(* own and no lock covers a handler, so every call is one step.            *)
(*                                                                         *)
(* Abstractions.  Pool ports are 1 .. NumPorts, in the order Allocate      *)
(* tries them.  The order of a batch, of the map and of deleteAllBindings  *)
(* is any order.  Two stored entries with one id are one.                  *)
(***************************************************************************)
EXTENDS Naturals, FiniteSets

CONSTANTS
  Handlers,   \* concurrent HTTP requests (a bound)
  Proxies,    \* ids of stored proxies
  Manual,     \* tags a request makes up, for no stored proxy
  NoProxy,    \* the empty proxy_id
  NumPorts,   \* size of the port pool
  Outside     \* ports outside the pool that a request may name

Tags  == Proxies \cup Manual
Pool  == 1 .. NumPorts
Named == Pool \cup Outside
NoPort == 0

ASSUME TagsAssumption == Proxies \cap Manual = {} /\ NoProxy \notin Tags
ASSUME PortsAssumption == NumPorts \in Nat /\ Outside \subseteq Nat \ (Pool \cup {NoPort})

Bindings == [tag : Tags, proxy : Proxies \cup {NoProxy}, port : Named]

VARIABLES
  stored,     \* ProxyStore: the ids it holds
  localPort,  \* ProxyStore: LocalPort of an id
  used,       \* PortPool.used: the proxy a port was allocated for
  bindings,   \* BindingManager.bindings: the set of its entries
  outbounds,  \* outbound manager: the tags that have an outbound
  inbound,    \* inbound manager: the port the inbound of a tag listens on
  routes,     \* router: the tags whose inbound is bound to its outbound
  pc,         \* where each handler is
  req,        \* the binding a handler is creating or deleting
  todo,       \* batch: proxies still to bind
  victims,    \* delete: entries taken from the map, still to be removed
  raced,      \* history: two handlers worked on one tag at once
  custom,     \* history: a request named a pool port, or a tag for a stored proxy
  leaked,     \* history: bindings refused after their port was allocated
  stale       \* history: proxies whose LocalPort is still what an earlier process saved

storeVars   == <<stored, localPort, stale>>
resources   == <<outbounds, inbound, routes>>
handlerVars == <<pc, req, todo, victims>>
history     == <<raced, custom, leaked>>
vars == <<storeVars, used, bindings, resources, handlerVars, history>>

Bound(t)     == \E b \in bindings : b.tag = t
Listening(x) == \E t \in Tags : inbound[t] = x

Creating == {"check", "outbound", "inbound", "rollback", "release", "route", "record", "tell"}
Deleting == {"close", "drop", "free", "untell"}

\* The tags a handler is at work on.
WorkingOn(h) ==
  {v.tag : v \in victims[h]} \cup
  (IF pc[h] \in Creating \cup Deleting THEN {req[h].tag} ELSE {})

Races(h, S) == \E g \in Handlers \ {h} : WorkingOn(g) \cap S # {}

Goto(h, label) == pc' = [pc EXCEPT ![h] = label]

NoReq == [tag |-> NoProxy, proxy |-> NoProxy, port |-> NoPort]

\* The handler is done with req, and goes on at a label.
DoneTo(h, label) == Goto(h, label) /\ req' = [req EXCEPT ![h] = NoReq]

\* The end of one creation: a batch goes on with its next proxy.
Finish(h) == DoneTo(h, IF todo[h] = {} THEN "idle" ELSE "next")

-----------------------------------------------------------------------------
(* The port pool.                                                          *)

Unused == {x \in Pool : used[x] = NoProxy}

\* Allocate gives the lowest port that is not used.
Allocate(p, x) ==
  /\ x \in Unused
  /\ \A y \in Unused : x <= y
  /\ used' = [used EXCEPT ![x] = p]

\* Mutant: the pool takes in whatever port it is given.
Freed_AnyPort(x) ==
  used' = [y \in DOMAIN used \cup {x} |-> IF y = x THEN NoProxy ELSE used[y]]

\* Release: a port outside the pool changes nothing.
Freed(x) == used' = [y \in Pool |-> IF y = x THEN NoProxy ELSE used[y]]

-----------------------------------------------------------------------------
(* Creating a binding.                                                     *)

\* createBindingInternal(t, x, _, p) is called.
Call(h, t, p, x) ==
  /\ req' = [req EXCEPT ![h] = [tag |-> t, proxy |-> p, port |-> x]]
  /\ Goto(h, "check")
  /\ raced' = (raced \/ Races(h, {t}))

\* createBinding for a stored proxy: under its own id or a tag of the request's, on a
\* port of the pool or one the request names.
CreateForProxy(h, p, t, x) ==
  /\ pc[h] = "idle"
  /\ p \in stored
  /\ Call(h, t, p, x)
  /\ \/ Allocate(p, x) /\ custom' = (custom \/ t # p)
     \/ UNCHANGED used /\ custom' = (custom \/ t # p \/ x \in Pool)
  /\ UNCHANGED <<storeVars, bindings, resources, todo, victims, leaked>>

\* createBinding for a stored proxy that a fetch brought without an outbound: 400, after
\* the port was allocated, and with no Release.  (Its tag, which nothing gets, is p's id.)
Refused(p, x) ==
  /\ p \in stored
  /\ Allocate(p, x)
  /\ leaked' = leaked \cup {[tag |-> p, proxy |-> p, port |-> x]}
  /\ UNCHANGED <<storeVars, bindings, resources, handlerVars, raced, custom>>

\* createBinding with an outbound and a port of its own.
CreateManual(h, t, x) ==
  /\ pc[h] = "idle"
  /\ Call(h, t, NoProxy, x)
  /\ custom' = (custom \/ x \in Pool \/ t \in Proxies)
  /\ UNCHANGED <<storeVars, used, bindings, resources, todo, victims, leaked>>

\* batchCreateBindings: the chosen proxies of the store that have no entry.
Batch(h, S) ==
  /\ pc[h] = "idle"
  /\ todo' = [todo EXCEPT ![h] = {p \in S \cap stored : ~Bound(p)}]
  /\ todo'[h] # {}
  /\ Goto(h, "next")
  /\ UNCHANGED <<storeVars, used, bindings, resources, req, victims, history>>

\* remoteFetch: the fetched proxies enter the store, and auto_bind binds each.
Fetch(h, S) ==
  /\ pc[h] = "idle"
  /\ S # {}
  /\ stored' = stored \cup S
  /\ todo' = [todo EXCEPT ![h] = S]
  /\ Goto(h, "next")
  /\ UNCHANGED <<localPort, stale, used, bindings, resources, req, victims, history>>

\* createBindingForProxy, for one proxy of a batch ...
BindNext(h, p, x) ==
  /\ pc[h] = "next"
  /\ p \in todo[h]
  /\ todo' = [todo EXCEPT ![h] = @ \ {p}]
  /\ Allocate(p, x)
  /\ Call(h, p, p, x)
  /\ UNCHANGED <<storeVars, bindings, resources, victims, custom, leaked>>

\* ... or for none, when the pool has no port left.
NoPortLeft(h, p) ==
  /\ pc[h] = "next"
  /\ p \in todo[h]
  /\ Unused = {}
  /\ todo' = [todo EXCEPT ![h] = @ \ {p}]
  /\ Goto(h, IF todo[h] = {p} THEN "idle" ELSE "next")
  /\ UNCHANGED <<storeVars, used, bindings, resources, req, victims, history>>

\* Under bm.mu: does an entry of the tag exist?  Also an outbound that does not parse.
Check(h) ==
  /\ pc[h] = "check"
  /\ \/ Goto(h, "release")
     \/ ~Bound(req[h].tag) /\ Goto(h, "outbound")
  /\ UNCHANGED <<storeVars, used, bindings, resources, req, todo, victims, history>>

\* outbound.Create: replaces an outbound of the same tag.
CreateOutbound(h) ==
  /\ pc[h] = "outbound"
  /\ \/ UNCHANGED outbounds /\ Goto(h, "release")
     \/ outbounds' = outbounds \cup {req[h].tag} /\ Goto(h, "inbound")
  /\ UNCHANGED <<storeVars, used, bindings, inbound, routes, req, todo, victims, history>>

\* inboundMgr.Create: starts listening, then closes an inbound of the same tag.
CreateInbound(h) ==
  /\ pc[h] = "inbound"
  /\ \/ UNCHANGED inbound /\ Goto(h, "rollback")
     \/ /\ ~Listening(req[h].port)
        /\ inbound' = [inbound EXCEPT ![req[h].tag] = req[h].port]
        /\ Goto(h, "route")
  /\ UNCHANGED <<storeVars, used, bindings, outbounds, routes, req, todo, victims, history>>

\* Mutant: the error path returns without undoing the outbound.
Rollback_Skipped(h) ==
  /\ pc[h] = "rollback"
  /\ Goto(h, "release")
  /\ UNCHANGED <<storeVars, used, bindings, resources, req, todo, victims, history>>

Rollback(h) ==
  /\ pc[h] = "rollback"
  /\ outbounds' = outbounds \ {req[h].tag}
  /\ Goto(h, "release")
  /\ UNCHANGED <<storeVars, used, bindings, inbound, routes, req, todo, victims, history>>

\* The caller of createBindingInternal sees an error: for a stored proxy the port is
\* released, also one the request had named.
Release(h) ==
  /\ pc[h] = "release"
  /\ IF req[h].proxy = NoProxy THEN UNCHANGED used ELSE Freed(req[h].port)
  /\ Finish(h)
  /\ UNCHANGED <<storeVars, bindings, resources, todo, victims, history>>

BindRoute(h) ==
  /\ pc[h] = "route"
  /\ routes' = routes \cup {req[h].tag}
  /\ Goto(h, "record")
  /\ UNCHANGED <<storeVars, used, bindings, outbounds, inbound, req, todo, victims, history>>

\* Under bm.mu: the entry of the tag is written, or overwritten.
Record(h) ==
  /\ pc[h] = "record"
  /\ bindings' = {b \in bindings : b.tag # req[h].tag} \cup {req[h]}
  /\ IF req[h].proxy = NoProxy THEN Finish(h) ELSE Goto(h, "tell") /\ UNCHANGED req
  /\ UNCHANGED <<storeVars, used, resources, todo, victims, history>>

\* store.SetLocalPort: a proxy that left the store is not told.
Told(p, x) ==
  /\ localPort' = IF p \in stored THEN [localPort EXCEPT ![p] = x] ELSE localPort
  /\ stale' = IF p \in stored THEN stale \ {p} ELSE stale

SetLocalPort(h) ==
  /\ pc[h] = "tell"
  /\ Told(req[h].proxy, req[h].port)
  /\ Finish(h)
  /\ UNCHANGED <<stored, used, bindings, resources, todo, victims, history>>

-----------------------------------------------------------------------------
(* Deleting bindings: removeBindingResources for each entry taken.         *)

\* deleteBinding takes one entry from the map, deleteAllBindings all of them.
Take(h, S) ==
  /\ pc[h] = "idle"
  /\ S # {}
  /\ S = bindings \/ Cardinality(S) = 1
  /\ bindings' = bindings \ S
  /\ victims' = [victims EXCEPT ![h] = S]
  /\ Goto(h, "unbind")
  /\ raced' = (raced \/ Races(h, {b.tag : b \in S}))
  /\ UNCHANGED <<storeVars, used, resources, req, todo, custom, leaked>>

UnbindRoute(h, b) ==
  /\ pc[h] = "unbind"
  /\ b \in victims[h]
  /\ victims' = [victims EXCEPT ![h] = @ \ {b}]
  /\ req' = [req EXCEPT ![h] = b]
  /\ routes' = routes \ {b.tag}
  /\ Goto(h, "close")
  /\ UNCHANGED <<storeVars, used, bindings, outbounds, inbound, todo, history>>

RemoveInbound(h) ==
  /\ pc[h] = "close"
  /\ inbound' = [inbound EXCEPT ![req[h].tag] = NoPort]
  /\ Goto(h, "drop")
  /\ UNCHANGED <<storeVars, used, bindings, outbounds, routes, req, todo, victims, history>>

RemoveOutbound(h) ==
  /\ pc[h] = "drop"
  /\ outbounds' = outbounds \ {req[h].tag}
  /\ Goto(h, "free")
  /\ UNCHANGED <<storeVars, used, bindings, inbound, routes, req, todo, victims, history>>

\* The next entry, or the end of the request.
GoOn(h) == DoneTo(h, IF victims[h] = {} THEN "idle" ELSE "unbind")

\* Mutant: the port is not released.
ReleasePort_Skipped(h) ==
  /\ pc[h] = "free"
  /\ IF req[h].proxy = NoProxy THEN GoOn(h) ELSE Goto(h, "untell") /\ UNCHANGED req
  /\ UNCHANGED <<storeVars, used, bindings, resources, todo, victims, history>>

\* Release(binding.ListenPort), whoever chose the port.
ReleasePort(h) ==
  /\ pc[h] = "free"
  /\ Freed(req[h].port)
  /\ IF req[h].proxy = NoProxy THEN GoOn(h) ELSE Goto(h, "untell") /\ UNCHANGED req
  /\ UNCHANGED <<storeVars, bindings, resources, todo, victims, history>>

\* Mutant: the stored proxy keeps its local_port.
ClearLocalPort_Skipped(h) ==
  /\ pc[h] = "untell"
  /\ GoOn(h)
  /\ UNCHANGED <<storeVars, used, bindings, resources, todo, victims, history>>

ClearLocalPort(h) ==
  /\ pc[h] = "untell"
  /\ Told(req[h].proxy, NoPort)
  /\ GoOn(h)
  /\ UNCHANGED <<stored, used, bindings, resources, todo, victims, history>>

-----------------------------------------------------------------------------
(* The store's other writers.                                              *)

\* addStoredProxy, addSubscription, a fetch with no auto_bind, the second half of a
\* refresh.
StoreAdd(p) ==
  /\ p \notin stored
  /\ stored' = stored \cup {p}
  /\ UNCHANGED <<localPort, stale, used, bindings, resources, handlerVars, history>>

\* deleteStoredProxy, clearStoredProxies, deleteSubscription, the first half of a
\* refresh: the bindings of the proxies stay.
StoreRemove(S) ==
  /\ S # {} /\ S \subseteq stored
  /\ stored' = stored \ S
  /\ localPort' = [p \in Proxies |-> IF p \in S THEN NoPort ELSE localPort[p]]
  /\ stale' = stale \ S
  /\ UNCHANGED <<used, bindings, resources, handlerVars, history>>

-----------------------------------------------------------------------------
\* A process starts with the store that was saved, local_ports and all, and no binding.
Init ==
  /\ stored \in SUBSET Proxies
  /\ localPort \in [Proxies -> Named \cup {NoPort}]
  /\ \A p \in Proxies \ stored : localPort[p] = NoPort
  /\ stale = {p \in Proxies : localPort[p] # NoPort}
  /\ leaked = {}
  /\ used = [x \in Pool |-> NoProxy]
  /\ bindings = {}
  /\ outbounds = {}
  /\ inbound = [t \in Tags |-> NoPort]
  /\ routes = {}
  /\ pc = [h \in Handlers |-> "idle"]
  /\ req = [h \in Handlers |-> NoReq]
  /\ todo = [h \in Handlers |-> {}]
  /\ victims = [h \in Handlers |-> {}]
  /\ raced = FALSE
  /\ custom = FALSE

CreateStep(h) ==
  \/ \E p \in Proxies, t \in Tags, x \in Named : CreateForProxy(h, p, t, x)
  \/ \E t \in Tags, x \in Named : CreateManual(h, t, x)
  \/ \E S \in SUBSET Proxies : Batch(h, S) \/ Fetch(h, S)
  \/ \E p \in Proxies, x \in Pool : BindNext(h, p, x)
  \/ \E p \in Proxies : NoPortLeft(h, p)
  \/ Check(h)
  \/ CreateOutbound(h)
  \/ CreateInbound(h)
  \/ Rollback(h)
  \/ Release(h)
  \/ BindRoute(h)
  \/ Record(h)
  \/ SetLocalPort(h)

DeleteStep(h) ==
  \/ \E S \in SUBSET bindings : Take(h, S)
  \/ \E b \in victims[h] : UnbindRoute(h, b)
  \/ RemoveInbound(h)
  \/ RemoveOutbound(h)
  \/ ReleasePort(h)
  \/ ClearLocalPort(h)

Next ==
  \/ \E h \in Handlers : CreateStep(h) \/ DeleteStep(h)
  \/ \E p \in Proxies, x \in Pool : Refused(p, x)
  \/ \E p \in Proxies : StoreAdd(p)
  \/ \E S \in SUBSET stored : StoreRemove(S)

Spec == Init /\ [][Next]_vars

-----------------------------------------------------------------------------
(* Properties.                                                             *)

\* Every variable has its type, and the map has one entry per tag.
TypeOK ==
  /\ stored \in SUBSET Proxies
  /\ localPort \in [Proxies -> Named \cup {NoPort}]
  /\ used \in [Pool -> Proxies \cup {NoProxy}]
  /\ bindings \in SUBSET Bindings
  /\ \A a, b \in bindings : a.tag = b.tag => a = b
  /\ outbounds \in SUBSET Tags
  /\ inbound \in [Tags -> Named \cup {NoPort}]
  /\ routes \in SUBSET Tags
  /\ pc \in [Handlers -> {"idle", "next", "unbind"} \cup Creating \cup Deleting]
  /\ req \in [Handlers -> Bindings \cup {NoReq}]
  /\ \A h \in Handlers : pc[h] \in Creating \cup Deleting => req[h] # NoReq
  /\ todo \in [Handlers -> SUBSET Proxies]
  /\ victims \in [Handlers -> SUBSET Bindings]
  /\ raced \in BOOLEAN
  /\ custom \in BOOLEAN
  /\ leaked \in SUBSET Bindings
  /\ stale \in SUBSET Proxies

\* As long as no two requests have worked on one tag at the same time, a tag nobody is
\* working on has an entry, an outbound, a route and an inbound on the entry's port, or
\* it has none of the four, whatever failed half-way and was rolled back.
Paired ==
  ~raced =>
    \A t \in Tags \ UNION {WorkingOn(h) : h \in Handlers} :
      IF Bound(t)
      THEN t \in outbounds /\ t \in routes /\ \E b \in bindings : b.tag = t /\ inbound[t] = b.port
      ELSE t \notin outbounds /\ t \notin routes /\ inbound[t] = NoPort

\* The ports a handler has taken from the pool and not yet given an entry, or taken with
\* an entry and not yet released.
Held(h) ==
  {v.port : v \in victims[h]} \cup
  (IF pc[h] \in (Creating \ {"tell"}) \cup {"close", "drop", "free"} THEN {req[h].port} ELSE {})

\* As long as no request named a pool port or a tag, and no two worked on one tag, the
\* pool is exact: a port is used just when an entry or a request under way has it, for
\* the proxy of that entry, or when a request was refused with it.  A request that fails
\* in any other way leaks none, none is given to two proxies, and one that leaked is not
\* given out again.
PoolExact ==
  ~raced /\ ~custom =>
    /\ Pool \ Unused =
         Pool \cap ({b.port : b \in bindings \cup leaked} \cup UNION {Held(h) : h \in Handlers})
    /\ \A b \in bindings \cup leaked : b.port \in Pool => used[b.port] = b.proxy

\* Under the same conditions a stored proxy nobody is working on reports a local_port
\* only if that is the port of its binding, or if an earlier process saved it and no
\* request has written it since.
LocalPortTrue ==
  ~raced /\ ~custom =>
    \A p \in Proxies \ (stale \cup UNION {WorkingOn(h) : h \in Handlers}) :
      localPort[p] # NoPort => \E b \in bindings : b.tag = p /\ b.port = localPort[p]

\* "Release port if auto-allocated" (src/sing-box-zenproxy/experimental/clashapi/
\* bindings.go:122): a request that fails gives back to the pool only a port that the
\* pool allocated for its own proxy.
AutoReleaseOnly ==
  [][\A h \in Handlers, x \in Pool :
       pc[h] = "release" /\ pc'[h] # "release" /\ used'[x] # used[x]
         => used[x] = req[h].proxy]_vars
=============================================================================
