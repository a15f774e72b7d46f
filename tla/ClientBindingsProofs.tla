------------------------ MODULE ClientBindingsProofs ------------------------
(***************************************************************************)
(* Proofs about ClientBindings, for any handlers, proxies, tags and ports. *)
(***************************************************************************)
EXTENDS ClientBindings, TLAPS

\* Only a handler that deletes bindings has victims, and only a stored proxy has a port.
TypeInv ==
  /\ TypeOK
  /\ \A h \in Handlers : pc[h] \notin {"unbind"} \cup Deleting => victims[h] = {}
  /\ \A p \in Proxies \ stored : localPort[p] = NoPort

Free(t) == \A h \in Handlers : t \notin WorkingOn(h)

\* A tag with everything a binding has, or nothing.
Whole(t) ==
  IF Bound(t)
  THEN t \in outbounds /\ t \in routes /\ \E b \in bindings : b.tag = t /\ inbound[t] = b.port
  ELSE t \notin outbounds /\ t \notin routes /\ inbound[t] = NoPort

\* A tag without an entry, with an outbound, an inbound and a route, or without.
Partly(t, o, x, r) ==
  ~Bound(t) /\ (t \in outbounds <=> o) /\ inbound[t] = x /\ (t \in routes <=> r)

\* What a handler finds of the tag it is at work on.
StageOK(h) ==
  /\ pc[h] \in {"check", "release", "tell"} => Whole(req[h].tag)
  /\ pc[h] = "tell" => req[h] \in bindings
  /\ pc[h] \in {"outbound", "free", "untell"} => Partly(req[h].tag, FALSE, NoPort, FALSE)
  /\ pc[h] \in {"inbound", "rollback", "drop"} => Partly(req[h].tag, TRUE, NoPort, FALSE)
  /\ pc[h] \in {"route", "close"} => Partly(req[h].tag, TRUE, req[h].port, FALSE)
  /\ pc[h] = "record" => Partly(req[h].tag, TRUE, req[h].port, TRUE)

\* The entries it is still to remove have everything but the entry.
VictimsOK(h) == \A v \in victims[h] : Partly(v.tag, TRUE, v.port, TRUE)

\* No two handlers, and no two entries of one, are about the same tag.
Apart ==
  /\ \A g, h \in Handlers : g # h => WorkingOn(g) \cap WorkingOn(h) = {}
  /\ \A h \in Handlers : \A v \in victims[h] :
       /\ \A w \in victims[h] : v.tag = w.tag => v = w
       /\ pc[h] \in Deleting => v.tag # req[h].tag

Match ==
  /\ Apart
  /\ \A h \in Handlers : StageOK(h) /\ VictimsOK(h)
  /\ \A t \in Tags : Free(t) => Whole(t)

MatchInv == TypeInv /\ (~raced => Match)

\* As long as no request named a pool port or a tag, an entry is that of a stored proxy
\* under its own id, or has a port and a tag of its own.
Plain(b) ==
  /\ b.proxy # NoProxy => b.tag = b.proxy
  /\ b.proxy = NoProxy => b.tag \notin Proxies /\ b.port \notin Pool

AllPlain ==
  /\ \A b \in bindings : Plain(b)
  /\ \A h \in Handlers :
       /\ \A v \in victims[h] : Plain(v)
       /\ pc[h] \in Creating \cup Deleting => Plain(req[h])

\* Handlers that hold the port of their request.
HoldsReq(h) == pc[h] \in (Creating \ {"tell"}) \cup {"close", "drop", "free"}

\* The bindings that own their ports, each with the owner it is found at: the map, {}, a
\* handler, or nobody when it was refused.
Leak == {{}, {{}}}
AtHandler(h) == victims[h] \cup (IF HoldsReq(h) THEN {req[h]} ELSE {})
Claims ==
  ({{}} \X bindings) \cup ({Leak} \X leaked) \cup UNION {{{h}} \X AtHandler(h) : h \in Handlers}

\* Every port of the pool has at most one claim, for whose proxy it is used, and none
\* that is used has no claim.
Exact(C, u) ==
  /\ \A c \in C : c[2].port \in Pool =>
       u[c[2].port] = c[2].proxy /\ c[2].proxy # NoProxy
  /\ \A c, d \in C : c[2].port = d[2].port /\ c[2].port \in Pool => c = d
  /\ \A x \in Pool : u[x] # NoProxy => \E c \in C : c[2].port = x

\* The port the store reports is that of a binding, or of one on its way out.
Backed(p) ==
  \/ \E b \in bindings : b.tag = p /\ b.port = localPort[p]
  \/ \E h \in Handlers :
       \/ \E v \in victims[h] : v.tag = p
       \/ pc[h] \in Deleting /\ req[h].tag = p

Reported == \A p \in Proxies \ stale : localPort[p] # NoPort => Backed(p)

PoolInv == MatchInv /\ (~raced /\ ~custom => AllPlain /\ Exact(Claims, used) /\ Reported)

-----------------------------------------------------------------------------
(* Types.                                                                  *)

\* No port is confused with NoPort, and no tag with NoProxy.
LEMMA Ports ==
  /\ Pool \subseteq Named /\ NoPort \notin Named
  /\ \A t \in Tags : t # NoProxy
  /\ Creating \cap Deleting = {}
  /\ \A l \in {"idle", "next", "unbind"} : l \notin Creating \cup Deleting
BY TagsAssumption, PortsAssumption DEF Pool, Named, NoPort, Tags, Creating, Deleting

\* Freeing keeps the pool.
LEMMA FreedTyped ==
  ASSUME TypeInv, NEW x \in Named, Freed(x)
  PROVE  used' \in [Pool -> Proxies \cup {NoProxy}]
BY DEF TypeInv, TypeOK, Freed

\* What a handler is at and with.
HandlersTyped ==
  /\ pc \in [Handlers -> {"idle", "next", "unbind"} \cup Creating \cup Deleting]
  /\ req \in [Handlers -> Bindings \cup {NoReq}]
  /\ \A h \in Handlers : pc[h] \in Creating \cup Deleting => req[h] # NoReq
  /\ \A h \in Handlers : pc[h] \notin {"unbind"} \cup Deleting => victims[h] = {}

\* No binding is the empty request.
LEMMA BindingsReal == NoReq \notin Bindings
BY TagsAssumption DEF NoReq, Bindings

\* A creation that is called is well formed.
LEMMA CallTyped ==
  ASSUME TypeInv, NEW h \in Handlers, NEW t \in Tags, NEW p \in Proxies \cup {NoProxy},
         NEW x \in Named, Call(h, t, p, x), pc[h] \in {"idle", "next"},
         UNCHANGED victims
  PROVE  HandlersTyped' /\ raced' \in BOOLEAN
<1> USE DEF TypeInv, TypeOK
<1>1. [tag |-> t, proxy |-> p, port |-> x] \in Bindings
  BY DEF Bindings
<1>2. req' = [req EXCEPT ![h] = [tag |-> t, proxy |-> p, port |-> x]]
      /\ pc' = [pc EXCEPT ![h] = "check"]
      /\ raced' \in BOOLEAN
  BY DEF Call, Goto
<1> QED
  BY <1>1, <1>2, BindingsReal, Ports DEF HandlersTyped, Creating, Deleting

\* A handler goes on with the same request, or is done with it.
LEMMA MoveTyped ==
  ASSUME TypeInv, NEW h \in Handlers, NEW label \in Creating \cup Deleting \cup {"idle", "next", "unbind"},
         pc' = [pc EXCEPT ![h] = label],
         \/ req' = req /\ (label \in Creating \cup Deleting => pc[h] \in Creating \cup Deleting)
         \/ req' = [req EXCEPT ![h] = NoReq] /\ label \in {"idle", "next", "unbind"},
         victims' = victims,
         label \in {"unbind"} \cup Deleting \/ victims[h] = {}
  PROVE  HandlersTyped'
<1>1. label \in {"idle", "next", "unbind"} => label \notin Creating \cup Deleting
  BY Ports
<1> QED
  BY <1>1 DEF TypeInv, TypeOK, HandlersTyped

\* The steps of a creation keep the types.
LEMMA CreateTyped ==
  ASSUME TypeInv, NEW h \in Handlers, CreateStep(h)
  PROVE  TypeInv'
<1> USE DEF TypeInv, TypeOK, storeVars, resources, history
<1>1. ASSUME NEW p \in Proxies, NEW t \in Tags, NEW x \in Named, CreateForProxy(h, p, t, x)
      PROVE  TypeInv'
  <2>1. HandlersTyped' /\ raced' \in BOOLEAN
    BY <1>1, CallTyped DEF CreateForProxy
  <2>2. used' \in [Pool -> Proxies \cup {NoProxy}] /\ custom' \in BOOLEAN
    BY <1>1 DEF CreateForProxy, Allocate
  <2> QED
    BY <1>1, <2>1, <2>2 DEF CreateForProxy, HandlersTyped
<1>2. ASSUME NEW t \in Tags, NEW x \in Named, CreateManual(h, t, x) PROVE TypeInv'
  <2>1. HandlersTyped' /\ raced' \in BOOLEAN
    BY <1>2, CallTyped DEF CreateManual
  <2> QED
    BY <1>2, <2>1 DEF CreateManual, HandlersTyped
<1>3. ASSUME NEW S \in SUBSET Proxies, Batch(h, S) \/ Fetch(h, S) PROVE TypeInv'
  <2>1. HandlersTyped'
    BY <1>3, MoveTyped, Ports DEF Batch, Fetch, Goto
  <2>2. todo' \in [Handlers -> SUBSET Proxies] /\ stored' \in SUBSET Proxies /\ stored \subseteq stored'
    BY <1>3 DEF Batch, Fetch
  <2>3. UNCHANGED <<localPort, stale, used, bindings, resources, victims, history>>
    BY <1>3 DEF Batch, Fetch
  <2> QED
    BY <2>1, <2>2, <2>3 DEF HandlersTyped
<1>4. ASSUME NEW p \in Proxies, NEW x \in Pool, BindNext(h, p, x) PROVE TypeInv'
  <2>1. HandlersTyped' /\ raced' \in BOOLEAN
    BY <1>4, CallTyped, Ports DEF BindNext, Tags
  <2>2. used' \in [Pool -> Proxies \cup {NoProxy}] /\ todo' \in [Handlers -> SUBSET Proxies]
    BY <1>4 DEF BindNext, Allocate
  <2> QED
    BY <1>4, <2>1, <2>2 DEF BindNext, HandlersTyped
<1>5. ASSUME NEW p \in Proxies, NoPortLeft(h, p) PROVE TypeInv'
  <2>1. HandlersTyped'
    BY <1>5, MoveTyped, Ports DEF NoPortLeft, Goto, Deleting
  <2>2. todo' \in [Handlers -> SUBSET Proxies]
    BY <1>5 DEF NoPortLeft
  <2> QED
    BY <1>5, <2>1, <2>2 DEF NoPortLeft, HandlersTyped
<1>6. ASSUME pc[h] \in Creating, UNCHANGED <<todo, victims, history>>,
             NEW label \in Creating, Goto(h, label), UNCHANGED req
      PROVE  HandlersTyped'
  <2>1. victims[h] = {}
    BY <1>6, Ports DEF Creating, Deleting
  <2> QED
    BY <1>6, <2>1, MoveTyped DEF Goto
<1>7. ASSUME pc[h] \in Creating, UNCHANGED <<todo, victims, history>>, Finish(h)
      PROVE  HandlersTyped'
  <2>1. victims[h] = {}
    BY <1>7, Ports DEF Creating, Deleting
  <2> QED
    BY <1>7, <2>1, MoveTyped DEF Finish, DoneTo, Goto
<1>8. ASSUME Check(h) \/ CreateOutbound(h) \/ CreateInbound(h) \/ Rollback(h) \/ BindRoute(h)
      PROVE  TypeInv'
  <2>1. pc[h] \in Creating /\ req[h] \in Bindings
    BY <1>8 DEF Check, CreateOutbound, CreateInbound, Rollback, BindRoute, Creating
  <2>2. UNCHANGED <<storeVars, used, bindings, req, todo, victims, history>>
    BY <1>8 DEF Check, CreateOutbound, CreateInbound, Rollback, BindRoute
  <2>3. \E label \in Creating : Goto(h, label)
    BY <1>8 DEF Check, CreateOutbound, CreateInbound, Rollback, BindRoute, Creating
  <2>4. HandlersTyped'
    BY <1>6, <2>1, <2>2, <2>3
  <2>5. outbounds' \in SUBSET Tags /\ inbound' \in [Tags -> Named \cup {NoPort}] /\ routes' \in SUBSET Tags
    BY <1>8, <2>1
    DEF Check, CreateOutbound, CreateInbound, Rollback, BindRoute, Bindings
  <2> QED
    BY <2>2, <2>4, <2>5 DEF HandlersTyped
<1>9. ASSUME Release(h) \/ SetLocalPort(h) PROVE TypeInv'
  <2>1. pc[h] \in Creating /\ req[h] \in Bindings /\ Finish(h) /\ UNCHANGED <<todo, victims, history>>
    BY <1>9 DEF Release, SetLocalPort, Creating
  <2>2. HandlersTyped'
    BY <1>7, <2>1
  <2>3. used' \in [Pool -> Proxies \cup {NoProxy}]
    BY <1>9, <2>1, FreedTyped DEF Release, SetLocalPort, Bindings
  <2>4. /\ localPort' \in [Proxies -> Named \cup {NoPort}] /\ stored' = stored
        /\ stale' \in SUBSET Proxies
        /\ \A p \in Proxies \ stored : localPort'[p] = NoPort
    BY <1>9, <2>1 DEF Release, SetLocalPort, Told, Bindings
  <2>5. UNCHANGED <<bindings, resources, todo, victims, history>>
    BY <1>9 DEF Release, SetLocalPort
  <2> QED
    BY <2>2, <2>3, <2>4, <2>5 DEF HandlersTyped
<1>10. ASSUME Record(h) PROVE TypeInv'
  <2>1. /\ pc[h] \in Creating /\ req[h] \in Bindings
        /\ UNCHANGED <<storeVars, used, resources, todo, victims, history>>
        /\ bindings' = {b \in bindings : b.tag # req[h].tag} \cup {req[h]}
    BY <1>10 DEF Record, Creating
  <2>2. HandlersTyped'
    BY <1>6, <1>7, <1>10, <2>1 DEF Record, Creating
  <2>3. bindings' \in SUBSET Bindings /\ \A a, b \in bindings' : a.tag = b.tag => a = b
    BY <2>1
  <2> QED
    BY <2>1, <2>2, <2>3 DEF HandlersTyped
<1> QED
  BY <1>1, <1>2, <1>3, <1>4, <1>5, <1>8, <1>9, <1>10 DEF CreateStep

\* So do those of a deletion.
LEMMA DeleteTyped ==
  ASSUME TypeInv, NEW h \in Handlers, DeleteStep(h)
  PROVE  TypeInv'
<1> USE DEF TypeInv, TypeOK, storeVars, resources, history
<1>1. ASSUME NEW S \in SUBSET bindings, Take(h, S) PROVE TypeInv'
  <2>1. /\ pc[h] = "idle" /\ pc' = [pc EXCEPT ![h] = "unbind"] /\ bindings' = bindings \ S
        /\ victims' = [victims EXCEPT ![h] = S] /\ raced' \in BOOLEAN
        /\ UNCHANGED <<storeVars, used, resources, req, todo, custom, leaked>>
    BY <1>1 DEF Take, Goto
  <2>2. HandlersTyped'
    BY <2>1, Ports DEF HandlersTyped
  <2> QED
    BY <2>1, <2>2 DEF HandlersTyped
<1>2. ASSUME NEW b \in victims[h], UnbindRoute(h, b) PROVE TypeInv'
  <2>1. /\ pc[h] = "unbind" /\ pc' = [pc EXCEPT ![h] = "close"] /\ req' = [req EXCEPT ![h] = b]
        /\ victims' = [victims EXCEPT ![h] = @ \ {b}] /\ routes' = routes \ {b.tag}
        /\ UNCHANGED <<storeVars, used, bindings, outbounds, inbound, todo, history>>
    BY <1>2 DEF UnbindRoute, Goto
  <2>2. b \in Bindings /\ b # NoReq
    BY BindingsReal
  <2>3. HandlersTyped'
    BY <2>1, <2>2 DEF HandlersTyped, Deleting
  <2> QED
    BY <2>1, <2>3 DEF HandlersTyped
<1>3. ASSUME RemoveInbound(h) \/ RemoveOutbound(h) PROVE TypeInv'
  <2>1. /\ pc[h] \in Deleting /\ req[h] \in Bindings
        /\ UNCHANGED <<storeVars, used, bindings, routes, req, todo, victims, history>>
        /\ \E label \in Deleting : Goto(h, label)
    BY <1>3 DEF RemoveInbound, RemoveOutbound, Deleting
  <2>2. HandlersTyped'
    BY <2>1, MoveTyped DEF Goto
  <2>3. outbounds' \in SUBSET Tags /\ inbound' \in [Tags -> Named \cup {NoPort}]
    BY <1>3, <2>1 DEF RemoveInbound, RemoveOutbound, Bindings
  <2> QED
    BY <2>1, <2>2, <2>3 DEF HandlersTyped
<1>4. ASSUME ReleasePort(h) \/ ClearLocalPort(h) PROVE TypeInv'
  <2>1. /\ pc[h] \in Deleting /\ req[h] \in Bindings
        /\ UNCHANGED <<stored, bindings, resources, todo, victims, history>>
    BY <1>4 DEF ReleasePort, ClearLocalPort, Deleting
  <2>2. \/ GoOn(h)
        \/ Goto(h, "untell") /\ UNCHANGED req
    BY <1>4 DEF ReleasePort, ClearLocalPort
  <2>3. HandlersTyped'
    <3>1. CASE GoOn(h)
      BY <2>1, <3>1, MoveTyped, Ports DEF GoOn, DoneTo, Goto
    <3>2. CASE Goto(h, "untell") /\ UNCHANGED req
      BY <2>1, <3>2, MoveTyped DEF Goto, Deleting
    <3> QED
      BY <2>2, <3>1, <3>2
  <2>4. used' \in [Pool -> Proxies \cup {NoProxy}]
    BY <1>4, <2>1, FreedTyped DEF ReleasePort, ClearLocalPort, Bindings
  <2>5. /\ localPort' \in [Proxies -> Named \cup {NoPort}] /\ stale' \in SUBSET Proxies
        /\ \A p \in Proxies \ stored : localPort'[p] = NoPort
    BY <1>4 DEF ReleasePort, ClearLocalPort, Told
  <2> QED
    BY <2>1, <2>3, <2>4, <2>5 DEF HandlersTyped
<1> QED
  BY <1>1, <1>2, <1>3, <1>4 DEF DeleteStep

\* Every step keeps the types.
LEMMA NextTyped == TypeInv /\ [Next]_vars => TypeInv'
<1> SUFFICES ASSUME TypeInv, [Next]_vars PROVE TypeInv'
  OBVIOUS
<1> USE DEF TypeInv, TypeOK
<1>1. ASSUME NEW p \in Proxies, StoreAdd(p) PROVE TypeInv'
  BY <1>1 DEF StoreAdd, resources, handlerVars, history
<1>2. ASSUME NEW S \in SUBSET stored, StoreRemove(S) PROVE TypeInv'
  BY <1>2 DEF StoreRemove, resources, handlerVars, history
<1>3. ASSUME NEW p \in Proxies, NEW x \in Pool, Refused(p, x) PROVE TypeInv'
  <2>1. [tag |-> p, proxy |-> p, port |-> x] \in Bindings
    BY DEF Bindings, Tags, Named
  <2>2. /\ used' \in [Pool -> Proxies \cup {NoProxy}] /\ leaked' \in SUBSET Bindings
        /\ UNCHANGED <<storeVars, bindings, resources, handlerVars, raced, custom>>
    BY <1>3, <2>1 DEF Refused, Allocate
  <2> QED
    BY <2>2 DEF storeVars, resources, handlerVars
<1>4. CASE UNCHANGED vars
  BY <1>4 DEF vars, storeVars, resources, handlerVars, history
<1> QED
  BY <1>1, <1>2, <1>3, <1>4, CreateTyped, DeleteTyped DEF Next

\* A fresh process.
LEMMA InitTyped == Init => TypeInv
<1> SUFFICES ASSUME Init PROVE TypeInv
  OBVIOUS
<1>1. \A h \in Handlers : pc[h] \notin Creating \cup Deleting
  BY Ports DEF Init
<1> QED
  BY <1>1 DEF Init, TypeInv, TypeOK

\* Every variable keeps its type, and the map has one entry per tag, whatever the requests.
THEOREM TypeCorrect == Spec => []TypeOK
<1>1. TypeInv => TypeOK
  BY DEF TypeInv
<1> QED
  BY <1>1, InitTyped, NextTyped, PTL DEF Spec

-----------------------------------------------------------------------------
(* Paired.                                                                 *)

\* A step leaves a tag as it was.
Same(t) ==
  /\ t \in outbounds' <=> t \in outbounds
  /\ inbound'[t] = inbound[t]
  /\ t \in routes' <=> t \in routes
  /\ \A b \in Bindings : b.tag = t => (b \in bindings' <=> b \in bindings)

\* What is true of such a tag stays true.
LEMMA SameKeeps ==
  ASSUME TypeInv, TypeInv', NEW t \in Tags, Same(t)
  PROVE  /\ Bound(t)' <=> Bound(t)
         /\ Whole(t) => Whole(t)'
         /\ \A o, x, r : Partly(t, o, x, r) => Partly(t, o, x, r)'
<1> USE DEF TypeInv, TypeOK
<1>1. Bound(t)' <=> Bound(t)
  BY DEF Bound, Same
<1> QED
  BY <1>1 DEF Same, Whole, Partly

\* The tags a handler is at work on.
LEMMA Working ==
  ASSUME TypeInv, NEW h \in Handlers
  PROVE  /\ WorkingOn(h) \subseteq Tags
         /\ pc[h] \in {"idle", "next"} => WorkingOn(h) = {}
         /\ pc[h] \in Creating => WorkingOn(h) = {req[h].tag} /\ victims[h] = {}
         /\ pc[h] \in Creating \cup Deleting => req[h].tag \in WorkingOn(h) /\ req[h] \in Bindings
         /\ \A v \in victims[h] : v.tag \in WorkingOn(h) /\ v \in Bindings
BY Ports DEF TypeInv, TypeOK, WorkingOn, Bindings, Creating, Deleting

\* Another handler finds its tags as it left them.
LEMMA OthersFind ==
  ASSUME TypeInv, TypeInv', NEW g \in Handlers, StageOK(g), VictimsOK(g),
         pc'[g] = pc[g], req'[g] = req[g], victims'[g] = victims[g],
         \A t \in WorkingOn(g) : Same(t)
  PROVE  StageOK(g)' /\ VictimsOK(g)' /\ WorkingOn(g)' = WorkingOn(g)
<1>1. WorkingOn(g)' = WorkingOn(g)
  BY DEF WorkingOn
<1>2. \A t \in WorkingOn(g) : t \in Tags
  BY Working
<1>3. VictimsOK(g)'
  BY <1>2, SameKeeps, Working DEF VictimsOK
<1>4. StageOK(g)'
  <2>1. CASE pc[g] \in Creating \cup Deleting
    <3>1. req[g].tag \in WorkingOn(g) /\ req[g] \in Bindings
      BY <2>1, Working
    <3>2. Same(req[g].tag) /\ req[g].tag \in Tags
      BY <1>2, <3>1
    <3>3. /\ Whole(req[g].tag) => Whole(req[g].tag)'
          /\ \A o, x, r : Partly(req[g].tag, o, x, r) => Partly(req[g].tag, o, x, r)'
      BY <3>2, SameKeeps
    <3>4. req[g] \in bindings => req[g] \in bindings'
      BY <3>1, <3>2 DEF Same
    <3> QED
      BY <3>3, <3>4 DEF StageOK, Whole, Partly, Bound
  <2>2. CASE pc[g] \notin Creating \cup Deleting
    BY <2>2 DEF StageOK, Creating, Deleting
  <2> QED
    BY <2>1, <2>2
<1> QED
  BY <1>1, <1>3, <1>4

\* A step of a request on its own tag.
LEMMA OwnStep ==
  ASSUME TypeInv, TypeInv', Match, NEW h \in Handlers, NEW t \in Tags,
         pc[h] \in Creating \cup Deleting, req[h].tag = t,
         \A g \in Handlers \ {h} : pc'[g] = pc[g] /\ req'[g] = req[g],
         victims' = victims,
         \A u \in Tags \ {t} : Same(u),
         \/ /\ req'[h] = req[h] /\ StageOK(h)'
            /\ \/ pc[h] \in Creating /\ pc'[h] \in Creating
               \/ pc[h] \in Deleting /\ pc'[h] \in Deleting
         \/ pc'[h] \in {"idle", "next", "unbind"} /\ Whole(t)'
  PROVE  Match'
<1>1. t \in WorkingOn(h) /\ t \in Tags /\ req[h] \in Bindings
  BY Working
<1>2. ASSUME NEW g \in Handlers \ {h}
      PROVE  StageOK(g)' /\ VictimsOK(g)' /\ WorkingOn(g)' = WorkingOn(g) /\ t \notin WorkingOn(g)
  <2>1. WorkingOn(g) \subseteq Tags /\ t \notin WorkingOn(g)
    BY <1>1, Working DEF Match, Apart
  <2> QED
    BY <2>1, OthersFind DEF Match
<1>3. \A v \in victims[h] : v.tag \in Tags \ {t} /\ v \in Bindings
  <2>1. pc[h] \in Creating => victims[h] = {}
    BY Working
  <2> QED
    BY <2>1, Working DEF Match, Apart
<1>4. VictimsOK(h)'
  BY <1>3, SameKeeps DEF Match, VictimsOK
<1>5. StageOK(h)'
  BY Ports DEF StageOK, Creating, Deleting
<1>6. WorkingOn(h)' \subseteq WorkingOn(h) /\ WorkingOn(h) \subseteq WorkingOn(h)' \cup {t}
  <2>1. CASE req'[h] = req[h] /\ pc'[h] \in Creating \cup Deleting
    BY <2>1 DEF WorkingOn
  <2>2. CASE pc'[h] \in {"idle", "next", "unbind"}
    BY <2>2, Ports DEF WorkingOn
  <2> QED
    BY <2>1, <2>2
<1>7. t \notin WorkingOn(h)' => Whole(t)'
  <2>1. req'[h] = req[h] /\ pc'[h] \in Creating \cup Deleting => t \in WorkingOn(h)'
    BY DEF WorkingOn
  <2> QED
    BY <2>1
<1>8. Apart'
  <2>1. \A f, g \in Handlers : f # g => WorkingOn(f)' \cap WorkingOn(g)' = {}
    BY <1>2, <1>6 DEF Match, Apart
  <2>2. \A g \in Handlers : \A v \in victims'[g] :
          /\ \A w \in victims'[g] : v.tag = w.tag => v = w
          /\ pc'[g] \in Deleting => v.tag # req'[g].tag
    BY <1>3, Ports DEF Match, Apart
  <2> QED
    BY <2>1, <2>2 DEF Apart
<1>9. ASSUME NEW u \in Tags, Free(u)' PROVE Whole(u)'
  <2>1. \A g \in Handlers : u \notin WorkingOn(g)'
    BY <1>9 DEF Free
  <2>2. CASE u = t
    BY <1>7, <2>1, <2>2
  <2>3. CASE u # t
    <3>1. Free(u)
      BY <1>2, <1>6, <2>1, <2>3 DEF Free
    <3>2. Same(u)
      BY <2>3
    <3>3. Whole(u) => Whole(u)'
      BY <3>2, SameKeeps
    <3>4. Whole(u)
      BY <3>1 DEF Match
    <3>5. Whole(u)'
      BY ONLY <3>3, <3>4
    <3> QED
      BY ONLY <3>5
  <2> QED
    BY <2>2, <2>3
<1> QED
  BY <1>2, <1>4, <1>5, <1>8, <1>9 DEF Match

\* The steps of a creation after its call.
LEMMA CreationMatches ==
  ASSUME TypeInv, TypeInv', Match, NEW h \in Handlers,
         \/ Check(h) \/ CreateOutbound(h) \/ CreateInbound(h) \/ Rollback(h)
         \/ Release(h) \/ BindRoute(h) \/ Record(h) \/ SetLocalPort(h)
  PROVE  Match'
<1>1. pc[h] \in Creating /\ req[h] \in Bindings
  <2>1. pc[h] \in Creating
    BY DEF Check, CreateOutbound, CreateInbound, Rollback, Release, BindRoute, Record,
           SetLocalPort, Creating
  <2> QED
    BY <2>1, Working
<1>2. PICK t \in Tags : req[h].tag = t
  BY <1>1 DEF Bindings
<1>3. UNCHANGED victims
  BY DEF Check, CreateOutbound, CreateInbound, Rollback, Release, BindRoute, Record,
         SetLocalPort, history
<1>4. \A g \in Handlers \ {h} : pc'[g] = pc[g] /\ req'[g] = req[g]
  BY DEF TypeInv, TypeOK, Check, CreateOutbound, CreateInbound, Rollback, Release, BindRoute,
         Record, SetLocalPort, Goto, Finish, DoneTo
<1>5. \A u \in Tags \ {t} : Same(u)
  BY <1>1, <1>2 DEF TypeInv, TypeOK, Check, CreateOutbound, CreateInbound, Rollback, Release,
         BindRoute, Record, SetLocalPort, resources, Same
<1>6. StageOK(h)
  BY DEF Match
<1> USE DEF TypeInv, TypeOK
<1>7. ASSUME Check(h) \/ CreateOutbound(h) \/ CreateInbound(h) \/ Rollback(h) \/ BindRoute(h)
      PROVE  req'[h] = req[h] /\ StageOK(h)' /\ pc'[h] \in Creating
  <2>1. CASE Check(h)
    BY <1>1, <1>2, <1>6, <2>1
    DEF Check, Goto, StageOK, Whole, Partly, Bound, resources, Creating
  <2>2. CASE CreateOutbound(h)
    BY <1>1, <1>2, <1>6, <2>2
    DEF CreateOutbound, Goto, StageOK, Whole, Partly, Bound, resources, Creating
  <2>3. CASE CreateInbound(h)
    BY <1>1, <1>2, <1>6, <2>3
    DEF CreateInbound, Goto, StageOK, Whole, Partly, Bound, resources, Creating
  <2>4. CASE Rollback(h)
    BY <1>1, <1>2, <1>6, <2>4
    DEF Rollback, Goto, StageOK, Whole, Partly, Bound, resources, Creating
  <2>5. CASE BindRoute(h)
    BY <1>1, <1>2, <1>6, <2>5
    DEF BindRoute, Goto, StageOK, Whole, Partly, Bound, resources, Creating
  <2> QED
    BY <1>7, <2>1, <2>2, <2>3, <2>4, <2>5
<1>8. ASSUME Release(h) \/ SetLocalPort(h)
      PROVE  pc'[h] \in {"idle", "next", "unbind"} /\ Whole(t)'
  <2>1. pc'[h] \in {"idle", "next", "unbind"}
    BY <1>8 DEF Release, SetLocalPort, Finish, DoneTo, Goto
  <2>2. UNCHANGED <<bindings, resources>> /\ Whole(t)
    BY <1>2, <1>6, <1>8 DEF Release, SetLocalPort, StageOK
  <2>3. Whole(t)'
    BY <2>2 DEF Whole, Bound, resources
  <2> QED
    BY <2>1, <2>3
<1>9. ASSUME Record(h)
      PROVE  Whole(t)' /\ \/ pc'[h] \in {"idle", "next", "unbind"}
                          \/ req'[h] = req[h] /\ pc'[h] = "tell" /\ req[h] \in bindings'
  <2>1. UNCHANGED resources /\ Partly(t, TRUE, req[h].port, TRUE)
    BY <1>2, <1>6, <1>9 DEF Record, StageOK
  <2>2. bindings' = {b \in bindings : b.tag # t} \cup {req[h]}
    BY <1>2, <1>9 DEF Record
  <2>3. Whole(t)'
    BY <1>1, <1>2, <2>1, <2>2 DEF Whole, Partly, Bound, resources
  <2>4. \/ pc'[h] \in {"idle", "next", "unbind"}
        \/ req'[h] = req[h] /\ pc'[h] = "tell"
    BY <1>9 DEF Record, Finish, DoneTo, Goto
  <2> QED
    BY <2>2, <2>3, <2>4
<1>10. ASSUME req'[h] = req[h], pc'[h] = "tell", req[h] \in bindings', Whole(t)'
       PROVE  StageOK(h)' /\ pc'[h] \in Creating
  BY <1>2, <1>10 DEF StageOK, Creating, Whole, Bound
<1> QED
  BY <1>1, <1>2, <1>3, <1>4, <1>5, <1>7, <1>8, <1>9, <1>10, OwnStep

\* The steps of a deletion after it took the entry.
LEMMA DeletionMatches ==
  ASSUME TypeInv, TypeInv', Match, NEW h \in Handlers,
         RemoveInbound(h) \/ RemoveOutbound(h) \/ ReleasePort(h) \/ ClearLocalPort(h)
  PROVE  Match'
<1>1. pc[h] \in Deleting /\ req[h] \in Bindings
  <2>1. pc[h] \in Deleting
    BY DEF RemoveInbound, RemoveOutbound, ReleasePort, ClearLocalPort, Deleting
  <2> QED
    BY <2>1, Working
<1>2. PICK t \in Tags : req[h].tag = t
  BY <1>1 DEF Bindings
<1>3. UNCHANGED victims
  BY DEF RemoveInbound, RemoveOutbound, ReleasePort, ClearLocalPort
<1>4. \A g \in Handlers \ {h} : pc'[g] = pc[g] /\ req'[g] = req[g]
  BY DEF TypeInv, TypeOK, RemoveInbound, RemoveOutbound, ReleasePort, ClearLocalPort, Goto, GoOn,
         DoneTo
<1>5. \A u \in Tags \ {t} : Same(u)
  BY <1>1, <1>2 DEF TypeInv, TypeOK, RemoveInbound, RemoveOutbound, ReleasePort, ClearLocalPort,
         resources, Same
<1>6. StageOK(h)
  BY DEF Match
<1> USE DEF TypeInv, TypeOK
<1>7. ASSUME RemoveInbound(h) \/ RemoveOutbound(h) \/ (ReleasePort(h) /\ pc'[h] = "untell")
      PROVE  req'[h] = req[h] /\ StageOK(h)' /\ pc'[h] \in Deleting
  <2>1. CASE RemoveInbound(h)
    BY <1>1, <1>2, <1>6, <2>1
    DEF RemoveInbound, Goto, StageOK, Partly, Bound, Deleting
  <2>2. CASE RemoveOutbound(h)
    BY <1>1, <1>2, <1>6, <2>2
    DEF RemoveOutbound, Goto, StageOK, Partly, Bound, Deleting
  <2>3. CASE ReleasePort(h) /\ pc'[h] = "untell"
    <3>1. req'[h] = req[h] /\ pc[h] = "free" /\ UNCHANGED <<bindings, resources>>
      BY <2>3 DEF ReleasePort, GoOn, DoneTo, Goto
    <3> QED
      BY <1>2, <1>6, <2>3, <3>1 DEF StageOK, Partly, Bound, Deleting, resources
  <2> QED
    BY <1>7, <2>1, <2>2, <2>3
<1>8. ASSUME ClearLocalPort(h) \/ (ReleasePort(h) /\ pc'[h] # "untell")
      PROVE  pc'[h] \in {"idle", "next", "unbind"} /\ Whole(t)'
  <2>1. pc'[h] \in {"idle", "next", "unbind"}
    BY <1>8 DEF ReleasePort, ClearLocalPort, GoOn, DoneTo, Goto
  <2>2. UNCHANGED <<bindings, resources>> /\ Partly(t, FALSE, NoPort, FALSE)
    BY <1>2, <1>6, <1>8 DEF ReleasePort, ClearLocalPort, StageOK
  <2>3. Whole(t)'
    BY <2>2 DEF Whole, Partly, Bound, resources
  <2> QED
    BY <2>1, <2>3
<1> QED
  BY <1>1, <1>2, <1>3, <1>4, <1>5, <1>7, <1>8, OwnStep

\* A step that changes no resource and no entry leaves every tag as it was.
LEMMA NothingChanges ==
  ASSUME UNCHANGED <<bindings, resources>>
  PROVE  \A t \in Tags : Same(t)
BY DEF resources, Same

\* The other handlers, when one steps on tags that none of them works on.
LEMMA OthersKeep ==
  ASSUME TypeInv, TypeInv', Match, NEW h \in Handlers, NEW S,
         \A g \in Handlers \ {h} :
           pc'[g] = pc[g] /\ req'[g] = req[g] /\ victims'[g] = victims[g] /\ WorkingOn(g) \cap S = {},
         \A u \in Tags \ S : Same(u)
  PROVE  \A g \in Handlers \ {h} : StageOK(g)' /\ VictimsOK(g)' /\ WorkingOn(g)' = WorkingOn(g)
<1> SUFFICES ASSUME NEW g \in Handlers \ {h}
             PROVE  StageOK(g)' /\ VictimsOK(g)' /\ WorkingOn(g)' = WorkingOn(g)
  OBVIOUS
<1>1. \A u \in WorkingOn(g) : Same(u)
  BY Working
<1> QED
  BY <1>1, OthersFind DEF Match

\* A creation that is called, on a tag nobody works on.
LEMMA CallMatches ==
  ASSUME TypeInv, TypeInv', Match, NEW h \in Handlers, NEW t \in Tags, NEW p, NEW x,
         Call(h, t, p, x), pc[h] \in {"idle", "next"}, ~raced',
         UNCHANGED <<victims, bindings, resources>>
  PROVE  Match'
<1>1. /\ pc' = [pc EXCEPT ![h] = "check"]
      /\ req' = [req EXCEPT ![h] = [tag |-> t, proxy |-> p, port |-> x]]
      /\ \A g \in Handlers \ {h} : t \notin WorkingOn(g)
  BY DEF Call, Goto, Races
<1>2. WorkingOn(h) = {} /\ victims[h] = {}
  BY Working, Ports DEF TypeInv, Deleting
<1>3. pc'[h] = "check" /\ req'[h].tag = t /\ victims'[h] = {}
  BY <1>1, <1>2 DEF TypeInv, TypeOK
<1>4. WorkingOn(h)' = {t}
  BY <1>3 DEF WorkingOn, Creating
<1>5. \A u \in Tags : Same(u)
  BY NothingChanges
<1>6. \A g \in Handlers \ {h} : pc'[g] = pc[g] /\ req'[g] = req[g] /\ victims'[g] = victims[g]
  BY <1>1 DEF TypeInv, TypeOK
<1>7. \A g \in Handlers \ {h} : StageOK(g)' /\ VictimsOK(g)' /\ WorkingOn(g)' = WorkingOn(g)
  <2>1. \A g \in Handlers \ {h} : WorkingOn(g) \cap {t} = {}
    BY <1>1
  <2>2. \A u \in Tags \ {t} : Same(u)
    BY <1>5
  <2> QED
    BY <1>6, <2>1, <2>2, OthersKeep
<1>8. Free(t)
  BY <1>1, <1>2 DEF Free
<1>9. Whole(t)'
  <2>1. Whole(t) /\ (Whole(t) => Whole(t)')
    BY <1>5, <1>8, SameKeeps DEF Match
  <2> QED
    BY ONLY <2>1
<1>10. StageOK(h)' /\ VictimsOK(h)'
  BY <1>3, <1>9 DEF StageOK, VictimsOK
<1>11. Apart'
  <2>1. \A f, g \in Handlers : f # g => WorkingOn(f)' \cap WorkingOn(g)' = {}
    BY <1>1, <1>4, <1>7 DEF Match, Apart
  <2>2. \A g \in Handlers : \A v \in victims'[g] :
          /\ \A w \in victims'[g] : v.tag = w.tag => v = w
          /\ pc'[g] \in Deleting => v.tag # req'[g].tag
    BY <1>3, <1>6 DEF Match, Apart
  <2> QED
    BY <2>1, <2>2 DEF Apart
<1>12. ASSUME NEW u \in Tags, Free(u)' PROVE Whole(u)'
  <2>1. Free(u)
    BY <1>2, <1>7, <1>12 DEF Free
  <2>2. Whole(u) /\ (Whole(u) => Whole(u)')
    BY <1>5, <2>1, SameKeeps DEF Match
  <2> QED
    BY ONLY <2>2
<1> QED
  BY <1>7, <1>10, <1>11, <1>12 DEF Match

\* A step between two requests, or between two proxies of a batch.
LEMMA QuietMatches ==
  ASSUME TypeInv, TypeInv', Match,
         \A g \in Handlers : pc'[g] = pc[g] \/ {pc[g], pc'[g]} \subseteq {"idle", "next"},
         UNCHANGED <<req, victims, bindings, resources>>
  PROVE  Match'
<1>1. \A u \in Tags : Same(u)
  BY NothingChanges
<1>2. ASSUME NEW g \in Handlers
      PROVE  StageOK(g)' /\ VictimsOK(g)' /\ WorkingOn(g)' = WorkingOn(g)
  <2>1. CASE pc'[g] = pc[g]
    BY <1>1, <2>1, OthersFind, Working DEF Match
  <2>2. CASE {pc[g], pc'[g]} \subseteq {"idle", "next"}
    <3>1. victims[g] = {} /\ victims'[g] = {}
      BY <2>2 DEF TypeInv, Deleting
    <3>2. pc[g] \notin Creating \cup Deleting /\ pc'[g] \notin Creating \cup Deleting
      BY <2>2, Ports
    <3> QED
      BY <3>1, <3>2 DEF StageOK, VictimsOK, WorkingOn, Creating, Deleting
  <2> QED
    BY <2>1, <2>2
<1>3. Apart'
  <2>1. \A f, g \in Handlers : f # g => WorkingOn(f)' \cap WorkingOn(g)' = {}
    BY <1>2 DEF Match, Apart
  <2>2. \A g \in Handlers : pc'[g] \in Deleting => pc[g] \in Deleting
    BY Ports
  <2>3. \A g \in Handlers : \A v \in victims'[g] :
          /\ \A w \in victims'[g] : v.tag = w.tag => v = w
          /\ pc'[g] \in Deleting => v.tag # req'[g].tag
    BY <2>2 DEF Match, Apart
  <2> QED
    BY <2>1, <2>3 DEF Apart
<1>4. ASSUME NEW u \in Tags, Free(u)' PROVE Whole(u)'
  <2>1. Free(u)
    BY <1>2, <1>4 DEF Free
  <2>2. Whole(u) /\ (Whole(u) => Whole(u)')
    BY <1>1, <2>1, SameKeeps DEF Match
  <2> QED
    BY ONLY <2>2
<1> QED
  BY <1>2, <1>3, <1>4 DEF Match

\* A deletion takes entries from the map.
LEMMA TakeMatches ==
  ASSUME TypeInv, TypeInv', Match, NEW h \in Handlers, NEW S \in SUBSET bindings,
         Take(h, S), ~raced'
  PROVE  Match'
<1> DEFINE T == {b.tag : b \in S}
<1>1. /\ pc[h] = "idle" /\ pc'[h] = "unbind" /\ victims'[h] = S /\ bindings' = bindings \ S
      /\ UNCHANGED <<resources, req>>
      /\ \A g \in Handlers \ {h} : pc'[g] = pc[g] /\ victims'[g] = victims[g]
                                   /\ WorkingOn(g) \cap T = {}
  BY DEF TypeInv, TypeOK, Take, Goto, Races
<1>2. WorkingOn(h) = {} /\ victims[h] = {}
  BY <1>1, Working, Ports DEF TypeInv, Deleting
<1>3. WorkingOn(h)' = T
  BY <1>1, Ports DEF WorkingOn
<1>4. \A u \in Tags \ T : Same(u)
  BY <1>1 DEF Same, resources
<1>5. \A g \in Handlers \ {h} : StageOK(g)' /\ VictimsOK(g)' /\ WorkingOn(g)' = WorkingOn(g)
  BY <1>1, <1>4, OthersKeep
<1>6. VictimsOK(h)'
  <2>1. SUFFICES ASSUME NEW v \in S PROVE Partly(v.tag, TRUE, v.port, TRUE)'
    BY <1>1 DEF VictimsOK
  <2>2. v \in Bindings /\ v.tag \in Tags /\ v.tag \in T /\ v \in bindings
    BY DEF TypeInv, TypeOK, Bindings
  <2>3. Whole(v.tag)
    BY <1>1, <1>2, <2>2 DEF Match, Free
  <2>4. \A b \in bindings : b.tag = v.tag => b = v
    BY <2>2 DEF TypeInv, TypeOK
  <2> QED
    BY <1>1, <2>2, <2>3, <2>4 DEF Whole, Partly, Bound, resources
<1>7. StageOK(h)'
  BY <1>1 DEF StageOK
<1>8. Apart'
  <2>1. \A f, g \in Handlers : f # g => WorkingOn(f)' \cap WorkingOn(g)' = {}
    BY <1>1, <1>3, <1>5 DEF Match, Apart
  <2>2. \A g \in Handlers : \A v \in victims'[g] :
          /\ \A w \in victims'[g] : v.tag = w.tag => v = w
          /\ pc'[g] \in Deleting => v.tag # req'[g].tag
    <3> SUFFICES ASSUME NEW g \in Handlers, NEW v \in victims'[g]
                 PROVE  /\ \A w \in victims'[g] : v.tag = w.tag => v = w
                        /\ pc'[g] \in Deleting => v.tag # req'[g].tag
      OBVIOUS
    <3>1. CASE g = h
      BY <1>1, <3>1 DEF TypeInv, TypeOK, Deleting
    <3>2. CASE g # h
      BY <1>1, <3>2 DEF Match, Apart
    <3> QED
      BY <3>1, <3>2
  <2> QED
    BY <2>1, <2>2 DEF Apart
<1>9. ASSUME NEW u \in Tags, Free(u)' PROVE Whole(u)'
  <2>1. Free(u) /\ u \notin T
    BY <1>2, <1>3, <1>5, <1>9 DEF Free
  <2>2. Whole(u) /\ (Whole(u) => Whole(u)')
    BY <1>4, <2>1, SameKeeps DEF Match
  <2> QED
    BY ONLY <2>2
<1> QED
  BY <1>5, <1>6, <1>7, <1>8, <1>9 DEF Match

\* It goes on to one of them.
LEMMA UnbindMatches ==
  ASSUME TypeInv, TypeInv', Match, NEW h \in Handlers, NEW b \in victims[h], UnbindRoute(h, b)
  PROVE  Match'
<1>1. /\ pc[h] = "unbind" /\ pc'[h] = "close" /\ victims'[h] = victims[h] \ {b} /\ req'[h] = b
      /\ routes' = routes \ {b.tag}
      /\ UNCHANGED <<bindings, outbounds, inbound>>
      /\ \A g \in Handlers \ {h} : pc'[g] = pc[g] /\ victims'[g] = victims[g] /\ req'[g] = req[g]
  BY DEF TypeInv, TypeOK, UnbindRoute, Goto
<1>2. b \in Bindings /\ b.tag \in Tags /\ b.tag \in WorkingOn(h)
  BY Working DEF Bindings
<1>3. WorkingOn(h)' = WorkingOn(h)
  BY <1>1, Ports DEF WorkingOn, Deleting
<1>4. \A u \in Tags \ {b.tag} : Same(u)
  BY <1>1 DEF Same, TypeInv, TypeOK
<1>5. \A g \in Handlers \ {h} : WorkingOn(g) \cap {b.tag} = {}
  BY <1>2 DEF Match, Apart
<1>6. \A g \in Handlers \ {h} : StageOK(g)' /\ VictimsOK(g)' /\ WorkingOn(g)' = WorkingOn(g)
  BY <1>1, <1>4, <1>5, OthersKeep
<1>7. \A v \in victims'[h] : v.tag \in Tags \ {b.tag} /\ v \in victims[h]
  <2>1. \A v \in victims[h] : v.tag \in Tags
    BY Working
  <2> QED
    BY <1>1, <2>1 DEF Match, Apart
<1>8. VictimsOK(h)'
  BY <1>4, <1>7, SameKeeps DEF Match, VictimsOK
<1>9. StageOK(h)'
  <2>1. Partly(b.tag, TRUE, b.port, TRUE)
    BY DEF Match, VictimsOK
  <2>2. Partly(b.tag, TRUE, b.port, FALSE)'
    BY <1>1, <2>1 DEF Partly, Bound
  <2> QED
    BY <1>1, <2>2 DEF StageOK, Partly, Bound
<1>10. Apart'
  <2>1. \A f, g \in Handlers : f # g => WorkingOn(f)' \cap WorkingOn(g)' = {}
    BY <1>3, <1>6 DEF Match, Apart
  <2>2. \A g \in Handlers : \A v \in victims'[g] :
          /\ \A w \in victims'[g] : v.tag = w.tag => v = w
          /\ pc'[g] \in Deleting => v.tag # req'[g].tag
    BY <1>1, <1>7 DEF Match, Apart
  <2> QED
    BY <2>1, <2>2 DEF Apart
<1>11. ASSUME NEW u \in Tags, Free(u)' PROVE Whole(u)'
  <2>1. Free(u) /\ u # b.tag
    BY <1>2, <1>3, <1>6, <1>11 DEF Free
  <2>2. Whole(u) /\ (Whole(u) => Whole(u)')
    BY <1>4, <2>1, SameKeeps DEF Match
  <2> QED
    BY ONLY <2>2
<1> QED
  BY <1>6, <1>8, <1>9, <1>10, <1>11 DEF Match

\* Once a race has happened it has happened.
LEMMA RacedStays == ASSUME [Next]_vars, TypeInv, ~raced' PROVE ~raced
<1>1. ASSUME NEW h \in Handlers, CreateStep(h) PROVE ~raced
  <2>1. ASSUME NEW t, NEW p, NEW x, Call(h, t, p, x) PROVE ~raced
    BY <2>1 DEF Call
  <2>2. ASSUME NEW p \in Proxies, NEW t \in Tags, NEW x \in Named, CreateForProxy(h, p, t, x)
        PROVE  ~raced
    BY <2>1, <2>2 DEF CreateForProxy
  <2>3. ASSUME NEW t \in Tags, NEW x \in Named, CreateManual(h, t, x) PROVE ~raced
    BY <2>1, <2>3 DEF CreateManual
  <2>4. ASSUME NEW p \in Proxies, NEW x \in Pool, BindNext(h, p, x) PROVE ~raced
    BY <2>1, <2>4 DEF BindNext
  <2>5. \/ \E S \in SUBSET Proxies : Batch(h, S) \/ Fetch(h, S)
        \/ \E p \in Proxies : NoPortLeft(h, p)
        \/ Check(h) \/ CreateOutbound(h) \/ CreateInbound(h) \/ Rollback(h)
        \/ Release(h) \/ BindRoute(h) \/ Record(h) \/ SetLocalPort(h)
        => ~raced
    BY DEF Batch, Fetch, NoPortLeft, Check, CreateOutbound, CreateInbound, Rollback, Release,
           BindRoute, Record, SetLocalPort, history
  <2> QED
    BY <1>1, <2>2, <2>3, <2>4, <2>5 DEF CreateStep
<1>2. ASSUME NEW h \in Handlers, DeleteStep(h) PROVE ~raced
  BY <1>2 DEF DeleteStep, Take, UnbindRoute, RemoveInbound, RemoveOutbound, ReleasePort,
              ClearLocalPort, history
<1> QED
  BY <1>1, <1>2 DEF Next, Refused, StoreAdd, StoreRemove, vars, history

\* Every step keeps the handlers and the resources in step.
LEMMA NextMatches == MatchInv /\ [Next]_vars => MatchInv'
<1> SUFFICES ASSUME MatchInv, [Next]_vars, ~raced' PROVE Match'
  BY NextTyped DEF MatchInv
<1>1. TypeInv /\ TypeInv' /\ Match
  BY NextTyped, RacedStays DEF MatchInv
<1>2. ASSUME NEW h \in Handlers, CreateStep(h) PROVE Match'
  <2>1. ASSUME NEW p \in Proxies, NEW t \in Tags, NEW x \in Named, CreateForProxy(h, p, t, x)
        PROVE  Match'
    BY <1>1, <2>1, CallMatches DEF CreateForProxy
  <2>2. ASSUME NEW t \in Tags, NEW x \in Named, CreateManual(h, t, x) PROVE Match'
    BY <1>1, <2>2, CallMatches DEF CreateManual
  <2>3. ASSUME NEW S \in SUBSET Proxies, Batch(h, S) \/ Fetch(h, S) PROVE Match'
    <3>1. UNCHANGED <<req, victims, bindings, resources>> /\ pc[h] = "idle"
          /\ pc' = [pc EXCEPT ![h] = "next"]
      BY <2>3 DEF Batch, Fetch, Goto
    <3> QED
      BY <1>1, <3>1, QuietMatches DEF TypeInv, TypeOK
  <2>4. ASSUME NEW p \in Proxies, NEW x \in Pool, BindNext(h, p, x) PROVE Match'
    BY <1>1, <2>4, CallMatches DEF BindNext, Tags
  <2>5. ASSUME NEW p \in Proxies, NoPortLeft(h, p) PROVE Match'
    <3>1. UNCHANGED <<req, victims, bindings, resources>> /\ pc[h] = "next"
          /\ \E l \in {"idle", "next"} : pc' = [pc EXCEPT ![h] = l]
      BY <2>5 DEF NoPortLeft, Goto
    <3> QED
      BY <1>1, <3>1, QuietMatches DEF TypeInv, TypeOK
  <2> QED
    BY <1>1, <1>2, <2>1, <2>2, <2>3, <2>4, <2>5, CreationMatches DEF CreateStep
<1>3. ASSUME NEW h \in Handlers, DeleteStep(h) PROVE Match'
  <2>1. ASSUME NEW S \in SUBSET bindings, Take(h, S) PROVE Match'
    BY <1>1, <2>1, TakeMatches
  <2>2. ASSUME NEW b \in victims[h], UnbindRoute(h, b) PROVE Match'
    BY <1>1, <2>2, UnbindMatches
  <2> QED
    BY <1>1, <1>3, <2>1, <2>2, DeletionMatches DEF DeleteStep
<1>4. ASSUME NEW p \in Proxies, StoreAdd(p) PROVE Match'
  BY <1>1, <1>4, QuietMatches DEF StoreAdd, handlerVars
<1>5. ASSUME NEW S \in SUBSET stored, StoreRemove(S) PROVE Match'
  BY <1>1, <1>5, QuietMatches DEF StoreRemove, handlerVars
<1>6. ASSUME NEW p \in Proxies, NEW x \in Pool, Refused(p, x) PROVE Match'
  BY <1>1, <1>6, QuietMatches DEF Refused, handlerVars
<1>7. CASE UNCHANGED vars
  BY <1>1, <1>7, QuietMatches DEF vars, handlerVars
<1> QED
  BY <1>2, <1>3, <1>4, <1>5, <1>6, <1>7 DEF Next

\* A fresh process has nothing of any tag.
LEMMA InitMatches == Init => MatchInv
<1> SUFFICES ASSUME Init PROVE Match
  BY InitTyped DEF MatchInv
<1>1. TypeInv
  BY InitTyped
<1>2. \A h \in Handlers : WorkingOn(h) = {} /\ victims[h] = {} /\ pc[h] = "idle"
  BY <1>1, Working DEF Init
<1> QED
  BY <1>2, Ports DEF Init, Match, Apart, StageOK, VictimsOK, Whole, Bound

\* Paired, for any handlers, tags and ports: while no two requests are on one tag, a tag
\* nobody works on has an entry, an outbound, a route and an inbound, or none of them.
THEOREM PairedAlways == Spec => []Paired
<1>1. MatchInv => Paired
  BY DEF MatchInv, Match, Paired, Free, Whole
<1> QED
  BY <1>1, InitMatches, NextMatches, PTL DEF Spec

-----------------------------------------------------------------------------
(* PoolExact.                                                              *)

\* A port nobody uses is given to a new claim.
LEMMA ExactAdds ==
  ASSUME NEW C, NEW u \in [Pool -> Proxies \cup {NoProxy}], Exact(C, u), NEW k, NEW r,
         r.port \in Pool, u[r.port] = NoProxy, r.proxy # NoProxy
  PROVE  Exact(C \cup {<<k, r>>}, [u EXCEPT ![r.port] = r.proxy])
<1> DEFINE D == C \cup {<<k, r>>}
           v == [u EXCEPT ![r.port] = r.proxy]
<1>1. \A d \in D : d \in C \/ (d = <<k, r>> /\ d[2] = r)
  OBVIOUS
<1>2. \A c \in C : c[2].port # r.port
  BY DEF Exact
<1>3. C \subseteq D /\ <<k, r>> \in D /\ <<k, r>>[2] = r
  OBVIOUS
<1>4. v[r.port] = r.proxy /\ \A x \in Pool \ {r.port} : v[x] = u[x]
  OBVIOUS
<1> HIDE DEF D, v
<1>5. Exact(D, v)
  <2>1. \A c \in D : c[2].port \in Pool => v[c[2].port] = c[2].proxy /\ c[2].proxy # NoProxy
    BY <1>1, <1>2, <1>4 DEF Exact
  <2>2. \A c, d \in D : c[2].port = d[2].port /\ c[2].port \in Pool => c = d
    BY <1>1, <1>2 DEF Exact
  <2>3. ASSUME NEW x \in Pool, v[x] # NoProxy PROVE \E c \in D : c[2].port = x
    BY <1>3, <1>4, <2>3 DEF Exact
  <2> QED
    BY <2>1, <2>2, <2>3 DEF Exact
<1> QED
  BY <1>5 DEF D, v

\* A claim on a port outside the pool.
LEMMA ExactOutside ==
  ASSUME NEW C, NEW u, Exact(C, u), NEW k, NEW r, r.port \notin Pool
  PROVE  Exact(C \cup {<<k, r>>}, u)
BY DEF Exact

\* A claim goes, and its port is free.
LEMMA ExactFrees ==
  ASSUME NEW C, NEW u \in [Pool -> Proxies \cup {NoProxy}], Exact(C, u), NEW c \in C
  PROVE  Exact(C \ {c}, [y \in Pool |-> IF y = c[2].port THEN NoProxy ELSE u[y]])
BY DEF Exact

\* A claim on a port outside the pool goes.
LEMMA ExactLeaves ==
  ASSUME NEW C, NEW u, Exact(C, u), NEW c \in C, c[2].port \notin Pool
  PROVE  Exact(C \ {c}, u)
BY DEF Exact

\* Claims pass to another owner.
LEMMA ExactMoves ==
  ASSUME NEW C, NEW u, Exact(C, u), NEW S \in SUBSET C, NEW k, NEW D,
         \A d \in D : d \in C \ S \/ \E c \in S : d = <<k, c[2]>>,
         \A c \in C \ S : c \in D, \A c \in S : <<k, c[2]>> \in D
  PROVE  Exact(D, u)
<1>1. \A d \in D : \E c \in C : c[2] = d[2] /\ (c \in S => d = <<k, c[2]>>) /\ (c \notin S => d = c)
  OBVIOUS
<1>2. ASSUME NEW c \in C PROVE \E d \in D : d[2] = c[2]
  <2>1. CASE c \in S
    <3>1. <<k, c[2]>> \in D /\ <<k, c[2]>>[2] = c[2]
      BY <2>1
    <3> QED
      BY <3>1
  <2>2. CASE c \notin S
    BY <2>2
  <2> QED
    BY <2>1, <2>2
<1>3. ASSUME NEW d \in D, NEW e \in D, d[2].port = e[2].port, d[2].port \in Pool PROVE d = e
  <2>1. PICK c \in C : c[2] = d[2] /\ (c \in S => d = <<k, c[2]>>) /\ (c \notin S => d = c)
    BY <1>1
  <2>2. PICK b \in C : b[2] = e[2] /\ (b \in S => e = <<k, b[2]>>) /\ (b \notin S => e = b)
    BY <1>1
  <2>3. b = c
    BY <1>3, <2>1, <2>2 DEF Exact
  <2> QED
    BY <2>1, <2>2, <2>3
<1> QED
  BY <1>1, <1>2, <1>3 DEF Exact

\* Nobody's key is no other's.
LEMMA LeakKey == Leak # {} /\ \A h : Leak # {h}
<1>1. {} # {{}}
  OBVIOUS
<1> QED
  BY <1>1 DEF Leak

\* Who has a claim.
LEMMA ClaimsAre ==
  \A c : c \in Claims <=>
    \/ \E b \in bindings : c = <<{}, b>>
    \/ \E b \in leaked : c = <<Leak, b>>
    \/ \E h \in Handlers : \E r \in AtHandler(h) : c = <<{h}, r>>
BY DEF Claims

\* A handler's step leaves the others where they are.
LEMMA OthersRest ==
  ASSUME TypeInv, NEW h \in Handlers, CreateStep(h) \/ DeleteStep(h)
  PROVE  \A g \in Handlers \ {h} :
           /\ pc'[g] = pc[g] /\ req'[g] = req[g] /\ victims'[g] = victims[g]
           /\ AtHandler(g)' = AtHandler(g)
<1>1. CASE CreateStep(h)
  <2> DEFINE Rest == victims' = victims /\ \A g \in Handlers \ {h} : pc'[g] = pc[g] /\ req'[g] = req[g]
  <2> USE DEF TypeInv, TypeOK, Goto, Finish, DoneTo
  <2>1. ASSUME \/ \E p \in Proxies, t \in Tags, x \in Named : CreateForProxy(h, p, t, x)
               \/ \E t \in Tags, x \in Named : CreateManual(h, t, x)
               \/ \E S \in SUBSET Proxies : Batch(h, S) \/ Fetch(h, S)
        PROVE  Rest
    BY <2>1 DEF CreateForProxy, CreateManual, Batch, Fetch, Call
  <2>2. ASSUME \/ \E p \in Proxies, x \in Pool : BindNext(h, p, x)
               \/ \E p \in Proxies : NoPortLeft(h, p)
        PROVE  Rest
    BY <2>2 DEF BindNext, NoPortLeft, Call
  <2>3. ASSUME Check(h) \/ CreateOutbound(h) \/ CreateInbound(h) \/ Rollback(h)
        PROVE  Rest
    BY <2>3 DEF Check, CreateOutbound, CreateInbound, Rollback
  <2>4. ASSUME Release(h) \/ BindRoute(h) \/ Record(h) \/ SetLocalPort(h)
        PROVE  Rest
    BY <2>4 DEF Release, BindRoute, Record, SetLocalPort
  <2>5. Rest
    BY <1>1, <2>1, <2>2, <2>3, <2>4 DEF CreateStep
  <2> QED
    BY <2>5 DEF AtHandler, HoldsReq
<1>2. CASE DeleteStep(h)
  <2>1. \A g \in Handlers \ {h} : pc'[g] = pc[g] /\ req'[g] = req[g] /\ victims'[g] = victims[g]
    BY <1>2 DEF TypeInv, TypeOK, DeleteStep, Take, UnbindRoute, RemoveInbound, RemoveOutbound,
       ReleasePort, ClearLocalPort, Goto, GoOn, DoneTo
  <2> QED
    BY <2>1 DEF AtHandler, HoldsReq
<1> QED
  BY <1>1, <1>2

\* A handler gets a claim, or gives one up.
LEMMA ClaimsAdd ==
  ASSUME NEW h \in Handlers, NEW r, UNCHANGED <<bindings, leaked>>, AtHandler(h)' = AtHandler(h) \cup {r},
         \A g \in Handlers \ {h} : AtHandler(g)' = AtHandler(g)
  PROVE  Claims' = Claims \cup {<<{h}, r>>}
BY DEF Claims

\* One claim less.
LEMMA ClaimsDrop ==
  ASSUME NEW h \in Handlers, NEW r, UNCHANGED <<bindings, leaked>>, AtHandler(h)' = AtHandler(h) \ {r},
         r \in AtHandler(h),
         \A g \in Handlers \ {h} : AtHandler(g)' = AtHandler(g)
  PROVE  Claims' = Claims \ {<<{h}, r>>} /\ <<{h}, r>> \in Claims
BY LeakKey DEF Claims

\* The same claims.
LEMMA ClaimsSame ==
  ASSUME UNCHANGED <<bindings, leaked>>, \A g \in Handlers : AtHandler(g)' = AtHandler(g)
  PROVE  Claims' = Claims
BY DEF Claims

\* What no step forgets.
LEMMA CustomStays == ASSUME [Next]_vars, TypeInv, ~custom' PROVE ~custom
<1>1. ASSUME NEW h \in Handlers, CreateStep(h) PROVE ~custom
  <2>1. ASSUME NEW p \in Proxies, NEW t \in Tags, NEW x \in Named, CreateForProxy(h, p, t, x)
        PROVE  ~custom
    BY <2>1 DEF CreateForProxy
  <2>2. ASSUME NEW t \in Tags, NEW x \in Named, CreateManual(h, t, x) PROVE ~custom
    BY <2>2 DEF CreateManual
  <2>3. \/ \E S \in SUBSET Proxies : Batch(h, S) \/ Fetch(h, S)
        \/ \E p \in Proxies : NoPortLeft(h, p)
        \/ \E p \in Proxies, x \in Pool : BindNext(h, p, x)
        \/ Check(h) \/ CreateOutbound(h) \/ CreateInbound(h) \/ Rollback(h)
        \/ Release(h) \/ BindRoute(h) \/ Record(h) \/ SetLocalPort(h)
        => ~custom
    BY DEF Batch, Fetch, NoPortLeft, BindNext, Check, CreateOutbound, CreateInbound, Rollback,
           Release, BindRoute, Record, SetLocalPort, history
  <2> QED
    BY <1>1, <2>1, <2>2, <2>3 DEF CreateStep
<1>2. ASSUME NEW h \in Handlers, DeleteStep(h) PROVE ~custom
  BY <1>2 DEF DeleteStep, Take, UnbindRoute, RemoveInbound, RemoveOutbound, ReleasePort,
              ClearLocalPort, history
<1> QED
  BY <1>1, <1>2 DEF Next, Refused, StoreAdd, StoreRemove, vars, history

\* The bindings of requests that name neither a pool port nor a stored proxy's tag.
LEMMA PlainStays ==
  ASSUME TypeInv, TypeInv', AllPlain, ~custom', NEW h \in Handlers,
         CreateStep(h) \/ DeleteStep(h)
  PROVE  AllPlain'
<1>1. \A g \in Handlers \ {h} : pc'[g] = pc[g] /\ req'[g] = req[g] /\ victims'[g] = victims[g]
  BY OthersRest
<1>2. ASSUME /\ \A b \in bindings' : Plain(b)
             /\ \A v \in victims'[h] : Plain(v)
             /\ pc'[h] \in Creating \cup Deleting => Plain(req'[h])
      PROVE  AllPlain'
  <2>1. ASSUME NEW g \in Handlers
        PROVE  /\ \A v \in victims'[g] : Plain(v)
               /\ pc'[g] \in Creating \cup Deleting => Plain(req'[g])
    BY <1>1, <1>2 DEF AllPlain
  <2> QED
    BY <1>2, <2>1 DEF AllPlain, Plain
<1>3. ASSUME NEW t \in Tags, NEW p, NEW x, Call(h, t, p, x), UNCHANGED <<bindings, victims>>,
             p # NoProxy => t = p, p = NoProxy => t \notin Proxies /\ x \notin Pool
      PROVE  AllPlain'
  <2>1. req'[h] = [tag |-> t, proxy |-> p, port |-> x]
    BY <1>3 DEF Call, TypeInv, TypeOK
  <2> QED
    BY <1>2, <1>3, <2>1 DEF AllPlain, Plain
<1>4. CASE CreateStep(h)
  <2>1. ASSUME NEW p \in Proxies, NEW t \in Tags, NEW x \in Named, CreateForProxy(h, p, t, x)
        PROVE  AllPlain'
    <3>1. t = p /\ p # NoProxy
      BY <2>1, TagsAssumption DEF CreateForProxy, Tags
    <3> QED
      BY <1>3, <2>1, <3>1 DEF CreateForProxy
  <2>2. ASSUME NEW t \in Tags, NEW x \in Named, CreateManual(h, t, x) PROVE AllPlain'
    BY <1>3, <2>2 DEF CreateManual
  <2>3. ASSUME NEW p \in Proxies, NEW x \in Pool, BindNext(h, p, x) PROVE AllPlain'
    <3>1. p # NoProxy /\ p \in Tags
      BY TagsAssumption DEF Tags
    <3> QED
      BY <1>3, <2>3, <3>1 DEF BindNext
  <2>4. \/ \E S \in SUBSET Proxies : Batch(h, S) \/ Fetch(h, S)
        \/ \E p \in Proxies : NoPortLeft(h, p)
        => /\ UNCHANGED <<bindings, victims>>
           /\ pc'[h] \notin Creating \cup Deleting
    BY Ports DEF Batch, Fetch, NoPortLeft, Goto, TypeInv, TypeOK
  <2>5. \/ Check(h) \/ CreateOutbound(h) \/ CreateInbound(h) \/ Rollback(h)
        \/ Release(h) \/ BindRoute(h) \/ Record(h) \/ SetLocalPort(h)
        => /\ UNCHANGED victims /\ pc[h] \in Creating
           /\ pc'[h] \notin Creating \cup Deleting \/ req'[h] = req[h]
           /\ bindings' \subseteq bindings \cup {req[h]}
    BY Ports DEF Check, CreateOutbound, CreateInbound, Rollback, Release, BindRoute, Record,
             SetLocalPort, Goto, Finish, DoneTo, TypeInv, TypeOK, Creating
  <2> QED
    BY <1>2, <1>4, <2>1, <2>2, <2>3, <2>4, <2>5 DEF CreateStep, AllPlain
<1>5. CASE DeleteStep(h)
  <2>1. ASSUME NEW S \in SUBSET bindings, Take(h, S) PROVE AllPlain'
    <3>1. bindings' \subseteq bindings /\ victims'[h] = S /\ pc'[h] \notin Creating \cup Deleting
      BY <2>1, Ports DEF Take, Goto, TypeInv, TypeOK
    <3> QED
      BY <1>2, <3>1 DEF AllPlain
  <2>2. ASSUME NEW b \in victims[h], UnbindRoute(h, b) PROVE AllPlain'
    <3>1. bindings' = bindings /\ victims'[h] \subseteq victims[h] /\ req'[h] = b
      BY <2>2 DEF UnbindRoute, TypeInv, TypeOK
    <3> QED
      BY <1>2, <3>1 DEF AllPlain
  <2>3. RemoveInbound(h) \/ RemoveOutbound(h) \/ ReleasePort(h) \/ ClearLocalPort(h)
        => /\ UNCHANGED <<bindings, victims>> /\ pc[h] \in Deleting
           /\ pc'[h] \notin Creating \cup Deleting \/ req'[h] = req[h]
    BY Ports DEF RemoveInbound, RemoveOutbound, ReleasePort, ClearLocalPort, Goto, GoOn, DoneTo,
             TypeInv, TypeOK, Deleting
  <2> QED
    BY <1>2, <1>5, <2>1, <2>2, <2>3 DEF DeleteStep, AllPlain
<1> QED
  BY <1>4, <1>5

\* A call with a port of the pool, or with one outside it.
LEMMA CallExact ==
  ASSUME TypeInv, TypeInv', Exact(Claims, used), NEW h \in Handlers, NEW t \in Tags, NEW p, NEW x,
         Call(h, t, p, x), pc[h] \in {"idle", "next"}, UNCHANGED <<bindings, victims, leaked>>,
         \/ Allocate(p, x) /\ p # NoProxy
         \/ x \notin Pool /\ used' = used
  PROVE  Exact(Claims, used)'
<1> DEFINE r == [tag |-> t, proxy |-> p, port |-> x]
<1>1. /\ pc'[h] = "check" /\ req'[h] = r /\ victims'[h] = victims[h]
      /\ \A g \in Handlers \ {h} : pc'[g] = pc[g] /\ req'[g] = req[g] /\ victims'[g] = victims[g]
  BY DEF Call, Goto, TypeInv, TypeOK
<1>2. ~HoldsReq(h) /\ HoldsReq(h)'
  BY <1>1 DEF HoldsReq, Creating
<1>3. AtHandler(h)' = AtHandler(h) \cup {r} /\ \A g \in Handlers \ {h} : AtHandler(g)' = AtHandler(g)
  BY <1>1, <1>2 DEF AtHandler, HoldsReq
<1>4. r.port = x /\ r.proxy = p
  OBVIOUS
<1> HIDE DEF r
<1>5. Claims' = Claims \cup {<<{h}, r>>}
  BY <1>3, ClaimsAdd
<1>6. used \in [Pool -> Proxies \cup {NoProxy}]
  BY DEF TypeInv, TypeOK
<1>7. CASE Allocate(p, x) /\ p # NoProxy
  <2>1. x \in Pool /\ used[x] = NoProxy /\ used' = [used EXCEPT ![x] = p]
    BY <1>7 DEF Allocate, Unused
  <2>2. Exact(Claims \cup {<<{h}, r>>}, [used EXCEPT ![r.port] = r.proxy])
    BY <1>4, <1>6, <1>7, <2>1, ExactAdds
  <2>3. Exact(Claims', used')
    BY <1>4, <1>5, <2>1, <2>2
  <2> QED
    BY <2>3 DEF Exact
<1>8. CASE x \notin Pool /\ used' = used
  <2>1. Exact(Claims \cup {<<{h}, r>>}, used)
    BY <1>4, <1>8, ExactOutside
  <2>2. Exact(Claims', used')
    BY <1>5, <1>8, <2>1
  <2> QED
    BY <2>2 DEF Exact
<1> QED
  BY <1>7, <1>8

\* A request that gives up its port, to the pool or to nobody.
LEMMA FreeExact ==
  ASSUME TypeInv, Exact(Claims, used), NEW h \in Handlers, NEW r, r \in AtHandler(h),
         UNCHANGED <<bindings, leaked>>, AtHandler(h)' = AtHandler(h) \ {r},
         \A g \in Handlers \ {h} : AtHandler(g)' = AtHandler(g),
         \/ used' = [y \in Pool |-> IF y = r.port THEN NoProxy ELSE used[y]]
         \/ r.port \notin Pool /\ used' = used
  PROVE  Exact(Claims, used)'
<1>1. Claims' = Claims \ {<<{h}, r>>} /\ <<{h}, r>> \in Claims
  BY ClaimsDrop
<1>2. used \in [Pool -> Proxies \cup {NoProxy}] /\ <<{h}, r>>[2] = r
  BY DEF TypeInv, TypeOK
<1>3. PICK c \in Claims : c = <<{h}, r>>
  BY <1>1
<1>4. Exact(Claims \ {c}, used')
  <2>1. CASE used' = [y \in Pool |-> IF y = r.port THEN NoProxy ELSE used[y]]
    <3>1. Exact(Claims \ {c}, [y \in Pool |-> IF y = c[2].port THEN NoProxy ELSE used[y]])
      BY <1>2, ExactFrees
    <3>2. c[2] = r
      BY <1>2, <1>3
    <3> QED
      BY <2>1, <3>1, <3>2
  <2>2. CASE r.port \notin Pool /\ used' = used
    BY <1>2, <1>3, <2>2, ExactLeaves
  <2> QED
    BY <2>1, <2>2
<1>5. Exact(Claims', used')
  BY <1>1, <1>3, <1>4
<1> QED
  BY <1>5 DEF Exact

\* Every step of a handler keeps the pool exact.
LEMMA ExactStays ==
  ASSUME TypeInv, TypeInv', Match, AllPlain, Exact(Claims, used), ~custom',
         NEW h \in Handlers, CreateStep(h) \/ DeleteStep(h)
  PROVE  Exact(Claims, used)'
<1>1. \A g \in Handlers \ {h} : AtHandler(g)' = AtHandler(g)
  BY OthersRest
<1>0. leaked' = leaked
  <2>1. CreateStep(h) => leaked' = leaked
    BY DEF CreateStep, CreateForProxy, CreateManual, Batch, Fetch, BindNext, NoPortLeft, Check,
       CreateOutbound, CreateInbound, Rollback, Release, BindRoute, Record, SetLocalPort, history
  <2>2. DeleteStep(h) => leaked' = leaked
    BY DEF DeleteStep, Take, UnbindRoute, RemoveInbound, RemoveOutbound, ReleasePort,
       ClearLocalPort, history
  <2> QED
    BY <2>1, <2>2
<1>2. ASSUME used' = used, bindings' = bindings, AtHandler(h)' = AtHandler(h)
      PROVE  Exact(Claims, used)'
  <2>1. Claims' = Claims
    BY <1>0, <1>1, <1>2, ClaimsSame
  <2> QED
    BY <1>2, <2>1 DEF Exact
<1>3. CASE CreateStep(h)
  <2>1. ASSUME NEW p \in Proxies, NEW t \in Tags, NEW x \in Named, CreateForProxy(h, p, t, x)
        PROVE  Exact(Claims, used)'
    <3>1. p # NoProxy /\ pc[h] = "idle" /\ UNCHANGED <<bindings, victims>> /\ Call(h, t, p, x)
      BY <2>1, TagsAssumption DEF CreateForProxy
    <3>2. Allocate(p, x) \/ (x \notin Pool /\ used' = used)
      BY <2>1 DEF CreateForProxy
    <3> QED
      BY <1>0, <3>1, <3>2, CallExact
  <2>2. ASSUME NEW t \in Tags, NEW x \in Named, CreateManual(h, t, x) PROVE Exact(Claims, used)'
    <3>1. pc[h] = "idle" /\ UNCHANGED <<bindings, victims>> /\ Call(h, t, NoProxy, x)
          /\ x \notin Pool /\ used' = used
      BY <2>2 DEF CreateManual
    <3> QED
      BY <1>0, <3>1, CallExact
  <2>3. ASSUME NEW p \in Proxies, NEW x \in Pool, BindNext(h, p, x) PROVE Exact(Claims, used)'
    <3>1. pc[h] = "next" /\ UNCHANGED <<bindings, victims>> /\ Call(h, p, p, x)
          /\ Allocate(p, x) /\ p # NoProxy /\ p \in Tags
      BY <2>3, TagsAssumption DEF BindNext, Tags
    <3> QED
      BY <1>0, <3>1, CallExact
  <2>4. ASSUME \/ \E S \in SUBSET Proxies : Batch(h, S) \/ Fetch(h, S)
               \/ \E p \in Proxies : NoPortLeft(h, p)
        PROVE  Exact(Claims, used)'
    <3>1. UNCHANGED <<bindings, victims, used>> /\ ~HoldsReq(h) /\ ~HoldsReq(h)'
      BY <2>4 DEF Batch, Fetch, NoPortLeft, Goto, TypeInv, TypeOK, HoldsReq, Creating
    <3> QED
      BY <1>2, <3>1 DEF AtHandler
  <2>5. ASSUME Check(h) \/ CreateOutbound(h) \/ CreateInbound(h) \/ Rollback(h) \/ BindRoute(h)
        PROVE  Exact(Claims, used)'
    <3>1. UNCHANGED <<bindings, victims, used, req>> /\ HoldsReq(h) /\ HoldsReq(h)'
      BY <2>5 DEF Check, CreateOutbound, CreateInbound, Rollback, BindRoute, Goto, TypeInv, TypeOK,
                  HoldsReq, Creating
    <3> QED
      BY <1>2, <3>1 DEF AtHandler
  <2>6. ASSUME SetLocalPort(h) PROVE Exact(Claims, used)'
    <3>1. UNCHANGED <<bindings, victims, used>> /\ ~HoldsReq(h) /\ ~HoldsReq(h)'
      BY <2>6 DEF SetLocalPort, Finish, DoneTo, Goto, TypeInv, TypeOK, HoldsReq, Creating
    <3> QED
      BY <1>2, <3>1 DEF AtHandler
  <2>7. ASSUME Release(h) PROVE Exact(Claims, used)'
    <3>1. pc[h] = "release" /\ UNCHANGED <<bindings, victims>> /\ ~HoldsReq(h)' /\ HoldsReq(h)
      BY <2>7 DEF Release, Finish, DoneTo, Goto, TypeInv, TypeOK, HoldsReq, Creating
    <3>2. victims[h] = {} /\ Plain(req[h])
      BY <3>1, Ports DEF TypeInv, AllPlain, Creating, Deleting
    <3>3. PICK r : r = req[h]
      OBVIOUS
    <3>4. r \in AtHandler(h) /\ AtHandler(h)' = AtHandler(h) \ {r}
      BY <3>1, <3>2, <3>3 DEF AtHandler
    <3>5. \/ used' = [y \in Pool |-> IF y = r.port THEN NoProxy ELSE used[y]]
          \/ r.port \notin Pool /\ used' = used
      BY <2>7, <3>2, <3>3 DEF Release, Freed, Plain
    <3> QED
      BY <1>0, <1>1, <3>1, <3>4, <3>5, FreeExact
  <2>8. ASSUME Record(h) PROVE Exact(Claims, used)'
    <3>1. /\ pc[h] = "record" /\ UNCHANGED <<victims, used>> /\ ~HoldsReq(h)' /\ HoldsReq(h)
          /\ bindings' = {b \in bindings : b.tag # req[h].tag} \cup {req[h]}
      BY <2>8 DEF Record, Finish, DoneTo, Goto, TypeInv, TypeOK, HoldsReq, Creating
    <3>2. victims[h] = {} /\ ~Bound(req[h].tag)
      BY <3>1, Ports DEF TypeInv, Match, StageOK, Partly, Creating, Deleting
    <3>3. PICK r : r = req[h]
      OBVIOUS
    <3>4. bindings' = bindings \cup {r} /\ AtHandler(h) = {r} /\ AtHandler(h)' = {}
      BY <3>1, <3>2, <3>3 DEF AtHandler, Bound
    <3>5. Claims' = (Claims \ {<<{h}, r>>}) \cup {<<{}, r>>}
      BY <1>0, <1>1, <3>4, LeakKey DEF Claims
    <3>6. <<{h}, r>> \in Claims
      BY <3>4 DEF Claims
    <3> DEFINE D == (Claims \ {<<{h}, r>>}) \cup {<<{}, r>>}
    <3>7. <<{h}, r>>[2] = r
      OBVIOUS
    <3>8. Exact(D, used)
      <4> DEFINE M == {<<{h}, r>>}
      <4>1. M \in SUBSET Claims
        BY <3>6
      <4>2. \A d \in D : d \in Claims \ M \/ \E c \in M : d = <<{}, c[2]>>
        BY <3>7
      <4>3. (\A c \in Claims \ M : c \in D) /\ \A c \in M : <<{}, c[2]>> \in D
        BY <3>7
      <4> HIDE DEF M, D
      <4> QED
        BY <4>1, <4>2, <4>3, ExactMoves
    <3>9. Exact(Claims', used')
      BY <3>1, <3>5, <3>8
    <3> QED
      BY <3>9 DEF Exact
  <2> QED
    BY <1>3, <2>1, <2>2, <2>3, <2>4, <2>5, <2>6, <2>7, <2>8 DEF CreateStep
<1>4. CASE DeleteStep(h)
  <2>1. ASSUME NEW S \in SUBSET bindings, Take(h, S) PROVE Exact(Claims, used)'
    <3>1. /\ pc[h] = "idle" /\ victims'[h] = S /\ bindings' = bindings \ S /\ used' = used
          /\ ~HoldsReq(h)' /\ ~HoldsReq(h)
      BY <2>1 DEF Take, Goto, TypeInv, TypeOK, HoldsReq, Creating
    <3>2. AtHandler(h) = {} /\ AtHandler(h)' = S
      BY <3>1 DEF TypeInv, AtHandler, Deleting
    <3> DEFINE M == {{}} \X S
    <3>3. \A c \in M : <<{h}, c[2]>> \in {{h}} \X S
      OBVIOUS
    <3>4. Claims' = (Claims \ M) \cup ({{h}} \X S)
      BY <1>0, <1>1, <3>1, <3>2, LeakKey DEF Claims
    <3>5. M \subseteq Claims
      BY DEF Claims
    <3> DEFINE D == (Claims \ M) \cup ({{h}} \X S)
    <3>6. ASSUME NEW d \in {{h}} \X S PROVE \E c \in M : d = <<{h}, c[2]>>
      <4>1. PICK b \in S : d = <<{h}, b>>
        OBVIOUS
      <4>2. <<{}, b>> \in M /\ <<{}, b>>[2] = b
        OBVIOUS
      <4> QED
        BY <4>1, <4>2
    <3>7. Exact(D, used)
      <4>1. \A d \in D : d \in Claims \ M \/ \E c \in M : d = <<{h}, c[2]>>
        BY <3>6
      <4>2. (\A c \in Claims \ M : c \in D) /\ \A c \in M : <<{h}, c[2]>> \in D
        BY <3>3
      <4> HIDE DEF M, D
      <4> QED
        BY <3>5, <4>1, <4>2, ExactMoves
    <3>8. Exact(Claims', used')
      BY <3>1, <3>4, <3>7
    <3> QED
      BY <3>8 DEF Exact
  <2>2. ASSUME NEW b \in victims[h], UnbindRoute(h, b) PROVE Exact(Claims, used)'
    <3>1. /\ pc[h] = "unbind" /\ victims'[h] = victims[h] \ {b} /\ req'[h] = b
          /\ UNCHANGED <<bindings, used>> /\ HoldsReq(h)' /\ ~HoldsReq(h)
      BY <2>2 DEF UnbindRoute, Goto, TypeInv, TypeOK, HoldsReq, Creating
    <3> QED
      BY <1>2, <3>1 DEF AtHandler
  <2>3. ASSUME RemoveInbound(h) \/ RemoveOutbound(h) PROVE Exact(Claims, used)'
    <3>1. UNCHANGED <<bindings, victims, used, req>> /\ HoldsReq(h) /\ HoldsReq(h)'
      BY <2>3 DEF RemoveInbound, RemoveOutbound, Goto, TypeInv, TypeOK, HoldsReq
    <3> QED
      BY <1>2, <3>1 DEF AtHandler
  <2>4. ASSUME ClearLocalPort(h) PROVE Exact(Claims, used)'
    <3>1. UNCHANGED <<bindings, victims, used>> /\ ~HoldsReq(h) /\ ~HoldsReq(h)'
      BY <2>4 DEF ClearLocalPort, GoOn, DoneTo, Goto, TypeInv, TypeOK, HoldsReq, Creating
    <3> QED
      BY <1>2, <3>1 DEF AtHandler
  <2>5. ASSUME ReleasePort(h) PROVE Exact(Claims, used)'
    <3>1. pc[h] = "free" /\ UNCHANGED <<bindings, victims>> /\ ~HoldsReq(h)' /\ HoldsReq(h)
      BY <2>5 DEF ReleasePort, GoOn, DoneTo, Goto, TypeInv, TypeOK, HoldsReq, Creating
    <3>2. \A v \in victims[h] : v # req[h]
      BY <3>1 DEF Match, Apart, Deleting
    <3>3. PICK r : r = req[h]
      OBVIOUS
    <3>4. r \in AtHandler(h) /\ AtHandler(h)' = AtHandler(h) \ {r}
      BY <3>1, <3>2, <3>3 DEF AtHandler
    <3>5. used' = [y \in Pool |-> IF y = r.port THEN NoProxy ELSE used[y]]
      BY <2>5, <3>3 DEF ReleasePort, Freed
    <3> QED
      BY <1>0, <1>1, <3>1, <3>4, <3>5, FreeExact
  <2> QED
    BY <1>4, <2>1, <2>2, <2>3, <2>4, <2>5 DEF DeleteStep
<1> QED
  BY <1>3, <1>4

\* A refused request keeps its port.
LEMMA RefusedExact ==
  ASSUME TypeInv, Exact(Claims, used), NEW p \in Proxies, NEW x \in Pool, Refused(p, x)
  PROVE  Exact(Claims, used)'
<1> DEFINE r == [tag |-> p, proxy |-> p, port |-> x]
<1>1. r.port = x /\ r.proxy = p /\ leaked' = leaked \cup {r}
  BY DEF Refused
<1> HIDE DEF r
<1>2. used[x] = NoProxy /\ used' = [used EXCEPT ![x] = p] /\ p # NoProxy
  BY TagsAssumption DEF Refused, Allocate, Unused, Tags
<1>3. Claims' = Claims \cup {<<Leak, r>>}
  <2>1. bindings' = bindings /\ \A g \in Handlers : AtHandler(g)' = AtHandler(g)
    BY DEF Refused, handlerVars, AtHandler, HoldsReq
  <2> QED
    BY <1>1, <2>1 DEF Claims
<1>4. Exact(Claims \cup {<<Leak, r>>}, [used EXCEPT ![r.port] = r.proxy])
  BY <1>1, <1>2, ExactAdds DEF TypeInv, TypeOK
<1>5. Exact(Claims', used')
  BY <1>1, <1>2, <1>3, <1>4
<1> QED
  BY <1>5 DEF Exact

-----------------------------------------------------------------------------
(* LocalPortTrue.                                                          *)

\* A step that keeps the entries and what is on its way out keeps the reports true.
LEMMA BackedStays ==
  ASSUME NEW p \in Proxies, localPort'[p] = localPort[p], Backed(p), NEW h \in Handlers,
         \A g \in Handlers \ {h} : pc'[g] = pc[g] /\ req'[g] = req[g] /\ victims'[g] = victims[g],
         \A b \in bindings : b.tag = p => b \in bindings' \/ b \in victims'[h],
         \A v \in victims[h] : v.tag = p =>
           v \in victims'[h] \/ (pc'[h] \in Deleting /\ req'[h] = v),
         pc[h] \in Deleting /\ req[h].tag = p => pc'[h] \in Deleting /\ req'[h].tag = p
  PROVE  Backed(p)'
BY DEF Backed

\* Every step of a handler keeps them true.
LEMMA ReportedStays ==
  ASSUME TypeInv, TypeInv', Match, AllPlain, Reported, NEW h \in Handlers,
         CreateStep(h) \/ DeleteStep(h)
  PROVE  Reported'
<1>1. \A g \in Handlers \ {h} : pc'[g] = pc[g] /\ req'[g] = req[g] /\ victims'[g] = victims[g]
  BY OthersRest
<1> SUFFICES ASSUME NEW p \in Proxies, p \notin stale', localPort'[p] # NoPort PROVE Backed(p)'
  BY DEF Reported
<1>2. CASE CreateStep(h)
  <2>1. victims' = victims /\ pc[h] \notin Deleting
    BY <1>2, Ports DEF CreateStep, CreateForProxy, CreateManual, Batch, Fetch, BindNext,
       NoPortLeft, Check, CreateOutbound, CreateInbound, Rollback, Release, BindRoute, Record,
       SetLocalPort, Creating, Deleting
  <2>2. CASE Record(h)
    <3>1. bindings' = {b \in bindings : b.tag # req[h].tag} \cup {req[h]} /\ pc[h] = "record"
          /\ localPort' = localPort /\ stale' = stale
      BY <2>2 DEF Record, storeVars
    <3>2. ~Bound(req[h].tag)
      BY <3>1 DEF Match, StageOK, Partly
    <3>3. \A b \in bindings : b \in bindings'
      BY <3>1, <3>2 DEF Bound
    <3>4. Backed(p)
      BY <3>1 DEF Reported
    <3> QED
      BY <1>1, <2>1, <3>1, <3>3, <3>4, BackedStays
  <2>3. CASE SetLocalPort(h)
    <3>1. /\ bindings' = bindings /\ pc[h] = "tell"
          /\ localPort' = IF req[h].proxy \in stored
                          THEN [localPort EXCEPT ![req[h].proxy] = req[h].port] ELSE localPort
          /\ stale' = IF req[h].proxy \in stored THEN stale \ {req[h].proxy} ELSE stale
      BY <2>3 DEF SetLocalPort, Told
    <3>2. req[h] \in bindings /\ Plain(req[h])
      BY <3>1 DEF Match, StageOK, AllPlain, Creating
    <3>3. CASE p # req[h].proxy \/ p \notin stored
      <4>1. localPort'[p] = localPort[p] /\ p \notin stale
        BY <3>1, <3>3 DEF TypeInv, TypeOK
      <4>2. Backed(p)
        BY <4>1 DEF Reported
      <4> QED
        BY <1>1, <2>1, <3>1, <4>1, <4>2, BackedStays
    <3>4. CASE p = req[h].proxy /\ p \in stored
      <4>1. p = req[h].proxy /\ localPort'[p] = req[h].port
        BY <3>1, <3>4 DEF TypeInv, TypeOK
      <4>2. req[h].tag = p
        BY <3>2, <4>1, TagsAssumption DEF Plain, Tags
      <4>3. \E b \in bindings' : b.tag = p /\ b.port = localPort'[p]
        BY <3>1, <3>2, <4>1, <4>2
      <4> QED
        BY <4>3 DEF Backed
    <3> QED
      BY <3>3, <3>4
  <2>4. CASE ~Record(h) /\ ~SetLocalPort(h)
    <3>1. bindings' = bindings /\ localPort' = localPort /\ stale' = stale
      BY <1>2, <2>4 DEF CreateStep, CreateForProxy, CreateManual, Batch, Fetch, BindNext,
         NoPortLeft, Check, CreateOutbound, CreateInbound, Rollback, Release, BindRoute, storeVars
    <3>2. Backed(p)
      BY <3>1 DEF Reported
    <3> QED
      BY <1>1, <2>1, <3>1, <3>2, BackedStays
  <2> QED
    BY <2>2, <2>3, <2>4
<1>3. CASE DeleteStep(h)
  <2>1. ASSUME NEW S \in SUBSET bindings, Take(h, S) PROVE Backed(p)'
    <3>1. /\ pc[h] = "idle" /\ victims'[h] = S /\ bindings' = bindings \ S
          /\ localPort' = localPort /\ stale' = stale /\ victims[h] = {} /\ pc[h] \notin Deleting
      BY <2>1 DEF Take, TypeInv, TypeOK, storeVars, Deleting
    <3>2. Backed(p)
      BY <3>1 DEF Reported
    <3> QED
      BY <1>1, <3>1, <3>2, BackedStays
  <2>2. ASSUME NEW b \in victims[h], UnbindRoute(h, b) PROVE Backed(p)'
    <3>1. /\ pc[h] = "unbind" /\ victims'[h] = victims[h] \ {b} /\ req'[h] = b
          /\ pc'[h] = "close" /\ bindings' = bindings
          /\ localPort' = localPort /\ stale' = stale
      BY <2>2 DEF UnbindRoute, Goto, TypeInv, TypeOK, storeVars
    <3>2. pc'[h] \in Deleting /\ pc[h] \notin Deleting
      BY <3>1 DEF Deleting
    <3>3. Backed(p)
      BY <3>1 DEF Reported
    <3> QED
      BY <1>1, <3>1, <3>2, <3>3, BackedStays
  <2>3. ASSUME RemoveInbound(h) \/ RemoveOutbound(h) PROVE Backed(p)'
    <3>1. UNCHANGED <<bindings, victims, localPort, stale, req>> /\ pc'[h] \in Deleting
      BY <2>3 DEF RemoveInbound, RemoveOutbound, Goto, TypeInv, TypeOK, Deleting, storeVars
    <3>2. Backed(p)
      BY <3>1 DEF Reported
    <3> QED
      BY <1>1, <3>1, <3>2, BackedStays
  <2>4. ASSUME ReleasePort(h) PROVE Backed(p)'
    <3>1. /\ UNCHANGED <<bindings, victims, localPort, stale>> /\ pc[h] = "free"
          /\ \/ req[h].proxy = NoProxy
             \/ req'[h] = req[h] /\ pc'[h] = "untell"
      BY <2>4 DEF ReleasePort, Goto, TypeInv, TypeOK, storeVars
    <3>2. Plain(req[h])
      BY <3>1 DEF AllPlain, Deleting
    <3>3. req[h].tag = p => pc'[h] \in Deleting /\ req'[h].tag = p
      BY <3>1, <3>2 DEF Plain, Deleting
    <3>4. Backed(p)
      BY <3>1 DEF Reported
    <3> QED
      BY <1>1, <3>1, <3>3, <3>4, BackedStays
  <2>5. ASSUME ClearLocalPort(h) PROVE Backed(p)'
    <3>1. /\ UNCHANGED <<bindings, victims, stored>> /\ pc[h] = "untell"
          /\ localPort' = IF req[h].proxy \in stored
                          THEN [localPort EXCEPT ![req[h].proxy] = NoPort] ELSE localPort
          /\ stale' = IF req[h].proxy \in stored THEN stale \ {req[h].proxy} ELSE stale
      BY <2>5 DEF ClearLocalPort, Told
    <3>2. Plain(req[h])
      BY <3>1 DEF AllPlain, Deleting
    <3>3. p # req[h].proxy
      BY <3>1 DEF TypeInv, TypeOK
    <3>4. req[h].tag # p /\ localPort'[p] = localPort[p] /\ p \notin stale
      BY <3>1, <3>2, <3>3 DEF Plain, TypeInv, TypeOK
    <3>5. Backed(p)
      BY <3>4 DEF Reported
    <3> QED
      BY <1>1, <3>1, <3>4, <3>5, BackedStays
  <2> QED
    BY <1>3, <2>1, <2>2, <2>3, <2>4, <2>5 DEF DeleteStep
<1> QED
  BY <1>2, <1>3

\* The store's other writers, and no step at all.
LEMMA StoreKeeps ==
  ASSUME TypeInv, AllPlain, Exact(Claims, used), Reported,
         UNCHANGED <<used, leaked, bindings, pc, req, victims>>,
         \A p \in Proxies :
           \/ localPort'[p] = localPort[p] /\ (p \in stale => p \in stale')
           \/ localPort'[p] = NoPort
  PROVE  AllPlain' /\ Exact(Claims, used)' /\ Reported'
<1>1. AllPlain'
  BY DEF AllPlain
<1>2. Exact(Claims, used)'
  <2>1. \A g \in Handlers : AtHandler(g)' = AtHandler(g)
    BY DEF AtHandler, HoldsReq
  <2>2. Claims' = Claims
    BY <2>1, ClaimsSame
  <2> QED
    BY <2>2 DEF Exact
<1>3. Reported'
  BY DEF Reported, Backed
<1> QED
  BY <1>1, <1>2, <1>3

\* Every step keeps the pool, the entries and the store in step.
LEMMA NextPools == PoolInv /\ [Next]_vars => PoolInv'
<1> SUFFICES ASSUME PoolInv, [Next]_vars, ~raced', ~custom'
             PROVE  AllPlain' /\ Exact(Claims, used)' /\ Reported'
  BY NextMatches DEF PoolInv
<1>1. TypeInv /\ TypeInv' /\ MatchInv
  BY NextTyped DEF PoolInv, MatchInv
<1>2. ~raced /\ ~custom
  BY <1>1, RacedStays, CustomStays
<1>3. Match /\ AllPlain /\ Exact(Claims, used) /\ Reported
  BY <1>1, <1>2 DEF PoolInv, MatchInv
<1>4. ASSUME NEW h \in Handlers, CreateStep(h) \/ DeleteStep(h)
      PROVE  AllPlain' /\ Exact(Claims, used)' /\ Reported'
  BY <1>1, <1>3, <1>4, PlainStays, ExactStays, ReportedStays
<1>5. ASSUME NEW p \in Proxies, StoreAdd(p)
      PROVE  AllPlain' /\ Exact(Claims, used)' /\ Reported'
  BY <1>1, <1>3, <1>5, StoreKeeps DEF StoreAdd, handlerVars, history
<1>6. ASSUME NEW S \in SUBSET stored, StoreRemove(S)
      PROVE  AllPlain' /\ Exact(Claims, used)' /\ Reported'
  BY <1>1, <1>3, <1>6, StoreKeeps DEF StoreRemove, handlerVars, history, TypeInv, TypeOK
<1>7. ASSUME NEW p \in Proxies, NEW x \in Pool, Refused(p, x)
      PROVE  AllPlain' /\ Exact(Claims, used)' /\ Reported'
  <2>1. AllPlain' /\ Reported'
    BY <1>3, <1>7 DEF Refused, storeVars, handlerVars, AllPlain, Reported, Backed
  <2> QED
    BY <1>1, <1>3, <1>7, <2>1, RefusedExact
<1>8. CASE UNCHANGED vars
  BY <1>1, <1>3, <1>8, StoreKeeps DEF vars, storeVars, handlerVars, history
<1> QED
  BY <1>4, <1>5, <1>6, <1>7, <1>8 DEF Next

\* A fresh process uses no port.
LEMMA InitPools == Init => PoolInv
<1> SUFFICES ASSUME Init PROVE AllPlain /\ Exact(Claims, used) /\ Reported
  BY InitMatches DEF PoolInv
<1>1. bindings = {} /\ leaked = {} /\ \A h \in Handlers : victims[h] = {} /\ pc[h] = "idle"
  BY DEF Init
<1>2. Claims = {}
  BY <1>1 DEF Claims, AtHandler, HoldsReq, Creating
<1> QED
  BY <1>1, <1>2, Ports DEF Init, AllPlain, Exact, Reported

\* PoolExact, for any handlers, tags and ports: the pool holds as used the ports that
\* entries, requests under way and refused requests have, each for the proxy of its entry.
THEOREM PoolExactAlways == Spec => []PoolExact
<1>1. PoolInv => PoolExact
  <2> DEFINE Kept == bindings \cup leaked
  <2> SUFFICES ASSUME PoolInv, ~raced, ~custom
               PROVE  /\ Pool \ Unused =
                           Pool \cap ({b.port : b \in Kept} \cup UNION {Held(h) : h \in Handlers})
                      /\ \A b \in Kept : b.port \in Pool => used[b.port] = b.proxy
    BY DEF PoolExact
  <2>1. Exact(Claims, used) /\ TypeInv
    BY DEF PoolInv, MatchInv
  <2>2. \A h \in Handlers : Held(h) = {r.port : r \in AtHandler(h)}
    BY DEF Held, AtHandler, HoldsReq
  <2>3. ASSUME NEW b \in Kept, b.port \in Pool PROVE used[b.port] = b.proxy /\ b.port \notin Unused
    <3>1. \E k : <<k, b>> \in Claims /\ <<k, b>>[2] = b
      BY DEF Claims
    <3> QED
      BY <2>1, <2>3, <3>1 DEF Exact, Unused
  <2>4. ASSUME NEW h \in Handlers, NEW r \in AtHandler(h), r.port \in Pool PROVE r.port \notin Unused
    <3>1. <<{h}, r>> \in Claims /\ <<{h}, r>>[2] = r
      BY DEF Claims
    <3> QED
      BY <2>1, <2>4, <3>1 DEF Exact, Unused
  <2>5. ASSUME NEW x \in Pool \ Unused
        PROVE  x \in {b.port : b \in Kept} \cup UNION {Held(h) : h \in Handlers}
    <3>1. PICK c \in Claims : c[2].port = x
      BY <2>1 DEF Exact, Unused
    <3>2. (\E b \in Kept : c[2] = b) \/ \E h \in Handlers : \E r \in AtHandler(h) : c = <<{h}, r>>
      BY ClaimsAre
    <3> QED
      BY <2>2, <3>1, <3>2
  <2> QED
    BY <2>2, <2>3, <2>4, <2>5
<1> QED
  BY <1>1, InitPools, NextPools, PTL DEF Spec

\* LocalPortTrue, for any handlers, tags and ports: what the store reports of a proxy
\* nobody works on is the port of its binding.
THEOREM LocalPortTrueAlways == Spec => []LocalPortTrue
<1>1. PoolInv => LocalPortTrue
  <2> SUFFICES ASSUME PoolInv, ~raced, ~custom,
                      NEW p \in Proxies \ (stale \cup UNION {WorkingOn(h) : h \in Handlers}),
                      localPort[p] # NoPort
               PROVE  \E b \in bindings : b.tag = p /\ b.port = localPort[p]
    BY DEF LocalPortTrue
  <2>1. Reported /\ TypeInv
    BY DEF PoolInv, MatchInv
  <2>2. \A h \in Handlers : p \notin WorkingOn(h)
    OBVIOUS
  <2> QED
    BY <2>1, <2>2 DEF Reported, Backed, WorkingOn
<1> QED
  BY <1>1, InitPools, NextPools, PTL DEF Spec
=============================================================================
