---------------------------- MODULE BindingApi ----------------------------
(***************************************************************************)
(* What sing-box does with the server's calls POST /bindings and           *)
(* DELETE /bindings/{tag}                                                  *)
(* (sing-box-zenproxy/experimental/clashapi/bindings.go).  A binding is an *)
(* entry of the manager's map, an outbound, an inbound that listens and a  *)
(* route from one to the other; each sits behind a lock of its own and no  *)
(* lock covers a call, so each is a step, and the steps of a call the      *)
(* server gave up on fall between those of the next.                       *)
(*                                                                         *)
(* Abstractions.  The server names the tag, a proxy id, and the port, and  *)
(* no proxy_id, so the process' own PortPool and store take no part.       *)
(* Closing a listener does not fail, and is one step with its removal from *)
(* the inbound manager.  The server makes one call at a time: slot n holds *)
(* the call made when it had given up n, so the call it waits for is in    *)
(* slot timeouts and those it gave up on are below.                        *)
(***************************************************************************)
EXTENDS Naturals, FiniteSets

CONSTANTS
  Proxies,      \* proxy ids, the tags of bindings
  Nobody,       \* no proxy
  Max,          \* config.singbox.max_proxies
  Batch,        \* config.validation.batch_size
  MaxTimeouts   \* bound on the calls that time out or are dropped

ASSUME SizesAssumption ==
  /\ Max \in Nat
  /\ Batch \in Nat
  /\ MaxTimeouts \in Nat

\* PortPool::new is given max_proxies + batch_size ports: offsets 1..=max_ports.
Ports  == 1 .. (Max + Batch)
NoPort == 0
Slots  == 0 .. MaxTimeouts

VARIABLES
  entries,    \* BindingManager.bindings: the tags it has an entry for
  outbounds,  \* outbound manager: the tags that have an outbound
  inbound,    \* inbound manager: the port the inbound of a tag listens on
  routes,     \* router: the tags whose inbound is bound to its outbound
  calls,      \* the call in each slot
  timeouts,   \* how many calls the server gave up on
  mixed       \* history: two calls were at work on one tag at once

resources == <<entries, outbounds, inbound, routes>>
apiVars   == <<resources, calls, mixed>>

CreateStages == {"check", "outbound", "inbound", "undo", "route", "enter"}
RemoveStages == {"drop", "unroute", "close", "unout"}
Ended        == {"done", "failed"}

\* Past the first step, which decides whether there is anything to do.
AtWork == (CreateStages \cup RemoveStages) \ {"check", "drop"}

NoCall == [op |-> "none", proxy |-> Nobody, port |-> NoPort, at |-> "none"]
Creation(p, x) == [op |-> "create", proxy |-> p, port |-> x, at |-> "check"]
Removal(p, x)  == [op |-> "remove", proxy |-> p, port |-> x, at |-> "drop"]

\* The call the server waits for.
Live == calls[timeouts]

Listening(x) == \E p \in Proxies : inbound[p] = x

\* What enters by port x leaves through proxy p.
Forwards(p, x) == inbound[p] = x /\ p \in routes \cap outbounds

At(n, stage) == calls[n].at = stage

\* A call ends in an answer, which only the call the server waits for can give.
Goto(n, stage) ==
  calls' = [calls EXCEPT ![n] =
              IF stage \in Ended /\ n # timeouts THEN NoCall ELSE [@ EXCEPT !.at = stage]]

\* The first step of a call is past: is another at work on its tag?
Enters(n, stage) ==
  /\ Goto(n, stage)
  /\ mixed' = (mixed \/ \E m \in Slots \ {n} :
                 calls[m].proxy = calls[n].proxy /\ calls[m].at \in AtWork)

-----------------------------------------------------------------------------
(* createBindingInternal.                                                  *)

\* Mutant: a binding of the same tag is replaced.
Check_Replaces(n) ==
  /\ At(n, "check")
  /\ \/ Goto(n, "failed") /\ UNCHANGED mixed
     \/ Enters(n, "outbound")
  /\ UNCHANGED resources

\* Under bm.mu: does an entry of the tag exist?  Also an outbound that does not parse.
Check(n) ==
  /\ At(n, "check")
  /\ \/ Goto(n, "failed") /\ UNCHANGED mixed
     \/ calls[n].proxy \notin entries /\ Enters(n, "outbound")
  /\ UNCHANGED resources

\* outbound.Create: replaces an outbound of the same tag.
CreateOutbound(n) ==
  /\ At(n, "outbound")
  /\ \/ Goto(n, "failed") /\ UNCHANGED outbounds
     \/ Goto(n, "inbound") /\ outbounds' = outbounds \cup {calls[n].proxy}
  /\ UNCHANGED <<entries, inbound, routes, mixed>>

\* inboundMgr.Create: starts listening, then closes an inbound of the same tag.
CreateInbound(n) ==
  /\ At(n, "inbound")
  /\ \/ Goto(n, "undo") /\ UNCHANGED inbound
     \/ /\ ~Listening(calls[n].port)
        /\ Goto(n, "route")
        /\ inbound' = [inbound EXCEPT ![calls[n].proxy] = calls[n].port]
  /\ UNCHANGED <<entries, outbounds, routes, mixed>>

\* "Rollback: remove outbound", whoever's it is by now.
Undo(n) ==
  /\ At(n, "undo")
  /\ Goto(n, "failed")
  /\ outbounds' = outbounds \ {calls[n].proxy}
  /\ UNCHANGED <<entries, inbound, routes, mixed>>

BindRoute(n) ==
  /\ At(n, "route")
  /\ Goto(n, "enter")
  /\ routes' = routes \cup {calls[n].proxy}
  /\ UNCHANGED <<entries, outbounds, inbound, mixed>>

\* Under bm.mu: the entry is written, or overwritten, and the answer is 201.
Record(n) ==
  /\ At(n, "enter")
  /\ Goto(n, "done")
  /\ entries' = entries \cup {calls[n].proxy}
  /\ UNCHANGED <<outbounds, inbound, routes, mixed>>

-----------------------------------------------------------------------------
(* deleteBinding, with removeBindingResources.                             *)

\* Under bm.mu: the entry goes first, or there is none and the answer is 404.
DropEntry(n) ==
  /\ At(n, "drop")
  /\ \/ calls[n].proxy \notin entries /\ Goto(n, "failed") /\ UNCHANGED <<entries, mixed>>
     \/ /\ calls[n].proxy \in entries
        /\ Enters(n, "unroute")
        /\ entries' = entries \ {calls[n].proxy}
  /\ UNCHANGED <<outbounds, inbound, routes>>

UnbindRoute(n) ==
  /\ At(n, "unroute")
  /\ Goto(n, "close")
  /\ routes' = routes \ {calls[n].proxy}
  /\ UNCHANGED <<entries, outbounds, inbound, mixed>>

\* Mutant: the resources are looked up by tag again, and the listener is not found.
CloseInbound_NotFound(n) ==
  /\ At(n, "close")
  /\ Goto(n, "unout")
  /\ UNCHANGED <<resources, mixed>>

\* inboundMgr.Remove: the inbound of that tag stops listening, whoever made it.
CloseInbound(n) ==
  /\ At(n, "close")
  /\ Goto(n, "unout")
  /\ inbound' = [inbound EXCEPT ![calls[n].proxy] = NoPort]
  /\ UNCHANGED <<entries, outbounds, routes, mixed>>

\* outbound.Remove, and the answer is 204.
RemoveOutbound(n) ==
  /\ At(n, "unout")
  /\ Goto(n, "done")
  /\ outbounds' = outbounds \ {calls[n].proxy}
  /\ UNCHANGED <<entries, inbound, routes, mixed>>

\* The call in slot n takes its next step.
ApiStep(n) ==
  \/ Check(n) \/ CreateOutbound(n) \/ CreateInbound(n) \/ Undo(n) \/ BindRoute(n) \/ Record(n)
  \/ DropEntry(n) \/ UnbindRoute(n) \/ CloseInbound(n) \/ RemoveOutbound(n)

-----------------------------------------------------------------------------
(* The server's side of a call.                                            *)

\* The server sends a call, and waits for it.
Ask(call) == calls' = [calls EXCEPT ![timeouts] = call]

\* It has the answer ...
Answered ==
  /\ Live.at \in Ended
  /\ calls' = [calls EXCEPT ![timeouts] = NoCall]
  /\ UNCHANGED timeouts

\* ... or stops waiting: 10 s have passed, the connection broke or the caller is gone.
\* sing-box may still be at the call, or never have had it.
GivenUp ==
  /\ Live # NoCall
  /\ timeouts < MaxTimeouts
  /\ timeouts' = timeouts + 1
  /\ calls' = IF Live.at \in Ended THEN [calls EXCEPT ![timeouts] = NoCall] ELSE calls

-----------------------------------------------------------------------------
Calls == {NoCall} \cup
  [op : {"create"}, proxy : Proxies, port : Ports, at : CreateStages \cup Ended] \cup
  [op : {"remove"}, proxy : Proxies, port : Ports, at : RemoveStages \cup Ended]

ApiTypeOK ==
  /\ entries \in SUBSET Proxies
  /\ outbounds \in SUBSET Proxies
  /\ inbound \in [Proxies -> Ports \cup {NoPort}]
  /\ routes \in SUBSET Proxies
  /\ calls \in [Slots -> Calls]
  /\ timeouts \in Slots
  /\ mixed \in BOOLEAN
  /\ \A n \in Slots : n > timeouts => calls[n] = NoCall
=============================================================================
