-------------------------------- MODULE Auth --------------------------------
(***************************************************************************)
(* Users of the server: logins, sessions, API keys and the cache of        *)
(* authenticated users (src/src/api/auth.rs, src/src/db.rs), the admin's   *)
(* bans and deletions (src/src/api/admin.rs) and the sweeps of main.rs.    *)
(* A handler is several calls to the database, each one step, and nothing  *)
(* holds them together.  A call of two statements may stop after the first *)
(* one (Ban, DeleteUser).                                                  *)
(*                                                                         *)
(* Abstractions.  No call for one user touches the row, the key or the     *)
(* sessions of another, so one user stands for all.  A request that brings *)
(* a key and a session is two requests.  An API key or a session id is a   *)
(* UUID: fresh means that nothing refers to it.  Time is counted in ticks, *)
(* and every time as what is left or past of it, so the clock has no       *)
(* bound; an expired entry of the cache is none.  Delay bounds what passes *)
(* between the first look-up of a request and the moment its result enters *)
(* the cache, as the code has no timeout there.                            *)
(***************************************************************************)
EXTENDS Naturals

CONSTANTS
  Keys,      \* API keys
  Sessions,  \* session ids
  NoKey,     \* the user has no row, hence no key
  Requests,  \* concurrent requests (a bound)
  Logins,    \* concurrent OAuth callbacks (a bound)
  TTL,       \* AUTH_CACHE_TTL, 60 s
  Life,      \* life of a session, 7 days
  Delay      \* longest time from look-up to cache

Creds == Keys \cup Sessions

ASSUME NamesAssumption == Keys \cap Sessions = {} /\ NoKey \notin Creds
ASSUME TimesAssumption == TTL \in Nat \ {0} /\ Life \in Nat \ {0} /\ Delay \in Nat

VARIABLES
  user,      \* users: no row, an active or a banned one
  apiKey,    \* users: api_key
  sessions,  \* sessions: the ids with a row
  life,      \* sessions: the time to expires_at, 0 once it is past
  cache,     \* auth_cache: the time to the end of an entry, 0 for none or expired
  pc,        \* where a request is
  cred,      \* the credential it brought
  taken,     \* the time since it found that credential in the database
  at,        \* where a login is
  key,       \* login: the key it read, or made
  heldAgo,   \* history: the time since a credential was good in the database
  activeAgo, \* history: the time since the user was active
  spared     \* history: the last ban fell into a login, or did not get to the sessions

rows      == <<sessions, life>>
tables    == <<user, apiKey, rows>>
reqVars   == <<pc, cred, taken>>
loginVars == <<at, key>>
past      == <<heldAgo, activeAgo>>
vars == <<tables, cache, reqVars, loginVars, past, spared>>

\* get_cached_user: an entry that has not expired.
Cached(c) == cache[c] > 0

\* get_user_by_api_key or get_session finds it, and a session is not over.
Held(c) == c = apiKey \/ (c \in sessions /\ life[c] > 0)

\* DELETE FROM sessions.
EndSessions(S) ==
  /\ sessions' = sessions \ S
  /\ life' = [s \in Sessions |-> IF s \in S THEN 0 ELSE life[s]]

Fresh(c) ==
  /\ c # apiKey /\ c \notin sessions
  /\ ~Cached(c)
  /\ \A r \in Requests : cred[r] # c
  /\ \A l \in Logins : key[l] # c

-----------------------------------------------------------------------------
(* A request: authenticate_request, or regenerate_key.                     *)

Goto(r, label) == pc' = [pc EXCEPT ![r] = label]

\* A request that the cache answers changes nothing; this one it does not.
Miss(r, c) ==
  /\ pc[r] = "idle"
  /\ ~Cached(c)
  /\ cred' = [cred EXCEPT ![r] = c]
  /\ Goto(r, "find")
  /\ UNCHANGED <<tables, cache, taken, loginVars, spared>>

\* regenerate_key, which does not ask the cache.
Regenerate(r, s) ==
  /\ pc[r] = "idle"
  /\ cred' = [cred EXCEPT ![r] = s]
  /\ Goto(r, "find_to_renew")
  /\ UNCHANGED <<tables, cache, taken, loginVars, spared>>

Ends(r) ==
  /\ Goto(r, "idle")
  /\ cred' = [cred EXCEPT ![r] = NoKey]
  /\ taken' = [taken EXCEPT ![r] = 0]

Goes(r, label) == Goto(r, label) /\ UNCHANGED <<cred, taken>>

\* extract_api_key_user: one look-up finds the key and its user.
FindKey(r) ==
  /\ pc[r] = "find"
  /\ cred[r] \in Keys
  /\ \/ /\ cred[r] = apiKey /\ user = "active"
        /\ Goes(r, "cache")
     \/ (cred[r] # apiKey \/ user # "active") /\ Ends(r)
  /\ UNCHANGED <<tables, cache, loginVars, spared>>

\* extract_session_user: the session first, which is deleted if it is over ...
FindSession(r) ==
  /\ pc[r] \in {"find", "find_to_renew"}
  /\ cred[r] \in Sessions
  /\ \/ /\ Held(cred[r])
        /\ Goes(r, IF pc[r] = "find" THEN "user" ELSE "user_to_renew")
        /\ UNCHANGED rows
     \/ ~Held(cred[r]) /\ Ends(r) /\ EndSessions({cred[r]})
  /\ UNCHANGED <<user, apiKey, cache, loginVars, spared>>

\* Mutant: the user found is not asked for a ban.
FindUser_BanIgnored(r) ==
  /\ pc[r] \in {"user", "user_to_renew"}
  /\ \/ /\ user # "none"
        /\ Goes(r, IF pc[r] = "user" THEN "cache" ELSE "renew")
     \/ user = "none" /\ Ends(r)
  /\ UNCHANGED <<tables, cache, loginVars, spared>>

\* ... then its user ...
FindUser(r) ==
  /\ pc[r] \in {"user", "user_to_renew"}
  /\ \/ /\ user = "active"
        /\ Goes(r, IF pc[r] = "user" THEN "cache" ELSE "renew")
     \/ user = "banned" /\ Goes(r, "purge")
     \/ user = "none" /\ Ends(r)
  /\ UNCHANGED <<tables, cache, loginVars, spared>>

\* ... and a banned one loses all sessions.
Purge(r) ==
  /\ pc[r] = "purge"
  /\ EndSessions(Sessions)
  /\ Ends(r)
  /\ UNCHANGED <<user, apiKey, cache, loginVars, spared>>

\* cache_user, and the request is let in.
CacheUser(r) ==
  /\ pc[r] = "cache"
  /\ cache' = [cache EXCEPT ![cred[r]] = TTL]
  /\ Ends(r)
  /\ UNCHANGED <<tables, loginVars, spared>>

\* Database::regenerate_api_key: no row, no key.
Renew(r, k) ==
  /\ pc[r] = "renew"
  /\ Fresh(k)
  /\ apiKey' = IF user = "none" THEN NoKey ELSE k
  /\ Ends(r)
  /\ UNCHANGED <<user, rows, cache, loginVars, spared>>

-----------------------------------------------------------------------------
(* A login: callback, after the exchange with the OAuth server.            *)

\* The row is read, "to preserve api_key"; a banned user is turned away.
ReadUser(l, k) ==
  /\ at[l] = "idle"
  /\ \/ user = "none" /\ Fresh(k)
     \/ user = "active" /\ k = apiKey
  /\ key' = [key EXCEPT ![l] = k]
  /\ at' = [at EXCEPT ![l] = "upsert"]
  /\ UNCHANGED <<tables, cache, reqVars, spared>>

\* Mutant: a conflict updates api_key as well.
Upsert_Key(l) ==
  /\ at[l] = "upsert"
  /\ user' = IF user = "none" THEN "active" ELSE user
  /\ apiKey' = key[l]
  /\ at' = [at EXCEPT ![l] = "session"]
  /\ UNCHANGED <<rows, cache, reqVars, key, spared>>

\* Mutant: a conflict updates is_banned as well.
Upsert_Ban(l) ==
  /\ at[l] = "upsert"
  /\ user' = "active"
  /\ apiKey' = IF user = "none" THEN key[l] ELSE apiKey
  /\ at' = [at EXCEPT ![l] = "session"]
  /\ UNCHANGED <<rows, cache, reqVars, key, spared>>

\* upsert_user: a row that exists keeps its key and its ban.
Upsert(l) ==
  /\ at[l] = "upsert"
  /\ user' = IF user = "none" THEN "active" ELSE user
  /\ apiKey' = IF user = "none" THEN key[l] ELSE apiKey
  /\ at' = [at EXCEPT ![l] = "session"]
  /\ UNCHANGED <<rows, cache, reqVars, key, spared>>

LoggedIn(l) ==
  /\ at' = [at EXCEPT ![l] = "idle"]
  /\ key' = [key EXCEPT ![l] = NoKey]

\* Mutant: a session lives a tick too long.
CreateSession_Long(l, s) ==
  /\ at[l] = "session"
  /\ user # "none"
  /\ Fresh(s)
  /\ sessions' = sessions \cup {s}
  /\ life' = [life EXCEPT ![s] = Life + 1]
  /\ LoggedIn(l)
  /\ UNCHANGED <<user, apiKey, cache, reqVars, spared>>

\* create_session; the foreign key refuses one of a user that is gone.
CreateSession(l, s) ==
  /\ at[l] = "session"
  /\ user # "none"
  /\ Fresh(s)
  /\ sessions' = sessions \cup {s}
  /\ life' = [life EXCEPT ![s] = Life]
  /\ LoggedIn(l)
  /\ UNCHANGED <<user, apiKey, cache, reqVars, spared>>

NoSession(l) ==
  /\ at[l] = "session"
  /\ user = "none"
  /\ LoggedIn(l)
  /\ UNCHANGED <<tables, cache, reqVars, spared>>

-----------------------------------------------------------------------------
(* The others.                                                             *)

\* logout: the cookie's session, and not the cache.
Logout(s) ==
  /\ s \in sessions
  /\ EndSessions({s})
  /\ UNCHANGED <<user, apiKey, cache, reqVars, loginVars, spared>>

LoggingIn == \E l \in Logins : at[l] # "idle"

\* Mutant: the sessions stay.
Ban_SessionsStay ==
  /\ user # "none"
  /\ user' = "banned"
  /\ \/ UNCHANGED rows /\ spared' = LoggingIn
     \/ UNCHANGED rows /\ spared' = TRUE
  /\ UNCHANGED <<apiKey, cache, reqVars, loginVars>>

\* set_user_banned: two statements and no transaction.  If the second fails, or the
\* process is killed before it, the sessions stay.
Ban ==
  /\ user # "none"
  /\ user' = "banned"
  /\ \/ EndSessions(Sessions) /\ spared' = LoggingIn
     \/ UNCHANGED rows /\ spared' = TRUE
  /\ UNCHANGED <<apiKey, cache, reqVars, loginVars>>

Unban ==
  /\ user = "banned"
  /\ user' = "active"
  /\ UNCHANGED <<apiKey, rows, cache, reqVars, loginVars, spared>>

\* delete_user: the sessions first, and the user may be left.
DeleteUser ==
  /\ user # "none"
  /\ EndSessions(Sessions)
  /\ \/ user' = "none" /\ apiKey' = NoKey
     \/ UNCHANGED <<user, apiKey>>
  /\ UNCHANGED <<cache, reqVars, loginVars, spared>>

\* cleanup_expired_sessions, every 6 hours.
SweepSessions ==
  /\ EndSessions({s \in Sessions : life[s] = 0})
  /\ UNCHANGED <<user, apiKey, cache, reqVars, loginVars, spared>>

\* A new process: the tables stay.
Restart ==
  /\ cache' = [c \in Creds |-> 0]
  /\ pc' = [r \in Requests |-> "idle"]
  /\ at' = [l \in Logins |-> "idle"]
  /\ key' = [l \in Logins |-> NoKey]
  /\ cred' = [r \in Requests |-> NoKey]
  /\ taken' = [r \in Requests |-> 0]
  /\ UNCHANGED <<tables, spared>>

Less(n)  == IF n > 0 THEN n - 1 ELSE 0
Found(r) == pc[r] \in {"user", "cache"}

\* Between its look-up and the cache no request takes longer than Delay.
Tick ==
  /\ \A r \in Requests : Found(r) => taken[r] < Delay
  /\ taken' = [r \in Requests |-> IF Found(r) THEN taken[r] + 1 ELSE taken[r]]
  /\ life' = [s \in Sessions |-> Less(life[s])]
  /\ cache' = [c \in Creds |-> Less(cache[c])]
  /\ UNCHANGED <<user, apiKey, sessions, pc, cred, loginVars, spared>>

-----------------------------------------------------------------------------
Init ==
  /\ user = "none" /\ apiKey = NoKey
  /\ sessions = {} /\ life = [s \in Sessions |-> 0]
  /\ cache = [c \in Creds |-> 0]
  /\ pc = [r \in Requests |-> "idle"]
  /\ cred = [r \in Requests |-> NoKey]
  /\ taken = [r \in Requests |-> 0]
  /\ at = [l \in Logins |-> "idle"]
  /\ key = [l \in Logins |-> NoKey]
  /\ heldAgo = [c \in Creds |-> Delay + TTL]
  /\ activeAgo = Delay + TTL
  /\ spared = FALSE

Request(r) ==
  \/ \E c \in Creds : Miss(r, c)
  \/ \E s \in Sessions : Regenerate(r, s)
  \/ FindKey(r)
  \/ FindSession(r)
  \/ FindUser(r)
  \/ Purge(r)
  \/ CacheUser(r)
  \/ \E k \in Keys : Renew(r, k)

Login(l) ==
  \/ \E k \in Keys : ReadUser(l, k)
  \/ Upsert(l)
  \/ \E s \in Sessions : CreateSession(l, s)
  \/ NoSession(l)

Other ==
  \/ \E s \in Sessions : Logout(s)
  \/ Ban
  \/ Unban
  \/ DeleteUser
  \/ SweepSessions
  \/ Restart

Step == (\E r \in Requests : Request(r)) \/ (\E l \in Logins : Login(l)) \/ Other

\* Counts up to what StaleBounded tells apart.
Later(n, ticks) == IF n + ticks <= Delay + TTL THEN n + ticks ELSE n

\* What the tables have after a step, and how long ago they had it.
Remember(ticks) ==
  /\ heldAgo' = [c \in Creds |-> IF Held(c)' THEN 0 ELSE Later(heldAgo[c], ticks)]
  /\ activeAgo' = IF user' = "active" THEN 0 ELSE Later(activeAgo, ticks)

Next ==
  \/ Step /\ Remember(0)
  \/ Tick /\ Remember(1)

Spec == Init /\ [][Next]_vars

-----------------------------------------------------------------------------
(* Properties.                                                             *)

Labels == {"idle", "find", "find_to_renew", "user", "user_to_renew", "purge", "cache", "renew"}

\* Every variable has its type.
TypeOK ==
  /\ user \in {"none", "active", "banned"}
  /\ apiKey \in Keys \cup {NoKey}
  /\ sessions \in SUBSET Sessions
  /\ life \in [Sessions -> 0 .. Life]
  /\ cache \in [Creds -> 0 .. TTL]
  /\ pc \in [Requests -> Labels]
  /\ cred \in [Requests -> Creds \cup {NoKey}]
  /\ taken \in [Requests -> 0 .. Delay]
  /\ at \in [Logins -> {"idle", "upsert", "session"}]
  /\ key \in [Logins -> Keys \cup {NoKey}]
  /\ heldAgo \in [Creds -> 0 .. Delay + TTL]
  /\ activeAgo \in 0 .. Delay + TTL
  /\ spared \in BOOLEAN

\* auth_cache answers without a look at the database, but not for long: what it lets in
\* was a session or the key of the user, and the user not banned, less than
\* AUTH_CACHE_TTL and one request before, whatever bans, deletions, logouts, new keys
\* and expiries fell in between.
StaleBounded ==
  \A c \in Creds : Cached(c) =>
    /\ heldAgo[c] < Delay + TTL
    /\ activeAgo < Delay + TTL

\* A ban ends every session, and none outlives its user: a login that overlaps a deletion
\* leaves none without a user, and a banned user has sessions only if the last ban fell
\* into a login or stopped between its two statements.  Such a session is harmless while
\* the ban lasts, and good again after an unban.
SessionsEnd ==
  /\ user = "none" => sessions = {}
  /\ user = "banned" /\ ~spared => sessions = {}

\* A login never lifts a ban, also when the ban falls between its reading and its writing:
\* a step that makes a banned user active is no step of a login or a request.
BanHolds ==
  [][user = "banned" /\ user' = "active" => UNCHANGED <<reqVars, loginVars>>]_vars

\* "Check if user exists to preserve api_key" (src/src/api/auth.rs:115): the key of a user
\* changes into another only by the last step of a request that asks for one, also when
\* two first logins run at once, each with a key of its own making.
KeyStable ==
  [][apiKey # apiKey' /\ apiKey # NoKey /\ apiKey' # NoKey =>
       \E r \in Requests : pc[r] = "renew" /\ pc'[r] = "idle"]_vars
=============================================================================
