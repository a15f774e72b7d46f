----------------------------- MODULE AuthProofs -----------------------------
(***************************************************************************)
(* Proofs about Auth, for every number of requests and logins at once,     *)
(* every set of credentials and all times.                                 *)
(***************************************************************************)
EXTENDS Auth, TLAPS

\* The startup state.
LEMMA InitTyped == Init => TypeOK
<1> SUFFICES ASSUME Init PROVE TypeOK
  OBVIOUS
<1>1. pc \in [Requests -> Labels]
  BY DEF Init, Labels
<1>2. heldAgo \in [Creds -> 0 .. Delay + TTL] /\ activeAgo \in 0 .. Delay + TTL
  BY TimesAssumption DEF Init
<1>3. life \in [Sessions -> 0 .. Life] /\ cache \in [Creds -> 0 .. TTL]
      /\ taken \in [Requests -> 0 .. Delay]
  BY TimesAssumption DEF Init
<1> QED
  BY <1>1, <1>2, <1>3 DEF Init, TypeOK

\* What a step remembers has its type.
LEMMA RememberTyped ==
  ASSUME TypeOK, NEW ticks \in {0, 1}, Remember(ticks)
  PROVE  heldAgo' \in [Creds -> 0 .. Delay + TTL] /\ activeAgo' \in 0 .. Delay + TTL
<1>1. \A n \in 0 .. Delay + TTL : Later(n, ticks) \in 0 .. Delay + TTL
  BY TimesAssumption DEF Later
<1>2. 0 \in 0 .. Delay + TTL
  BY TimesAssumption
<1> QED
  BY <1>1, <1>2 DEF Remember, TypeOK

TablesTyped ==
  /\ user \in {"none", "active", "banned"}
  /\ apiKey \in Keys \cup {NoKey}
  /\ sessions \in SUBSET Sessions
  /\ life \in [Sessions -> 0 .. Life]
  /\ cache \in [Creds -> 0 .. TTL]
  /\ pc \in [Requests -> Labels]
  /\ cred \in [Requests -> Creds \cup {NoKey}]
  /\ taken \in [Requests -> 0 .. Delay]
  /\ at \in [Logins -> {"idle", "upsert", "session"}]
  /\ key \in [Logins -> Keys \cup {NoKey}]
  /\ spared \in BOOLEAN

\* Sessions that end leave typed rows.
LEMMA EndTyped ==
  ASSUME TablesTyped, NEW S, EndSessions(S)
  PROVE  sessions' \in SUBSET Sessions /\ life' \in [Sessions -> 0 .. Life]
BY TimesAssumption DEF TablesTyped, EndSessions

\* Every step of a request keeps the types.
LEMMA RequestTyped ==
  ASSUME TablesTyped, NEW r \in Requests, Request(r)
  PROVE  TablesTyped'
<1> USE TimesAssumption DEF TablesTyped, tables, rows, loginVars, Goto, Goes, Ends
<1>0. \A s \in Sessions : s \in Creds
  BY DEF Creds
<1>1. ASSUME NEW c \in Creds, Miss(r, c) PROVE TablesTyped'
  BY <1>1 DEF Miss, Labels
<1>2. ASSUME NEW s \in Sessions, Regenerate(r, s) PROVE TablesTyped'
  BY <1>0, <1>2 DEF Regenerate, Labels
<1>3. CASE FindKey(r)
  BY <1>3 DEF FindKey, Labels
<1>4. CASE FindSession(r)
  BY <1>4, EndTyped DEF FindSession, Labels
<1>5. CASE FindUser(r)
  BY <1>5 DEF FindUser, Labels
<1>6. CASE Purge(r)
  <2>1. sessions' \in SUBSET Sessions /\ life' \in [Sessions -> 0 .. Life]
    BY <1>6, EndTyped DEF Purge
  <2> QED
    BY <1>6, <2>1 DEF Purge, Labels
<1>7. CASE CacheUser(r)
  <2>1. TTL \in 0 .. TTL /\ 0 \in 0 .. Delay
    OBVIOUS
  <2>2. cache' \in [Creds -> 0 .. TTL]
    BY <1>7, <2>1 DEF CacheUser
  <2> QED
    BY <1>7, <2>1, <2>2 DEF CacheUser, Labels
<1>8. ASSUME NEW k \in Keys, Renew(r, k) PROVE TablesTyped'
  BY <1>8 DEF Renew, Labels
<1> QED
  BY <1>1, <1>2, <1>3, <1>4, <1>5, <1>6, <1>7, <1>8 DEF Request

\* Every step of a login keeps the types.
LEMMA LoginTyped ==
  ASSUME TablesTyped, NEW l \in Logins, Login(l)
  PROVE  TablesTyped'
<1> USE TimesAssumption DEF TablesTyped, tables, rows, reqVars, LoggedIn
<1>1. ASSUME NEW k \in Keys, ReadUser(l, k) PROVE TablesTyped'
  BY <1>1 DEF ReadUser
<1>2. CASE Upsert(l)
  BY <1>2 DEF Upsert
<1>3. ASSUME NEW s \in Sessions, CreateSession(l, s) PROVE TablesTyped'
  BY <1>3 DEF CreateSession
<1>4. CASE NoSession(l)
  BY <1>4 DEF NoSession
<1> QED
  BY <1>1, <1>2, <1>3, <1>4 DEF Login

\* A logout, the admin, the sweep and a restart keep the types.
LEMMA OtherTyped ==
  ASSUME TablesTyped, Other
  PROVE  TablesTyped'
<1> USE TimesAssumption DEF TablesTyped, tables, rows, reqVars, loginVars
<1>1. CASE (\E s \in Sessions : Logout(s)) \/ Ban \/ DeleteUser \/ SweepSessions
  BY <1>1, EndTyped DEF Logout, Ban, DeleteUser, SweepSessions, LoggingIn
<1>2. CASE Unban
  BY <1>2 DEF Unban
<1>3. CASE Restart
  BY <1>3 DEF Restart, Labels
<1> QED
  BY <1>1, <1>2, <1>3 DEF Other

\* So does the clock.
LEMMA TickTyped ==
  ASSUME TablesTyped, Tick
  PROVE  TablesTyped'
<1> USE TimesAssumption DEF TablesTyped, Tick, Less, loginVars
<1>1. taken' \in [Requests -> 0 .. Delay]
  OBVIOUS
<1>2. life' \in [Sessions -> 0 .. Life] /\ cache' \in [Creds -> 0 .. TTL]
  OBVIOUS
<1> QED
  BY <1>1, <1>2

\* TypeOK is inductive.
LEMMA NextTyped == TypeOK /\ [Next]_vars => TypeOK'
<1> SUFFICES ASSUME TypeOK, [Next]_vars PROVE TypeOK'
  OBVIOUS
<1>1. CASE UNCHANGED vars
  BY <1>1 DEF TypeOK, vars, tables, rows, reqVars, loginVars, past
<1>2. CASE Next
  <2>1. TablesTyped
    BY DEF TypeOK, TablesTyped
  <2>2. TablesTyped'
    BY <1>2, <2>1, RequestTyped, LoginTyped, OtherTyped, TickTyped DEF Next, Step
  <2>3. heldAgo' \in [Creds -> 0 .. Delay + TTL] /\ activeAgo' \in 0 .. Delay + TTL
    BY <1>2, RememberTyped DEF Next
  <2> QED
    BY <2>2, <2>3 DEF TypeOK, TablesTyped
<1> QED
  BY <1>1, <1>2

\* Every variable keeps its type: no session lives longer, and no entry of the cache lasts
\* longer, than they may.
THEOREM TypeCorrect == Spec => []TypeOK
<1> QED
  BY InitTyped, NextTyped, PTL DEF Spec

-----------------------------------------------------------------------------
(* StaleBounded.  What a request has found was true no longer ago than it  *)
(* takes, and what the cache holds no longer ago than that and its age.    *)

FoundLately ==
  \A r \in Requests :
    /\ pc[r] # "idle" => cred[r] \in Creds
    /\ pc[r] \in {"user", "cache"} => heldAgo[cred[r]] <= taken[r]
    /\ pc[r] = "cache" => activeAgo <= taken[r]

CachedLately ==
  \A c \in Creds : Cached(c) =>
    /\ heldAgo[c] + cache[c] <= Delay + TTL
    /\ activeAgo + cache[c] <= Delay + TTL

StaleInv == TypeOK /\ FoundLately /\ CachedLately

\* A step that takes no time makes nothing longer ago, and what the tables have, now.
LEMMA RememberNow ==
  ASSUME TypeOK, Remember(0)
  PROVE  /\ \A c \in Creds : heldAgo'[c] <= heldAgo[c] /\ (Held(c)' => heldAgo'[c] = 0)
         /\ activeAgo' <= activeAgo /\ (user' = "active" => activeAgo' = 0)
<1>1. \A n \in 0 .. Delay + TTL : Later(n, 0) = n
  BY TimesAssumption DEF Later
<1> QED
  BY <1>1, TimesAssumption DEF Remember, TypeOK

\* A tick makes nothing longer ago than a tick.
LEMMA RememberTick ==
  ASSUME TypeOK, Remember(1)
  PROVE  (\A c \in Creds : heldAgo'[c] <= heldAgo[c] + 1) /\ activeAgo' <= activeAgo + 1
<1>1. \A n \in 0 .. Delay + TTL : Later(n, 1) <= n + 1
  BY TimesAssumption DEF Later
<1> QED
  BY <1>1, TimesAssumption DEF Remember, TypeOK

\* The look-ups of a request find what the tables have.
LEMMA RequestFound ==
  ASSUME StaleInv, NEW r \in Requests, Request(r), Remember(0), TypeOK'
  PROVE  FoundLately'
<1> USE DEF StaleInv, TypeOK, Goto, Goes, Ends, Labels
<1>0. /\ \A c \in Creds : heldAgo'[c] <= heldAgo[c] /\ (Held(c)' => heldAgo'[c] = 0)
      /\ activeAgo' <= activeAgo /\ (user' = "active" => activeAgo' = 0)
  BY RememberNow
<1>1. /\ \A q \in Requests \ {r} : pc'[q] = pc[q] /\ cred'[q] = cred[q] /\ taken'[q] = taken[q]
      /\ taken'[r] \in {taken[r], 0}
  BY DEF Request, Miss, Regenerate, FindKey, FindSession, FindUser, Purge, CacheUser, Renew
<1>2. ASSUME NEW q \in Requests \ {r}
      PROVE  /\ pc'[q] # "idle" => cred'[q] \in Creds
             /\ pc'[q] \in {"user", "cache"} => heldAgo'[cred'[q]] <= taken'[q]
             /\ pc'[q] = "cache" => activeAgo' <= taken'[q]
  BY <1>0, <1>1, TimesAssumption DEF FoundLately
<1>3. pc'[r] # "idle" => cred'[r] \in Creds
  BY DEF FoundLately, Creds, Request, Miss, Regenerate, FindKey, FindSession, FindUser, Purge,
         CacheUser, Renew
<1>4. pc'[r] = "user" => pc[r] = "find" /\ Held(cred[r])' /\ cred'[r] = cred[r]
  BY DEF Held, rows, Request, Miss, Regenerate, FindKey, FindSession, FindUser, Purge, CacheUser,
         Renew
<1>5. pc'[r] = "cache" => /\ user' = "active" /\ cred'[r] = cred[r] /\ taken'[r] = taken[r]
                          /\ Held(cred[r])' \/ pc[r] = "user"
  BY DEF Held, tables, rows, Request, Miss, Regenerate, FindKey, FindSession, FindUser, Purge,
         CacheUser, Renew
<1>6. pc'[r] \in {"user", "cache"} => heldAgo'[cred'[r]] <= taken'[r]
  BY <1>0, <1>1, <1>3, <1>4, <1>5, TimesAssumption DEF FoundLately
<1>7. pc'[r] = "cache" => activeAgo' <= taken'[r]
  BY <1>0, <1>5, TimesAssumption
<1> QED
  BY <1>2, <1>3, <1>6, <1>7 DEF FoundLately

\* An entry of the cache is what a request found.
LEMMA RequestCached ==
  ASSUME StaleInv, NEW r \in Requests, Request(r), Remember(0), TypeOK'
  PROVE  CachedLately'
<1> USE DEF StaleInv, TypeOK, Labels
<1>0. (\A c \in Creds : heldAgo'[c] <= heldAgo[c]) /\ activeAgo' <= activeAgo
  BY RememberNow
<1>1. CASE CacheUser(r)
  <2>1. /\ cred[r] \in Creds /\ heldAgo[cred[r]] <= Delay /\ activeAgo <= Delay
        /\ cache' = [cache EXCEPT ![cred[r]] = TTL]
    BY <1>1, TimesAssumption DEF CacheUser, FoundLately
  <2> QED
    BY <1>0, <2>1, TimesAssumption DEF CachedLately, Cached
<1>2. CASE cache' = cache
  BY <1>0, <1>2, TimesAssumption DEF CachedLately, Cached
<1> QED
  BY <1>1, <1>2
  DEF Request, Miss, Regenerate, FindKey, FindSession, FindUser, Purge, Renew

\* StaleInv is inductive.
LEMMA NextStale == StaleInv /\ [Next]_vars => StaleInv'
<1> SUFFICES ASSUME StaleInv, [Next]_vars PROVE FoundLately' /\ CachedLately'
  BY NextTyped DEF StaleInv
<1>0. TypeOK /\ TypeOK'
  BY NextTyped DEF StaleInv
<1>1. CASE UNCHANGED vars
  BY <1>1 DEF StaleInv, FoundLately, CachedLately, Cached, vars, reqVars, past
<1>2. ASSUME NEW r \in Requests, Request(r), Remember(0) PROVE FoundLately' /\ CachedLately'
  BY <1>0, <1>2, RequestFound, RequestCached
<1>3. CASE Remember(0) /\ (Other \/ \E l \in Logins : Login(l))
  <2>0. (\A c \in Creds : heldAgo'[c] <= heldAgo[c]) /\ activeAgo' <= activeAgo
    BY <1>0, <1>3, RememberNow
  <2>1. CASE Restart
    BY <2>1 DEF Restart, FoundLately, CachedLately, Cached
  <2>2. CASE UNCHANGED <<cache, reqVars>>
    BY <1>0, <2>0, <2>2, TimesAssumption
    DEF StaleInv, FoundLately, CachedLately, Cached, reqVars, TypeOK
  <2> QED
    BY <1>3, <2>1, <2>2 DEF Other, Login, ReadUser, Upsert, CreateSession, NoSession, Logout,
                            Ban, Unban, DeleteUser, SweepSessions
<1>4. CASE Tick /\ Remember(1)
  <2>0. (\A c \in Creds : heldAgo'[c] <= heldAgo[c] + 1) /\ activeAgo' <= activeAgo + 1
    BY <1>0, <1>4, RememberTick
  <2>1. FoundLately'
    <3>1. \A r \in Requests :
            pc'[r] = pc[r] /\ cred'[r] = cred[r] /\ (Found(r) => taken'[r] = taken[r] + 1)
      BY <1>0, <1>4 DEF Tick, TypeOK
    <3> QED
      BY <1>0, <2>0, <3>1 DEF StaleInv, FoundLately, Found, TypeOK
  <2>2. CachedLately'
    <3>1. \A c \in Creds : cache'[c] > 0 => cache[c] > 0 /\ cache'[c] = cache[c] - 1
      BY <1>0, <1>4 DEF Tick, Less, TypeOK
    <3> QED
      BY <1>0, <2>0, <3>1, TimesAssumption DEF StaleInv, CachedLately, Cached, TypeOK
  <2> QED
    BY <2>1, <2>2
<1> QED
  BY <1>1, <1>2, <1>3, <1>4 DEF Next, Step

\* The cache lets in for less than AUTH_CACHE_TTL and one request what the tables do not.
THEOREM StaleBoundedAlways == Spec => []StaleBounded
<1>1. Init => StaleInv
  BY InitTyped DEF StaleInv, FoundLately, CachedLately, Cached, Init
<1>2. StaleInv /\ [Next]_vars => StaleInv'
  BY NextStale
<1>3. StaleInv => StaleBounded
  BY TimesAssumption DEF StaleInv, CachedLately, StaleBounded, Cached, TypeOK
<1> QED
  BY <1>1, <1>2, <1>3, PTL DEF Spec

-----------------------------------------------------------------------------
(* SessionsEnd, KeyStable and BanHolds.                                    *)

\* A user without a row has no key, and a login that read its user before a ban is known.
LoginInv ==
  /\ TypeOK
  /\ user = "none" => apiKey = NoKey
  /\ user = "banned" /\ ~spared => \A l \in Logins : at[l] = "idle"
  /\ SessionsEnd

\* LoginInv is inductive.
LEMMA NextLogin == LoginInv /\ [Next]_vars => LoginInv'
<1> SUFFICES ASSUME LoginInv, [Next]_vars PROVE LoginInv'
  OBVIOUS
<1>0. TypeOK /\ TypeOK'
  BY NextTyped DEF LoginInv
<1> USE <1>0 DEF LoginInv, SessionsEnd, tables, rows, reqVars, loginVars, EndSessions
<1>1. CASE UNCHANGED vars
  BY <1>1 DEF vars
<1>2. ASSUME NEW r \in Requests, Request(r) PROVE LoginInv'
  <2>1. UNCHANGED <<user, at, spared>> /\ sessions' \subseteq sessions
    BY <1>2 DEF Request, Miss, Regenerate, FindKey, FindSession, FindUser, Purge, CacheUser, Renew
  <2>2. user = "none" => apiKey' = NoKey
    BY <1>2 DEF Request, Miss, Regenerate, FindKey, FindSession, FindUser, Purge, CacheUser, Renew
  <2> QED
    BY <2>1, <2>2
<1>3. ASSUME NEW l \in Logins, Login(l) PROVE LoginInv'
  <2>1. CASE \E k \in Keys : ReadUser(l, k)
    BY <2>1 DEF ReadUser, TypeOK
  <2>2. CASE Upsert(l)
    BY <2>2 DEF Upsert, TypeOK
  <2>3. CASE \E s \in Sessions : CreateSession(l, s)
    BY <2>3 DEF CreateSession, LoggedIn, TypeOK
  <2>4. CASE NoSession(l)
    BY <2>4 DEF NoSession, LoggedIn, TypeOK
  <2> QED
    BY <1>3, <2>1, <2>2, <2>3, <2>4 DEF Login
<1>4. CASE Other
  <2>1. CASE (\E s \in Sessions : Logout(s)) \/ SweepSessions
    BY <2>1 DEF Logout, SweepSessions
  <2>2. CASE Ban
    BY <2>2 DEF Ban, LoggingIn, TypeOK
  <2>3. CASE Unban \/ DeleteUser
    BY <2>3 DEF Unban, DeleteUser, TypeOK
  <2>4. CASE Restart
    BY <2>4 DEF Restart
  <2> QED
    BY <1>4, <2>1, <2>2, <2>3, <2>4 DEF Other
<1>5. CASE Tick
  BY <1>5 DEF Tick
<1> QED
  BY <1>1, <1>2, <1>3, <1>4, <1>5 DEF Next, Step

\* The startup state has no user.
LEMMA InitLogin == Init => LoginInv
BY InitTyped DEF LoginInv, SessionsEnd, Init

\* No session outlives its user, and none a ban, unless the user was logging in.
THEOREM SessionsEndAlways == Spec => []SessionsEnd
<1>1. LoginInv => SessionsEnd
  BY DEF LoginInv
<1> QED
  BY <1>1, InitLogin, NextLogin, PTL DEF Spec

\* Two logins that run at once leave one key, the one that was written first.
THEOREM KeyStableAlways == Spec => KeyStable
<1>1. LoginInv /\ [Next]_vars =>
        [apiKey # apiKey' /\ apiKey # NoKey /\ apiKey' # NoKey =>
           \E r \in Requests : pc[r] = "renew" /\ pc'[r] = "idle"]_vars
  <2> SUFFICES ASSUME LoginInv, Next, apiKey # apiKey', apiKey # NoKey, apiKey' # NoKey
               PROVE  \E r \in Requests : pc[r] = "renew" /\ pc'[r] = "idle"
    OBVIOUS
  <2>1. ASSUME NEW r \in Requests, Request(r) PROVE pc[r] = "renew" /\ pc'[r] = "idle"
    BY <2>1 DEF LoginInv, TypeOK, Request, Miss, Regenerate, FindKey, FindSession, FindUser,
                Purge, CacheUser, Renew, Goto, Ends, tables
  <2>2. CASE \E l \in Logins : Login(l)
    BY <2>2 DEF LoginInv, Login, ReadUser, Upsert, CreateSession, NoSession, tables
  <2>3. CASE Other \/ Tick
    BY <2>3 DEF Other, Logout, Ban, Unban, DeleteUser, SweepSessions, Restart, Tick, tables
  <2> QED
    BY <2>1, <2>2, <2>3 DEF Next, Step
<1> QED
  BY <1>1, InitLogin, NextLogin, PTL DEF Spec, KeyStable

\* Only the admin lifts a ban.
THEOREM BanHoldsAlways == Spec => BanHolds
<1>1. [Next]_vars => [user = "banned" /\ user' = "active" => UNCHANGED <<reqVars, loginVars>>]_vars
  <2> SUFFICES ASSUME Next, user = "banned", user' = "active"
               PROVE  UNCHANGED <<reqVars, loginVars>>
    OBVIOUS
  <2>1. ASSUME NEW r \in Requests, Request(r) PROVE FALSE
    BY <2>1 DEF Request, Miss, Regenerate, FindKey, FindSession, FindUser, Purge, CacheUser,
                Renew, tables
  <2>2. ASSUME NEW l \in Logins, Login(l) PROVE FALSE
    BY <2>2 DEF Login, ReadUser, Upsert, CreateSession, NoSession, tables
  <2>3. CASE Other
    BY <2>3 DEF Other, Logout, Ban, Unban, DeleteUser, SweepSessions, Restart, tables
  <2>4. CASE Tick
    BY <2>4 DEF Tick
  <2> QED
    BY <2>1, <2>2, <2>3, <2>4 DEF Next, Step
<1> QED
  BY <1>1, PTL DEF Spec, BanHolds
=============================================================================
