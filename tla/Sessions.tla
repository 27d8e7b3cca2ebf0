------------------------------ MODULE Sessions ------------------------------
(***************************************************************************)
(* One session of a user: the refresh token that is exchanged for a new    *)
(* one again and again (auth.service.ts, session.repository.ts), its       *)
(* revocation, and the three caches from which AccessTokenGuard may learn  *)
(* that the session is alive: SessionCacheService's map in each process,   *)
(* Redis, and RedisService's own map, which stands in when Redis fails.    *)
(*                                                                         *)
(* A session has a token family of its own, so the family is the session.  *)
(* Tokens are numbered in the order of their issue.  The second gate that  *)
(* a role change closes, authz_version, is not modelled, nor is the expiry *)
(* of the session after 30 days.                                           *)
(***************************************************************************)
EXTENDS Integers, FiniteSets

CONSTANTS
  Processes,     \* server processes
  Calls,         \* calls that may be under way at once
  Home,          \* the process that serves each call
  MaxToken       \* bound: the number of the last token that is issued

ASSUME SessionAssumption == MaxToken \in Nat \ {0} /\ Home \in [Calls -> Processes]

VARIABLES
  session,    \* the sessions row; fresh: its token is at most 10 seconds old
  history,    \* refresh_token_history: exchanged tokens and what replaced them
  jar,        \* the refresh cookie of the browser, 0 when there is none
  local,      \* processes whose SessionCacheService holds the session
  fallback,   \* processes whose RedisService holds it in its own map
  redis,      \* whether Redis holds it
  calls

vars == <<session, history, jar, local, fallback, redis, calls>>

caches == <<local, fallback, redis>>

Idle == [at |-> "idle", kind |-> "none", token |-> 0, bound |-> FALSE, next |-> 0, owes |-> FALSE]

Init ==
  /\ session = [token |-> 1, parent |-> 0, revoked |-> FALSE, fresh |-> TRUE]
  /\ history = {}
  /\ jar = 1
  /\ local = {} /\ fallback = {} /\ redis = FALSE
  /\ calls = [c \in Calls |-> Idle]

At(c, point) == calls[c].at = point

Set(c, call) == calls' = [calls EXCEPT ![c] = call]

Goto(c, point) == Set(c, [calls[c] EXCEPT !.at = point])

Start(c, call) == At(c, "idle") /\ Set(c, call) /\ UNCHANGED <<session, history, jar, caches>>

-----------------------------------------------------------------------------
(* POST /auth/refresh carries the cookie the browser has now, and the      *)
(* client cookie unless the browser has dropped that one.                  *)
StartRefresh(c) ==
  /\ jar # 0
  /\ \E bound \in BOOLEAN :
       Start(c, [Idle EXCEPT !.at = "lookup", !.kind = "refresh", !.token = jar, !.bound = bound])

(* findByRefreshHash finds a revoked session too.  Without its client      *)
(* secret a refresh revokes the session.                                   *)
Lookup(c) ==
  /\ At(c, "lookup")
  /\ Goto(c, IF session.token # calls[c].token THEN "consumed"
             ELSE IF calls[c].bound THEN "rotate" ELSE "list")
  /\ UNCHANGED <<session, history, jar, caches>>

(* What the transaction of rotateRefreshToken reads.                       *)
RotateRead(c) ==
  /\ At(c, "rotate")
  /\ Goto(c, IF session.token # calls[c].token \/ session.revoked THEN "consumed" ELSE "commit")
  /\ UNCHANGED <<session, history, jar, caches>>

(* Mutant: the row is written back as it was read.                         *)
Exchange_WholeRow(c) ==
  LET next == session.token + 1
  IN /\ history' = history \cup {[token |-> calls[c].token, replacement |-> next]}
     /\ session' = [token |-> next, parent |-> calls[c].token, revoked |-> FALSE, fresh |-> TRUE]
     /\ Set(c, [Idle EXCEPT !.at = "prime", !.kind = "refresh", !.next = next])

(* Mutant: the old token is not remembered.                                *)
Exchange_Forgets(c) ==
  LET next == session.token + 1
  IN /\ session' = [session EXCEPT !.token = next, !.parent = calls[c].token, !.fresh = TRUE]
     /\ Set(c, [Idle EXCEPT !.at = "prime", !.kind = "refresh", !.next = next])
     /\ UNCHANGED history

(* Mutant: the answer does not get the new token.                          *)
Exchange_Unanswered(c) ==
  LET next == session.token + 1
  IN /\ history' = history \cup {[token |-> calls[c].token, replacement |-> next]}
     /\ session' = [session EXCEPT !.token = next, !.parent = calls[c].token, !.fresh = TRUE]
     /\ Set(c, [Idle EXCEPT !.at = "prime", !.kind = "refresh"])

(* A token is exchanged: the history gets the old one, the row the new one *)
(* and nothing else, so that a revocation committed since the read stays.  *)
Exchange(c) ==
  LET next == session.token + 1
  IN /\ history' = history \cup {[token |-> calls[c].token, replacement |-> next]}
     /\ session' = [session EXCEPT !.token = next, !.parent = calls[c].token, !.fresh = TRUE]
     /\ Set(c, [Idle EXCEPT !.at = "prime", !.kind = "refresh", !.next = next])

(* Mutant: nothing keeps a token from being exchanged twice.               *)
Exchanged_Never(token) == FALSE

Exchanged(token) == \E h \in history : h.token = token

(* The write of the transaction.  refresh_token_hash is unique in the      *)
(* history, so of two transactions that have read the same token one       *)
(* fails, with a 500.                                                      *)
Commit(c) ==
  /\ At(c, "commit")
  /\ IF Exchanged(calls[c].token)
     THEN Set(c, Idle) /\ UNCHANGED <<session, history>>
     ELSE session.token < MaxToken /\ Exchange(c)
  /\ UNCHANGED <<jar, caches>>

(* isDirectParentRefreshRace: the same browser has exchanged this token    *)
(* for the current one a moment ago.                                       *)
DirectParentRace(call) ==
  /\ ~session.revoked /\ session.fresh /\ call.bound
  /\ call.token = session.parent
  /\ [token |-> call.token, replacement |-> session.token] \in history

(* handleConsumedOrInvalidRefresh.  Rows of the history never change, so   *)
(* reading one and reading the session are one step.  A race answers 409   *)
(* and leaves the cookies alone.                                           *)
Consumed(c) ==
  /\ At(c, "consumed")
  /\ IF \A h \in history : h.token # calls[c].token
     THEN Set(c, [Idle EXCEPT !.at = "clear", !.kind = "refresh"])
     ELSE IF DirectParentRace(calls[c]) THEN Set(c, Idle) ELSE Goto(c, "list")
  /\ UNCHANGED <<session, history, jar, caches>>

(* listActiveIdsForTokenFamily: only a session that is still active is     *)
(* taken out of the caches afterwards.                                     *)
ListActive(c) ==
  /\ At(c, "list")
  /\ Set(c, [Idle EXCEPT !.at = "revoke", !.kind = "refresh", !.owes = ~session.revoked])
  /\ UNCHANGED <<session, history, jar, caches>>

-----------------------------------------------------------------------------
(* POST /auth/logout.                                                      *)
StartLogout(c) ==
  jar # 0 /\ Start(c, [Idle EXCEPT !.at = "logout", !.kind = "logout", !.token = jar])

LogoutLookup(c) ==
  /\ At(c, "logout")
  /\ IF session.token = calls[c].token
     THEN Set(c, [Idle EXCEPT !.at = "revoke", !.kind = "logout", !.owes = TRUE])
     ELSE Set(c, [Idle EXCEPT !.at = "clear", !.kind = "logout"])
  /\ UNCHANGED <<session, history, jar, caches>>

(* DELETE /auth/sessions/:id, or its counterpart in the customer account,  *)
(* from another device of the user.                                        *)
StartRevoke(c) ==
  Start(c, [Idle EXCEPT !.at = "revoke", !.kind = "account", !.owes = TRUE])

(* The update has effect only on a session that is not revoked yet; of the *)
(* three callers only the account looks at how many rows it has changed.   *)
Revoke(c) ==
  /\ At(c, "revoke")
  /\ session' = [session EXCEPT !.revoked = TRUE]
  /\ IF calls[c].kind = "account" /\ session.revoked
     THEN Set(c, Idle)
     ELSE Goto(c, IF calls[c].owes THEN "drop" ELSE "clear")
  /\ UNCHANGED <<history, jar, caches>>

(* invalidateSessions, the part before its first await.                    *)
Drop(c) ==
  /\ At(c, "drop")
  /\ fallback' = fallback \ {Home[c]}
  /\ Goto(c, "del")
  /\ UNCHANGED <<session, history, jar, local, redis>>

(* The DEL in Redis, which may fail unnoticed.                             *)
Del(c) ==
  /\ At(c, "del")
  /\ redis' \in {FALSE, redis}
  /\ IF calls[c].kind \in {"refresh", "logout"} THEN Goto(c, "clear") ELSE Set(c, Idle)
  /\ UNCHANGED <<session, history, jar, local, fallback>>

(* assignPlatformRole: inside its transaction it reads which sessions are  *)
(* active and starts to invalidate them; the DEL lands before the commit   *)
(* or after it, for nobody awaits it.                                      *)
StartRoleChange(c) ==
  Start(c, [Idle EXCEPT !.at = "role", !.kind = "role"])

RoleDrop(c) ==
  /\ At(c, "role")
  /\ IF session.revoked
     THEN Set(c, Idle) /\ UNCHANGED fallback
     ELSE /\ fallback' = fallback \ {Home[c]}
          /\ Set(c, [calls[c] EXCEPT !.at = "role_tx", !.owes = TRUE])
  /\ UNCHANGED <<session, history, jar, local, redis>>

RoleDel(c) ==
  /\ At(c, "role_tx") /\ calls[c].owes
  /\ redis' \in {FALSE, redis}
  /\ Set(c, [calls[c] EXCEPT !.owes = FALSE])
  /\ UNCHANGED <<session, history, jar, local, fallback>>

RoleCommit(c) ==
  /\ At(c, "role_tx")
  /\ session' = [session EXCEPT !.revoked = TRUE]
  /\ IF calls[c].owes THEN Goto(c, "del") ELSE Set(c, Idle)
  /\ UNCHANGED <<history, jar, caches>>

-----------------------------------------------------------------------------
(* AccessTokenGuard.  A hit in the process's own map is accepted at once   *)
(* and changes nothing.                                                    *)
StartGuarded(c) ==
  /\ jar # 0 /\ Home[c] \notin local
  /\ Start(c, [Idle EXCEPT !.at = "get", !.kind = "guarded"])

(* RedisService.get answers from Redis or, when that fails, from the map.  *)
GetCached(c) ==
  /\ At(c, "get")
  /\ \E hit \in {redis, Home[c] \in fallback} : Goto(c, IF hit THEN "keep" ELSE "read")
  /\ UNCHANGED <<session, history, jar, caches>>

(* What was found is kept in the map of SessionCacheService.               *)
KeepCached(c) ==
  /\ At(c, "keep")
  /\ local' = local \cup {Home[c]}
  /\ Set(c, Idle)
  /\ UNCHANGED <<session, history, jar, fallback, redis>>

(* Mutant: the guard looks at everything but the revocation.               *)
ReadSession_Any(c) ==
  At(c, "read") /\ Goto(c, "prime") /\ UNCHANGED <<session, history, jar, caches>>

ReadSession(c) ==
  /\ At(c, "read")
  /\ IF session.revoked THEN Set(c, Idle) ELSE Goto(c, "prime")
  /\ UNCHANGED <<session, history, jar, caches>>

(* SessionCacheService.set, for a guarded call and at the end of a         *)
(* refresh: both maps at once, then Redis, which may fail.                 *)
Prime(c) ==
  /\ At(c, "prime")
  /\ local' = local \cup {Home[c]}
  /\ fallback' = fallback \cup {Home[c]}
  /\ Goto(c, "prime_redis")
  /\ UNCHANGED <<session, history, jar, redis>>

PrimeRedis(c) ==
  /\ At(c, "prime_redis")
  /\ redis' \in {TRUE, redis}
  /\ IF calls[c].kind = "refresh" THEN Goto(c, "answer") ELSE Set(c, Idle)
  /\ UNCHANGED <<session, history, jar, local, fallback>>

-----------------------------------------------------------------------------
(* The browser takes the cookies of an answer.                             *)
Answer(c) ==
  /\ At(c, "answer")
  /\ jar' = calls[c].next
  /\ Set(c, Idle)
  /\ UNCHANGED <<session, history, caches>>

(* clearAuthCookies.                                                       *)
Clear(c) ==
  /\ At(c, "clear")
  /\ jar' = 0
  /\ Set(c, Idle)
  /\ UNCHANGED <<session, history, caches>>

(* A call ends early: a statement fails, the rate limit refuses it, the    *)
(* process stops, or the answer is lost.                                   *)
Fail(c) ==
  /\ ~At(c, "idle")
  /\ Set(c, Idle)
  /\ UNCHANGED <<session, history, jar, caches>>

(* AUTH_REFRESH_RACE_WINDOW_MS is over.                                    *)
WindowEnds ==
  /\ session.fresh
  /\ session' = [session EXCEPT !.fresh = FALSE]
  /\ UNCHANGED <<history, jar, caches, calls>>

(* Entries end 60 seconds after they were made, or with the process.       *)
LocalExpires(p) ==
  /\ p \in local
  /\ local' = local \ {p}
  /\ UNCHANGED <<session, history, jar, fallback, redis, calls>>

FallbackExpires(p) ==
  /\ p \in fallback
  /\ fallback' = fallback \ {p}
  /\ UNCHANGED <<session, history, jar, local, redis, calls>>

RedisExpires ==
  /\ redis
  /\ redis' = FALSE
  /\ UNCHANGED <<session, history, jar, local, fallback, calls>>

Begin(c) == StartRefresh(c) \/ StartLogout(c) \/ StartRevoke(c) \/ StartRoleChange(c) \/ StartGuarded(c)

Go(c) ==
  \/ Lookup(c) \/ RotateRead(c) \/ Commit(c) \/ Consumed(c) \/ ListActive(c)
  \/ LogoutLookup(c) \/ Revoke(c) \/ Drop(c) \/ Del(c)
  \/ RoleDrop(c) \/ RoleDel(c) \/ RoleCommit(c)
  \/ GetCached(c) \/ KeepCached(c) \/ ReadSession(c) \/ Prime(c) \/ PrimeRedis(c)
  \/ Answer(c) \/ Clear(c) \/ Fail(c)

Expire == RedisExpires \/ \E p \in Processes : LocalExpires(p) \/ FallbackExpires(p)

Next == (\E c \in Calls : Begin(c) \/ Go(c)) \/ WindowEnds \/ Expire

Spec == Init /\ [][Next]_vars

(* A call that has begun goes on or fails, and entries of caches expire.   *)
Fairness ==
  /\ \A c \in Calls : WF_vars(Go(c))
  /\ \A p \in Processes : WF_vars(LocalExpires(p)) /\ WF_vars(FallbackExpires(p))
  /\ WF_vars(RedisExpires)

LiveSpec == Spec /\ Fairness

-----------------------------------------------------------------------------
Token == 1..MaxToken

Point == {"idle", "lookup", "rotate", "commit", "consumed", "list", "revoke", "drop", "del",
          "logout", "role", "role_tx", "get", "keep", "read", "prime", "prime_redis", "answer", "clear"}

Kind == {"none", "refresh", "logout", "account", "role", "guarded"}

Call == [at : Point, kind : Kind, token : Token \cup {0}, bound : BOOLEAN,
         next : Token \cup {0}, owes : BOOLEAN]

(* Every variable has its type, and a refresh that answers has a token for *)
(* the browser.                                                            *)
TypeOK ==
  /\ session \in [token : Token, parent : Token \cup {0}, revoked : BOOLEAN, fresh : BOOLEAN]
  /\ history \subseteq [token : Token, replacement : Token]
  /\ jar \in Token \cup {0}
  /\ local \subseteq Processes /\ fallback \subseteq Processes /\ redis \in BOOLEAN
  /\ calls \in [Calls -> Call]
  /\ \A c \in Calls : calls[c].at = "answer" => calls[c].next # 0

(* The history is one chain that ends in the session's token: every token  *)
(* before the current one was exchanged exactly once, for the token after  *)
(* it, however many refreshes of two tabs cross.                           *)
OneSuccessor ==
  /\ \A h \in history : h.token < session.token /\ h.replacement = h.token + 1
  /\ \A t \in 1..(session.token - 1) : \E h \in history : h.token = t
  /\ session.parent = session.token - 1

(* A refresh takes the cookies from the browser only when the session is   *)
(* revoked, be it for the reuse of a token: no interleaving of refreshes   *)
(* makes the token of a live session unknown to the server.                *)
ClearsOnlyRevoked ==
  \A c \in Calls : calls[c].at = "clear" /\ calls[c].kind = "refresh" => session.revoked

(* No refresh under way brings a revoked session back, and none that comes *)
(* to its transaction after the revocation gets a new token.               *)
RevocationIsFinal ==
  [][session.revoked =>
       /\ session'.revoked
       /\ \A c \in Calls : calls'[c].at = "commit" => calls[c].at = "commit"]_vars

(* Nothing says any longer that the session is alive.                      *)
Forgotten ==
  /\ local = {} /\ fallback = {} /\ ~redis
  /\ \A c \in Calls : calls[c].at \notin {"keep", "prime", "prime_redis"}

(* Once the session is revoked, by whatever way, a time comes from which   *)
(* on every process refuses it, though no revocation reaches the maps of   *)
(* the other processes and a guard may be about to write what it read      *)
(* before.                                                                 *)
RevocationTakesHold == session.revoked ~> []Forgotten
=============================================================================
