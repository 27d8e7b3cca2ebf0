--------------------------- MODULE SessionsProofs ---------------------------
(***************************************************************************)
(* Proofs about Sessions, for any processes, calls and number of tokens.   *)
(***************************************************************************)
EXTENDS Sessions, TLAPS

(* What a call knows, by the point it has come to: the token it carries    *)
(* was issued; where it takes that token for exchanged, it was, or the     *)
(* session is revoked; where a refresh has revoked, it stays so.           *)
Fits(call, s) ==
  /\ call.token <= s.token /\ call.next <= s.token
  /\ call.at \in {"lookup", "rotate", "commit", "consumed", "logout"} => call.token # 0
  /\ call.at = "consumed" => call.token # s.token \/ s.revoked
  /\ call.at \in {"drop", "del", "clear"} /\ call.kind = "refresh" => s.revoked
  /\ call.at \in {"get", "keep", "read"} => call.kind = "guarded"
  /\ call.at \in {"prime", "prime_redis"} /\ call.kind = "refresh" => call.next # 0
  /\ call.at = "answer" => call.next # 0

CallsFit == \A c \in Calls : Fits(calls[c], session)

SessionInv == TypeOK /\ OneSuccessor /\ jar <= session.token /\ CallsFit

-----------------------------------------------------------------------------
LEMMA IdleIsCall == Idle \in Call /\ (SessionInv => Fits(Idle, session))
<1>1. Idle \in Call
  BY SessionAssumption DEF Idle, Call, Point, Kind
<1>2. SessionInv => Fits(Idle, session)
  BY SessionAssumption DEF Idle, Fits, SessionInv, TypeOK, Token
<1> QED
  BY <1>1, <1>2

(* A step that sets one call to something that fits keeps all the calls    *)
(* fitting, when it forgets neither tokens nor a revocation.               *)
LEMMA CallsKept ==
  ASSUME SessionInv, NEW c \in Calls, NEW call \in Call, Set(c, call),
         session' \in [token : Token, parent : Token \cup {0}, revoked : BOOLEAN, fresh : BOOLEAN],
         session'.token >= session.token, session.revoked => session'.revoked,
         Fits(call, session')
  PROVE  /\ CallsFit'
         /\ calls' \in [Calls -> Call]
         /\ \A d \in Calls : calls'[d].at = "answer" => calls'[d].next # 0
<1>1. calls' \in [Calls -> Call] /\ \A d \in Calls : calls'[d] = IF d = c THEN call ELSE calls[d]
  BY DEF SessionInv, TypeOK, Set
<1>2. ASSUME NEW d \in Calls PROVE Fits(calls'[d], session')
  <2>1. CASE d = c
    BY <1>1, <2>1 DEF Fits
  <2>2. CASE d # c
    <3>1. calls'[d] = calls[d] /\ calls[d] \in Call /\ Fits(calls[d], session)
      BY <1>1, <2>2 DEF SessionInv, TypeOK, CallsFit
    <3>2. calls[d].token \in Int /\ calls[d].next \in Int /\ session.token \in Int /\ session'.token \in Int
      BY <3>1 DEF SessionInv, TypeOK, Call, Token
    <3>3. calls[d].at = "consumed" => calls[d].token # session'.token \/ session'.revoked
      BY <3>1, <3>2 DEF Fits
    <3> QED
      BY <3>1, <3>2, <3>3 DEF Fits
  <2> QED
    BY <2>1, <2>2
<1> QED
  BY <1>1, <1>2 DEF CallsFit, Fits

(* A step of a call that exchanges no token preserves the invariant when   *)
(* what it sets the call to fits.                                          *)
LEMMA StepKeeps ==
  ASSUME SessionInv, NEW c \in Calls, NEW call \in Call, Set(c, call),
         session' = session \/ session' = [session EXCEPT !.revoked = TRUE],
         history' = history, jar' = jar \/ jar' = 0 \/ jar' = calls[c].next,
         local' \subseteq Processes, fallback' \subseteq Processes, redis' \in BOOLEAN,
         Fits(call, session')
  PROVE  SessionInv'
<1>1. /\ session' \in [token : Token, parent : Token \cup {0}, revoked : BOOLEAN, fresh : BOOLEAN]
      /\ session'.token = session.token /\ session'.parent = session.parent
      /\ session.revoked => session'.revoked
  BY DEF SessionInv, TypeOK
<1>2. CallsFit' /\ calls' \in [Calls -> Call]
      /\ \A d \in Calls : calls'[d].at = "answer" => calls'[d].next # 0
  <2>1. session'.token >= session.token
    BY <1>1 DEF Token
  <2> QED
    BY <1>1, <2>1, CallsKept
<1>3. jar' \in Token \cup {0} /\ jar' <= session'.token
  BY <1>1, SessionAssumption DEF SessionInv, TypeOK, CallsFit, Fits, Token, Call
<1>4. OneSuccessor'
  BY <1>1 DEF SessionInv, OneSuccessor
<1> QED
  BY <1>1, <1>2, <1>3, <1>4 DEF SessionInv, TypeOK

(* The only token that is not exchanged yet is the session's own: a commit *)
(* that finds no row of its token in the history exchanges that one.       *)
LEMMA CommitKeeps ==
  ASSUME SessionInv, NEW c \in Calls, Commit(c)
  PROVE  SessionInv'
<1> DEFINE next == session.token + 1
           call == [Idle EXCEPT !.at = "prime", !.kind = "refresh", !.next = next]
<1>0. session \in [token : Token, parent : Token \cup {0}, revoked : BOOLEAN, fresh : BOOLEAN]
      /\ calls[c] \in Call /\ Fits(calls[c], session) /\ calls[c].at = "commit"
  BY DEF SessionInv, TypeOK, CallsFit, Commit, At
<1>1. CASE Exchanged(calls[c].token)
  <2>1. Set(c, Idle) /\ session' = session /\ history' = history /\ UNCHANGED <<jar, caches>>
    BY <1>1 DEF Commit
  <2>2. Idle \in Call /\ Fits(Idle, session')
    BY <2>1, IdleIsCall DEF Fits
  <2> QED
    BY <2>1, <2>2, StepKeeps DEF SessionInv, TypeOK, caches
<1>2. CASE ~Exchanged(calls[c].token)
  <2>1. session.token < MaxToken /\ Exchange(c) /\ UNCHANGED <<jar, caches>>
    BY <1>2 DEF Commit
  <2>2. calls[c].token = session.token
    <3>1. calls[c].token \in 1..session.token
      BY <1>0, SessionAssumption DEF Fits, Call, Token
    <3> QED
      BY <1>0, <1>2, <3>1 DEF Exchanged, SessionInv, OneSuccessor, Token
  <2>3. next \in Token /\ session.token \in Token
    BY <1>0, <2>1, SessionAssumption DEF Token
  <2>4. /\ session' \in [token : Token, parent : Token \cup {0}, revoked : BOOLEAN, fresh : BOOLEAN]
        /\ session'.token = next /\ session'.parent = session.token
        /\ session'.revoked = session.revoked
    BY <1>0, <2>1, <2>2, <2>3 DEF Exchange
  <2>5. history' = history \cup {[token |-> session.token, replacement |-> next]}
    BY <2>1, <2>2 DEF Exchange
  <2>6. call \in Call /\ Set(c, call)
    BY <2>1, <2>3 DEF Exchange, Call, Idle, Point, Kind
  <2>7. Fits(call, session')
    BY <2>3, <2>4 DEF Fits, Idle, Token
  <2>8. CallsFit' /\ calls' \in [Calls -> Call]
        /\ \A d \in Calls : calls'[d].at = "answer" => calls'[d].next # 0
    <3>1. session'.token >= session.token /\ (session.revoked => session'.revoked)
      BY <2>3, <2>4 DEF Token
    <3> QED
      BY <2>4, <2>6, <2>7, <3>1, CallsKept
  <2>9. OneSuccessor'
    <3>1. \A h \in history' : h.token < session'.token /\ h.replacement = h.token + 1
      BY <2>3, <2>4, <2>5 DEF SessionInv, OneSuccessor, TypeOK, Token
    <3>2. ASSUME NEW t \in 1..(session'.token - 1) PROVE \E h \in history' : h.token = t
      <4>1. t \in 1..(session.token - 1) \/ t = session.token
        BY <2>3, <2>4 DEF Token
      <4>2. CASE t \in 1..(session.token - 1)
        BY <2>5, <4>2 DEF SessionInv, OneSuccessor
      <4>3. CASE t = session.token
        <5> DEFINE h == [token |-> session.token, replacement |-> next]
        <5>1. h \in history' /\ h.token = t
          BY <2>5, <4>3
        <5> QED
          BY <5>1
      <4> QED
        BY <4>1, <4>2, <4>3
    <3>3. session'.parent = session'.token - 1
      BY <2>3, <2>4 DEF Token
    <3> QED
      BY <3>1, <3>2, <3>3 DEF OneSuccessor
  <2>10. history' \subseteq [token : Token, replacement : Token]
    BY <2>3, <2>5 DEF SessionInv, TypeOK
  <2>11. jar' \in Token \cup {0} /\ jar' <= session'.token
    BY <2>1, <2>3, <2>4, SessionAssumption DEF SessionInv, TypeOK, Token
  <2> QED
    BY <2>1, <2>4, <2>8, <2>9, <2>10, <2>11 DEF SessionInv, TypeOK, caches
<1> QED
  BY <1>1, <1>2

-----------------------------------------------------------------------------
(* What a call becomes that only moves on.                                 *)
LEMMA MovedIsCall ==
  ASSUME SessionInv, NEW c \in Calls, NEW point \in Point
  PROVE  LET call == [calls[c] EXCEPT !.at = point]
         IN /\ call \in Call /\ call.at = point /\ call.kind = calls[c].kind
            /\ call.token = calls[c].token /\ call.next = calls[c].next
            /\ calls[c] \in Call /\ Fits(calls[c], session)
BY DEF SessionInv, TypeOK, CallsFit, Call

(* A call that moves on from one point to another, when what is demanded   *)
(* at the new point is there.                                              *)
LEMMA MoveKeeps ==
  ASSUME SessionInv, NEW c \in Calls, NEW point \in Point, Goto(c, point),
         session' = session \/ session' = [session EXCEPT !.revoked = TRUE],
         history' = history, jar' = jar,
         local' \subseteq Processes, fallback' \subseteq Processes, redis' \in BOOLEAN,
         point \in {"lookup", "rotate", "commit", "consumed", "logout"} => calls[c].token # 0,
         point = "consumed" => calls[c].token # session.token \/ session.revoked,
         point \in {"drop", "del", "clear"} /\ calls[c].kind = "refresh" => session'.revoked,
         point \in {"get", "keep", "read"} => calls[c].kind = "guarded",
         point \in {"prime", "prime_redis"} /\ calls[c].kind = "refresh" => calls[c].next # 0,
         point = "answer" => calls[c].next # 0
  PROVE  SessionInv'
<1> DEFINE call == [calls[c] EXCEPT !.at = point]
<1>1. /\ call \in Call /\ call.at = point /\ call.kind = calls[c].kind
      /\ call.token = calls[c].token /\ call.next = calls[c].next
      /\ Fits(calls[c], session)
  BY MovedIsCall
<1>2. session'.token = session.token /\ (session.revoked => session'.revoked)
  BY DEF SessionInv, TypeOK
<1>3. Fits(call, session')
  BY <1>1, <1>2 DEF Fits
<1>4. Set(c, call)
  BY DEF Goto
<1> QED
  BY <1>1, <1>3, <1>4, StepKeeps

(* A call that ends.                                                       *)
LEMMA EndKeeps ==
  ASSUME SessionInv, NEW c \in Calls, Set(c, Idle),
         session' = session \/ session' = [session EXCEPT !.revoked = TRUE],
         history' = history, jar' = jar \/ jar' = 0 \/ jar' = calls[c].next,
         local' \subseteq Processes, fallback' \subseteq Processes, redis' \in BOOLEAN
  PROVE  SessionInv'
<1>1. session'.token = session.token /\ (session.revoked => session'.revoked)
  BY DEF SessionInv, TypeOK
<1>2. Idle \in Call /\ Fits(Idle, session')
  BY <1>1, IdleIsCall DEF Fits, Idle
<1> QED
  BY <1>2, StepKeeps

-----------------------------------------------------------------------------
LEMMA StartKeeps ==
  ASSUME SessionInv, NEW c \in Calls, NEW call \in Call, Start(c, call), Fits(call, session)
  PROVE  SessionInv'
BY StepKeeps DEF Start, SessionInv, TypeOK, caches

LEMMA BeginKeeps ==
  ASSUME SessionInv, NEW c \in Calls, Begin(c)
  PROVE  SessionInv'
<1>0. session.token \in Nat \ {0} /\ jar \in Token \cup {0} /\ jar \in Nat /\ jar <= session.token
  BY SessionAssumption DEF SessionInv, TypeOK, Token
<1>1. CASE StartRefresh(c)
  <2>1. PICK bound \in BOOLEAN :
          Start(c, [Idle EXCEPT !.at = "lookup", !.kind = "refresh", !.token = jar, !.bound = bound])
    BY <1>1 DEF StartRefresh
  <2> DEFINE call == [Idle EXCEPT !.at = "lookup", !.kind = "refresh", !.token = jar, !.bound = bound]
  <2>2. call \in Call
    BY <1>0 DEF Idle, Call, Point, Kind
  <2>3. Fits(call, session)
    BY <1>0, <1>1 DEF StartRefresh, Idle, Fits
  <2> QED
    BY StartKeeps, <2>1, <2>2, <2>3
<1>2. CASE StartLogout(c)
  <2> DEFINE call == [Idle EXCEPT !.at = "logout", !.kind = "logout", !.token = jar]
  <2>1. call \in Call
    BY <1>0 DEF Idle, Call, Point, Kind
  <2>2. Fits(call, session)
    BY <1>0, <1>2 DEF StartLogout, Idle, Fits
  <2> QED
    BY StartKeeps, <1>2, <2>1, <2>2 DEF StartLogout
<1>3. CASE StartRevoke(c)
  <2> DEFINE call == [Idle EXCEPT !.at = "revoke", !.kind = "account", !.owes = TRUE]
  <2>1. call \in Call
    BY DEF Idle, Call, Point, Kind
  <2>2. Fits(call, session)
    BY <1>0 DEF Idle, Fits
  <2> QED
    BY StartKeeps, <1>3, <2>1, <2>2 DEF StartRevoke
<1>4. CASE StartRoleChange(c)
  <2> DEFINE call == [Idle EXCEPT !.at = "role", !.kind = "role"]
  <2>1. call \in Call
    BY DEF Idle, Call, Point, Kind
  <2>2. Fits(call, session)
    BY <1>0 DEF Idle, Fits
  <2> QED
    BY StartKeeps, <1>4, <2>1, <2>2 DEF StartRoleChange
<1>5. CASE StartGuarded(c)
  <2> DEFINE call == [Idle EXCEPT !.at = "get", !.kind = "guarded"]
  <2>1. call \in Call
    BY DEF Idle, Call, Point, Kind
  <2>2. Fits(call, session)
    BY <1>0 DEF Idle, Fits
  <2> QED
    BY StartKeeps, <1>5, <2>1, <2>2 DEF StartGuarded
<1> QED
  BY <1>1, <1>2, <1>3, <1>4, <1>5 DEF Begin

LEMMA RefreshKeeps ==
  ASSUME SessionInv, NEW c \in Calls,
         Lookup(c) \/ RotateRead(c) \/ Consumed(c) \/ ListActive(c) \/ LogoutLookup(c)
  PROVE  SessionInv'
<1>0. session.token \in Nat \ {0}
  BY SessionAssumption DEF SessionInv, TypeOK, Token
<1>1. /\ calls[c] \in Call /\ Fits(calls[c], session)
      /\ session \in [token : Token, parent : Token \cup {0}, revoked : BOOLEAN, fresh : BOOLEAN]
      /\ local \subseteq Processes /\ fallback \subseteq Processes /\ redis \in BOOLEAN
  BY DEF SessionInv, TypeOK, CallsFit
<1>2. CASE Lookup(c)
  <2>1. PICK point \in {"consumed", "rotate", "list"} :
          Goto(c, point) /\ (point = "consumed" => session.token # calls[c].token)
    BY <1>2 DEF Lookup
  <2> QED
    BY <1>1, <1>2, <2>1, MoveKeeps DEF Lookup, At, Fits, Point, caches
<1>3. CASE RotateRead(c)
  <2>1. PICK point \in {"consumed", "commit"} :
          Goto(c, point) /\ (point = "consumed" => session.token # calls[c].token \/ session.revoked)
    BY <1>3 DEF RotateRead
  <2> QED
    BY <1>1, <1>3, <2>1, MoveKeeps DEF RotateRead, At, Fits, Point, caches
<1>4. CASE Consumed(c)
  <2>1. CASE \A h \in history : h.token # calls[c].token
    <3> DEFINE call == [Idle EXCEPT !.at = "clear", !.kind = "refresh"]
    <3>1. Set(c, call)
      BY <1>4, <2>1 DEF Consumed
    <3>2. calls[c].token = session.token
      <4>1. calls[c].token \in 1..session.token
        BY <1>1, <1>4, SessionAssumption DEF Consumed, At, Fits, Call, Token
      <4> QED
        BY <1>1, <2>1, <4>1 DEF SessionInv, OneSuccessor, Token
    <3>3. session.revoked
      BY <1>1, <1>4, <3>2 DEF Consumed, At, Fits
    <3>4. call \in Call
      BY DEF Idle, Call, Point, Kind
    <3>5. Fits(call, session)
      BY <1>0, <3>3 DEF Idle, Fits
    <3> QED
      BY <1>1, <1>4, <3>1, <3>4, <3>5, StepKeeps DEF Consumed, caches
  <2>2. CASE \E h \in history : h.token = calls[c].token
    <3>1. Set(c, Idle) \/ Goto(c, "list")
      BY <1>4, <2>2 DEF Consumed
    <3>2. CASE Set(c, Idle)
      BY <1>1, <1>4, <3>2, EndKeeps DEF Consumed, caches
    <3>3. CASE Goto(c, "list")
      BY <1>1, <1>4, <3>3, MoveKeeps DEF Consumed, Point, caches
    <3> QED
      BY <3>1, <3>2, <3>3
  <2> QED
    BY <2>1, <2>2
<1>5. CASE ListActive(c)
  <2> DEFINE call == [Idle EXCEPT !.at = "revoke", !.kind = "refresh", !.owes = ~session.revoked]
  <2>1. call \in Call
    BY <1>1 DEF Idle, Call, Point, Kind
  <2>2. Fits(call, session)
    BY <1>0 DEF Idle, Fits
  <2> QED
    BY <1>1, <1>5, <2>1, <2>2, StepKeeps DEF ListActive, caches
<1>6. CASE LogoutLookup(c)
  <2> DEFINE revoking == [Idle EXCEPT !.at = "revoke", !.kind = "logout", !.owes = TRUE]
             clearing == [Idle EXCEPT !.at = "clear", !.kind = "logout"]
  <2>1. revoking \in Call /\ clearing \in Call
    BY DEF Idle, Call, Point, Kind
  <2>2. Fits(revoking, session) /\ Fits(clearing, session)
    BY <1>0 DEF Idle, Fits
  <2>3. Set(c, revoking) \/ Set(c, clearing)
    BY <1>6 DEF LogoutLookup
  <2> QED
    BY <1>1, <1>6, <2>1, <2>2, <2>3, StepKeeps DEF LogoutLookup, caches
<1> QED
  BY <1>2, <1>3, <1>4, <1>5, <1>6

LEMMA RevokeKeeps ==
  ASSUME SessionInv, NEW c \in Calls,
         Revoke(c) \/ Drop(c) \/ Del(c) \/ RoleDrop(c) \/ RoleDel(c) \/ RoleCommit(c)
  PROVE  SessionInv'
<1>1. /\ calls[c] \in Call /\ Fits(calls[c], session)
      /\ session \in [token : Token, parent : Token \cup {0}, revoked : BOOLEAN, fresh : BOOLEAN]
      /\ local \subseteq Processes /\ fallback \subseteq Processes /\ redis \in BOOLEAN
  BY DEF SessionInv, TypeOK, CallsFit
<1>2. CASE Revoke(c)
  <2>1. Set(c, Idle) \/ \E point \in {"drop", "clear"} : Goto(c, point)
    BY <1>2 DEF Revoke
  <2>2. session'.revoked
    BY <1>1, <1>2 DEF Revoke
  <2> QED
    BY <1>1, <1>2, <2>1, <2>2, EndKeeps, MoveKeeps DEF Revoke, Point, caches
<1>3. CASE Drop(c)
  BY <1>1, <1>3, MoveKeeps DEF Drop, At, Fits, Point
<1>4. CASE Del(c)
  <2>1. Set(c, Idle) \/ Goto(c, "clear")
    BY <1>4 DEF Del
  <2> QED
    BY <1>1, <1>4, <2>1, EndKeeps, MoveKeeps DEF Del, At, Fits, Point
<1>5. CASE RoleDrop(c)
  <2> DEFINE call == [calls[c] EXCEPT !.at = "role_tx", !.owes = TRUE]
  <2>1. call \in Call /\ Fits(call, session)
    BY <1>1 DEF Call, Point, Fits
  <2>2. Set(c, Idle) \/ Set(c, call)
    BY <1>5 DEF RoleDrop
  <2>3. fallback' \subseteq Processes
    BY <1>1, <1>5 DEF RoleDrop
  <2> QED
    BY <1>1, <1>5, <2>1, <2>2, <2>3, EndKeeps, StepKeeps DEF RoleDrop
<1>6. CASE RoleDel(c)
  <2> DEFINE call == [calls[c] EXCEPT !.owes = FALSE]
  <2>1. call \in Call /\ Fits(call, session)
    BY <1>1 DEF Call, Fits
  <2> QED
    BY <1>1, <1>6, <2>1, StepKeeps DEF RoleDel
<1>7. CASE RoleCommit(c)
  <2>1. Set(c, Idle) \/ Goto(c, "del")
    BY <1>7 DEF RoleCommit
  <2>2. session'.revoked
    BY <1>1, <1>7 DEF RoleCommit
  <2> QED
    BY <1>1, <1>7, <2>1, <2>2, EndKeeps, MoveKeeps DEF RoleCommit, Point, caches
<1> QED
  BY <1>2, <1>3, <1>4, <1>5, <1>6, <1>7

LEMMA GuardKeeps ==
  ASSUME SessionInv, NEW c \in Calls,
         \/ GetCached(c) \/ KeepCached(c) \/ ReadSession(c) \/ Prime(c) \/ PrimeRedis(c)
         \/ Answer(c) \/ Clear(c) \/ Fail(c)
  PROVE  SessionInv'
<1>1. /\ calls[c] \in Call /\ Fits(calls[c], session)
      /\ local \subseteq Processes /\ fallback \subseteq Processes /\ redis \in BOOLEAN
      /\ Home[c] \in Processes
  BY SessionAssumption DEF SessionInv, TypeOK, CallsFit
<1>2. CASE GetCached(c)
  <2>1. PICK point \in {"keep", "read"} : Goto(c, point)
    BY <1>2 DEF GetCached
  <2> QED
    BY <1>1, <1>2, <2>1, MoveKeeps DEF GetCached, At, Fits, Point, caches
<1>3. CASE KeepCached(c)
  BY <1>1, <1>3, EndKeeps DEF KeepCached
<1>4. CASE ReadSession(c)
  <2>1. Set(c, Idle) \/ Goto(c, "prime")
    BY <1>4 DEF ReadSession
  <2> QED
    BY <1>1, <1>4, <2>1, EndKeeps, MoveKeeps DEF ReadSession, At, Fits, Point, caches
<1>5. CASE Prime(c)
  BY <1>1, <1>5, MoveKeeps DEF Prime, At, Fits, Point
<1>6. CASE PrimeRedis(c)
  <2>1. Set(c, Idle) \/ (Goto(c, "answer") /\ calls[c].kind = "refresh")
    BY <1>6 DEF PrimeRedis
  <2> QED
    BY <1>1, <1>6, <2>1, EndKeeps, MoveKeeps DEF PrimeRedis, At, Fits, Point
<1>7. CASE Answer(c) \/ Clear(c) \/ Fail(c)
  BY <1>1, <1>7, EndKeeps DEF Answer, Clear, Fail, caches
<1> QED
  BY <1>2, <1>3, <1>4, <1>5, <1>6, <1>7

(* The ends of the window and of cached entries.                           *)
LEMMA TimeKeeps ==
  ASSUME SessionInv, WindowEnds \/ Expire
  PROVE  SessionInv'
<1>1. CASE WindowEnds
  <2>1. /\ session' \in [token : Token, parent : Token \cup {0}, revoked : BOOLEAN, fresh : BOOLEAN]
        /\ session'.token = session.token /\ session'.parent = session.parent
        /\ session'.revoked = session.revoked
        /\ UNCHANGED <<history, jar, calls, local, fallback, redis>>
    BY <1>1 DEF WindowEnds, caches, SessionInv, TypeOK
  <2>2. CallsFit'
    BY <2>1 DEF SessionInv, CallsFit, Fits
  <2> QED
    BY <2>1, <2>2 DEF SessionInv, TypeOK, OneSuccessor
<1>2. CASE Expire
  <2>1. /\ UNCHANGED <<session, history, jar, calls>>
        /\ local' \subseteq local /\ fallback' \subseteq fallback /\ redis' \in {redis, FALSE}
    BY <1>2 DEF Expire, RedisExpires, LocalExpires, FallbackExpires
  <2> QED
    BY <2>1 DEF SessionInv, TypeOK, OneSuccessor, CallsFit, Fits
<1> QED
  BY <1>1, <1>2

LEMMA InvStep == SessionInv /\ [Next]_vars => SessionInv'
<1> SUFFICES ASSUME SessionInv, [Next]_vars PROVE SessionInv'
  OBVIOUS
<1>1. ASSUME NEW c \in Calls, Begin(c) PROVE SessionInv'
  BY <1>1, BeginKeeps
<1>2. ASSUME NEW c \in Calls, Go(c) PROVE SessionInv'
  BY <1>2, RefreshKeeps, CommitKeeps, RevokeKeeps, GuardKeeps DEF Go
<1>3. CASE WindowEnds \/ Expire
  BY <1>3, TimeKeeps
<1>4. CASE UNCHANGED vars
  BY <1>4 DEF vars, SessionInv, TypeOK, OneSuccessor, CallsFit, Fits
<1> QED
  BY <1>1, <1>2, <1>3, <1>4 DEF Next

LEMMA InvInit == Init => SessionInv
<1> SUFFICES ASSUME Init PROVE SessionInv
  OBVIOUS
<1>1. TypeOK
  <2>1. 1 \in Token
    BY SessionAssumption DEF Token
  <2>2. calls \in [Calls -> Call] /\ \A c \in Calls : calls[c].at = "idle"
    BY IdleIsCall DEF Init, Idle
  <2> QED
    BY <2>1, <2>2 DEF Init, TypeOK
<1>2. OneSuccessor /\ jar <= session.token
  BY DEF Init, OneSuccessor
<1>3. CallsFit
  BY DEF Init, CallsFit, Fits, Idle
<1> QED
  BY <1>1, <1>2, <1>3 DEF SessionInv

LEMMA Invariance == Spec => []SessionInv
BY InvInit, InvStep, PTL DEF Spec

-----------------------------------------------------------------------------
(* Every variable keeps its type, and a refresh answers with a token.      *)
THEOREM SessionTypeCorrect == Spec => []TypeOK
<1>1. SessionInv => TypeOK
  BY DEF SessionInv
<1> QED
  BY <1>1, Invariance, PTL

(* However many refreshes present one token at once, it is exchanged once, *)
(* and the exchanges of a session form one chain without a fork.           *)
THEOREM SessionOneSuccessor == Spec => []OneSuccessor
<1>1. SessionInv => OneSuccessor
  BY DEF SessionInv
<1> QED
  BY <1>1, Invariance, PTL

(* A refresh that takes the browser's cookies away leaves no live session. *)
THEOREM SessionClearsOnlyRevoked == Spec => []ClearsOnlyRevoked
<1>1. SessionInv => ClearsOnlyRevoked
  BY DEF SessionInv, CallsFit, Fits, ClearsOnlyRevoked
<1> QED
  BY <1>1, Invariance, PTL

-----------------------------------------------------------------------------
(* A step of a call once the session is revoked: none comes to its commit. *)
LEMMA FinalStep ==
  ASSUME SessionInv, SessionInv', session.revoked, NEW c \in Calls, Begin(c) \/ Go(c)
  PROVE  session'.revoked /\ \A d \in Calls : calls'[d].at = "commit" => calls[d].at = "commit"
<1>1. /\ session \in [token : Token, parent : Token \cup {0}, revoked : BOOLEAN, fresh : BOOLEAN]
      /\ calls \in [Calls -> Call] /\ calls' \in [Calls -> Call]
  BY DEF SessionInv, TypeOK
<1>2. session'.revoked
  BY <1>1 DEF Begin, Go, StartRefresh, StartLogout, StartRevoke, StartRoleChange, StartGuarded, Start,
     Lookup, RotateRead, Commit, Exchange, Consumed, ListActive, LogoutLookup, Revoke, Drop, Del,
     RoleDrop, RoleDel, RoleCommit, GetCached, KeepCached, ReadSession, Prime, PrimeRedis, Answer, Clear, Fail
<1>3. \A d \in Calls \ {c} : calls'[d] = calls[d]
  BY <1>1 DEF Begin, Go, StartRefresh, StartLogout, StartRevoke, StartRoleChange, StartGuarded, Start, Set, Goto,
     Lookup, RotateRead, Commit, Exchange, Consumed, ListActive, LogoutLookup, Revoke, Drop, Del,
     RoleDrop, RoleDel, RoleCommit, GetCached, KeepCached, ReadSession, Prime, PrimeRedis, Answer, Clear, Fail
<1>4. calls'[c].at # "commit"
  <2>1. ASSUME NEW call, Set(c, call), call.at # "commit" PROVE calls'[c].at # "commit"
    BY <1>1, <2>1 DEF Set
  <2>2. ASSUME NEW point, Goto(c, point), point # "commit" PROVE calls'[c].at # "commit"
    BY <1>1, <2>2 DEF Set, Goto, Call
  <2>3. CASE Begin(c)
    BY <2>1, <2>3 DEF Begin, StartRefresh, StartLogout, StartRevoke, StartRoleChange, StartGuarded, Start, Idle
  <2>4. CASE Lookup(c) \/ RotateRead(c)
    BY <2>2, <2>4 DEF Lookup, RotateRead
  <2>5. CASE Commit(c)
    BY <2>1, <2>5 DEF Commit, Exchange, Idle
  <2>6. CASE Consumed(c) \/ ListActive(c) \/ LogoutLookup(c)
    BY <2>1, <2>2, <2>6 DEF Consumed, ListActive, LogoutLookup, Idle
  <2>7. CASE Revoke(c) \/ Drop(c) \/ Del(c)
    BY <2>1, <2>2, <2>7 DEF Revoke, Drop, Del, Idle
  <2>8. CASE RoleDrop(c) \/ RoleDel(c) \/ RoleCommit(c)
    <3>1. CASE RoleDrop(c)
      <4>1. Set(c, Idle) \/ Set(c, [calls[c] EXCEPT !.at = "role_tx", !.owes = TRUE])
        BY <3>1 DEF RoleDrop
      <4>2. [calls[c] EXCEPT !.at = "role_tx", !.owes = TRUE].at # "commit" /\ Idle.at # "commit"
        BY <1>1 DEF Call, Idle
      <4> QED
        BY <2>1, <4>1, <4>2
    <3>2. CASE RoleDel(c)
      <4>1. [calls[c] EXCEPT !.owes = FALSE].at # "commit"
        BY <1>1, <3>2 DEF RoleDel, At, Call
      <4> QED
        BY <2>1, <3>2, <4>1 DEF RoleDel
    <3>3. CASE RoleCommit(c)
      BY <2>1, <2>2, <3>3 DEF RoleCommit, Idle
    <3> QED
      BY <2>8, <3>1, <3>2, <3>3
  <2>9. CASE GetCached(c) \/ KeepCached(c) \/ ReadSession(c) \/ Prime(c) \/ PrimeRedis(c)
    BY <2>1, <2>2, <2>9 DEF GetCached, KeepCached, ReadSession, Prime, PrimeRedis, Idle
  <2>10. CASE Answer(c) \/ Clear(c) \/ Fail(c)
    BY <2>1, <2>10 DEF Answer, Clear, Fail, Idle
  <2> QED
    BY <2>3, <2>4, <2>5, <2>6, <2>7, <2>8, <2>9, <2>10 DEF Go
<1> QED
  BY <1>2, <1>3, <1>4

(* No step, of a refresh or of anything else, brings a revoked session     *)
(* back, and no refresh that reads it after the revocation gets a token.   *)
THEOREM SessionRevocationIsFinal == Spec => RevocationIsFinal
<1>1. SessionInv /\ SessionInv' /\ [Next]_vars =>
        [session.revoked =>
           /\ session'.revoked
           /\ \A c \in Calls : calls'[c].at = "commit" => calls[c].at = "commit"]_vars
  <2> SUFFICES ASSUME SessionInv, SessionInv', Next, session.revoked
               PROVE  session'.revoked /\ \A c \in Calls : calls'[c].at = "commit" => calls[c].at = "commit"
    OBVIOUS
  <2>1. CASE \E c \in Calls : Begin(c) \/ Go(c)
    BY <2>1, FinalStep
  <2>2. CASE WindowEnds \/ Expire
    <3>1. calls' = calls
      BY <2>2 DEF WindowEnds, Expire, RedisExpires, LocalExpires, FallbackExpires
    <3>2. session'.revoked
      BY <2>2 DEF WindowEnds, Expire, RedisExpires, LocalExpires, FallbackExpires, SessionInv, TypeOK
    <3> QED
      BY <3>1, <3>2
  <2> QED
    BY <2>1, <2>2 DEF Next
<1> QED
  BY <1>1, Invariance, PTL DEF Spec, RevocationIsFinal
=============================================================================
