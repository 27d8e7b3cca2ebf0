----------------------------- MODULE KeysProofs -----------------------------
(***************************************************************************)
(* Proofs about what is done once though it is asked for again (MCKeys):   *)
(* the key of a financial operation, the key and the image of an upload,   *)
(* the refreshes of a browser's tabs, the codes and the account of a       *)
(* phone number, and the credentials of an account.  Refunds have proofs   *)
(* of their own, which the types of the whole run are taken from.          *)
(***************************************************************************)
EXTENDS MCKeys, RefundsProofs, Sequences, FiniteSetTheorems
-----------------------------------------------------------------------------
(* Account, for any number of calls, sessions, resets and credentials.     *)
Current == {user.password, user.google} \ {0}

(* A sign-in that has proven a credential still has a proof of one that    *)
(* is the user's, or it is late.                                           *)
FreshCredentials ==
  \A c \in Calls : calls[c].at \in {"mark", "create"} => calls[c].late \/ calls[c].credential \in Current

(* Whoever is to change the password has listed every session but its own, *)
(* and but those that were opened since.                                   *)
ListedOrLate ==
  \A c \in Calls : calls[c].at = "change" =>
    \A s \in Live : sessions[s].late \/ s \in calls[c].listed \/ s \in calls[c].session

(* Once the user has lost the mail address, calls that need it were begun  *)
(* before, and so were the resets that are left.                           *)
NamelessIsLate ==
  /\ user.status = "DELETED" => ~user.named
  /\ ~user.named => /\ \A c \in Calls : calls[c].at \in {"link", "request"} => calls[c].late
                    /\ \A r \in Resets : resets[r].state \in {"open", "used"} => resets[r].late

ResetIsThere ==
  \A c \in Calls : calls[c].at = "confirm" => \A r \in calls[c].reset : resets[r].state # "absent"

SafeInv == EndedCredentialsEnd /\ FreshCredentials /\ ListedOrLate /\ NamelessIsLate /\ ResetIsThere

AccountInv == AccountTypeOK /\ SafeInv

Call == [at : CallPoint, credential : Credential, session : SUBSET Sessions,
         listed : SUBSET Sessions, reset : SUBSET Resets, late : BOOLEAN]

-----------------------------------------------------------------------------
(* Set moves one call.                                                     *)
LEMMA SetMoves ==
  ASSUME AccountTypeOK, NEW c \in Calls, NEW call \in Call, Set(c, call)
  PROVE  /\ calls' \in [Calls -> Call]
         /\ calls'[c] = call
         /\ \A d \in Calls : d # c => calls'[d] = calls[d]
BY DEF AccountTypeOK, Call, Set

(* SetAndOvertake makes the other calls that are under way late, and       *)
(* changes nothing else of them.                                           *)
LEMMA OvertakeMoves ==
  ASSUME AccountTypeOK, NEW c \in Calls, NEW call \in Call, SetAndOvertake(c, call)
  PROVE  /\ calls' \in [Calls -> Call]
         /\ calls'[c] = call
         /\ \A d \in Calls : d # c => /\ calls'[d].at = calls[d].at
                                      /\ calls'[d].listed = calls[d].listed
                                      /\ calls'[d].session = calls[d].session
                                      /\ calls'[d].reset = calls[d].reset
                                      /\ calls[d].at # "idle" => calls'[d].late
<1>1. calls \in [Calls -> Call]
  BY DEF AccountTypeOK, Call
<1>2. \A d \in Calls : calls[d] \in Call /\ [calls[d] EXCEPT !.late = TRUE] \in Call
  BY <1>1 DEF Call
<1> QED
  BY <1>1, <1>2 DEF SetAndOvertake, CallAt, Call

(* A call that does nothing is a call, and the calls are calls.            *)
LEMMA CallsAreCalls ==
  ASSUME AccountTypeOK, MaxCredential \in Nat \ {0}
  PROVE  /\ Idle \in Call /\ Idle.at = "idle"
         /\ \A c \in Calls : calls[c] \in Call
         /\ 0 \in Credential
BY DEF AccountTypeOK, Idle, Call, CallPoint, Credential

(* Revoking sessions changes no other one.                                 *)
LEMMA RevokeEnds ==
  ASSUME AccountTypeOK, MaxCredential \in Nat \ {0}, NEW gone \in SUBSET Sessions, sessions' = Revoke(gone)
  PROVE  /\ sessions' \in [Sessions -> [state : {"absent", "live", "revoked"},
                                        credential : Credential, late : BOOLEAN]]
         /\ \A s \in Sessions : s \in gone => sessions'[s].state = "revoked"
         /\ \A s \in Sessions : s \notin gone => sessions'[s] = sessions[s]
BY CallsAreCalls DEF AccountTypeOK, Revoke, Revoked, NoSession

-----------------------------------------------------------------------------
(* Every step keeps the types.                                             *)
LEMMA TypeStep ==
  ASSUME AccountTypeOK, MaxCredential \in Nat \ {0}, [AccountNext]_accountVars
  PROVE  AccountTypeOK'
<1> USE CallsAreCalls
<1>1. ASSUME NEW c \in Calls, LoginRead(c) PROVE AccountTypeOK'
  <2>1. [Idle EXCEPT !.at = "create", !.credential = user.password] \in Call
    BY DEF Call, AccountTypeOK, CallPoint
  <2> QED BY <1>1, <2>1, SetMoves DEF LoginRead, Begin, AccountTypeOK, Call
<1>2. ASSUME NEW c \in Calls, GoogleFind(c) PROVE AccountTypeOK'
  <2>1. [Idle EXCEPT !.at = "mark", !.credential = user.google] \in Call
    BY DEF Call, AccountTypeOK, CallPoint
  <2> QED BY <1>2, <2>1, SetMoves DEF GoogleFind, Begin, AccountTypeOK, Call
<1>3. ASSUME NEW c \in Calls, GoogleMark(c) PROVE AccountTypeOK'
  <2>1. (IF user.google = calls[c].credential THEN [calls[c] EXCEPT !.at = "create"] ELSE Idle) \in Call
    BY DEF Call, CallPoint
  <2> QED BY <1>3, <2>1, SetMoves DEF GoogleMark, Proceed, AccountTypeOK, Call
<1>4. ASSUME NEW c \in Calls, OpenSession(c) PROVE AccountTypeOK'
  <2>1. calls[c].late \/ ChangingBut(c) \in BOOLEAN
    BY DEF Call, ChangingBut
  <2>2. PICK s \in Sessions : sessions' = [sessions EXCEPT ![s] = [state |-> "live",
                    credential |-> calls[c].credential, late |-> calls[c].late \/ ChangingBut(c)]]
    BY <1>4 DEF OpenSession
  <2>3. calls[c].credential \in Credential /\ (calls[c].late \/ ChangingBut(c)) \in BOOLEAN
    BY DEF Call, ChangingBut
  <2>4. sessions' \in [Sessions -> [state : {"absent", "live", "revoked"}, credential : Credential, late : BOOLEAN]]
    BY <2>2, <2>3 DEF AccountTypeOK
  <2> QED BY <1>4, <2>4, SetMoves DEF OpenSession, AccountTypeOK, Call
<1>5. ASSUME NEW c \in Calls, LinkRead(c) PROVE AccountTypeOK'
  <2>1. [Idle EXCEPT !.at = "link"] \in Call
    BY DEF Call, CallPoint
  <2> QED BY <1>5, <2>1, SetMoves DEF LinkRead, Begin, AccountTypeOK, Call
<1>6. ASSUME NEW c \in Calls, LinkCommit(c) PROVE AccountTypeOK'
  <2>1. CASE user.google # 0
    BY <1>6, <2>1, SetMoves DEF LinkCommit, AccountTypeOK, Call
  <2>2. CASE user.google = 0
    <3>1. issued' \in Credential
      BY <1>6, <2>2 DEF LinkCommit, AccountTypeOK, Credential
    <3>2. [calls[c] EXCEPT !.at = "create", !.credential = issued', !.late = FALSE] \in Call
      BY <3>1 DEF Call, CallPoint
    <3>3. calls' \in [Calls -> Call]
      BY <1>6, <2>2, <3>2, SetMoves DEF LinkCommit
    <3>4. user' \in [status : {"ACTIVE", "DELETED"}, password : Credential, google : Credential, named : BOOLEAN]
      BY <1>6, <2>2, <3>1 DEF LinkCommit, AccountTypeOK
    <3>5. UNCHANGED <<sessions, resets, deletion>>
      BY <1>6 DEF LinkCommit
    <3> QED BY <3>1, <3>3, <3>4, <3>5 DEF AccountTypeOK, Call
  <2> QED BY <2>1, <2>2
<1>7. ASSUME NEW c \in Calls, RequestRead(c) PROVE AccountTypeOK'
  <2>1. [Idle EXCEPT !.at = "request"] \in Call
    BY DEF Call, CallPoint
  <2> QED BY <1>7, <2>1, SetMoves DEF RequestRead, Begin, AccountTypeOK, Call
<1>8. ASSUME NEW c \in Calls, RequestCreate(c) PROVE AccountTypeOK'
  <2>1. calls[c].late \in BOOLEAN
    BY DEF Call
  <2> QED BY <1>8, <2>1, SetMoves DEF RequestCreate, AccountTypeOK, Call
<1>9. ASSUME NEW c \in Calls, ConfirmRead(c) PROVE AccountTypeOK'
  <2>1. PICK r \in Resets : Begin(c, [Idle EXCEPT !.at = "confirm", !.reset = {r}])
    BY <1>9 DEF ConfirmRead
  <2>2. [Idle EXCEPT !.at = "confirm", !.reset = {r}] \in Call
    BY DEF Call, CallPoint
  <2> QED BY <2>1, <2>2, SetMoves DEF Begin, AccountTypeOK, Call
<1>10. ASSUME NEW c \in Calls, ConfirmCommit(c) PROVE AccountTypeOK'
  <2>1. CASE ~ResetStands(c)
    BY <1>10, <2>1, SetMoves DEF ConfirmCommit, AccountTypeOK, Call
  <2>2. CASE ResetStands(c)
    <3>1. issued' \in Credential
      BY <1>10, <2>2 DEF ConfirmCommit, AccountTypeOK, Credential
    <3>2. calls' \in [Calls -> Call]
      BY <1>10, <2>2, OvertakeMoves DEF ConfirmCommit
    <3>3. sessions' \in [Sessions -> [state : {"absent", "live", "revoked"}, credential : Credential, late : BOOLEAN]]
      BY <1>10, <2>2, RevokeEnds DEF ConfirmCommit, Live
    <3>4. resets' \in [Resets -> [state : {"absent", "open", "used", "deleted"}, late : BOOLEAN]]
      BY <1>10, <2>2 DEF ConfirmCommit, AccountTypeOK
    <3> QED BY <1>10, <2>2, <3>1, <3>2, <3>3, <3>4, ZenonT(40) DEF ConfirmCommit, AccountTypeOK, Call
  <2> QED BY <2>1, <2>2
<1>11. ASSUME NEW c \in Calls, NEW s \in Sessions, ChangeRead(c, s) PROVE AccountTypeOK'
  <2>1. [Idle EXCEPT !.at = "list", !.session = {s}] \in Call
    BY DEF Call, CallPoint
  <2> QED BY <1>11, <2>1, SetMoves DEF ChangeRead, Begin, AccountTypeOK, Call
<1>12. ASSUME NEW c \in Calls, ChangeList(c) PROVE AccountTypeOK'
  <2>1. [calls[c] EXCEPT !.at = "change", !.listed = Live \ calls[c].session] \in Call
    BY DEF Call, CallPoint, Live
  <2> QED BY <1>12, <2>1, SetMoves DEF ChangeList, Proceed, AccountTypeOK, Call
<1>13. ASSUME NEW c \in Calls, ChangeCommit(c) PROVE AccountTypeOK'
  <2>1. issued' \in Credential
    BY <1>13 DEF ChangeCommit, AccountTypeOK, Credential
  <2>2. calls' \in [Calls -> Call]
    BY <1>13, OvertakeMoves DEF ChangeCommit
  <2>3. ChangingBut(c) \in BOOLEAN
    BY DEF ChangingBut
  <2>4. Revoked \in [state : {"absent", "live", "revoked"}, credential : Credential, late : BOOLEAN]
    BY DEF Revoked, NoSession
  <2>5. [state |-> "live", credential |-> issued', late |-> ChangingBut(c)]
          \in [state : {"absent", "live", "revoked"}, credential : Credential, late : BOOLEAN]
    BY <2>1, <2>3
  <2>6. sessions' \in [Sessions -> [state : {"absent", "live", "revoked"}, credential : Credential, late : BOOLEAN]]
    BY <1>13, <2>4, <2>5 DEF ChangeCommit, AccountTypeOK
  <2> QED BY <1>13, <2>1, <2>2, <2>6 DEF ChangeCommit, AccountTypeOK, Call
<1>14. ASSUME NEW c \in Calls, NEW s \in Sessions, OthersList(c, s) PROVE AccountTypeOK'
  <2>1. [Idle EXCEPT !.at = "others", !.session = {s}, !.listed = Live \ {s}] \in Call
    BY DEF Call, CallPoint, Live
  <2> QED BY <1>14, <2>1, SetMoves DEF OthersList, Begin, AccountTypeOK, Call
<1>15. ASSUME NEW c \in Calls, OthersRevoke(c) PROVE AccountTypeOK'
  <2>1. calls[c].listed \in SUBSET Sessions
    BY DEF Call
  <2> QED BY <1>15, <2>1, RevokeEnds, SetMoves DEF OthersRevoke, AccountTypeOK, Call
<1>16. ASSUME NEW s \in Sessions, RevokeOne(s) PROVE AccountTypeOK'
  BY <1>16, RevokeEnds DEF RevokeOne, AccountTypeOK, Call
<1>17. ASSUME NEW s \in Sessions, RequestDelete(s) PROVE AccountTypeOK'
  BY <1>17 DEF RequestDelete, AccountTypeOK, Call
<1>18. ASSUME NEW c \in Calls, NEW s \in Sessions, DeleteRead(c, s) PROVE AccountTypeOK'
  <2>1. [Idle EXCEPT !.at = "delete"] \in Call
    BY DEF Call, CallPoint
  <2> QED BY <1>18, <2>1, SetMoves DEF DeleteRead, Begin, AccountTypeOK, Call
<1>19. ASSUME NEW c \in Calls, DeleteCommit(c) PROVE AccountTypeOK'
  <2>1. calls' \in [Calls -> Call]
    BY <1>19, OvertakeMoves DEF DeleteCommit
  <2>2. sessions' \in [Sessions -> [state : {"absent", "live", "revoked"}, credential : Credential, late : BOOLEAN]]
    BY <1>19, RevokeEnds DEF DeleteCommit, Live
  <2>3. resets' \in [Resets -> [state : {"absent", "open", "used", "deleted"}, late : BOOLEAN]]
    BY <1>19 DEF DeleteCommit, AccountTypeOK
  <2> QED BY <1>19, <2>1, <2>2, <2>3 DEF DeleteCommit, AccountTypeOK, Call
<1>20. ASSUME NEW c \in Calls, Fail(c) PROVE AccountTypeOK'
  BY <1>20, SetMoves DEF Fail, AccountTypeOK, Call
<1>21. CASE UNCHANGED accountVars
  BY <1>21 DEF accountVars, AccountTypeOK
<1> QED
  BY <1>1, <1>2, <1>3, <1>4, <1>5, <1>6, <1>7, <1>8, <1>9, <1>10, <1>11, <1>12, <1>13, <1>14, <1>15,
     <1>16, <1>17, <1>18, <1>19, <1>20, <1>21 DEF AccountNext, Go, Ask

LEMMA AccountTypeInit == AccountInit => AccountTypeOK
<1>1. 0 \in Credential /\ 1 \in Credential
  BY CredentialsAreBounded DEF Credential
<1>2. Idle \in Call
  BY <1>1 DEF Idle, Call, CallPoint
<1>3. NoSession \in [state : {"absent", "live", "revoked"}, credential : Credential, late : BOOLEAN]
  BY <1>1 DEF NoSession
<1>4. AccountInit => calls \in [Calls -> Call]
  BY <1>2 DEF AccountInit
<1>5. AccountInit => user \in [status : {"ACTIVE", "DELETED"}, password : Credential, google : Credential, named : BOOLEAN]
  BY <1>1 DEF AccountInit
<1>6. AccountInit => sessions \in [Sessions -> [state : {"absent", "live", "revoked"}, credential : Credential, late : BOOLEAN]]
  BY <1>3 DEF AccountInit
<1>7. AccountInit => resets \in [Resets -> [state : {"absent", "open", "used", "deleted"}, late : BOOLEAN]]
  BY DEF AccountInit
<1>8. AccountInit => deletion \in BOOLEAN /\ issued \in Credential
  BY <1>1 DEF AccountInit
<1> QED
  BY <1>4, <1>5, <1>6, <1>7, <1>8 DEF AccountTypeOK, Call

(* The variables keep their types.                                         *)
THEOREM AccountTypeCorrect == AccountSpec => []AccountTypeOK
<1>1. AccountTypeOK /\ [AccountNext]_accountVars => AccountTypeOK'
  BY TypeStep, CredentialsAreBounded
<1> QED
  BY <1>1, AccountTypeInit, PTL DEF AccountSpec

-----------------------------------------------------------------------------
(* What a step leaves of the calls when it begins, moves or ends one and   *)
(* nothing else: the invariant stays if the moved call fits into it.       *)
Fits(call) ==
  /\ call.at \in {"mark", "create"} => call.late \/ call.credential \in Current
  /\ call.at = "change" => \A s \in Live : sessions[s].late \/ s \in call.listed \/ s \in call.session
  /\ ~user.named => (call.at \in {"link", "request"} => call.late)
  /\ call.at = "confirm" => \A r \in call.reset : resets[r].state # "absent"

LEMMA CallMoves ==
  ASSUME AccountInv, NEW c \in Calls, NEW call \in Call, Set(c, call), Fits(call),
         UNCHANGED <<user, sessions, resets>>
  PROVE  SafeInv'
<1>1. \A d \in Calls : calls'[d] = IF d = c THEN call ELSE calls[d]
  BY SetMoves DEF AccountInv
<1>2. EndedCredentialsEnd'
  BY DEF AccountInv, SafeInv, EndedCredentialsEnd, Live
<1>3. FreshCredentials'
  BY <1>1 DEF AccountInv, SafeInv, FreshCredentials, Current, Fits
<1>4. ListedOrLate'
  BY <1>1 DEF AccountInv, SafeInv, ListedOrLate, Live, Fits
<1>5. NamelessIsLate'
  BY <1>1 DEF AccountInv, SafeInv, NamelessIsLate, Fits
<1>6. ResetIsThere'
  BY <1>1 DEF AccountInv, SafeInv, ResetIsThere, Fits
<1> QED
  BY <1>2, <1>3, <1>4, <1>5, <1>6 DEF SafeInv

(* A call that is idle fits, whatever the user's row.                      *)
LEMMA IdleFits == Fits(Idle)
BY DEF Fits, Idle

(* Fewer sessions alive, and the rest as it was.                           *)
LEMMA FewerSessions ==
  ASSUME AccountInv, MaxCredential \in Nat \ {0}, NEW gone \in SUBSET Sessions, sessions' = Revoke(gone),
         UNCHANGED <<user, resets>>,
         \A d \in Calls : calls'[d] = calls[d] \/ calls'[d] = Idle
  PROVE  SafeInv'
<1>1. \A s \in Sessions : s \in Live' => s \in Live /\ sessions'[s] = sessions[s]
  BY RevokeEnds DEF AccountInv, Live
<1>2. EndedCredentialsEnd'
  BY <1>1 DEF AccountInv, SafeInv, EndedCredentialsEnd, Live
<1>3. FreshCredentials'
  BY DEF AccountInv, SafeInv, FreshCredentials, Current, Idle
<1>4. ListedOrLate'
  BY <1>1 DEF AccountInv, SafeInv, ListedOrLate, Live, Idle
<1>5. NamelessIsLate'
  BY DEF AccountInv, SafeInv, NamelessIsLate, Idle
<1>6. ResetIsThere'
  BY DEF AccountInv, SafeInv, ResetIsThere, Idle
<1> QED
  BY <1>2, <1>3, <1>4, <1>5, <1>6 DEF SafeInv

(* A step that ends every session and overtakes every call: whatever was   *)
(* proven before counts for nothing now.                                   *)
LEMMA AllEnd ==
  ASSUME AccountInv, MaxCredential \in Nat \ {0}, NEW c \in Calls, SetAndOvertake(c, Idle),
         sessions' = Revoke(Live),
         user'.status = "DELETED" => ~user'.named,
         user'.named \/ \A r \in Resets : resets'[r].state \in {"open", "used"} => resets'[r].late,
         \A r \in Resets : resets[r].state # "absent" => resets'[r].state # "absent"
  PROVE  SafeInv'
<1>1. Live' = {}
  BY RevokeEnds DEF AccountInv, Live
<1>2. /\ calls'[c] = Idle
      /\ \A d \in Calls : d # c => /\ calls'[d].at = calls[d].at
                                   /\ calls'[d].reset = calls[d].reset
                                   /\ calls[d].at # "idle" => calls'[d].late
  BY CallsAreCalls, OvertakeMoves DEF AccountInv
<1>3. EndedCredentialsEnd' /\ ListedOrLate'
  BY <1>1 DEF EndedCredentialsEnd, ListedOrLate
<1>4. FreshCredentials'
  BY <1>2 DEF FreshCredentials, Idle
<1>5. NamelessIsLate'
  BY <1>2 DEF NamelessIsLate, Idle
<1>6. ResetIsThere'
  <2>1. \A d \in Calls : calls[d].reset \in SUBSET Resets
    BY CallsAreCalls DEF AccountInv, Call
  <2> QED BY <1>2, <2>1 DEF AccountInv, SafeInv, ResetIsThere, Idle
<1> QED
  BY <1>3, <1>4, <1>5, <1>6 DEF SafeInv

(* Every step keeps the invariant.                                         *)
LEMMA SafeStep ==
  ASSUME AccountInv, MaxCredential \in Nat \ {0}, [AccountNext]_accountVars
  PROVE  SafeInv'
<1>0. AccountTypeOK
  BY DEF AccountInv
<1> USE CallsAreCalls, IdleFits, <1>0
<1>1. ASSUME NEW c \in Calls, LoginRead(c) PROVE SafeInv'
  <2> DEFINE call == [Idle EXCEPT !.at = "create", !.credential = user.password]
  <2>1. call \in Call
    BY DEF Call, AccountTypeOK, CallPoint
  <2>2. Fits(call)
    BY <1>1 DEF LoginRead, Fits, Current, Idle
  <2> QED BY <1>1, <2>1, <2>2, CallMoves DEF LoginRead, Begin
<1>2. ASSUME NEW c \in Calls, GoogleFind(c) PROVE SafeInv'
  <2> DEFINE call == [Idle EXCEPT !.at = "mark", !.credential = user.google]
  <2>1. call \in Call
    BY DEF Call, AccountTypeOK, CallPoint
  <2>2. Fits(call)
    BY <1>2 DEF GoogleFind, Fits, Current, Idle
  <2> QED BY <1>2, <2>1, <2>2, CallMoves DEF GoogleFind, Begin
<1>3. ASSUME NEW c \in Calls, GoogleMark(c) PROVE SafeInv'
  <2> DEFINE call == IF user.google = calls[c].credential THEN [calls[c] EXCEPT !.at = "create"] ELSE Idle
  <2>1. call \in Call
    BY DEF Call, CallPoint
  <2>2. Fits(call)
    <3>1. calls[c].late \/ calls[c].credential \in Current
      BY <1>3 DEF GoogleMark, Proceed, CallAt, AccountInv, SafeInv, FreshCredentials
    <3>2. [calls[c] EXCEPT !.at = "create"].at = "create"
          /\ [calls[c] EXCEPT !.at = "create"].late = calls[c].late
          /\ [calls[c] EXCEPT !.at = "create"].credential = calls[c].credential
      BY DEF Call
    <3>3. Fits([calls[c] EXCEPT !.at = "create"])
      BY <3>1, <3>2 DEF Fits
    <3> QED BY <3>3
  <2> QED BY <1>3, <2>1, <2>2, CallMoves DEF GoogleMark, Proceed
<1>4. ASSUME NEW c \in Calls, OpenSession(c) PROVE SafeInv'
  <2>1. PICK s \in Sessions :
          /\ sessions[s].state = "absent"
          /\ sessions' = [sessions EXCEPT ![s] = [state |-> "live", credential |-> calls[c].credential,
                                                  late |-> calls[c].late \/ ChangingBut(c)]]
    BY <1>4 DEF OpenSession
  <2>2. /\ sessions'[s].credential = calls[c].credential
        /\ sessions'[s].late = (calls[c].late \/ ChangingBut(c))
        /\ \A t \in Sessions : t # s => sessions'[t] = sessions[t]
    BY <2>1 DEF AccountTypeOK
  <2>3. \A t \in Live' : t = s \/ (t \in Live /\ sessions'[t] = sessions[t])
    BY <2>2 DEF Live
  <2>4. \A d \in Calls : calls'[d] = IF d = c THEN Idle ELSE calls[d]
    BY <1>4, SetMoves DEF OpenSession
  <2>5. UNCHANGED <<user, resets>>
    BY <1>4 DEF OpenSession
  <2>6. calls[c].late \/ calls[c].credential \in Current
    BY <1>4 DEF OpenSession, CallAt, AccountInv, SafeInv, FreshCredentials
  <2>7. EndedCredentialsEnd'
    BY <2>2, <2>3, <2>5, <2>6 DEF AccountInv, SafeInv, EndedCredentialsEnd, Current
  <2>8. FreshCredentials'
    BY <2>4, <2>5 DEF AccountInv, SafeInv, FreshCredentials, Current, Idle
  <2>9. ListedOrLate'
    <3> SUFFICES ASSUME NEW d \in Calls, calls'[d].at = "change", NEW t \in Live'
                 PROVE  (sessions[t].late \/ t \in calls[d].listed \/ t \in calls[d].session)'
      BY DEF ListedOrLate
    <3>1. d # c /\ calls'[d] = calls[d]
      BY <2>4 DEF Idle
    <3>2. CASE t = s
      <4>1. ChangingBut(c)
        BY <3>1 DEF ChangingBut, CallAt
      <4> QED BY <3>2, <4>1, <2>2
    <3>3. CASE t # s
      BY <3>1, <3>3, <2>3 DEF AccountInv, SafeInv, ListedOrLate
    <3> QED BY <3>2, <3>3
  <2>10. NamelessIsLate'
    BY <2>4, <2>5 DEF AccountInv, SafeInv, NamelessIsLate, Idle
  <2>11. ResetIsThere'
    BY <2>4, <2>5 DEF AccountInv, SafeInv, ResetIsThere, Idle
  <2> QED BY <2>7, <2>8, <2>9, <2>10, <2>11 DEF SafeInv
<1>5. ASSUME NEW c \in Calls, LinkRead(c) PROVE SafeInv'
  <2> DEFINE call == [Idle EXCEPT !.at = "link"]
  <2>1. call \in Call
    BY DEF Call, CallPoint
  <2>2. Fits(call)
    BY <1>5 DEF LinkRead, Fits, Idle
  <2> QED BY <1>5, <2>1, <2>2, CallMoves DEF LinkRead, Begin
<1>6. ASSUME NEW c \in Calls, LinkCommit(c) PROVE SafeInv'
  <2>1. CASE user.google # 0
    BY <1>6, <2>1, CallMoves DEF LinkCommit
  <2>2. CASE user.google = 0
    <3> DEFINE call == [calls[c] EXCEPT !.at = "create", !.credential = issued', !.late = FALSE]
    <3>1. issued' \in Credential /\ issued' # 0
      BY <1>6, <2>2 DEF LinkCommit, AccountTypeOK, Credential
    <3>2. call \in Call /\ call.at = "create" /\ call.credential = issued'
      BY <3>1 DEF Call, CallPoint
    <3>3. \A d \in Calls : calls'[d] = IF d = c THEN call ELSE calls[d]
      BY <1>6, <2>2, <3>2, SetMoves DEF LinkCommit
    <3>4. user' = [user EXCEPT !.google = issued', !.status = "ACTIVE"] /\ UNCHANGED <<sessions, resets>>
      BY <1>6, <2>2 DEF LinkCommit
    <3>5. user'.google = issued' /\ user'.password = user.password /\ user'.named = user.named /\ user'.status = "ACTIVE"
      BY <3>4 DEF AccountTypeOK
    <3>6. Current \subseteq Current' /\ issued' \in Current'
      BY <2>2, <3>1, <3>5 DEF Current
    <3>7. EndedCredentialsEnd'
      BY <3>4, <3>6 DEF AccountInv, SafeInv, EndedCredentialsEnd, Current, Live
    <3>8. FreshCredentials'
      BY <3>2, <3>3, <3>6 DEF AccountInv, SafeInv, FreshCredentials
    <3>9. ListedOrLate'
      BY <3>2, <3>3, <3>4 DEF AccountInv, SafeInv, ListedOrLate, Live
    <3>10. NamelessIsLate'
      BY <3>2, <3>3, <3>4, <3>5 DEF AccountInv, SafeInv, NamelessIsLate
    <3>11. ResetIsThere'
      BY <3>2, <3>3, <3>4 DEF AccountInv, SafeInv, ResetIsThere
    <3> QED BY <3>7, <3>8, <3>9, <3>10, <3>11 DEF SafeInv
  <2> QED BY <2>1, <2>2
<1>7. ASSUME NEW c \in Calls, RequestRead(c) PROVE SafeInv'
  <2> DEFINE call == [Idle EXCEPT !.at = "request"]
  <2>1. call \in Call
    BY DEF Call, CallPoint
  <2>2. Fits(call)
    BY <1>7 DEF RequestRead, Fits, Idle
  <2> QED BY <1>7, <2>1, <2>2, CallMoves DEF RequestRead, Begin
<1>8. ASSUME NEW c \in Calls, RequestCreate(c) PROVE SafeInv'
  <2>1. PICK r \in Resets : /\ resets[r].state = "absent"
                            /\ resets' = [resets EXCEPT ![r] = [state |-> "open", late |-> calls[c].late]]
    BY <1>8 DEF RequestCreate
  <2>2. /\ resets'[r].state = "open" /\ resets'[r].late = calls[c].late
        /\ \A q \in Resets : q # r => resets'[q] = resets[q]
    BY <2>1 DEF AccountTypeOK
  <2>3. \A d \in Calls : calls'[d] = IF d = c THEN Idle ELSE calls[d]
    BY <1>8, SetMoves DEF RequestCreate
  <2>4. UNCHANGED <<user, sessions>> /\ calls[c].at = "request"
    BY <1>8 DEF RequestCreate, CallAt
  <2>5. EndedCredentialsEnd'
    BY <2>4 DEF AccountInv, SafeInv, EndedCredentialsEnd, Live
  <2>6. FreshCredentials'
    BY <2>3, <2>4 DEF AccountInv, SafeInv, FreshCredentials, Current, Idle
  <2>7. ListedOrLate'
    BY <2>3, <2>4 DEF AccountInv, SafeInv, ListedOrLate, Live, Idle
  <2>8. NamelessIsLate'
    BY <2>2, <2>3, <2>4 DEF AccountInv, SafeInv, NamelessIsLate, Idle
  <2>9. ResetIsThere'
    <3>1. \A d \in Calls : calls[d].reset \in SUBSET Resets
      BY DEF Call
    <3> QED BY <2>2, <2>3, <3>1 DEF AccountInv, SafeInv, ResetIsThere, Idle
  <2> QED BY <2>5, <2>6, <2>7, <2>8, <2>9 DEF SafeInv
<1>9. ASSUME NEW c \in Calls, ConfirmRead(c) PROVE SafeInv'
  <2>1. PICK r \in Resets : resets[r].state = "open" /\ Begin(c, [Idle EXCEPT !.at = "confirm", !.reset = {r}])
    BY <1>9 DEF ConfirmRead
  <2> DEFINE call == [Idle EXCEPT !.at = "confirm", !.reset = {r}]
  <2>2. call \in Call
    BY DEF Call, CallPoint
  <2>3. Fits(call)
    BY <2>1 DEF Fits, Idle
  <2> QED BY <2>1, <2>2, <2>3, CallMoves DEF Begin
<1>10. ASSUME NEW c \in Calls, ConfirmCommit(c) PROVE SafeInv'
  <2>1. CASE ~ResetStands(c)
    BY <1>10, <2>1, CallMoves DEF ConfirmCommit
  <2>2. CASE ResetStands(c)
    <3>1. user' = [user EXCEPT !.password = issued', !.status = "ACTIVE"]
          /\ sessions' = Revoke(Live) /\ SetAndOvertake(c, Idle)
          /\ resets' = [r \in Resets |-> IF r \in calls[c].reset THEN [resets[r] EXCEPT !.state = "used"]
                                         ELSE resets[r]]
      BY <1>10, <2>2 DEF ConfirmCommit
    <3>2. user'.status = "ACTIVE" /\ user'.named = user.named
      BY <3>1 DEF AccountTypeOK
    <3>3. \A r \in Resets : /\ resets'[r].late = resets[r].late
                            /\ resets'[r].state = IF r \in calls[c].reset THEN "used" ELSE resets[r].state
      BY <3>1 DEF AccountTypeOK
    <3>4. \A r \in calls[c].reset : resets[r].state \notin {"absent", "deleted"}
      BY <1>10, <2>2 DEF ConfirmCommit, ResetStands, CallAt, AccountInv, SafeInv, ResetIsThere
    <3>5. user'.named \/ \A r \in Resets : resets'[r].state \in {"open", "used"} => resets'[r].late
      <4>1. \A r \in Resets : resets[r].state \in {"absent", "open", "used", "deleted"}
        BY DEF AccountTypeOK
      <4> QED BY <3>2, <3>3, <3>4, <4>1 DEF AccountInv, SafeInv, NamelessIsLate
    <3>6. \A r \in Resets : resets[r].state # "absent" => resets'[r].state # "absent"
      BY <3>3
    <3> QED BY <3>1, <3>2, <3>5, <3>6, AllEnd
  <2> QED BY <2>1, <2>2
<1>11. ASSUME NEW c \in Calls, NEW s \in Sessions, ChangeRead(c, s) PROVE SafeInv'
  <2> DEFINE call == [Idle EXCEPT !.at = "list", !.session = {s}]
  <2>1. call \in Call
    BY DEF Call, CallPoint
  <2>2. Fits(call)
    BY DEF Fits, Idle
  <2> QED BY <1>11, <2>1, <2>2, CallMoves DEF ChangeRead, Begin
<1>12. ASSUME NEW c \in Calls, ChangeList(c) PROVE SafeInv'
  <2> DEFINE call == [calls[c] EXCEPT !.at = "change", !.listed = Live \ calls[c].session]
  <2>1. call \in Call /\ call.at = "change" /\ call.listed = Live \ calls[c].session
        /\ call.session = calls[c].session
    BY DEF Call, CallPoint, Live
  <2>2. Fits(call)
    BY <2>1 DEF Fits
  <2> QED BY <1>12, <2>1, <2>2, CallMoves DEF ChangeList, Proceed
<1>13. ASSUME NEW c \in Calls, ChangeCommit(c) PROVE SafeInv'
  <2>1. /\ calls'[c] = Idle
        /\ \A d \in Calls : d # c => /\ calls'[d].at = calls[d].at
                                     /\ calls'[d].listed = calls[d].listed
                                     /\ calls'[d].session = calls[d].session
                                     /\ calls'[d].reset = calls[d].reset
                                     /\ calls[d].at # "idle" => calls'[d].late
    BY <1>13, OvertakeMoves DEF ChangeCommit
  <2>2. user' = [user EXCEPT !.password = issued'] /\ UNCHANGED resets /\ issued' \in Nat \ {0}
    BY <1>13 DEF ChangeCommit, AccountTypeOK, Credential
  <2>3. user'.password = issued' /\ user'.google = user.google /\ user'.named = user.named /\ user'.status = user.status
    BY <2>2 DEF AccountTypeOK
  <2>4. \A s \in Live' : /\ s \in Live /\ s \notin calls[c].listed
                         /\ IF s \in calls[c].session
                            THEN sessions'[s].credential = issued' /\ sessions'[s].late = ChangingBut(c)
                            ELSE sessions'[s] = sessions[s]
    BY <1>13 DEF ChangeCommit, Live, Revoked, NoSession
  <2>5. \A s \in Live : sessions[s].late \/ s \in calls[c].listed \/ s \in calls[c].session
    BY <1>13 DEF ChangeCommit, CallAt, AccountInv, SafeInv, ListedOrLate
  <2>6. EndedCredentialsEnd'
    BY <2>2, <2>3, <2>4, <2>5 DEF EndedCredentialsEnd
  <2>7. FreshCredentials'
    BY <2>1 DEF FreshCredentials, Idle
  <2>8. ListedOrLate'
    <3> SUFFICES ASSUME NEW d \in Calls, calls'[d].at = "change", NEW s \in Live'
                 PROVE  (sessions[s].late \/ s \in calls[d].listed \/ s \in calls[d].session)'
      BY DEF ListedOrLate
    <3>1. d # c /\ calls[d].at = "change"
      BY <2>1 DEF Idle
    <3>2. CASE s \in calls[c].session
      <4>1. ChangingBut(c)
        BY <3>1 DEF ChangingBut, CallAt
      <4> QED BY <2>4, <3>2, <4>1
    <3>3. CASE s \notin calls[c].session
      BY <2>1, <2>4, <3>1, <3>3 DEF AccountInv, SafeInv, ListedOrLate
    <3> QED BY <3>2, <3>3
  <2>9. NamelessIsLate'
    BY <2>1, <2>2, <2>3 DEF AccountInv, SafeInv, NamelessIsLate, Idle
  <2>10. ResetIsThere'
    BY <2>1, <2>2 DEF AccountInv, SafeInv, ResetIsThere, Idle
  <2> QED BY <2>6, <2>7, <2>8, <2>9, <2>10 DEF SafeInv
<1>14. ASSUME NEW c \in Calls, NEW s \in Sessions, OthersList(c, s) PROVE SafeInv'
  <2> DEFINE call == [Idle EXCEPT !.at = "others", !.session = {s}, !.listed = Live \ {s}]
  <2>1. call \in Call
    BY DEF Call, CallPoint, Live
  <2>2. Fits(call)
    BY DEF Fits, Idle
  <2> QED BY <1>14, <2>1, <2>2, CallMoves DEF OthersList, Begin
<1>15. ASSUME NEW c \in Calls, OthersRevoke(c) PROVE SafeInv'
  <2>1. calls[c].listed \in SUBSET Sessions
    BY DEF Call
  <2>2. \A d \in Calls : calls'[d] = calls[d] \/ calls'[d] = Idle
    BY <1>15, SetMoves DEF OthersRevoke
  <2> QED BY <1>15, <2>1, <2>2, FewerSessions DEF OthersRevoke
<1>16. ASSUME NEW s \in Sessions, RevokeOne(s) PROVE SafeInv'
  BY <1>16, FewerSessions DEF RevokeOne
<1>17. ASSUME NEW s \in Sessions, RequestDelete(s) PROVE SafeInv'
  BY <1>17 DEF RequestDelete, AccountInv, SafeInv, EndedCredentialsEnd, FreshCredentials, Current,
               ListedOrLate, NamelessIsLate, ResetIsThere, Live
<1>18. ASSUME NEW c \in Calls, NEW s \in Sessions, DeleteRead(c, s) PROVE SafeInv'
  <2> DEFINE call == [Idle EXCEPT !.at = "delete"]
  <2>1. call \in Call
    BY DEF Call, CallPoint
  <2>2. Fits(call)
    BY DEF Fits, Idle
  <2> QED BY <1>18, <2>1, <2>2, CallMoves DEF DeleteRead, Begin
<1>19. ASSUME NEW c \in Calls, DeleteCommit(c) PROVE SafeInv'
  <2>1. ~user'.named /\ sessions' = Revoke(Live) /\ SetAndOvertake(c, Idle)
    BY <1>19 DEF DeleteCommit
  <2>2. \A r \in Resets : resets'[r] = IF resets[r].state = "absent" THEN resets[r]
                                       ELSE [state |-> "deleted", late |-> FALSE]
    BY <1>19 DEF DeleteCommit
  <2> QED BY <2>1, <2>2, AllEnd
<1>20. ASSUME NEW c \in Calls, Fail(c) PROVE SafeInv'
  BY <1>20, CallMoves DEF Fail
<1>21. CASE UNCHANGED accountVars
  BY <1>21 DEF accountVars, AccountInv, SafeInv, EndedCredentialsEnd, FreshCredentials, Current,
               ListedOrLate, NamelessIsLate, ResetIsThere, Live
<1> QED
  BY <1>1, <1>2, <1>3, <1>4, <1>5, <1>6, <1>7, <1>8, <1>9, <1>10, <1>11, <1>12, <1>13, <1>14, <1>15,
     <1>16, <1>17, <1>18, <1>19, <1>20, <1>21 DEF AccountNext, Go, Ask

(* The invariant holds from the first state on.                            *)
LEMMA AccountInvariant == AccountSpec => []AccountInv
<1>1. AccountInit => SafeInv
  BY DEF AccountInit, SafeInv, EndedCredentialsEnd, FreshCredentials, ListedOrLate, NamelessIsLate, ResetIsThere,
         Live, NoSession, Idle
<1>2. AccountInv /\ AccountTypeOK' /\ [AccountNext]_accountVars => AccountInv'
  BY SafeStep, CredentialsAreBounded DEF AccountInv
<1>3. AccountInit /\ AccountTypeOK => AccountInv
  BY <1>1 DEF AccountInv
<1> QED
  BY <1>2, <1>3, AccountTypeCorrect, PTL DEF AccountSpec

(* However sign-ins, resets, changes of password, links and deletions      *)
(* cross, a session without a credential of the user's was opened by a     *)
(* sign-in that crossed the change which took it away.                     *)
THEOREM AccountEndedCredentialsEnd == AccountSpec => []EndedCredentialsEnd
<1>1. AccountInv => EndedCredentialsEnd
  BY DEF AccountInv, SafeInv
<1> QED
  BY <1>1, AccountInvariant, PTL

-----------------------------------------------------------------------------
Revived ==
  user.status = "DELETED" /\ user'.status # "DELETED" =>
    \E c \in Calls :
      \/ CallAt(c, "link") /\ calls[c].late
      \/ CallAt(c, "confirm") /\ \A r \in calls[c].reset : resets[r].late

(* Only the commits of a link and of a reset write the status of a deleted *)
(* user, and they were begun before the deletion.                          *)
LEMMA RevivedStep ==
  ASSUME AccountInv, [AccountNext]_accountVars
  PROVE  Revived
<1>0. AccountTypeOK /\ NamelessIsLate /\ ResetIsThere
  BY DEF AccountInv, SafeInv
<1>1. ASSUME NEW c \in Calls, LinkCommit(c) PROVE Revived
  BY <1>0, <1>1 DEF LinkCommit, CallAt, Revived, NamelessIsLate
<1>2. ASSUME NEW c \in Calls, ConfirmCommit(c) PROVE Revived
  <2>1. CASE ~ResetStands(c)
    BY <1>2, <2>1 DEF ConfirmCommit, Revived
  <2>2. CASE ResetStands(c)
    <3>1. CallAt(c, "confirm") /\ calls[c].reset \in SUBSET Resets
      BY <1>0, <1>2 DEF ConfirmCommit, AccountTypeOK
    <3>2. \A r \in calls[c].reset : resets[r].state \in {"open", "used"}
      <4>1. \A r \in Resets : resets[r].state \in {"absent", "open", "used", "deleted"}
        BY <1>0 DEF AccountTypeOK
      <4> QED BY <1>0, <2>2, <3>1, <4>1 DEF ResetStands, ResetIsThere, CallAt
    <3>3. user.status = "DELETED" => \A r \in calls[c].reset : resets[r].late
      BY <1>0, <3>1, <3>2 DEF NamelessIsLate
    <3> QED BY <3>1, <3>3 DEF Revived
  <2> QED BY <2>1, <2>2
<1>3. ASSUME NEW c \in Calls, ChangeCommit(c) PROVE Revived
  <2>1. user' = [user EXCEPT !.password = issued']
    BY <1>3 DEF ChangeCommit
  <2> QED BY <1>0, <2>1 DEF AccountTypeOK, Revived
<1>4. ASSUME NEW c \in Calls, DeleteCommit(c) PROVE Revived
  BY <1>4 DEF DeleteCommit, Revived
<1>5. ASSUME NEW c \in Calls, Go(c) PROVE Revived
  BY <1>1, <1>2, <1>3, <1>4, <1>5
     DEF Go, LoginRead, GoogleFind, GoogleMark, OpenSession, LinkRead, RequestRead, RequestCreate,
         ConfirmRead, ChangeList, OthersRevoke, Fail, Begin, Proceed, Revived
<1>6. ASSUME NEW c \in Calls, NEW s \in Sessions, Ask(c, s) PROVE Revived
  BY <1>6 DEF Ask, ChangeRead, OthersList, DeleteRead, Begin, Revived
<1>7. ASSUME NEW s \in Sessions, RevokeOne(s) \/ RequestDelete(s) PROVE Revived
  BY <1>7 DEF RevokeOne, RequestDelete, Revived
<1>8. CASE UNCHANGED accountVars
  BY <1>8 DEF accountVars, Revived
<1> QED
  BY <1>5, <1>6, <1>7, <1>8 DEF AccountNext

(* A deleted account is revived by nothing that was begun after the        *)
(* deletion: no reset mailed before it, and no link asked for after it.    *)
THEOREM AccountDeletedStaysDeleted == AccountSpec => DeletedStaysDeleted
<1>1. AccountInv /\ [AccountNext]_accountVars => [Revived]_accountVars
  BY RevivedStep
<1> QED
  BY <1>1, AccountInvariant, PTL DEF AccountSpec, DeletedStaysDeleted, Revived

-----------------------------------------------------------------------------

(* Idempotency.  Whatever a record answers with is the response of an      *)
(* operation that was executed; the entry is also compared by that         *)
(* operation's own hash, which the row need not be.                        *)
RowFits(record) ==
  /\ Money!Sound(record)
  /\ record.by # "nobody" => record.by \in operated

EntryFits(record) ==
  /\ RowFits(record)
  /\ record.status = "COMPLETED" => record.hash = Bodies[record.by]

(* What a request may rely on where it is.                                 *)
OperationFits(r, request) ==
  /\ request.at \in {"complete", "answered"} => r \in operated
  /\ request.at = "replayed" => request.from \in operated

WriteFits(w) == w.kind = "complete" => w.by \in operated

MoneyInv ==
  /\ RowFits(moneyRow) /\ EntryFits(moneyEntry)
  /\ operations \in [Operations -> Money!Request]
  /\ operated \subseteq Operations
  /\ writes \subseteq Money!Write
  /\ \A r \in Operations : OperationFits(r, operations[r])
  /\ \A w \in writes : WriteFits(w)

LEMMA MoneyIsTyped == MoneyInv => Money!TypeOK /\ Money!ReplayIsExecuted /\ Money!EntryAnswersItsHash
<1> SUFFICES ASSUME MoneyInv
             PROVE  Money!TypeOK /\ Money!ReplayIsExecuted /\ Money!EntryAnswersItsHash
  OBVIOUS
<1>1. Money!TypeOK
  BY DEF MoneyInv, RowFits, EntryFits, Money!TypeOK, Money!RowsTypeOK
<1>2. Money!ReplayIsExecuted
  BY DEF MoneyInv, OperationFits, Money!ReplayIsExecuted, Money!At
<1>3. moneyEntry.status = "COMPLETED" => moneyEntry.by # "nobody"
  BY DEF MoneyInv, EntryFits, RowFits, Money!Sound, Money!Nobody
<1>4. Money!EntryAnswersItsHash
  BY <1>3 DEF MoneyInv, EntryFits, RowFits, Money!EntryAnswersItsHash
<1>5. QED
  BY <1>1, <1>2, <1>4

(* The records that a step may leave behind.                               *)
LEMMA NoneFits == RowFits(Money!None) /\ EntryFits(Money!None)
BY DEF RowFits, EntryFits, Money!Sound, Money!None, Money!Record, Money!Nobody

LEMMA InProgressFits ==
  ASSUME NEW r \in Operations
  PROVE  RowFits(Money!InProgress(r)) /\ EntryFits(Money!InProgress(r))
BY DEF RowFits, EntryFits, Money!Sound, Money!InProgress, Money!Record, Money!Nobody

LEMMA CompletedFits ==
  ASSUME NEW r \in Operations, r \in operated
  PROVE  /\ EntryFits([status |-> "COMPLETED", hash |-> Bodies[r], by |-> r])
         /\ \A record : RowFits(record) =>
              RowFits([record EXCEPT !.status = "COMPLETED", !.by = r])
<1>1. r # "nobody"
  BY KeyNames
<1>2. EntryFits([status |-> "COMPLETED", hash |-> Bodies[r], by |-> r])
  BY <1>1 DEF EntryFits, RowFits, Money!Sound, Money!Record, Money!Nobody
<1>3. ASSUME NEW record, RowFits(record)
      PROVE  RowFits([record EXCEPT !.status = "COMPLETED", !.by = r])
  BY <1>1, <1>3 DEF RowFits, Money!Sound, Money!Record, Money!Nobody
<1>4. QED
  BY <1>2, <1>3

LEMMA FailedFits ==
  ASSUME NEW record, RowFits(record)
  PROVE  RowFits([record EXCEPT !.status = "FAILED", !.by = "nobody"])
BY DEF RowFits, Money!Sound, Money!Record, Money!Nobody

(* A step moves one request, executes at most its operation, and leaves    *)
(* records behind that fit.                                                *)
LEMMA MoneyMoves ==
  ASSUME MoneyInv, NEW r \in Operations, NEW request \in Money!Request,
         operations' = [operations EXCEPT ![r] = request],
         operated \subseteq operated', operated' \subseteq Operations,
         OperationFits(r, request)',
         RowFits(moneyRow)', EntryFits(moneyEntry)',
         writes' \subseteq Money!Write,
         \A w \in writes' : w \in writes \/ WriteFits(w)'
  PROVE  MoneyInv'
<1>1. operations' \in [Operations -> Money!Request]
      /\ \A s \in Operations : operations'[s] = IF s = r THEN request ELSE operations[s]
  BY DEF MoneyInv
<1>2. ASSUME NEW s \in Operations PROVE OperationFits(s, operations[s])'
  <2>1. CASE s = r
    BY <1>1, <2>1 DEF OperationFits
  <2>2. CASE s # r
    <3>1. operations'[s] = operations[s] /\ OperationFits(s, operations[s])
      BY <1>1, <2>2 DEF MoneyInv
    <3>2. QED
      BY <3>1 DEF OperationFits
  <2>3. QED
    BY <2>1, <2>2
<1>3. \A w \in writes' : WriteFits(w)'
  BY DEF MoneyInv, WriteFits
<1>4. QED
  BY <1>1, <1>2, <1>3 DEF MoneyInv

(* The ways a request goes on without executing anything.                  *)
LEMMA MoneyGoes ==
  ASSUME MoneyInv, NEW r \in Operations, NEW point \in Money!Point,
         Money!Goto(r, point), operated' = operated,
         point = "replayed" => FALSE,
         point = "complete" => FALSE,
         point = "answered" => r \in operated
  PROVE  \E request \in Money!Request : /\ operations' = [operations EXCEPT ![r] = request]
                                        /\ OperationFits(r, request)'
<1> DEFINE request == [operations[r] EXCEPT !.at = point]
<1>1. request \in Money!Request /\ request.at = point /\ request.from = operations[r].from
  BY DEF MoneyInv, Money!Request
<1>2. operations' = [operations EXCEPT ![r] = request]
  BY DEF Money!Goto
<1> HIDE DEF request
<1>3. QED
  BY <1>1, <1>2 DEF OperationFits

LEMMA MoneyReserves ==
  ASSUME MoneyInv, NEW r \in Operations, NEW backend \in {"redis", "database"},
         Money!Reserved(r, backend), operated' = operated
  PROVE  \E request \in Money!Request : /\ operations' = [operations EXCEPT ![r] = request]
                                        /\ OperationFits(r, request)'
<1> DEFINE request == [operations[r] EXCEPT !.at = "work", !.backend = backend]
<1>1. operations[r] \in Money!Request
  BY DEF MoneyInv
<1>2. request \in Money!Request /\ request.at = "work"
  BY <1>1 DEF Money!Request, Money!Point
<1>3. operations' = [operations EXCEPT ![r] = request]
  BY DEF Money!Reserved
<1> HIDE DEF request
<1>4. QED
  BY <1>2, <1>3 DEF OperationFits

LEMMA MoneyAnswers ==
  ASSUME MoneyInv, NEW r \in Operations, NEW record, RowFits(record),
         Money!Answered(r, record), operated' = operated
  PROVE  \E request \in Money!Request : /\ operations' = [operations EXCEPT ![r] = request]
                                        /\ OperationFits(r, request)'
<1>1. CASE record.status = "COMPLETED" /\ record.hash = Bodies[r]
  <2> DEFINE request == [operations[r] EXCEPT !.at = "replayed", !.from = record.by]
  <2>1. record.by \in operated /\ record.by \in Operations
    BY <1>1 DEF MoneyInv, RowFits, Money!Sound, Money!Record, Money!Nobody
  <2>2. operations[r] \in Money!Request
    BY DEF MoneyInv
  <2>3. request \in Money!Request /\ request.at = "replayed" /\ request.from = record.by
    BY <2>1, <2>2 DEF Money!Request, Money!Point
  <2>4. operations' = [operations EXCEPT ![r] = request]
    BY <1>1 DEF Money!Answered
  <2> HIDE DEF request
  <2>5. QED
    BY <2>1, <2>3, <2>4 DEF OperationFits
<1>2. CASE ~ (record.status = "COMPLETED" /\ record.hash = Bodies[r])
  <2>1. Money!Goto(r, "refused") /\ "refused" \in Money!Point
    BY <1>2 DEF Money!Answered, Money!Point
  <2>2. QED
    BY <2>1, MoneyGoes
<1>3. QED
  BY <1>1, <1>2

(* The commands on the entry.                                              *)
LEMMA MoneyEntrySteps ==
  ASSUME MoneyInv, NEW r \in Operations,
         Money!SetNx(r) \/ Money!Get(r) \/ Money!Del(r) \/ Money!Complete(r) \/ Money!Fail(r)
  PROVE  MoneyInv'
<1>1. /\ operated' = operated /\ operated \subseteq Operations
      /\ moneyRow' = moneyRow /\ RowFits(moneyRow)' /\ RowFits(moneyRow)
      /\ EntryFits(moneyEntry) /\ writes \subseteq Money!Write
      /\ \A request : OperationFits(r, request)' <=> OperationFits(r, request)
      /\ \A record : EntryFits(record) => EntryFits(record)'
  BY DEF MoneyInv, RowFits, EntryFits, OperationFits, Money!SetNx, Money!Get, Money!Del,
     Money!Complete, Money!Fail
<1>2. ASSUME NEW record, EntryFits(record), moneyEntry' = record
      PROVE  EntryFits(moneyEntry)'
  BY <1>1, <1>2 DEF EntryFits, RowFits
<1>3. ASSUME NEW kind \in {"create", "complete", "fail"}, Money!Starts(kind, r),
             kind = "complete" => r \in operated
      PROVE  writes' \subseteq Money!Write /\ \A w \in writes' : w \in writes \/ WriteFits(w)'
  <2>1. writes' = writes \cup {[kind |-> kind, by |-> r]}
    BY <1>3 DEF Money!Starts
  <2>2. [kind |-> kind, by |-> r] \in Money!Write
    BY DEF Money!Write
  <2>3. QED
    BY <1>1, <1>3, <2>1, <2>2 DEF WriteFits
<1>4. ASSUME UNCHANGED writes
      PROVE  writes' \subseteq Money!Write /\ \A w \in writes' : w \in writes \/ WriteFits(w)'
  BY <1>1, <1>4
<1>5. ASSUME NEW point \in {"get", "del", "db_create", "reserve", "failed", "answered"},
             Money!Goto(r, point), point = "answered" => r \in operated,
             EntryFits(moneyEntry)',
             writes' \subseteq Money!Write /\ \A w \in writes' : w \in writes \/ WriteFits(w)'
      PROVE  MoneyInv'
  <2>1. point \in Money!Point
    BY DEF Money!Point
  <2>2. PICK request \in Money!Request : /\ operations' = [operations EXCEPT ![r] = request]
                                         /\ OperationFits(r, request)'
    BY <1>1, <1>5, <2>1, MoneyGoes
  <2>3. QED
    BY <1>1, <1>5, <2>2, MoneyMoves
<1>6. CASE Money!SetNx(r)
  <2>1. CASE moneyEntry = Money!None /\ moneyEntry' = Money!InProgress(r)
               /\ Money!Reserved(r, "redis") /\ Money!Starts("create", r)
    <3>1. PICK request \in Money!Request : /\ operations' = [operations EXCEPT ![r] = request]
                                           /\ OperationFits(r, request)'
      BY <1>1, <2>1, MoneyReserves
    <3>2. EntryFits(moneyEntry)'
      BY <1>2, <2>1, InProgressFits
    <3>3. QED
      BY <1>1, <1>3, <2>1, <3>1, <3>2, MoneyMoves
  <2>2. CASE Money!Goto(r, "get") /\ UNCHANGED <<moneyEntry, writes>>
    BY <1>1, <1>2, <1>4, <1>5, <2>2
  <2>3. CASE /\ moneyEntry' \in {moneyEntry, IF moneyEntry = Money!None THEN Money!InProgress(r) ELSE moneyEntry}
             /\ Money!Goto(r, "db_create") /\ UNCHANGED writes
    <3>1. EntryFits(moneyEntry)'
      BY <1>1, <1>2, <2>3, InProgressFits
    <3>2. QED
      BY <1>4, <1>5, <2>3, <3>1
  <2>4. QED
    BY <1>6, <2>1, <2>2, <2>3 DEF Money!SetNx
<1>7. CASE Money!Get(r)
  <2>1. UNCHANGED <<moneyEntry, writes>> /\ EntryFits(moneyEntry)'
    BY <1>1, <1>2, <1>7 DEF Money!Get
  <2>2. CASE Money!Goto(r, "del")
    BY <1>4, <1>5, <2>1, <2>2
  <2>3. ASSUME NEW record, RowFits(record), Money!Answered(r, record) PROVE MoneyInv'
    <3>1. PICK request \in Money!Request : /\ operations' = [operations EXCEPT ![r] = request]
                                           /\ OperationFits(r, request)'
      BY <1>1, <2>3, MoneyAnswers
    <3>2. QED
      BY <1>1, <1>4, <2>1, <3>1, MoneyMoves
  <2>4. ASSUME NEW s \in Operations, Money!At(s, "answered")
        PROVE  RowFits([status |-> "COMPLETED", hash |-> Bodies[s], by |-> s])
    <3>1. s \in operated
      BY <2>4 DEF MoneyInv, OperationFits, Money!At
    <3>2. QED
      BY <3>1, CompletedFits DEF EntryFits
  <2>5. RowFits(moneyEntry)
    BY <1>1 DEF EntryFits
  <2>6. QED
    BY <1>7, <2>2, <2>3, <2>4, <2>5 DEF Money!Get
<1>8. CASE Money!Del(r)
  <2>1. /\ moneyEntry' = Money!None \/ moneyEntry' = moneyEntry
        /\ Money!Goto(r, "reserve") /\ UNCHANGED writes
    BY <1>8 DEF Money!Del
  <2>2. EntryFits(moneyEntry)'
    BY <1>1, <1>2, <2>1, NoneFits
  <2>3. QED
    BY <1>4, <1>5, <2>1, <2>2
<1>9. CASE Money!Complete(r)
  <2>1. /\ \/ moneyEntry' = [status |-> "COMPLETED", hash |-> Bodies[r], by |-> r]
           \/ moneyEntry' = moneyEntry
        /\ Money!Goto(r, "answered") /\ Money!Starts("complete", r)
    BY <1>9 DEF Money!Complete
  <2>2. r \in operated
    BY <1>9 DEF MoneyInv, OperationFits, Money!Complete, Money!At
  <2>3. EntryFits(moneyEntry)'
    BY <1>1, <1>2, <2>1, <2>2, CompletedFits
  <2>4. QED
    BY <1>3, <1>5, <2>1, <2>2, <2>3
<1>10. CASE Money!Fail(r)
  <2>1. /\ moneyEntry' = Money!None \/ moneyEntry' = moneyEntry
        /\ Money!Goto(r, "failed") /\ Money!Starts("fail", r)
    BY <1>10 DEF Money!Fail
  <2>2. EntryFits(moneyEntry)'
    BY <1>1, <1>2, <2>1, NoneFits
  <2>3. QED
    BY <1>3, <1>5, <2>1, <2>2
<1>11. QED
  BY <1>6, <1>7, <1>8, <1>9, <1>10

(* The statements on the row, by the request itself.                       *)
LEMMA MoneyRowSteps ==
  ASSUME MoneyInv, NEW r \in Operations, UNCHANGED <<moneyEntry, writes>>,
         Money!RowStep(r) \/ Money!Arrive(r, "reserve") \/ Money!Crash(r)
  PROVE  MoneyInv'
<1>1. /\ operated' = operated /\ operated \subseteq Operations /\ RowFits(moneyRow)
      /\ EntryFits(moneyEntry)' /\ writes' \subseteq Money!Write
      /\ \A w \in writes' : w \in writes \/ WriteFits(w)'
  BY DEF MoneyInv, RowFits, EntryFits, Money!RowStep, Money!DbCreate, Money!DbRead,
     Money!DbTakeover, Money!DbComplete, Money!DbFail, Money!Arrive, Money!Crash
<1>2. ASSUME NEW record, RowFits(record), moneyRow' = record
      PROVE  RowFits(moneyRow)'
  BY <1>1, <1>2 DEF RowFits
<1>3. ASSUME NEW point \in {"reserve", "db_read", "db_takeover", "failed", "answered"},
             Money!Goto(r, point), point = "answered" => r \in operated, RowFits(moneyRow)'
      PROVE  MoneyInv'
  <2>1. point \in Money!Point
    BY DEF Money!Point
  <2>2. PICK request \in Money!Request : /\ operations' = [operations EXCEPT ![r] = request]
                                         /\ OperationFits(r, request)'
    BY <1>1, <1>3, <2>1, MoneyGoes
  <2>3. QED
    BY <1>1, <1>3, <2>2, MoneyMoves
<1>4. ASSUME Money!Reserved(r, "database"), RowFits(moneyRow)'
      PROVE  MoneyInv'
  <2>1. PICK request \in Money!Request : /\ operations' = [operations EXCEPT ![r] = request]
                                         /\ OperationFits(r, request)'
    BY <1>1, <1>4, MoneyReserves
  <2>2. QED
    BY <1>1, <1>4, <2>1, MoneyMoves
<1>5. CASE Money!DbCreate(r)
  <2>1. CASE moneyRow = Money!None
    <3>1. moneyRow' = Money!InProgress(r) /\ Money!Reserved(r, "database")
      BY <1>5, <2>1 DEF Money!DbCreate
    <3>2. QED
      BY <1>2, <1>4, <3>1, InProgressFits
  <2>2. CASE moneyRow # Money!None
    <3>1. Money!Goto(r, "db_read") /\ moneyRow' = moneyRow
      BY <1>5, <2>2 DEF Money!DbCreate
    <3>2. QED
      BY <1>1, <1>2, <1>3, <3>1
  <2>3. QED
    BY <2>1, <2>2
<1>6. CASE Money!DbRead(r)
  <2>1. RowFits(moneyRow)'
    BY <1>1, <1>2, <1>6 DEF Money!DbRead
  <2>2. CASE Money!Goto(r, "db_takeover")
    BY <1>3, <2>1, <2>2
  <2>3. CASE Money!Answered(r, moneyRow)
    <3>1. PICK request \in Money!Request : /\ operations' = [operations EXCEPT ![r] = request]
                                           /\ OperationFits(r, request)'
      BY <1>1, <2>3, MoneyAnswers
    <3>2. QED
      BY <1>1, <2>1, <3>1, MoneyMoves
  <2>4. QED
    BY <1>6, <2>2, <2>3 DEF Money!DbRead
<1>7. CASE Money!DbTakeover(r)
  <2>1. moneyRow' = Money!InProgress(r) /\ Money!Reserved(r, "database")
    BY <1>7 DEF Money!DbTakeover
  <2>2. QED
    BY <1>2, <1>4, <2>1, InProgressFits
<1>8. CASE Money!DbComplete(r)
  <2>1. r \in operated
    BY <1>8 DEF MoneyInv, OperationFits, Money!DbComplete, Money!At
  <2>2. /\ moneyRow' = [moneyRow EXCEPT !.status = "COMPLETED", !.by = r]
        /\ Money!Goto(r, "answered")
    BY <1>8 DEF Money!DbComplete
  <2>3. RowFits([moneyRow EXCEPT !.status = "COMPLETED", !.by = r])
    BY <1>1, <2>1, CompletedFits
  <2>4. QED
    BY <1>2, <1>3, <2>1, <2>2, <2>3
<1>9. CASE Money!DbFail(r)
  <2>1. /\ moneyRow' \in {moneyRow, [moneyRow EXCEPT !.status = "FAILED", !.by = "nobody"]}
        /\ Money!Goto(r, "failed")
    BY <1>9 DEF Money!DbFail, Money!Nobody
  <2>2. RowFits([moneyRow EXCEPT !.status = "FAILED", !.by = "nobody"])
    BY <1>1, FailedFits
  <2>3. QED
    BY <1>1, <1>2, <1>3, <2>1, <2>2
<1>10. CASE Money!Arrive(r, "reserve")
  <2>1. Money!Goto(r, "reserve") /\ moneyRow' = moneyRow
    BY <1>10 DEF Money!Arrive, Money!Goto
  <2>2. QED
    BY <1>1, <1>2, <1>3, <2>1
<1>11. CASE Money!Crash(r)
  <2>1. Money!Goto(r, "failed") /\ moneyRow' = moneyRow
    BY <1>11 DEF Money!Crash
  <2>2. QED
    BY <1>1, <1>2, <1>3, <2>1
<1>12. QED
  BY <1>5, <1>6, <1>7, <1>8, <1>9, <1>10, <1>11 DEF Money!RowStep

(* The operation itself.                                                   *)
LEMMA MoneyExecutes ==
  ASSUME MoneyInv, NEW r \in Operations, UNCHANGED <<moneyEntry, writes>>, Money!Execute(r)
  PROVE  MoneyInv'
<1>1. /\ operated \subseteq operated' /\ operated' \subseteq Operations /\ moneyRow' = moneyRow
  BY DEF MoneyInv, Money!Execute
<1>2. /\ RowFits(moneyRow)' /\ EntryFits(moneyEntry)' /\ writes' \subseteq Money!Write
      /\ \A w \in writes' : w \in writes \/ WriteFits(w)'
  BY <1>1 DEF MoneyInv, RowFits, EntryFits
<1>3. PICK point \in {"complete", "fail"} :
        Money!Goto(r, point) /\ (point = "complete" => r \in operated')
  BY DEF Money!Execute
<1> DEFINE request == [operations[r] EXCEPT !.at = point]
<1>4. operations[r] \in Money!Request
  BY DEF MoneyInv
<1>5. request \in Money!Request /\ request.at = point
  BY <1>4 DEF Money!Request, Money!Point
<1>6. operations' = [operations EXCEPT ![r] = request]
  BY <1>3 DEF Money!Goto
<1> HIDE DEF request
<1>7. PICK next \in Money!Request : next.at = point /\ operations' = [operations EXCEPT ![r] = next]
  BY <1>5, <1>6
<1>8. OperationFits(r, next)'
  BY <1>3, <1>7 DEF OperationFits
<1>9. QED
  BY <1>1, <1>2, <1>7, <1>8, MoneyMoves

(* The writes of the row that nobody waits for, in any order.              *)
LEMMA MoneyWriteEnds ==
  ASSUME MoneyInv, NEW w \in Money!Write, Money!WriteEnds(w)
  PROVE  MoneyInv'
<1>1. /\ w \in writes /\ writes' = writes \ {w} /\ moneyRow' \in {moneyRow, Money!RowWritten(w)}
      /\ UNCHANGED <<operations, operated, moneyEntry>>
  BY DEF Money!WriteEnds
<1>2. RowFits(moneyRow) /\ w.by \in Operations /\ w.kind \in {"create", "complete", "fail"}
  BY DEF MoneyInv, Money!Write
<1>3. RowFits(Money!RowWritten(w))
  <2>1. CASE w.kind = "create"
    BY <1>2, <2>1, InProgressFits DEF Money!RowWritten
  <2>2. CASE w.kind = "complete"
    <3>1. w.by \in operated
      BY <1>1, <2>2 DEF MoneyInv, WriteFits
    <3>2. /\ RowFits([status |-> "COMPLETED", hash |-> Bodies[w.by], by |-> w.by])
          /\ RowFits([moneyRow EXCEPT !.status = "COMPLETED", !.by = w.by])
      BY <1>2, <3>1, CompletedFits DEF EntryFits
    <3>3. QED
      BY <2>2, <3>2 DEF Money!RowWritten
  <2>3. CASE w.kind = "fail"
    <3>1. RowFits([moneyRow EXCEPT !.status = "FAILED", !.by = "nobody"])
      BY <1>2, FailedFits
    <3>2. QED
      BY <1>2, <2>3, <3>1 DEF Money!RowWritten, Money!Nobody
  <2>4. QED
    BY <1>2, <2>1, <2>2, <2>3
<1>4. RowFits(moneyRow)'
  BY <1>1, <1>2, <1>3 DEF RowFits
<1>5. QED
  BY <1>1, <1>4 DEF MoneyInv, EntryFits, RowFits, OperationFits, WriteFits

LEMMA MoneyInit == Money!Init => MoneyInv
<1> SUFFICES ASSUME Money!Init PROVE MoneyInv
  OBVIOUS
<1>1. RowFits(moneyRow) /\ EntryFits(moneyEntry)
  BY NoneFits DEF Money!Init, Money!InitRows
<1>2. operations \in [Operations -> Money!Request]
  BY DEF Money!Init, Money!InitRows, Money!Request, Money!Point, Money!Nobody
<1>3. \A r \in Operations : OperationFits(r, operations[r])
  BY DEF Money!Init, Money!InitRows, OperationFits
<1>4. QED
  BY <1>1, <1>2, <1>3 DEF MoneyInv, Money!Init, Money!InitRows

LEMMA MoneyStep == MoneyInv /\ (Money!Next \/ UNCHANGED moneyVars) => MoneyInv'
<1> SUFFICES ASSUME MoneyInv, Money!Next \/ UNCHANGED moneyVars PROVE MoneyInv'
  OBVIOUS
<1>1. CASE UNCHANGED moneyVars
  BY <1>1 DEF moneyVars, MoneyInv, RowFits, EntryFits, OperationFits, WriteFits
<1>2. CASE Money!Next
  BY <1>2, MoneyEntrySteps, MoneyRowSteps, MoneyExecutes, MoneyWriteEnds DEF Money!Next
<1>3. QED
  BY <1>1, <1>2

-----------------------------------------------------------------------------
(* UploadEngine.  A record, and so a client, is told of an upload that has *)
(* been answered, or whose completion in the table reported an error.      *)
Answers(r) == r \in doubted \/ uploads[r].at = "answered"

Fresh == {"idle", "reserve", "get", "del", "db_create", "db_read", "db_takeover"}

Unused(a) == assets[a].status = "READY" /\ ~assets[a].expired

(* What holds of an upload where it is.                                    *)
UploadFits(r, request) ==
  /\ request.at \in Fresh \cup {"work"} => assets[r] = Upload!NoAsset /\ r \notin executed
  /\ request.at \in Fresh => r \notin original
  /\ request.at = "work" /\ r \in original => r \in files
  /\ request.at \in {"complete", "answered"} =>
       r \in executed /\ r \notin doubted /\ (Unused(r) => r \in files)
  /\ request.at = "replayed" => request.from \in Uploads /\ Answers(request.from)
  /\ r \in doubted => r \in executed /\ request.at \in {"fail", "failed"}
  /\ r \in executed => assets[r].status # "NONE"

UploadRowFits(record) ==
  Upload!Sound(record) /\ (record.by # "nobody" => Answers(record.by))

UploadEntryFits(record) ==
  \/ record = Upload!NoEntry
  \/ /\ record \in Upload!Entry /\ record.status # "NONE" /\ record.owner \in Uploads
     /\ record.hash = FileBodies[record.owner]
     /\ record.status = "COMPLETED" => Answers(record.owner)

KeyInv ==
  /\ UploadRowFits(row) /\ UploadEntryFits(entry)
  /\ uploads \in [Uploads -> Upload!Request]
  /\ executed \subseteq Uploads /\ original \subseteq Uploads
  /\ persists \subseteq Uploads /\ \A r \in persists : Answers(r)
  /\ \A r \in Uploads : UploadFits(r, uploads[r])

(* The asset is beyond the sweep, and its file is there.                   *)
Kept(a) ==
  /\ a \in files /\ a \notin sweep
  /\ assets[a].status \in {"READY", "ATTACHED", "ORPHANED"}
  /\ ~assets[a].expired /\ ~assets[a].aged

Spared == late \cup doubted

AssetFits(a) ==
  /\ assets[a].status = "READY" => ~assets[a].aged
  /\ a \in sweep => assets[a].status # "NONE" /\ ~Unused(a)

(* What an edit has read is in use or was until a moment ago; what it is   *)
(* about to write is kept, or has expired since, and then it comes late.   *)
EditFits(edit) ==
  /\ edit.seen # "none" =>
       /\ Answers(edit.seen)
       /\ edit.seen \notin Spared => Kept(edit.seen) /\ assets[edit.seen].status # "READY"
  /\ edit.to # "none" =>
       /\ Answers(edit.to)
       /\ edit.to \notin Spared => Kept(edit.to) \/ (assets[edit.to].expired /\ edit.to # edit.seen)

ImageFits(a) ==
  a # "none" => Answers(a) /\ (a \notin Spared => Kept(a) /\ assets[a].status = "ATTACHED")

Edit == [at : {"idle", "update", "replace", "delete"},
         seen : Uploads \cup {"none"}, to : Uploads \cup {"none"}]

AssetInv ==
  /\ files \subseteq Uploads /\ sweep \subseteq Uploads
  /\ late \subseteq Uploads /\ doubted \subseteq Uploads
  /\ assets \in [Uploads -> Upload!Asset]
  /\ image \in Uploads \cup {"none"} /\ ImageFits(image)
  /\ edits \in [Editors -> Edit]
  /\ \A a \in Uploads : AssetFits(a)
  /\ \A e \in Editors : EditFits(edits[e])

UploadInv == KeyInv /\ AssetInv

(* A step of one request, which touches nothing of the others'.            *)
LEMMA UploadMoves ==
  ASSUME UploadInv, NEW r \in Uploads, NEW request \in Upload!Request,
         uploads' = [uploads EXCEPT ![r] = request],
         uploads[r].at # "answered",
         \A s \in Uploads : s # r => /\ assets'[s] = assets[s]
                                     /\ s \in executed' <=> s \in executed
                                     /\ s \in original' <=> s \in original
                                     /\ s \in files' <=> s \in files,
         doubted \subseteq doubted', doubted' \subseteq doubted \cup {r},
         UploadFits(r, request)'
  PROVE  /\ uploads' \in [Uploads -> Upload!Request]
         /\ \A s \in Uploads : Answers(s) => Answers(s)'
         /\ \A s \in Uploads : UploadFits(s, uploads[s])'
<1>1. /\ uploads' \in [Uploads -> Upload!Request]
      /\ \A s \in Uploads : uploads'[s] = IF s = r THEN request ELSE uploads[s]
  BY DEF UploadInv, KeyInv
<1>2. \A s \in Uploads : Answers(s) => Answers(s)'
  BY <1>1 DEF Answers
<1>3. ASSUME NEW s \in Uploads PROVE UploadFits(s, uploads[s])'
  <2>1. CASE s = r
    BY <1>1, <2>1 DEF UploadFits
  <2>2. CASE s # r
    <3>1. uploads'[s] = uploads[s] /\ UploadFits(s, uploads[s])
      BY <1>1, <2>2 DEF UploadInv, KeyInv
    <3>2. /\ assets'[s] = assets[s] /\ (s \in executed' <=> s \in executed)
          /\ (s \in original' <=> s \in original) /\ (s \in files' <=> s \in files)
          /\ (s \in doubted' <=> s \in doubted)
      BY <2>2
    <3>3. Unused(s)' <=> Unused(s)
      BY <3>2 DEF Unused
    <3>4. uploads[s].at = "replayed" => uploads[s].from \in Uploads /\ Answers(uploads[s].from)'
      BY <1>2, <3>1 DEF UploadFits
    <3>5. Upload!NoAsset' = Upload!NoAsset
      BY DEF Upload!NoAsset
    <3>6. QED
      BY <3>1, <3>2, <3>3, <3>4, <3>5 DEF UploadFits
  <2>3. QED
    BY <2>1, <2>2
<1>4. QED
  BY <1>1, <1>2, <1>3

(* What the assets rely on stays when they and their files do.             *)
LEMMA AssetsStay ==
  ASSUME AssetInv, UNCHANGED <<files, sweep, assets, image, edits, late>>,
         doubted \subseteq doubted', doubted' \subseteq Uploads,
         \A s \in Uploads : Answers(s) => Answers(s)'
  PROVE  AssetInv'
<1>1. \A a \in Uploads : AssetFits(a)'
  BY DEF AssetInv, AssetFits, Unused
<1>2. \A a \in Uploads : /\ Kept(a) => Kept(a)'
                         /\ a \in Spared => a \in Spared'
  BY DEF Kept, Spared
<1>3. ImageFits(image)'
  BY <1>2 DEF AssetInv, ImageFits
<1>4. ASSUME NEW e \in Editors PROVE EditFits(edits[e])'
  <2>1. EditFits(edits[e]) /\ edits[e] \in Edit
    BY DEF AssetInv
  <2>2. edits[e].seen \in Uploads \cup {"none"} /\ edits[e].to \in Uploads \cup {"none"}
    BY <2>1 DEF Edit
  <2>3. QED
    BY <1>2, <2>1, <2>2 DEF EditFits
<1>5. QED
  BY <1>1, <1>3, <1>4 DEF AssetInv

(* A step of a request on its key, by the points it leads from and to.     *)
KeyPath(r, request) ==
  \/ uploads[r].at \in Fresh /\ request.at \in Fresh \cup {"work", "refused"}
  \/ /\ uploads[r].at \in Fresh /\ request.at = "replayed"
     /\ request.from \in Uploads /\ Answers(request.from)
  \/ uploads[r].at = "complete" /\ request.at = "answered"
  \/ uploads[r].at = "fail" /\ request.at = "failed"

LEMMA KeyMoves ==
  ASSUME UploadInv, NEW r \in Uploads, NEW request \in Upload!Request,
         uploads' = [uploads EXCEPT ![r] = request], KeyPath(r, request),
         UNCHANGED executed, UNCHANGED Upload!engineVars
  PROVE  /\ uploads' \in [Uploads -> Upload!Request]
         /\ \A s \in Uploads : Answers(s) => Answers(s)'
         /\ \A s \in Uploads : UploadFits(s, uploads[s])'
         /\ AssetInv'
<1>1. UNCHANGED <<executed, original, files, assets, image, edits, late, sweep, doubted>>
  BY DEF Upload!engineVars, Upload!imageVars
<1>2. UploadFits(r, uploads[r])
  BY DEF UploadInv, KeyInv
<1>3. uploads[r].at # "answered"
  BY DEF KeyPath, Fresh
<1>4. /\ Unused(r)' <=> Unused(r)
      /\ Upload!NoAsset' = Upload!NoAsset
  BY <1>1 DEF Unused, Upload!NoAsset
<1>5. \A s \in Uploads : uploads'[s] = IF s = r THEN request ELSE uploads[s]
  BY DEF UploadInv, KeyInv
<1>6. \A s \in Uploads : Answers(s) => Answers(s)'
  BY <1>1, <1>3, <1>5 DEF Answers
<1>7. UploadFits(r, request)'
  <2>1. CASE uploads[r].at \in Fresh /\ request.at \in Fresh \cup {"work", "refused"}
    BY <1>1, <1>2, <1>4, <2>1 DEF UploadFits, Fresh
  <2>2. CASE /\ uploads[r].at \in Fresh /\ request.at = "replayed"
             /\ request.from \in Uploads /\ Answers(request.from)
    BY <1>1, <1>2, <1>4, <1>6, <2>2 DEF UploadFits, Fresh
  <2>3. CASE uploads[r].at = "complete" /\ request.at = "answered"
    BY <1>1, <1>2, <1>4, <2>3 DEF UploadFits, Fresh
  <2>4. CASE uploads[r].at = "fail" /\ request.at = "failed"
    BY <1>1, <1>2, <1>4, <2>4 DEF UploadFits, Fresh
  <2>5. QED
    BY <2>1, <2>2, <2>3, <2>4 DEF KeyPath
<1>8. /\ uploads' \in [Uploads -> Upload!Request]
      /\ \A s \in Uploads : UploadFits(s, uploads[s])'
  BY <1>1, <1>3, <1>7, UploadMoves
<1>9. AssetInv'
  BY <1>1, <1>6, AssetsStay DEF UploadInv, AssetInv
<1>10. QED
  BY <1>6, <1>8, <1>9

LEMMA UploadGoes ==
  ASSUME UploadInv, NEW r \in Uploads, NEW point \in Upload!Point, Upload!Goto(r, point)
  PROVE  \E request \in Upload!Request : /\ uploads' = [uploads EXCEPT ![r] = request]
                                         /\ request.at = point
<1> DEFINE request == [uploads[r] EXCEPT !.at = point]
<1>1. request \in Upload!Request /\ request.at = point
  BY DEF UploadInv, KeyInv, Upload!Request
<1>2. uploads' = [uploads EXCEPT ![r] = request]
  BY DEF Upload!Goto
<1> HIDE DEF request
<1>3. QED
  BY <1>1, <1>2

LEMMA UploadReserves ==
  ASSUME UploadInv, NEW r \in Uploads, NEW backend \in {"redis", "database"},
         Upload!Reserved(r, backend)
  PROVE  \E request \in Upload!Request : /\ uploads' = [uploads EXCEPT ![r] = request]
                                         /\ request.at = "work"
<1> DEFINE request == [uploads[r] EXCEPT !.at = "work", !.backend = backend]
<1>1. uploads[r] \in Upload!Request
  BY DEF UploadInv, KeyInv
<1>2. request \in Upload!Request /\ request.at = "work"
  BY <1>1 DEF Upload!Request, Upload!Point
<1>3. uploads' = [uploads EXCEPT ![r] = request]
  BY DEF Upload!Reserved
<1> HIDE DEF request
<1>4. QED
  BY <1>2, <1>3

LEMMA UploadAnswers ==
  ASSUME UploadInv, NEW r \in Uploads, uploads[r].at \in Fresh, NEW record,
         record.status = "COMPLETED" => record.by \in Uploads /\ Answers(record.by),
         Upload!Answered(r, record)
  PROVE  \E request \in Upload!Request : /\ uploads' = [uploads EXCEPT ![r] = request]
                                         /\ KeyPath(r, request)
<1>1. CASE record.status = "COMPLETED" /\ record.hash = FileBodies[r]
  <2> DEFINE request == [uploads[r] EXCEPT !.at = "replayed", !.from = record.by]
  <2>1. uploads[r] \in Upload!Request
    BY DEF UploadInv, KeyInv
  <2>2. request \in Upload!Request /\ request.at = "replayed" /\ request.from = record.by
    BY <1>1, <2>1 DEF Upload!Request, Upload!Point
  <2>3. uploads' = [uploads EXCEPT ![r] = request]
    BY <1>1 DEF Upload!Answered
  <2> HIDE DEF request
  <2>4. QED
    BY <1>1, <2>2, <2>3 DEF KeyPath
<1>2. CASE ~ (record.status = "COMPLETED" /\ record.hash = FileBodies[r])
  <2>1. Upload!Goto(r, "refused") /\ "refused" \in Upload!Point
    BY <1>2 DEF Upload!Answered, Upload!Point
  <2>2. PICK request \in Upload!Request : /\ uploads' = [uploads EXCEPT ![r] = request]
                                          /\ request.at = "refused"
    BY <2>1, UploadGoes
  <2>3. QED
    BY <2>2 DEF KeyPath
<1>3. QED
  BY <1>1, <1>2

(* The rows and entries that a step may leave behind.                      *)
LEMMA UploadRecords ==
  ASSUME UploadInv, NEW r \in Uploads
  PROVE  /\ UploadRowFits(Upload!InProgress(r))
         /\ UploadEntryFits(Upload!Lease(r))
         /\ UploadRowFits([row EXCEPT !.status = "FAILED", !.by = "nobody"])
<1>1. UploadRowFits(row)
  BY DEF UploadInv, KeyInv
<1>2. UploadRowFits(Upload!InProgress(r))
  BY DEF UploadRowFits, Upload!Sound, Upload!InProgress, Upload!Record, Upload!Nobody
<1>3. UploadEntryFits(Upload!Lease(r))
  BY DEF UploadEntryFits, Upload!Lease, Upload!Entry
<1>4. UploadRowFits([row EXCEPT !.status = "FAILED", !.by = "nobody"])
  BY <1>1 DEF UploadRowFits, Upload!Sound, Upload!Record, Upload!Nobody
<1>5. QED
  BY <1>2, <1>3, <1>4

LEMMA RowCompleted ==
  ASSUME UploadInv, NEW r \in Uploads
  PROVE  /\ Upload!Sound([row EXCEPT !.status = "COMPLETED", !.by = r])
         /\ [row EXCEPT !.status = "COMPLETED", !.by = r].by = r
         /\ Upload!Sound([status |-> "COMPLETED", hash |-> FileBodies[r], by |-> r])
<1>1. r # "nobody" /\ Upload!Sound(row)
  BY KeyNames DEF UploadInv, KeyInv, UploadRowFits
<1>2. /\ Upload!Sound([row EXCEPT !.status = "COMPLETED", !.by = r])
      /\ [row EXCEPT !.status = "COMPLETED", !.by = r].by = r
  BY <1>1 DEF Upload!Sound, Upload!Record, Upload!Nobody
<1>3. Upload!Sound([status |-> "COMPLETED", hash |-> FileBodies[r], by |-> r])
  BY <1>1 DEF Upload!Sound, Upload!Record, Upload!Nobody
<1>4. QED
  BY <1>2, <1>3

(* What is said of answers stays true.                                     *)
LEMMA RecordsStay ==
  ASSUME KeyInv, \A s \in Uploads : Answers(s) => Answers(s)'
  PROVE  /\ \A record : UploadRowFits(record) => UploadRowFits(record)'
         /\ \A record : UploadEntryFits(record) => UploadEntryFits(record)'
<1>1. ASSUME NEW record, UploadRowFits(record) PROVE UploadRowFits(record)'
  <2>1. record.by # "nobody" => record.by \in Uploads
    BY <1>1 DEF UploadRowFits, Upload!Sound, Upload!Record, Upload!Nobody
  <2>2. QED
    BY <1>1, <2>1 DEF UploadRowFits
<1>2. ASSUME NEW record, UploadEntryFits(record) PROVE UploadEntryFits(record)'
  BY <1>2 DEF UploadEntryFits
<1>3. QED
  BY <1>1, <1>2

(* A step on the key that leaves a row, an entry and persists behind which *)
(* fit before or after.                                                    *)
LEMMA KeyKeeps ==
  ASSUME UploadInv, NEW r \in Uploads, NEW request \in Upload!Request,
         uploads' = [uploads EXCEPT ![r] = request], KeyPath(r, request),
         UNCHANGED executed, UNCHANGED Upload!engineVars,
         UploadRowFits(row') \/ UploadRowFits(row)',
         UploadEntryFits(entry') \/ UploadEntryFits(entry)',
         persists' \subseteq persists \cup {r},
         r \in persists' => r \in persists \/ request.at = "answered"
  PROVE  UploadInv'
<1>1. /\ uploads' \in [Uploads -> Upload!Request]
      /\ \A s \in Uploads : Answers(s) => Answers(s)'
      /\ \A s \in Uploads : UploadFits(s, uploads[s])'
      /\ AssetInv'
  BY KeyMoves
<1>2. UploadRowFits(row)' /\ UploadEntryFits(entry)'
  BY <1>1, RecordsStay DEF UploadInv
<1>3. executed' \subseteq Uploads /\ original' \subseteq Uploads /\ persists' \subseteq Uploads
  BY DEF UploadInv, KeyInv, Upload!engineVars
<1>4. \A s \in persists' : Answers(s)'
  <2> TAKE s \in persists'
  <2>1. CASE s \in persists
    BY <1>1, <2>1 DEF UploadInv, KeyInv
  <2>2. CASE s \notin persists
    <3>1. s = r /\ uploads'[r] = request /\ request.at = "answered"
      BY <2>2 DEF UploadInv, KeyInv
    <3>2. QED
      BY <3>1 DEF Answers
  <2>3. QED
    BY <2>1, <2>2
<1>5. QED
  BY <1>1, <1>2, <1>3, <1>4 DEF UploadInv, KeyInv

LEMMA KeyEntrySteps ==
  ASSUME UploadInv, NEW r \in Uploads, UNCHANGED Upload!engineVars,
         Upload!SetNx(r) \/ Upload!Get(r) \/ Upload!CompleteIfReserved(r) \/ Upload!DeleteIfReserved(r)
  PROVE  UploadInv'
<1>1. /\ UNCHANGED executed /\ UploadRowFits(row')
      /\ UploadEntryFits(entry)
  BY DEF UploadInv, KeyInv, Upload!SetNx, Upload!Get, Upload!CompleteIfReserved, Upload!DeleteIfReserved
<1>2. ASSUME NEW point \in Upload!Point, Upload!Goto(r, point),
             \/ uploads[r].at \in Fresh /\ point \in Fresh
             \/ uploads[r].at = "complete" /\ point = "answered"
             \/ uploads[r].at = "fail" /\ point = "failed",
             UploadEntryFits(entry') \/ UploadEntryFits(entry)',
             persists' \subseteq persists \cup {r},
             r \in persists' => r \in persists \/ point = "answered"
      PROVE  UploadInv'
  <2>1. PICK request \in Upload!Request : /\ uploads' = [uploads EXCEPT ![r] = request]
                                          /\ request.at = point
    BY <1>2, UploadGoes
  <2>2. KeyPath(r, request)
    BY <1>2, <2>1 DEF KeyPath
  <2>3. QED
    BY <1>1, <1>2, <2>1, <2>2, KeyKeeps
<1>3. /\ "get" \in Upload!Point \cap Fresh /\ "db_create" \in Upload!Point \cap Fresh
      /\ "reserve" \in Fresh /\ "answered" \in Upload!Point /\ "failed" \in Upload!Point
  BY DEF Upload!Point, Fresh
<1>4. CASE Upload!SetNx(r)
  <2>1. uploads[r].at \in Fresh /\ persists' = persists
    BY <1>3, <1>4 DEF Upload!SetNx, Upload!At
  <2>2. CASE entry = Upload!NoEntry /\ entry' = Upload!Lease(r) /\ Upload!Reserved(r, "redis")
    <3>1. PICK request \in Upload!Request : /\ uploads' = [uploads EXCEPT ![r] = request]
                                            /\ request.at = "work"
      BY <2>2, UploadReserves
    <3>2. KeyPath(r, request) /\ UploadEntryFits(entry')
      BY <2>1, <2>2, <3>1, UploadRecords DEF KeyPath
    <3>3. QED
      BY <1>1, <2>1, <3>1, <3>2, KeyKeeps
  <2>3. CASE Upload!Goto(r, "get") /\ UNCHANGED entry
    BY <1>1, <1>2, <1>3, <2>1, <2>3
  <2>4. CASE /\ entry' \in {entry, IF entry = Upload!NoEntry THEN Upload!Lease(r) ELSE entry}
             /\ Upload!Goto(r, "db_create")
    <3>1. UploadEntryFits(entry')
      BY <1>1, <2>4, UploadRecords
    <3>2. QED
      BY <1>2, <1>3, <2>1, <2>4, <3>1
  <2>5. QED
    BY <1>4, <2>2, <2>3, <2>4 DEF Upload!SetNx
<1>5. CASE Upload!Get(r)
  <2>1. uploads[r].at \in Fresh /\ persists' = persists /\ entry' = entry
    BY <1>3, <1>5 DEF Upload!Get, Upload!At
  <2>2. CASE /\ entry # Upload!NoEntry
             /\ Upload!Answered(r, [status |-> entry.status, hash |-> entry.hash, by |-> entry.owner])
    <3>1. entry.status = "COMPLETED" => entry.owner \in Uploads /\ Answers(entry.owner)
      BY <1>1, <2>2 DEF UploadEntryFits
    <3>2. PICK request \in Upload!Request : /\ uploads' = [uploads EXCEPT ![r] = request]
                                            /\ KeyPath(r, request)
      BY <2>1, <2>2, <3>1, UploadAnswers
    <3>3. QED
      BY <1>1, <2>1, <3>2, KeyKeeps
  <2>3. CASE Upload!Goto(r, "db_create")
    BY <1>1, <1>2, <1>3, <2>1, <2>3
  <2>4. QED
    BY <1>5, <2>2, <2>3 DEF Upload!Get
<1>6. CASE Upload!CompleteIfReserved(r)
  <2>1. uploads[r].at = "complete" /\ Upload!Goto(r, "answered")
    BY <1>6 DEF Upload!CompleteIfReserved, Upload!At
  <2>2. persists' \subseteq persists \cup {r}
    BY <1>6 DEF Upload!CompleteIfReserved
  <2>3. uploads'[r].at = "answered"
    BY <2>1, <1>3, UploadGoes DEF UploadInv, KeyInv
  <2>4. CASE entry' = [status |-> "COMPLETED", hash |-> FileBodies[r], owner |-> r]
    <3>1. Answers(r)'
      BY <2>3 DEF Answers
    <3>2. UploadEntryFits(entry)'
      BY <2>4, <3>1 DEF UploadEntryFits, Upload!Entry
    <3>3. QED
      BY <1>2, <1>3, <2>1, <2>2, <3>2
  <2>5. CASE entry' = entry
    BY <1>1, <1>2, <1>3, <2>1, <2>2, <2>5
  <2>6. QED
    BY <1>6, <2>4, <2>5 DEF Upload!CompleteIfReserved
<1>7. CASE Upload!DeleteIfReserved(r)
  <2>1. /\ uploads[r].at = "fail" /\ Upload!Goto(r, "failed") /\ persists' = persists
        /\ entry' = Upload!NoEntry \/ entry' = entry
    BY <1>7 DEF Upload!DeleteIfReserved, Upload!At
  <2>2. UploadEntryFits(entry')
    BY <1>1, <2>1 DEF UploadEntryFits
  <2>3. QED
    BY <1>2, <1>3, <2>1, <2>2
<1>8. QED
  BY <1>4, <1>5, <1>6, <1>7

LEMMA KeyRowSteps ==
  ASSUME UploadInv, NEW r \in Uploads, UNCHANGED Upload!engineVars, UNCHANGED <<entry, persists>>,
         Upload!RowStep(r) \/ Upload!Arrive(r, "reserve")
  PROVE  UploadInv'
<1>1. /\ UNCHANGED executed /\ UploadRowFits(row) /\ UploadEntryFits(entry')
      /\ persists' \subseteq persists \cup {r} /\ (r \in persists' => r \in persists)
  BY DEF UploadInv, KeyInv, Upload!RowStep, Upload!Arrive, Upload!DbCreate, Upload!DbRead,
     Upload!DbTakeover, Upload!DbComplete, Upload!DbFail
<1>2. ASSUME NEW point \in Upload!Point, Upload!Goto(r, point),
             \/ uploads[r].at \in Fresh /\ point \in Fresh
             \/ uploads[r].at = "complete" /\ point = "answered"
             \/ uploads[r].at = "fail" /\ point = "failed",
             UploadRowFits(row') \/ UploadRowFits(row)'
      PROVE  UploadInv'
  <2>1. PICK request \in Upload!Request : /\ uploads' = [uploads EXCEPT ![r] = request]
                                          /\ request.at = point
    BY <1>2, UploadGoes
  <2>2. KeyPath(r, request)
    BY <1>2, <2>1 DEF KeyPath
  <2>3. QED
    BY <1>1, <1>2, <2>1, <2>2, KeyKeeps
<1>3. /\ {"reserve", "db_read", "db_takeover"} \subseteq Upload!Point \cap Fresh
      /\ {"idle", "db_create"} \subseteq Fresh /\ {"answered", "failed"} \subseteq Upload!Point
  BY DEF Upload!Point, Fresh
<1>4. ASSUME uploads[r].at \in Fresh, row' = Upload!InProgress(r), Upload!Reserved(r, "database")
      PROVE  UploadInv'
  <2>1. PICK request \in Upload!Request : /\ uploads' = [uploads EXCEPT ![r] = request]
                                          /\ request.at = "work"
    BY <1>4, UploadReserves
  <2>2. KeyPath(r, request) /\ UploadRowFits(row')
    BY <1>4, <2>1, UploadRecords DEF KeyPath
  <2>3. QED
    BY <1>1, <2>1, <2>2, KeyKeeps
<1>5. CASE Upload!DbCreate(r)
  <2>1. uploads[r].at \in Fresh
    BY <1>3, <1>5 DEF Upload!DbCreate, Upload!At
  <2>2. CASE row = Upload!None
    BY <1>4, <1>5, <2>1, <2>2 DEF Upload!DbCreate
  <2>3. CASE row # Upload!None
    <3>1. Upload!Goto(r, "db_read") /\ row' = row
      BY <1>5, <2>3 DEF Upload!DbCreate
    <3>2. QED
      BY <1>1, <1>2, <1>3, <2>1, <3>1
  <2>4. QED
    BY <2>2, <2>3
<1>6. CASE Upload!DbRead(r)
  <2>1. uploads[r].at \in Fresh /\ row' = row
    BY <1>3, <1>6 DEF Upload!DbRead, Upload!At
  <2>2. CASE Upload!Goto(r, "db_takeover")
    BY <1>1, <1>2, <1>3, <2>1, <2>2
  <2>3. CASE Upload!Answered(r, row)
    <3>1. row.status = "COMPLETED" => row.by \in Uploads /\ Answers(row.by)
      BY <1>1 DEF UploadRowFits, Upload!Sound, Upload!Record, Upload!Nobody
    <3>2. PICK request \in Upload!Request : /\ uploads' = [uploads EXCEPT ![r] = request]
                                            /\ KeyPath(r, request)
      BY <2>1, <2>3, <3>1, UploadAnswers
    <3>3. QED
      BY <1>1, <2>1, <3>2, KeyKeeps
  <2>4. QED
    BY <1>6, <2>2, <2>3 DEF Upload!DbRead
<1>7. CASE Upload!DbTakeover(r)
  BY <1>3, <1>4, <1>7 DEF Upload!DbTakeover, Upload!At
<1>8. CASE Upload!DbComplete(r)
  <2>1. /\ row' = [row EXCEPT !.status = "COMPLETED", !.by = r]
        /\ uploads[r].at = "complete" /\ Upload!Goto(r, "answered")
    BY <1>8 DEF Upload!DbComplete, Upload!At
  <2>2. Answers(r)'
    BY <1>3, <2>1, UploadGoes DEF UploadInv, KeyInv, Answers
  <2>3. Upload!Sound(row') /\ row'.by = r
    BY <2>1, RowCompleted
  <2>4. UploadRowFits(row)'
    BY <2>2, <2>3 DEF UploadRowFits, Upload!Sound
  <2>5. QED
    BY <1>2, <1>3, <2>1, <2>4
<1>9. CASE Upload!DbFail(r)
  <2>1. /\ row' \in {row, [row EXCEPT !.status = "FAILED", !.by = "nobody"]}
        /\ uploads[r].at = "fail" /\ Upload!Goto(r, "failed")
    BY <1>9 DEF Upload!DbFail, Upload!At, Upload!Nobody
  <2>2. UploadRowFits(row')
    BY <1>1, <2>1, UploadRecords
  <2>3. QED
    BY <1>2, <1>3, <2>1, <2>2
<1>10. CASE Upload!Arrive(r, "reserve")
  <2>1. uploads[r].at = "idle" /\ Upload!Goto(r, "reserve") /\ row' = row
    BY <1>10 DEF Upload!Arrive, Upload!Goto, Upload!At
  <2>2. QED
    BY <1>1, <1>2, <1>3, <2>1
<1>11. QED
  BY <1>5, <1>6, <1>7, <1>8, <1>9, <1>10 DEF Upload!RowStep

(* The row of an answered upload is written on its own, and leases end.    *)
LEMMA KeyRests ==
  ASSUME UploadInv, UNCHANGED Upload!engineVars,
         (\E r \in Uploads : Upload!PersistCompleted(r)) \/ Upload!LeaseEnds
  PROVE  UploadInv'
<1>1. /\ UNCHANGED <<uploads, executed, original, files, assets, image, edits, late, sweep, doubted>>
      /\ persists' \subseteq persists
  BY DEF Upload!engineVars, Upload!imageVars, Upload!PersistCompleted, Upload!LeaseEnds
<1>2. \A s \in Uploads : Answers(s) => Answers(s)'
  BY <1>1 DEF Answers
<1>3. AssetInv'
  BY <1>1, <1>2, AssetsStay DEF UploadInv, AssetInv
<1>4. ASSUME NEW s \in Uploads PROVE UploadFits(s, uploads[s])'
  <2>1. UploadFits(s, uploads[s]) /\ (Unused(s)' <=> Unused(s)) /\ Upload!NoAsset' = Upload!NoAsset
    BY <1>1 DEF UploadInv, KeyInv, Unused, Upload!NoAsset
  <2>2. uploads[s].at = "replayed" => uploads[s].from \in Uploads /\ Answers(uploads[s].from)'
    BY <1>1, <1>2, <2>1 DEF UploadFits
  <2>3. QED
    BY <1>1, <2>1, <2>2 DEF UploadFits
<1>5. UploadRowFits(row)' /\ UploadEntryFits(entry)'
  <2>1. UploadRowFits(row) /\ UploadEntryFits(entry)
    BY DEF UploadInv, KeyInv
  <2>2. CASE Upload!LeaseEnds
    <3>1. row' = row /\ UploadEntryFits(entry')
      BY <2>2 DEF Upload!LeaseEnds, UploadEntryFits
    <3>2. QED
      BY <1>2, <2>1, <3>1, RecordsStay DEF UploadInv
  <2>3. CASE \E r \in Uploads : Upload!PersistCompleted(r)
    <3>1. PICK r \in Uploads : Upload!PersistCompleted(r)
      BY <2>3
    <3>2. Answers(r) /\ entry' = entry
      BY <3>1 DEF UploadInv, KeyInv, Upload!PersistCompleted
    <3>3. row' = row \/ row' = [status |-> "COMPLETED", hash |-> FileBodies[r], by |-> r]
      BY <3>1 DEF Upload!PersistCompleted
    <3>4. UploadRowFits([status |-> "COMPLETED", hash |-> FileBodies[r], by |-> r])
      BY <3>2, RowCompleted DEF UploadRowFits
    <3>5. QED
      BY <1>2, <2>1, <3>2, <3>3, <3>4, RecordsStay DEF UploadInv
  <2>4. QED
    BY <2>2, <2>3
<1>6. /\ uploads' \in [Uploads -> Upload!Request] /\ executed' \subseteq Uploads /\ original' \subseteq Uploads
      /\ persists' \subseteq Uploads /\ \A r \in persists' : Answers(r)'
  BY <1>1, <1>2 DEF UploadInv, KeyInv
<1>7. QED
  BY <1>3, <1>4, <1>5, <1>6 DEF UploadInv, KeyInv

(* A step of a request that nobody has been told of, with its own asset    *)
(* and its own file.                                                       *)
LEMMA AssetsMove ==
  ASSUME AssetInv, NEW r \in Uploads, Answers(r) => r \in Spared,
         UNCHANGED <<sweep, image, edits, late>>,
         assets' \in [Uploads -> Upload!Asset], files' \subseteq Uploads,
         \A s \in Uploads : s # r => assets'[s] = assets[s] /\ (s \in files' <=> s \in files),
         doubted \subseteq doubted', doubted' \subseteq Uploads,
         \A s \in Uploads : Answers(s) => Answers(s)',
         AssetFits(r)'
  PROVE  AssetInv'
<1>1. ASSUME NEW a \in Uploads PROVE AssetFits(a)'
  <2>1. CASE a = r
    BY <2>1
  <2>2. CASE a # r
    BY <2>2 DEF AssetInv, AssetFits, Unused
  <2>3. QED
    BY <2>1, <2>2
<1>2. \A a \in Uploads : a \in Spared => a \in Spared'
  BY DEF Spared
<1>3. ASSUME NEW a \in Uploads, Answers(a), a \notin Spared
      PROVE  assets'[a] = assets[a] /\ (Kept(a) => Kept(a)')
  <2>1. a # r
    BY <1>3
  <2>2. QED
    BY <2>1 DEF Kept
<1>4. ImageFits(image)'
  BY <1>2, <1>3 DEF AssetInv, ImageFits
<1>5. ASSUME NEW e \in Editors PROVE EditFits(edits[e])'
  <2>1. EditFits(edits[e]) /\ edits[e] \in Edit
    BY DEF AssetInv
  <2>2. edits[e].seen \in Uploads \cup {"none"} /\ edits[e].to \in Uploads \cup {"none"}
    BY <2>1 DEF Edit
  <2>3. edits[e].seen # "none" =>
          /\ Answers(edits[e].seen)'
          /\ edits[e].seen \notin Spared' => Kept(edits[e].seen)' /\ assets'[edits[e].seen].status # "READY"
    BY <1>2, <1>3, <2>1, <2>2 DEF EditFits
  <2>4. edits[e].to # "none" =>
          /\ Answers(edits[e].to)'
          /\ edits[e].to \notin Spared' =>
               Kept(edits[e].to)' \/ (assets'[edits[e].to].expired /\ edits[e].to # edits[e].seen)
    BY <1>2, <1>3, <2>1, <2>2 DEF EditFits
  <2>5. QED
    BY <2>3, <2>4 DEF EditFits
<1>6. QED
  BY <1>1, <1>4, <1>5 DEF AssetInv

LEMMA EngineKeeps ==
  ASSUME UploadInv, NEW r \in Uploads, NEW request \in Upload!Request,
         uploads' = [uploads EXCEPT ![r] = request],
         uploads[r].at # "answered", UNCHANGED <<sweep, image, edits, late, entry, persists>>,
         UploadRowFits(row') \/ UploadRowFits(row)',
         executed' \subseteq Uploads, original' \subseteq Uploads, files' \subseteq Uploads,
         assets' \in [Uploads -> Upload!Asset],
         \A s \in Uploads : s # r => /\ assets'[s] = assets[s]
                                     /\ s \in executed' <=> s \in executed
                                     /\ s \in original' <=> s \in original
                                     /\ s \in files' <=> s \in files,
         doubted \subseteq doubted', doubted' \subseteq doubted \cup {r},
         UploadFits(r, request)', AssetFits(r)'
  PROVE  UploadInv'
<1>1. /\ uploads' \in [Uploads -> Upload!Request]
      /\ \A s \in Uploads : Answers(s) => Answers(s)'
      /\ \A s \in Uploads : UploadFits(s, uploads[s])'
  BY UploadMoves
<1>2. AssetInv'
  <2>1. Answers(r) => r \in Spared
    BY DEF Answers, Spared
  <2>2. doubted' \subseteq Uploads
    BY DEF UploadInv, AssetInv
  <2>3. QED
    BY <1>1, <2>1, <2>2, AssetsMove DEF UploadInv
<1>3. UploadRowFits(row)' /\ UploadEntryFits(entry)'
  BY <1>1, RecordsStay DEF UploadInv, KeyInv
<1>4. persists' \subseteq Uploads /\ \A s \in persists' : Answers(s)'
  BY <1>1 DEF UploadInv, KeyInv
<1>5. QED
  BY <1>1, <1>2, <1>3, <1>4 DEF UploadInv, KeyInv

LEMMA EngineSteps ==
  ASSUME UploadInv, NEW r \in Uploads,
         \/ Upload!Refuse(r) \/ Upload!UploadOriginal(r) \/ Upload!PersistReadyAsset(r)
         \/ Upload!CompletionFails(r) \/ Upload!DestroyOriginal(r)
         \/ /\ Upload!Crash(r) /\ original' = original \ {r}
            /\ UNCHANGED <<entry, persists, files, assets, image, edits, edited, late, sweep, doubted>>
  PROVE  UploadInv'
<1> USE DEF Upload!At, Upload!PublicId
<1>1. /\ UploadFits(r, uploads[r]) /\ AssetFits(r) /\ UploadRowFits(row)
      /\ executed \subseteq Uploads /\ original \subseteq Uploads /\ files \subseteq Uploads
      /\ assets \in [Uploads -> Upload!Asset] /\ uploads \in [Uploads -> Upload!Request]
      /\ Upload!NoAsset' = Upload!NoAsset
  BY DEF UploadInv, KeyInv, AssetInv, Upload!NoAsset
<1>2. {"fail", "failed", "complete"} \subseteq Upload!Point
  BY DEF Upload!Point
<1>3. CASE Upload!Refuse(r)
  <2>1. /\ uploads[r].at = "work" /\ Upload!Goto(r, "fail")
        /\ UNCHANGED <<row, executed, entry, persists, original, files, assets, image, edits, late, sweep, doubted>>
    BY <1>3 DEF Upload!Refuse, Upload!Goes, Upload!engineVars, Upload!imageVars
  <2>2. PICK request \in Upload!Request : /\ uploads' = [uploads EXCEPT ![r] = request]
                                          /\ request.at = "fail"
    BY <1>2, <2>1, UploadGoes
  <2>3. UploadFits(r, request)' /\ AssetFits(r)'
    BY <1>1, <2>1, <2>2 DEF UploadFits, AssetFits, Unused, Fresh
  <2>4. QED
    BY <1>1, <2>1, <2>2, <2>3, EngineKeeps
<1>4. CASE Upload!UploadOriginal(r)
  <2>1. /\ uploads[r].at = "work"
        /\ UNCHANGED <<row, executed, entry, persists, assets, image, edits, late, sweep, doubted>>
        /\ files \subseteq files' /\ files' \subseteq files \cup {r}
    BY <1>4 DEF Upload!UploadOriginal, Upload!Goes, Upload!imageVars, Upload!keyVars, Upload!rowVars
  <2>2. AssetFits(r)'
    BY <1>1, <2>1 DEF AssetFits, Unused
  <2>3. CASE r \in files' /\ original' = original \cup {r} /\ uploads' = uploads
    <3>1. PICK request \in Upload!Request : /\ uploads' = [uploads EXCEPT ![r] = request]
                                            /\ request = uploads[r]
      BY <1>1, <2>3
    <3>2. UploadFits(r, request)'
      BY <1>1, <2>1, <2>3, <3>1 DEF UploadFits, Unused, Fresh
    <3>3. QED
      BY <1>1, <2>1, <2>2, <2>3, <3>1, <3>2, EngineKeeps
  <2>4. CASE Upload!Goto(r, "fail") /\ original' = original
    <3>1. PICK request \in Upload!Request : /\ uploads' = [uploads EXCEPT ![r] = request]
                                            /\ request.at = "fail"
      BY <1>2, <2>4, UploadGoes
    <3>2. UploadFits(r, request)'
      BY <1>1, <2>1, <3>1 DEF UploadFits, Fresh
    <3>3. QED
      BY <1>1, <2>1, <2>2, <2>4, <3>1, <3>2, EngineKeeps
  <2>5. QED
    BY <1>4, <2>3, <2>4 DEF Upload!UploadOriginal, Upload!Goes, Upload!keyVars, Upload!rowVars
<1>5. CASE Upload!PersistReadyAsset(r)
  <2>1. /\ uploads[r].at = "work" /\ r \in original
        /\ UNCHANGED <<row, entry, persists, original, files, image, edits, late, sweep, doubted>>
    BY <1>5 DEF Upload!PersistReadyAsset, Upload!Goes
  <2>2. assets[r] = Upload!NoAsset /\ r \in files /\ r \notin doubted /\ r \notin sweep
    BY <1>1, <2>1 DEF UploadFits, AssetFits, Upload!NoAsset
  <2>3. CASE /\ assets' = [assets EXCEPT ![r].status = "READY"]
             /\ executed' = executed \cup {r} /\ Upload!Goto(r, "complete")
    <3>1. PICK request \in Upload!Request : /\ uploads' = [uploads EXCEPT ![r] = request]
                                            /\ request.at = "complete"
      BY <1>2, <2>3, UploadGoes
    <3>2. PICK asset \in Upload!Asset : /\ assets' = [assets EXCEPT ![r] = asset]
                                        /\ asset.status = "READY" /\ ~asset.aged
      <4> DEFINE asset == [assets[r] EXCEPT !.status = "READY"]
      <4>1. assets[r] \in Upload!Asset
        BY <1>1
      <4>2. asset \in Upload!Asset /\ asset.status = "READY" /\ asset.aged = assets[r].aged
        BY <4>1 DEF Upload!Asset
      <4>3. assets[r].aged = FALSE
        BY <2>2 DEF Upload!NoAsset
      <4>4. assets' = [assets EXCEPT ![r] = asset]
        BY <2>3
      <4> HIDE DEF asset
      <4>5. QED
        BY <4>2, <4>3, <4>4
    <3>3. UploadFits(r, request)'
      BY <1>1, <2>1, <2>2, <2>3, <3>1, <3>2 DEF UploadFits, Fresh
    <3>4. AssetFits(r)' /\ assets' \in [Uploads -> Upload!Asset]
      BY <1>1, <2>1, <2>2, <3>2 DEF AssetFits
    <3>5. \A s \in Uploads : s # r => assets'[s] = assets[s]
      BY <1>1, <3>2
    <3>6. QED
      BY <1>1, <2>1, <2>3, <3>1, <3>3, <3>4, <3>5, EngineKeeps
  <2>4. CASE Upload!Goto(r, "fail") /\ UNCHANGED <<executed, assets>>
    <3>1. PICK request \in Upload!Request : /\ uploads' = [uploads EXCEPT ![r] = request]
                                            /\ request.at = "fail"
      BY <1>2, <2>4, UploadGoes
    <3>2. UploadFits(r, request)' /\ AssetFits(r)'
      BY <1>1, <2>1, <2>2, <2>4, <3>1 DEF UploadFits, AssetFits, Unused, Fresh
    <3>3. QED
      BY <1>1, <2>1, <2>4, <3>1, <3>2, EngineKeeps
  <2>5. QED
    BY <1>5, <2>3, <2>4 DEF Upload!PersistReadyAsset, Upload!Goes
<1>6. CASE Upload!CompletionFails(r)
  <2>1. /\ uploads[r].at = "complete" /\ Upload!Goto(r, "fail")
        /\ UNCHANGED <<executed, entry, persists, original, files, assets, image, edits, late, sweep>>
        /\ \/ UNCHANGED <<row, doubted>>
           \/ /\ row' = [row EXCEPT !.status = "COMPLETED", !.by = r]
              /\ doubted' = doubted \cup {r}
    BY <1>6 DEF Upload!CompletionFails, Upload!imageVars
  <2>2. PICK request \in Upload!Request : /\ uploads' = [uploads EXCEPT ![r] = request]
                                          /\ request.at = "fail"
    BY <1>2, <2>1, UploadGoes
  <2>3. UploadFits(r, request)' /\ AssetFits(r)'
    BY <1>1, <2>1, <2>2 DEF UploadFits, AssetFits, Unused, Fresh
  <2>4. UploadRowFits(row') \/ UploadRowFits(row)'
    <3>1. CASE row' = row
      BY <1>1, <3>1
    <3>2. CASE row' = [row EXCEPT !.status = "COMPLETED", !.by = r] /\ doubted' = doubted \cup {r}
      <4>1. Upload!Sound(row') /\ row'.by = r /\ Answers(r)'
        BY <3>2, RowCompleted DEF Answers
      <4>2. QED
        BY <4>1 DEF UploadRowFits, Upload!Sound
    <3>3. QED
      BY <2>1, <3>1, <3>2
  <2>5. QED
    BY <1>1, <2>1, <2>2, <2>3, <2>4, EngineKeeps
<1>7. CASE Upload!DestroyOriginal(r)
  <2>1. /\ uploads[r].at = "fail" /\ uploads' = uploads /\ original' = original \ {r}
        /\ UNCHANGED <<row, executed, entry, persists, assets, image, edits, late, sweep, doubted>>
        /\ files' \in {files, files \ {r}}
    BY <1>7 DEF Upload!DestroyOriginal, Upload!imageVars, Upload!keyVars, Upload!rowVars
  <2>2. PICK request \in Upload!Request : /\ uploads' = [uploads EXCEPT ![r] = request]
                                          /\ request = uploads[r]
    BY <1>1, <2>1
  <2>3. UploadFits(r, request)' /\ AssetFits(r)'
    BY <1>1, <2>1, <2>2 DEF UploadFits, AssetFits, Unused, Fresh
  <2>4. QED
    BY <1>1, <2>1, <2>2, <2>3, EngineKeeps
<1>8. CASE /\ Upload!Crash(r) /\ original' = original \ {r}
           /\ UNCHANGED <<entry, persists, files, assets, image, edits, edited, late, sweep, doubted>>
  <2>1. uploads[r].at # "answered" /\ Upload!Goto(r, "failed") /\ UNCHANGED <<row, executed>>
    BY <1>8 DEF Upload!Crash
  <2>2. PICK request \in Upload!Request : /\ uploads' = [uploads EXCEPT ![r] = request]
                                          /\ request.at = "failed"
    BY <1>2, <2>1, UploadGoes
  <2>3. UploadFits(r, request)' /\ AssetFits(r)'
    BY <1>1, <1>8, <2>1, <2>2 DEF UploadFits, AssetFits, Unused, Fresh
  <2>4. QED
    BY <1>1, <1>8, <2>1, <2>2, <2>3, EngineKeeps
<1>9. QED
  BY <1>3, <1>4, <1>5, <1>6, <1>7, <1>8

(* The steps of edits and of the sweep: no upload moves.  An asset that    *)
(* changes, or whose file goes, has been written and is in use or beyond.  *)
LEMMA KeyRestsToo ==
  ASSUME UploadInv, UNCHANGED <<row, uploads, executed, entry, persists, original, doubted>>,
         files' \subseteq files,
         \A a \in Uploads : assets'[a] # assets[a] \/ (a \in files /\ a \notin files') =>
           assets[a].status # "NONE" /\ assets'[a].status # "NONE" /\ ~Unused(a)'
  PROVE  KeyInv' /\ \A s \in Uploads : Answers(s)' <=> Answers(s)
<1>1. \A s \in Uploads : Answers(s)' <=> Answers(s)
  BY DEF Answers
<1>2. ASSUME NEW s \in Uploads PROVE UploadFits(s, uploads[s])'
  <2>1. UploadFits(s, uploads[s]) /\ Upload!NoAsset' = Upload!NoAsset /\ Upload!NoAsset.status = "NONE"
    BY DEF UploadInv, KeyInv, Upload!NoAsset
  <2>2. uploads[s].at = "replayed" => uploads[s].from \in Uploads /\ Answers(uploads[s].from)'
    BY <1>1, <2>1 DEF UploadFits
  <2>3. CASE uploads[s].at \in Fresh \cup {"work"}
    <3>1. assets'[s] = assets[s] /\ (s \in files => s \in files')
      BY <2>1, <2>3 DEF UploadFits
    <3>2. QED
      BY <2>1, <2>2, <2>3, <3>1 DEF UploadFits, Fresh
  <2>4. CASE uploads[s].at \notin Fresh \cup {"work"}
    <3>1. /\ Unused(s)' => Unused(s) /\ (s \in files => s \in files')
          /\ assets[s].status # "NONE" => assets'[s].status # "NONE"
      BY DEF Unused
    <3>2. QED
      BY <2>1, <2>2, <2>4, <3>1 DEF UploadFits
  <2>5. QED
    BY <2>3, <2>4
<1>3. UploadRowFits(row)' /\ UploadEntryFits(entry)'
  <2>1. UploadRowFits(row) /\ UploadEntryFits(entry)
    BY DEF UploadInv, KeyInv
  <2>2. QED
    BY <1>1, <2>1, RecordsStay DEF UploadInv
<1>4. \A s \in persists' : Answers(s)'
  BY <1>1 DEF UploadInv, KeyInv
<1>5. QED
  BY <1>1, <1>2, <1>3, <1>4 DEF UploadInv, KeyInv

(* What an edit has read outlasts the sweep; what it is about to write may *)
(* expire.                                                                 *)
LEMMA AssetsKeep ==
  ASSUME AssetInv, UNCHANGED <<uploads, image, edits, late, doubted>>,
         files' \subseteq Uploads, sweep' \subseteq Uploads, assets' \in [Uploads -> Upload!Asset],
         \A a \in Uploads : AssetFits(a)',
         \A a \in Uploads \ Spared : Kept(a) /\ assets[a].status # "READY" =>
           \/ Kept(a)' /\ assets'[a].status = assets[a].status
           \/ a # image /\ \A e \in Editors : a \notin {edits[e].seen, edits[e].to},
         \A a \in Uploads : Kept(a) /\ assets[a].status = "READY" => Kept(a)' \/ assets'[a].expired,
         \A a \in Uploads : assets[a].expired => assets'[a].expired
  PROVE  AssetInv'
<1>1. /\ \A a : Answers(a)' <=> Answers(a)
      /\ \A a : a \in Spared' <=> a \in Spared
  BY DEF Answers, Spared
<1>2. ImageFits(image)'
  <2>1. image \in Uploads \cup {"none"} /\ ImageFits(image)
    BY DEF AssetInv
  <2>2. image # "none" => Answers(image)' /\ (image \notin Spared' => Kept(image)' /\ assets'[image].status = "ATTACHED")
    BY <1>1, <2>1 DEF ImageFits
  <2>3. QED
    BY <2>2 DEF ImageFits
<1>3. ASSUME NEW e \in Editors PROVE EditFits(edits[e])'
  <2>1. EditFits(edits[e]) /\ edits[e] \in Edit
    BY DEF AssetInv
  <2>2. edits[e].seen \in Uploads \cup {"none"} /\ edits[e].to \in Uploads \cup {"none"}
    BY <2>1 DEF Edit
  <2>3. edits[e].seen # "none" =>
          /\ Answers(edits[e].seen)'
          /\ edits[e].seen \notin Spared' => Kept(edits[e].seen)' /\ assets'[edits[e].seen].status # "READY"
    BY <1>1, <2>1, <2>2 DEF EditFits
  <2>4. ASSUME edits[e].to # "none", edits[e].to \notin Spared
        PROVE  Kept(edits[e].to)' \/ (assets'[edits[e].to].expired /\ edits[e].to # edits[e].seen)
    <3>1. Kept(edits[e].to) \/ (assets[edits[e].to].expired /\ edits[e].to # edits[e].seen)
      BY <2>1, <2>4 DEF EditFits
    <3>2. CASE assets[edits[e].to].expired /\ edits[e].to # edits[e].seen
      BY <2>2, <2>4, <3>2
    <3>3. CASE Kept(edits[e].to) /\ assets[edits[e].to].status # "READY"
      BY <2>2, <2>4, <3>3
    <3>4. CASE Kept(edits[e].to) /\ assets[edits[e].to].status = "READY"
      <4>1. edits[e].to # edits[e].seen
        BY <2>1, <2>4, <3>4 DEF EditFits
      <4>2. QED
        BY <2>2, <2>4, <3>4, <4>1
    <3>5. QED
      BY <3>1, <3>2, <3>3, <3>4
  <2>5. edits[e].to # "none" => Answers(edits[e].to)'
    BY <1>1, <2>1 DEF EditFits
  <2>6. QED
    BY <1>1, <2>3, <2>4, <2>5 DEF EditFits
<1>4. QED
  BY <1>2, <1>3 DEF AssetInv

LEMMA SweepSteps ==
  ASSUME UploadInv,
         \/ \E a \in Uploads : Upload!Expire(a) \/ Upload!Age(a) \/ Upload!SweepAsset(a)
         \/ Upload!ReadSweep
  PROVE  UploadInv'
<1>1. /\ AssetInv /\ assets \in [Uploads -> Upload!Asset]
      /\ UNCHANGED <<row, uploads, executed, entry, persists, original, image, edits, late, doubted>>
      /\ files \subseteq Uploads /\ sweep \subseteq Uploads
  BY DEF UploadInv, AssetInv, Upload!Expire, Upload!Age, Upload!SweepAsset, Upload!ReadSweep,
     Upload!keyVars, Upload!rowVars, Upload!imageVars
<1>2. \A a \in Uploads : AssetFits(a)
  BY <1>1 DEF AssetInv
<1>3. ASSUME NEW a \in Uploads, NEW asset \in Upload!Asset,
             assets' = [assets EXCEPT ![a] = asset]
      PROVE  assets' \in [Uploads -> Upload!Asset] /\ \A b \in Uploads : assets'[b] = IF b = a THEN asset ELSE assets[b]
  BY <1>1, <1>3
<1>4. ASSUME NEW a \in Uploads, Upload!Expire(a) PROVE UploadInv'
  <2>1. /\ assets[a].status = "READY" /\ files' = files /\ sweep' = sweep
    BY <1>4 DEF Upload!Expire
  <2>2. PICK asset \in Upload!Asset : /\ assets' = [assets EXCEPT ![a] = asset]
                                      /\ asset.status = "READY" /\ asset.expired = TRUE
                                      /\ asset.aged = assets[a].aged
    <3> DEFINE asset == [assets[a] EXCEPT !.expired = TRUE]
    <3>1. assets[a] \in Upload!Asset
      BY <1>1
    <3>2. /\ asset \in Upload!Asset /\ asset.status = "READY" /\ asset.expired = TRUE
          /\ asset.aged = assets[a].aged
      BY <2>1, <3>1 DEF Upload!Asset
    <3>3. assets' = [assets EXCEPT ![a] = asset]
      BY <1>4 DEF Upload!Expire
    <3> HIDE DEF asset
    <3>4. QED
      BY <3>2, <3>3
  <2>3. assets' \in [Uploads -> Upload!Asset] /\ \A b \in Uploads : assets'[b] = IF b = a THEN asset ELSE assets[b]
    BY <1>3, <2>2
  <2>4. KeyInv'
    BY <1>1, <2>1, <2>2, <2>3, KeyRestsToo DEF Unused
  <2>5. \A b \in Uploads : AssetFits(b)'
    BY <1>1, <1>2, <2>1, <2>2, <2>3 DEF AssetFits, Unused
  <2>6. \A b \in Uploads \ {a} : Kept(b) => Kept(b)'
    BY <1>1, <2>1, <2>3 DEF Kept
  <2>7. AssetInv'
    BY <1>1, <2>1, <2>2, <2>3, <2>5, <2>6, AssetsKeep
  <2>8. QED
    BY <2>4, <2>7 DEF UploadInv
<1>5. ASSUME NEW a \in Uploads, Upload!Age(a) PROVE UploadInv'
  <2>1. /\ assets[a].status \in {"ORPHANED", "REJECTED"} /\ files' = files /\ sweep' = sweep
        /\ \A e \in Editors : a \notin {edits[e].seen, edits[e].to}
    BY <1>5 DEF Upload!Age
  <2>2. PICK asset \in Upload!Asset : /\ assets' = [assets EXCEPT ![a] = asset]
                                      /\ asset.status = assets[a].status
                                      /\ asset.expired = assets[a].expired
    <3> DEFINE asset == [assets[a] EXCEPT !.aged = TRUE]
    <3>1. assets[a] \in Upload!Asset
      BY <1>1
    <3>2. /\ asset \in Upload!Asset /\ asset.status = assets[a].status
          /\ asset.expired = assets[a].expired
      BY <3>1 DEF Upload!Asset
    <3>3. assets' = [assets EXCEPT ![a] = asset]
      BY <1>5 DEF Upload!Age
    <3> HIDE DEF asset
    <3>4. QED
      BY <3>2, <3>3
  <2>3. assets' \in [Uploads -> Upload!Asset] /\ \A b \in Uploads : assets'[b] = IF b = a THEN asset ELSE assets[b]
    BY <1>3, <2>2
  <2>4. KeyInv'
    BY <1>1, <2>1, <2>2, <2>3, KeyRestsToo DEF Unused
  <2>5. \A b \in Uploads : AssetFits(b)'
    BY <1>1, <1>2, <2>1, <2>2, <2>3 DEF AssetFits, Unused
  <2>6. \A b \in Uploads \ {a} : Kept(b) => Kept(b)'
    BY <1>1, <2>1, <2>3 DEF Kept
  <2>7. a = image => image \in Spared
    BY <1>1, <2>1, KeyNames DEF AssetInv, ImageFits
  <2>8. AssetInv'
    BY <1>1, <2>1, <2>2, <2>3, <2>5, <2>6, <2>7, AssetsKeep
  <2>9. QED
    BY <2>4, <2>8 DEF UploadInv
<1>6. ASSUME NEW a \in Uploads, Upload!SweepAsset(a) PROVE UploadInv'
  <2>1. a \in sweep /\ assets[a].status # "NONE" /\ ~Unused(a) /\ ~Kept(a)
    BY <1>2, <1>6 DEF Upload!SweepAsset, AssetFits, Kept
  <2>2. ASSUME NEW asset \in Upload!Asset, assets' = [assets EXCEPT ![a] = asset],
               asset.expired = assets[a].expired, asset.aged = FALSE,
               asset.status \in {assets[a].status, "REJECTED"},
               files' \in {files, files \ {a}}, sweep' = sweep \ {a}
        PROVE  UploadInv'
    <3>1. assets' \in [Uploads -> Upload!Asset] /\ \A b \in Uploads : assets'[b] = IF b = a THEN asset ELSE assets[b]
      BY <1>3, <2>2
    <3>2. ~Unused(a)'
      BY <2>1, <2>2, <3>1 DEF Unused
    <3>3. KeyInv'
      BY <1>1, <2>1, <2>2, <3>1, <3>2, KeyRestsToo
    <3>4. \A b \in Uploads : AssetFits(b)'
      BY <1>1, <1>2, <2>1, <2>2, <3>1 DEF AssetFits, Unused
    <3>5. \A b \in Uploads \ {a} : Kept(b) => Kept(b)'
      BY <1>1, <2>2, <3>1 DEF Kept
    <3>6. AssetInv'
      BY <1>1, <2>1, <2>2, <3>1, <3>4, <3>5, AssetsKeep
    <3>7. QED
      BY <3>3, <3>6 DEF UploadInv
  <2>3. CASE /\ files' \in {files, files \ {a}} /\ sweep' = sweep \ {a}
             /\ assets' = [assets EXCEPT ![a].status = "REJECTED", ![a].aged = FALSE,
                                         ![a].cleaned = TRUE, ![a].tries = @ + 1]
    <3> DEFINE asset == [assets[a] EXCEPT !.status = "REJECTED", !.aged = FALSE,
                                          !.cleaned = TRUE, !.tries = @ + 1]
    <3>1. assets[a] \in Upload!Asset /\ assets[a].tries + 1 \in Nat
      BY <1>1 DEF Upload!Asset
    <3>2. /\ asset \in Upload!Asset /\ asset.expired = assets[a].expired
          /\ asset.aged = FALSE /\ asset.status = "REJECTED"
      BY <3>1 DEF Upload!Asset
    <3>3. assets' = [assets EXCEPT ![a] = asset]
      BY <1>1, <2>3
    <3> HIDE DEF asset
    <3>4. QED
      BY <2>2, <2>3, <3>2, <3>3
  <2>4. CASE /\ files' \in {files, files \ {a}} /\ sweep' = sweep \ {a}
             /\ assets' = [assets EXCEPT ![a].aged = FALSE, ![a].tries = @ + 1]
    <3> DEFINE asset == [assets[a] EXCEPT !.aged = FALSE, !.tries = @ + 1]
    <3>1. assets[a] \in Upload!Asset /\ assets[a].tries + 1 \in Nat
      BY <1>1 DEF Upload!Asset
    <3>2. /\ asset \in Upload!Asset /\ asset.expired = assets[a].expired
          /\ asset.aged = FALSE /\ asset.status = assets[a].status
      BY <3>1 DEF Upload!Asset
    <3>3. assets' = [assets EXCEPT ![a] = asset]
      BY <1>1, <2>4
    <3> HIDE DEF asset
    <3>4. QED
      BY <2>2, <2>4, <3>2, <3>3
  <2>5. CASE sweep' = {} /\ UNCHANGED <<files, assets>>
    <3>1. KeyInv'
      BY <1>1, <2>5, KeyRestsToo
    <3>2. \A b \in Uploads : AssetFits(b)'
      BY <1>1, <1>2, <2>5 DEF AssetFits
    <3>3. \A b \in Uploads : Kept(b) => Kept(b)'
      BY <1>1, <2>5 DEF Kept
    <3>4. AssetInv'
      BY <1>1, <2>5, <3>2, <3>3, AssetsKeep
    <3>5. QED
      BY <3>1, <3>4 DEF UploadInv
  <2>6. QED
    BY <1>6, <2>3, <2>4, <2>5 DEF Upload!SweepAsset, Upload!PublicId
<1>7. CASE Upload!ReadSweep
  <2>1. /\ sweep' = {a \in Uploads : Upload!Sweepable(a)} /\ UNCHANGED <<files, assets>>
    BY <1>7 DEF Upload!ReadSweep, Upload!imageVars
  <2>2. KeyInv'
    BY <1>1, <2>1, KeyRestsToo
  <2>3. \A b \in Uploads : AssetFits(b)'
    BY <1>1, <1>2, <2>1 DEF AssetFits, Unused, Upload!Sweepable
  <2>4. \A b \in Uploads : Kept(b) => Kept(b)'
    BY <1>1, <2>1 DEF Kept, Upload!Sweepable
  <2>5. AssetInv'
    BY <1>1, <2>1, <2>3, <2>4, AssetsKeep
  <2>6. QED
    BY <2>2, <2>5 DEF UploadInv
<1>8. QED
  BY <1>4, <1>5, <1>6, <1>7

(* An edit begins: what it writes has been told of, or is the image.       *)
LEMMA EditBegins ==
  ASSUME UploadInv, NEW e \in Editors, NEW kind \in {"update", "replace", "delete"},
         NEW to \in Uploads \cup {"none"}, Upload!BeginEdit(e, kind, to)
  PROVE  UploadInv'
<1>1. /\ UNCHANGED <<row, uploads, executed, entry, persists, original, doubted, files, assets, image, sweep, late>>
      /\ edits' = [edits EXCEPT ![e] = [at |-> kind, seen |-> image, to |-> to]]
      /\ to \in {"none", image} \/ (to \in Upload!Told /\ Upload!Attachable(to))
  BY DEF Upload!BeginEdit, Upload!keyVars, Upload!rowVars, Upload!NoImage
<1>2. KeyInv' /\ \A s \in Uploads : Answers(s)' <=> Answers(s)
  BY <1>1, KeyRestsToo DEF UploadInv, AssetInv
<1>3. /\ image \in Uploads \cup {"none"} /\ ImageFits(image) /\ edits \in [Editors -> Edit]
      /\ \A a \in Uploads : AssetFits(a)
  BY DEF UploadInv, AssetInv
<1>4. /\ \A a : Kept(a)' <=> Kept(a)
      /\ \A a : a \in Spared' <=> a \in Spared
  BY <1>1 DEF Kept, Spared
<1>5. ASSUME to \in Upload!Told, Upload!Attachable(to), to \in Uploads
      PROVE  Answers(to) /\ (to \notin Spared => Kept(to))
  <2>1. Unused(to)
    BY <1>5 DEF Unused, Upload!Attachable
  <2>2. Answers(to)
    <3>1. CASE uploads[to].at = "answered"
      BY <3>1 DEF Answers
    <3>2. CASE uploads[to].at # "answered"
      <4>1. PICK s \in Uploads : uploads[s].at = "replayed" /\ to = uploads[s].from
        BY <1>5, <3>2 DEF Upload!Told, Upload!At
      <4>2. QED
        BY <4>1 DEF UploadInv, KeyInv, UploadFits
    <3>3. QED
      BY <3>1, <3>2
  <2>3. ASSUME to \notin Spared PROVE Kept(to)
    <3>1. uploads[to].at = "answered"
      BY <2>2, <2>3 DEF Answers, Spared
    <3>2. to \in files
      BY <1>5, <2>1, <3>1 DEF UploadInv, KeyInv, UploadFits
    <3>3. QED
      BY <1>3, <1>5, <2>1, <3>2 DEF Kept, Unused, AssetFits
  <2>4. QED
    BY <2>2, <2>3
<1> DEFINE edit == [at |-> kind, seen |-> image, to |-> to]
<1>6. edit \in Edit /\ edit.seen = image /\ edit.to = to
  BY <1>3 DEF Edit
<1> HIDE DEF edit
<1>7. PICK new \in Edit : edits' = [edits EXCEPT ![e] = new] /\ new.seen = image /\ new.to = to
  BY <1>1, <1>6 DEF edit
<1>8. EditFits(new)'
  <2>1. PICK seen : seen = image /\ new.seen = seen
    BY <1>7
  <2>2. seen \in Uploads \cup {"none"} /\ ImageFits(seen)
    BY <1>3, <2>1
  <2>3. seen # "none" => /\ Answers(seen)'
                         /\ seen \notin Spared' => Kept(seen)' /\ assets'[seen].status # "READY"
    BY <1>1, <1>2, <1>4, <2>1, <2>2 DEF ImageFits
  <2>4. to # "none" => Answers(to) /\ (to \notin Spared => Kept(to))
    BY <1>1, <1>3, <1>5 DEF ImageFits
  <2>5. to # "none" => Answers(to)' /\ (to \notin Spared' => Kept(to)')
    BY <1>2, <1>4, <2>4
  <2>6. QED
    BY <1>7, <2>1, <2>3, <2>5 DEF EditFits
<1>9. ASSUME NEW f \in Editors PROVE EditFits(edits[f])'
  <2>1. CASE f = e
    BY <1>3, <1>7, <1>8, <2>1
  <2>2. CASE f # e
    <3>1. edits'[f] = edits[f] /\ EditFits(edits[f]) /\ edits[f] \in Edit
      BY <1>3, <1>7, <2>2 DEF UploadInv, AssetInv
    <3>2. \A a : Answers(a)' <=> Answers(a)
      BY <1>1 DEF Answers
    <3>3. QED
      BY <1>1, <1>4, <3>1, <3>2 DEF EditFits
  <2>3. QED
    BY <2>1, <2>2
<1>10. edits' \in [Editors -> Edit] /\ ImageFits(image)' /\ \A a \in Uploads : AssetFits(a)'
  BY <1>1, <1>2, <1>3, <1>4, <1>7 DEF ImageFits, AssetFits, Unused
<1>11. QED
  BY <1>1, <1>2, <1>9, <1>10 DEF UploadInv, AssetInv

(* An edit commits: what other edits have read stays, for neither it nor   *)
(* the asset that it writes is swept before they are over.                 *)
LEMMA EditCommits ==
  ASSUME UploadInv, NEW e \in Editors, Upload!Swap(e),
         edits' \in [Editors -> Edit],
         \A f \in Editors : edits'[f] = edits[f] \/ edits'[f] = Upload!NoEdit
  PROVE  UploadInv'
<1>1. PICK seen, to : seen = edits[e].seen /\ to = edits[e].to
  OBVIOUS
<1>2. /\ seen \in Uploads \cup {"none"} /\ to \in Uploads \cup {"none"} /\ "none" \notin Uploads
      /\ EditFits(edits[e]) /\ \A a \in Uploads : AssetFits(a)
      /\ assets \in [Uploads -> Upload!Asset] /\ edits \in [Editors -> Edit]
      /\ \A f \in Editors : EditFits(edits[f])
      /\ late \subseteq Uploads
  BY <1>1, KeyNames DEF UploadInv, AssetInv, Edit
<1>3. /\ UNCHANGED <<row, uploads, executed, entry, persists, original, doubted, files, sweep>>
      /\ image' = to
      /\ late' = IF to \notin {"none", seen} /\ assets[to].expired THEN late \cup {to} ELSE late
  BY <1>1 DEF Upload!Swap, Upload!keyVars, Upload!rowVars, Upload!NoImage
<1>4. assets' = [a \in Uploads |->
        IF a = to THEN [assets[a] EXCEPT !.status = "ATTACHED", !.aged = FALSE]
        ELSE IF a = seen THEN [assets[a] EXCEPT !.status = "ORPHANED", !.aged = FALSE]
        ELSE assets[a]]
  BY <1>1 DEF Upload!Swap
<1>5. ASSUME NEW a \in Uploads
      PROVE  /\ assets'[a] \in Upload!Asset /\ assets'[a].expired = assets[a].expired
             /\ a = to => assets'[a].status = "ATTACHED" /\ assets'[a].aged = FALSE
             /\ a = seen /\ a # to => assets'[a].status = "ORPHANED" /\ assets'[a].aged = FALSE
             /\ a \notin {seen, to} => assets'[a] = assets[a]
  <2>1. assets[a] \in Upload!Asset
    BY <1>2
  <2>2. CASE a = to
    <3>1. assets'[a] = [assets[a] EXCEPT !.status = "ATTACHED", !.aged = FALSE]
      BY <1>4, <2>2
    <3>2. QED
      BY <2>1, <2>2, <3>1 DEF Upload!Asset
  <2>3. CASE a = seen /\ a # to
    <3>1. assets'[a] = [assets[a] EXCEPT !.status = "ORPHANED", !.aged = FALSE]
      BY <1>4, <2>3
    <3>2. QED
      BY <2>1, <2>3, <3>1 DEF Upload!Asset
  <2>4. CASE a \notin {seen, to}
    BY <1>4, <2>1, <2>4
  <2>5. QED
    BY <2>2, <2>3, <2>4
<1>6. assets' \in [Uploads -> Upload!Asset]
  BY <1>4, <1>5
<1>7. KeyInv' /\ \A s \in Uploads : Answers(s)' <=> Answers(s)
  <2>1. ASSUME NEW a \in {seen, to}, a \in Uploads
        PROVE  assets[a].status # "NONE" /\ assets'[a].status # "NONE" /\ ~Unused(a)'
    <3>1. Answers(a)
      BY <1>1, <1>2, <2>1 DEF EditFits
    <3>2. assets[a].status # "NONE"
      BY <2>1, <3>1 DEF UploadInv, KeyInv, Answers, UploadFits
    <3>3. assets'[a].status \in {"ATTACHED", "ORPHANED"}
      BY <1>5, <2>1
    <3>4. QED
      BY <3>2, <3>3 DEF Unused
  <2>2. \A a \in Uploads : assets'[a] # assets[a] => a \in {seen, to}
    BY <1>5
  <2>3. QED
    BY <1>3, <2>1, <2>2, KeyRestsToo
<1>8. \A a \in Uploads : AssetFits(a)'
  BY <1>2, <1>3, <1>5, <1>7 DEF AssetFits, Unused
<1>9. \A a \in Uploads : Kept(a) => Kept(a)'
  BY <1>3, <1>5 DEF Kept
<1>10. \A a : a \in Spared => a \in Spared'
  BY <1>3 DEF Spared
<1>11. ImageFits(image)'
  <2>1. ASSUME to # "none" PROVE Answers(to)' /\ (to \notin Spared' => Kept(to)' /\ assets'[to].status = "ATTACHED")
    <3>1. Answers(to) /\ to \in Uploads
      BY <1>1, <1>2, <2>1 DEF EditFits
    <3>2. ASSUME to \notin Spared' PROVE Kept(to)
      <4>1. to \notin late' /\ to \notin Spared
        BY <1>10, <3>2 DEF Spared
      <4>2. ~ (assets[to].expired /\ to # seen)
        BY <1>3, <2>1, <4>1
      <4>3. QED
        BY <1>1, <1>2, <2>1, <4>1, <4>2 DEF EditFits
    <3>3. QED
      BY <1>5, <1>7, <1>9, <3>1, <3>2
  <2>2. QED
    BY <1>3, <2>1 DEF ImageFits
<1>12. ASSUME NEW f \in Editors PROVE EditFits(edits[f])'
  <2>1. CASE edits'[f] = Upload!NoEdit
    BY <2>1 DEF EditFits, Upload!NoEdit, Upload!NoImage
  <2>2. CASE edits'[f] = edits[f]
    <3>1. PICK edit : edit = edits[f] /\ edit = edits'[f]
      BY <2>2
    <3>2. EditFits(edit) /\ edit.seen \in Uploads \cup {"none"} /\ edit.to \in Uploads \cup {"none"}
      BY <1>2, <3>1 DEF Edit
    <3>3. ASSUME edit.seen # "none"
          PROVE  /\ Answers(edit.seen)'
                 /\ edit.seen \notin Spared' => Kept(edit.seen)' /\ assets'[edit.seen].status # "READY"
      BY <1>5, <1>7, <1>9, <1>10, <3>2, <3>3 DEF EditFits
    <3>4. ASSUME edit.to # "none"
          PROVE  /\ Answers(edit.to)'
                 /\ edit.to \notin Spared' => Kept(edit.to)' \/ (assets'[edit.to].expired /\ edit.to # edit.seen)
      BY <1>5, <1>7, <1>9, <1>10, <3>2, <3>4 DEF EditFits
    <3>5. EditFits(edit)'
      BY <3>3, <3>4 DEF EditFits
    <3>6. QED
      BY <3>1, <3>5
  <2>3. QED
    BY <2>1, <2>2
<1>13. files' \subseteq Uploads /\ sweep' \subseteq Uploads /\ doubted' \subseteq Uploads /\ late' \subseteq Uploads
  BY <1>2, <1>3 DEF UploadInv, AssetInv
<1>14. QED
  BY <1>2, <1>3, <1>6, <1>7, <1>8, <1>11, <1>12, <1>13 DEF UploadInv, AssetInv

LEMMA EditSteps ==
  ASSUME UploadInv, NEW e \in Editors, Upload!RewriteImage(e) \/ Upload!ReplaceImage(e)
  PROVE  UploadInv'
<1>1. Upload!NoEdit \in Edit
  BY DEF Edit, Upload!NoEdit, Upload!NoImage
<1>2. edits \in [Editors -> Edit]
  BY DEF UploadInv, AssetInv
<1>3. /\ Upload!Swap(e) /\ edits' \in [Editors -> Edit]
      /\ \A f \in Editors : edits'[f] = edits[f] \/ edits'[f] = Upload!NoEdit
  <2>1. CASE Upload!RewriteImage(e)
    BY <1>1, <1>2, <2>1 DEF Upload!RewriteImage
  <2>2. CASE Upload!ReplaceImage(e)
    BY <1>1, <1>2, <2>2 DEF Upload!ReplaceImage
  <2>3. QED
    BY <2>1, <2>2
<1>4. QED
  BY <1>3, EditCommits

LEMMA UploadStep == UploadInv /\ (Upload!Next \/ UNCHANGED uploadVars) => UploadInv'
<1> SUFFICES ASSUME UploadInv, Upload!Next \/ UNCHANGED uploadVars PROVE UploadInv'
  OBVIOUS
<1>1. CASE UNCHANGED uploadVars
  <2>1. UNCHANGED <<row, uploads, executed, entry, persists, original, files, assets, image, edits, sweep, late, doubted>>
    BY <1>1 DEF uploadVars
  <2>2. KeyInv' /\ \A s \in Uploads : Answers(s)' <=> Answers(s)
    BY <2>1, KeyRestsToo
  <2>3. AssetInv'
    BY <2>1, <2>2, AssetsStay DEF UploadInv, AssetInv
  <2>4. QED
    BY <2>2, <2>3 DEF UploadInv
<1>2. ASSUME NEW r \in Uploads, Upload!UploadStep(r) PROVE UploadInv'
  <2>1. CASE Upload!KeyStep(r) /\ UNCHANGED Upload!engineVars
    BY <1>2, <2>1, KeyEntrySteps, KeyRowSteps, KeyRests DEF Upload!KeyStep
  <2>2. CASE Upload!Crash(r) /\ original' = original \ {r}
             /\ UNCHANGED <<entry, persists, files, assets, image, edits, edited, late, sweep, doubted>>
    BY <2>2, EngineSteps
  <2>3. QED
    BY <1>2, <2>1, <2>2, EngineSteps DEF Upload!UploadStep, Upload!imageVars
<1>3. CASE Upload!LeaseEnds /\ UNCHANGED Upload!engineVars
  BY <1>3, KeyRests
<1>4. ASSUME NEW e \in Editors,
             \/ \E kind \in {"update", "replace", "delete"}, to \in Uploads \cup {"none"} : Upload!BeginEdit(e, kind, to)
             \/ Upload!RewriteImage(e) \/ Upload!ReplaceImage(e)
      PROVE  UploadInv'
  BY <1>4, EditBegins, EditSteps
<1>5. QED
  BY <1>1, <1>2, <1>3, <1>4, SweepSteps DEF Upload!Next, Upload!NoImage

LEMMA UploadInit == Upload!Init => UploadInv
<1> SUFFICES ASSUME Upload!Init PROVE UploadInv
  OBVIOUS
<1>1. /\ row = Upload!None /\ entry = Upload!NoEntry /\ persists = {} /\ executed = {}
      /\ uploads = [r \in Uploads |-> [at |-> "idle", backend |-> "none", from |-> "nobody"]]
      /\ original = {} /\ files = {} /\ assets = [r \in Uploads |-> Upload!NoAsset]
      /\ image = "none" /\ edits = [e \in Editors |-> Upload!NoEdit]
      /\ sweep = {} /\ late = {} /\ doubted = {}
  BY DEF Upload!Init, Upload!InitKey, Upload!InitRows, Upload!NoImage, Upload!Nobody
<1>2. UploadRowFits(row) /\ UploadEntryFits(entry)
  BY <1>1 DEF UploadRowFits, UploadEntryFits, Upload!Sound, Upload!Record, Upload!None, Upload!Nobody
<1>3. uploads \in [Uploads -> Upload!Request]
  BY <1>1 DEF Upload!Request, Upload!Point, Upload!Nobody
<1>4. \A r \in Uploads : UploadFits(r, uploads[r])
  BY <1>1 DEF UploadFits, Fresh
<1>5. KeyInv
  BY <1>1, <1>2, <1>3, <1>4 DEF KeyInv
<1>6. assets \in [Uploads -> Upload!Asset] /\ edits \in [Editors -> Edit]
  BY <1>1 DEF Upload!Asset, Upload!NoAsset, Edit, Upload!NoEdit, Upload!NoImage
<1>7. /\ \A a \in Uploads : AssetFits(a)
      /\ \A e \in Editors : EditFits(edits[e])
  BY <1>1 DEF AssetFits, EditFits, Upload!NoAsset, Upload!NoEdit, Upload!NoImage
<1>8. QED
  BY <1>1, <1>5, <1>6, <1>7 DEF UploadInv, AssetInv, ImageFits

LEMMA UploadIsTrue == UploadInv => Upload!TypeOK /\ Upload!ReplayIsExecuted /\ Upload!OfferedIsStored
<1> SUFFICES ASSUME UploadInv PROVE Upload!TypeOK /\ Upload!ReplayIsExecuted /\ Upload!OfferedIsStored
  OBVIOUS
<1>1. \A r \in Uploads : Answers(r) => r \in executed
  BY DEF UploadInv, KeyInv, UploadFits, Answers
<1>2. Upload!ReplayIsExecuted
  BY <1>1 DEF UploadInv, KeyInv, UploadFits, Upload!ReplayIsExecuted, Upload!At
<1>3. Upload!TypeOK
  <2>1. entry \in Upload!Entry /\ (entry = Upload!NoEntry \/ (entry.status # "NONE" /\ entry.owner # "nobody"))
    BY KeyNames DEF UploadInv, KeyInv, UploadEntryFits, Upload!NoEntry, Upload!Entry, Upload!Nobody
  <2>2. Upload!KeyTypeOK
    BY <2>1 DEF UploadInv, KeyInv, UploadRowFits, Upload!KeyTypeOK, Upload!RowsTypeOK, Upload!Nobody
  <2>3. {Upload!PublicId(r) : r \in Uploads} = Uploads
    BY DEF Upload!PublicId
  <2>4. QED
    BY <2>2, <2>3 DEF UploadInv, KeyInv, AssetInv, Edit, Upload!TypeOK, Upload!NoImage
<1>4. Upload!OfferedIsStored
  <2> SUFFICES ASSUME NEW a \in Uploads \ (late \cup doubted),
                      a = image \/ (a \in Upload!Told /\ Upload!Attachable(a))
               PROVE  a \in files
    BY DEF Upload!OfferedIsStored, Upload!PublicId
  <2>1. CASE a = image
    BY <2>1, KeyNames DEF UploadInv, AssetInv, ImageFits, Spared, Kept
  <2>2. CASE a \in Upload!Told /\ Upload!Attachable(a)
    <3>1. Answers(a)
      <4>1. CASE uploads[a].at = "answered"
        BY <4>1 DEF Answers
      <4>2. CASE uploads[a].at # "answered"
        <5>1. PICK s \in Uploads : uploads[s].at = "replayed" /\ a = uploads[s].from
          BY <2>2, <4>2 DEF Upload!Told, Upload!At
        <5>2. QED
          BY <5>1 DEF UploadInv, KeyInv, UploadFits
      <4>3. QED
        BY <4>1, <4>2
    <3>2. uploads[a].at = "answered" /\ Unused(a)
      BY <2>2, <3>1 DEF Answers, Unused, Upload!Attachable
    <3>3. QED
      BY <3>2 DEF UploadInv, KeyInv, UploadFits
  <2>3. QED
    BY <2>1, <2>2
<1>5. QED
  BY <1>2, <1>3, <1>4

(* The action of EntryIsItsOwners.                                         *)
OwnersAlone ==
  /\ entry.status = "IN_PROGRESS" /\ entry' # entry =>
       \/ entry' = [entry EXCEPT !.status = "COMPLETED"] /\ Upload!At(entry.owner, "complete")
       \/ entry' = Upload!NoEntry /\ (Upload!LeaseEnds \/ Upload!At(entry.owner, "fail"))
  /\ entry.status = "COMPLETED" => entry' = entry

LEMMA OwnersStep == UploadInv /\ (Upload!Next \/ UNCHANGED uploadVars) => OwnersAlone \/ UNCHANGED Upload!keyVars
<1> SUFFICES ASSUME UploadInv, Upload!Next \/ UNCHANGED uploadVars
             PROVE  OwnersAlone \/ UNCHANGED Upload!keyVars
  OBVIOUS
<1>1. entry' = entry => OwnersAlone
  BY DEF OwnersAlone
<1>2. entry = Upload!NoEntry \/ entry \in Upload!Entry
  BY DEF UploadInv, KeyInv, UploadEntryFits
<1>3. Upload!NoEntry.status = "NONE"
  BY DEF Upload!NoEntry
<1>4. ASSUME NEW r \in Uploads, Upload!SetNx(r) PROVE OwnersAlone
  <2>1. entry = Upload!NoEntry \/ entry' = entry
    BY <1>4 DEF Upload!SetNx
  <2>2. QED
    BY <1>1, <1>3, <2>1 DEF OwnersAlone
<1>5. ASSUME NEW r \in Uploads, Upload!CompleteIfReserved(r) PROVE OwnersAlone
  <2>1. CASE entry' = entry
    BY <1>1, <2>1
  <2>2. CASE Upload!Owns(r) /\ entry' = [status |-> "COMPLETED", hash |-> FileBodies[r], owner |-> r]
    <3>1. entry \in Upload!Entry /\ entry.status = "IN_PROGRESS" /\ entry.owner = r /\ entry.hash = FileBodies[r]
      BY <2>2 DEF UploadInv, KeyInv, UploadEntryFits, Upload!Owns, Upload!NoEntry
    <3>2. [entry EXCEPT !.status = "COMPLETED"] = [status |-> "COMPLETED", hash |-> entry.hash, owner |-> entry.owner]
      BY <3>1, Z3 DEF Upload!Entry
    <3>3. entry' = [entry EXCEPT !.status = "COMPLETED"] /\ Upload!At(entry.owner, "complete")
      BY <1>5, <2>2, <3>1, <3>2 DEF Upload!CompleteIfReserved
    <3>4. QED
      BY <3>1, <3>3 DEF OwnersAlone
  <2>3. QED
    BY <1>5, <2>1, <2>2 DEF Upload!CompleteIfReserved
<1>6. ASSUME NEW r \in Uploads, Upload!DeleteIfReserved(r) PROVE OwnersAlone
  <2>1. CASE entry' = entry
    BY <1>1, <2>1
  <2>2. CASE Upload!Owns(r) /\ entry' = Upload!NoEntry
    BY <1>6, <2>2 DEF OwnersAlone, Upload!Owns, Upload!DeleteIfReserved, Upload!At
  <2>3. QED
    BY <1>6, <2>1, <2>2 DEF Upload!DeleteIfReserved
<1>7. CASE Upload!LeaseEnds
  BY <1>7 DEF OwnersAlone, Upload!LeaseEnds
<1>8. ASSUME NEW r \in Uploads, Upload!UploadStep(r) PROVE OwnersAlone
  <2>1. CASE Upload!KeyStep(r)
    <3>1. CASE \/ Upload!Get(r) \/ Upload!PersistCompleted(r)
               \/ UNCHANGED <<entry, persists>>
      BY <1>1, <3>1 DEF Upload!Get, Upload!PersistCompleted
    <3>2. QED
      BY <1>4, <1>5, <1>6, <2>1, <3>1 DEF Upload!KeyStep
  <2>2. CASE ~ Upload!KeyStep(r)
    <3>1. entry' = entry
      BY <1>8, <2>2 DEF Upload!UploadStep, Upload!Refuse, Upload!UploadOriginal, Upload!PersistReadyAsset,
         Upload!CompletionFails, Upload!DestroyOriginal, Upload!Goes, Upload!keyVars
    <3>2. QED
      BY <1>1, <3>1
  <2>3. QED
    BY <2>1, <2>2
<1>9. CASE UNCHANGED uploadVars
  BY <1>1, <1>9 DEF uploadVars
<1>10. CASE \/ \E e \in Editors :
                 \/ \E kind \in {"update", "replace", "delete"}, to \in Uploads \cup {Upload!NoImage} :
                      Upload!BeginEdit(e, kind, to)
                 \/ Upload!RewriteImage(e) \/ Upload!ReplaceImage(e)
            \/ \E a \in Uploads : Upload!Expire(a) \/ Upload!Age(a) \/ Upload!SweepAsset(a)
            \/ Upload!ReadSweep
  BY <1>10 DEF Upload!BeginEdit, Upload!RewriteImage, Upload!ReplaceImage, Upload!Swap, Upload!Expire,
     Upload!Age, Upload!SweepAsset, Upload!ReadSweep
<1>11. QED
  BY <1>7, <1>8, <1>9, <1>10 DEF Upload!Next

-----------------------------------------------------------------------------
(* TabSessions.  With Web Locks one tab at most is between the lock and    *)
(* the end of its refresh, so that the token it took along is the newest   *)
(* one: the cookie has it, or the answer that brings it.                   *)
Busy(t) == op[t].at \in {"sent", "answered", "pause"}

Brings(t) == op[t].at = "answered" /\ op[t].answer \in Browser!Bring

TabFits(t) ==
  /\ op[t].at = "answered" => op[t].answer # "race" /\ (op[t].answer = "invalid" => ~alive)
  /\ alive /\ (op[t].at = "sent" \/ Brings(t)) => op[t].held = 0

LockInv ==
  webLocks =>
    /\ \A t, u \in Tabs : Busy(t) /\ Busy(u) => t = u
    /\ harm = "none" =>
         /\ \A t \in Tabs : TabFits(t)
         /\ alive /\ (\A t \in Tabs : ~Brings(t)) => jar \in {0, Browser!Gone}

TabsInv ==
  /\ Browser!TypeOK
  /\ Browser!ShownIsRenewed
  /\ \A t \in Tabs : op[t].at = "idle" => op[t].waits = {}
  /\ LockInv

Tab == [shown : {"closed", "session", "nobody", "outage"}, timer : {"off", "set", "lost"}, mirror : Browser!Envelope]

Op == [at : {"idle", "lock", "sent", "answered", "pause"},
       mode : {"first", "again", "race"}, held : 0..Browser!Gone,
       answer : {"none", "race", "invalid", "outage", "denied", "ok", "corrupt"},
       waits : SUBSET {"timer", "boot"}, call : BOOLEAN]

Renewed(shows, refresh) == shows.shown = "session" => shows.timer # "off" \/ "timer" \in refresh.waits

LEMMA TabTypes ==
  ASSUME TabsInv
  PROVE  /\ tab \in [Tabs -> Tab] /\ op \in [Tabs -> Op]
         /\ Browser!NoOp \in Op /\ Browser!NoOp.at = "idle" /\ Browser!NoOp.waits = {}
         /\ Browser!Closed \in Tab
         /\ envelope \in Browser!Envelope /\ jar \in 0..Browser!Gone
         /\ \A t \in Tabs : Browser!Read(t) \in Browser!Envelope
<1>1. /\ tab \in [Tabs -> Tab] /\ op \in [Tabs -> Op]
      /\ envelope \in Browser!Envelope /\ jar \in 0..Browser!Gone
  BY DEF TabsInv, Browser!TypeOK, Browser!Bring, Tab, Op
<1>2. Browser!NoOp \in Op /\ Browser!NoOp.at = "idle" /\ Browser!NoOp.waits = {}
  BY DEF Browser!NoOp, Op, Browser!Gone
<1>3. Browser!Closed \in Tab
  BY DEF Browser!Closed, Tab, Browser!Envelope
<1>4. \A t \in Tabs : Browser!Read(t) \in Browser!Envelope
  BY <1>1 DEF Browser!Read, Tab
<1>5. QED
  BY <1>1, <1>2, <1>3, <1>4

LEMMA MirrorFits ==
  ASSUME NEW shows \in Tab, NEW mirror \in Browser!Envelope
  PROVE  /\ [shows EXCEPT !.mirror = mirror] \in Tab
         /\ [shows EXCEPT !.mirror = mirror].shown = shows.shown
         /\ [shows EXCEPT !.mirror = mirror].timer = shows.timer
BY DEF Tab

LEMMA AppliedFits ==
  ASSUME NEW shows \in Tab, NEW result
  PROVE  \E applied \in Tab : /\ applied = Browser!Applied(shows, result)
                              /\ applied.shown = "session" => applied.timer = "set"
<1>1. CASE result = "authenticated"
  <2> DEFINE applied == [shows EXCEPT !.shown = "session", !.timer = "set"]
  <2>1. applied \in Tab /\ applied.timer = "set"
    BY DEF Tab
  <2>2. applied = Browser!Applied(shows, result)
    BY <1>1 DEF Browser!Applied
  <2> HIDE DEF applied
  <2>3. QED
    BY <2>1, <2>2
<1>2. CASE result = "outage"
  <2> DEFINE applied == [shows EXCEPT !.shown = IF shows.mirror = "none" THEN "outage" ELSE "session",
                                      !.timer = "set"]
  <2>1. applied \in Tab /\ applied.timer = "set"
    BY DEF Tab
  <2>2. applied = Browser!Applied(shows, result)
    BY <1>2 DEF Browser!Applied
  <2> HIDE DEF applied
  <2>3. QED
    BY <2>1, <2>2
<1>3. CASE result \notin {"authenticated", "outage"}
  <2> DEFINE applied == [shows EXCEPT !.shown = "nobody"]
  <2>1. applied \in Tab /\ applied.shown = "nobody"
    BY DEF Tab
  <2>2. applied = Browser!Applied(shows, result)
    BY <1>3 DEF Browser!Applied
  <2> HIDE DEF applied
  <2>3. QED
    BY <2>1, <2>2
<1>4. QED
  BY <1>1, <1>2, <1>3

(* The end of a refresh: those who waited for it, the timer among them,    *)
(* are told, and a tab that shows the session has its timer set.           *)
LEMMA ResultFits ==
  ASSUME TabsInv, NEW t \in Tabs, NEW mirror \in Browser!Envelope, NEW result,
         Browser!Result(t, [tab[t] EXCEPT !.mirror = mirror], result)
  PROVE  \E shows \in Tab : /\ tab' = [tab EXCEPT ![t] = shows]
                            /\ op' = [op EXCEPT ![t] = Browser!NoOp]
                            /\ Renewed(shows, Browser!NoOp)
<1> DEFINE mirrored == [tab[t] EXCEPT !.mirror = mirror]
<1>1. /\ mirrored \in Tab /\ mirrored.shown = tab[t].shown /\ mirrored.timer = tab[t].timer
  BY TabTypes, MirrorFits
<1>2. /\ tab' = [tab EXCEPT ![t] = IF op[t].waits # {} THEN Browser!Applied(mirrored, result) ELSE mirrored]
      /\ op' = [op EXCEPT ![t] = Browser!NoOp]
  BY DEF Browser!Result
<1> HIDE DEF mirrored
<1>3. CASE op[t].waits # {}
  <2>1. PICK applied \in Tab : /\ applied = Browser!Applied(mirrored, result)
                               /\ applied.shown = "session" => applied.timer = "set"
    BY <1>1, AppliedFits
  <2>2. QED
    BY <1>2, <1>3, <2>1 DEF Renewed
<1>4. CASE op[t].waits = {}
  <2>1. mirrored.shown = "session" => mirrored.timer # "off"
    BY <1>1, <1>4 DEF TabsInv, Browser!ShownIsRenewed
  <2>2. QED
    BY <1>1, <1>2, <1>4, <2>1 DEF Renewed
<1>5. QED
  BY <1>3, <1>4

LEMMA TellFits ==
  ASSUME TabsInv, NEW others, NEW message \in {"refreshed", "cleared"}, Browser!TellTo(others, message)
  PROVE  inbox' \in [Tabs -> Seq({"refreshed", "cleared"})]
<1>1. inbox \in [Tabs -> Seq({"refreshed", "cleared"})]
  BY DEF TabsInv, Browser!TypeOK
<1>2. \A t \in Tabs : Append(inbox[t], message) \in Seq({"refreshed", "cleared"})
  BY <1>1
<1>3. QED
  BY <1>1, <1>2 DEF Browser!TellTo

(* A step of one tab: what it shows and its refresh.                       *)
LEMMA TabMoves ==
  ASSUME TabsInv, NEW t \in Tabs, NEW shows \in Tab, NEW refresh \in Op,
         tab' = [tab EXCEPT ![t] = shows], op' = [op EXCEPT ![t] = refresh],
         webLocks' = webLocks, alive' \in BOOLEAN, jar' \in 0..Browser!Gone,
         envelope' \in Browser!Envelope,
         inbox' \in [Tabs -> Seq({"refreshed", "cleared"})],
         exit' \in {"none", "current", "spent", "done"}, harm' \in {"none", "lost", "aborted"},
         Renewed(shows, refresh),
         refresh.at = "idle" => refresh.waits = {},
         LockInv'
  PROVE  TabsInv'
<1>1. tab \in [Tabs -> Tab] /\ op \in [Tabs -> Op]
  BY TabTypes
<1>2. /\ tab' \in [Tabs -> Tab] /\ op' \in [Tabs -> Op]
      /\ \A u \in Tabs : tab'[u] = IF u = t THEN shows ELSE tab[u]
      /\ \A u \in Tabs : op'[u] = IF u = t THEN refresh ELSE op[u]
  BY <1>1
<1>3. Browser!TypeOK'
  BY <1>2 DEF TabsInv, Browser!TypeOK, Browser!Bring, Tab, Op, Browser!Envelope
<1>4. Browser!ShownIsRenewed'
  BY <1>2 DEF TabsInv, Browser!ShownIsRenewed, Renewed
<1>5. \A u \in Tabs : op'[u].at = "idle" => op'[u].waits = {}
  BY <1>2 DEF TabsInv
<1>6. QED
  BY <1>3, <1>4, <1>5 DEF TabsInv

(* A step of one refresh under the lock.                                   *)
LEMMA LockMoves ==
  ASSUME TabsInv, NEW t \in Tabs, NEW refresh \in Op, op' = [op EXCEPT ![t] = refresh],
         webLocks' = webLocks, alive' => alive, harm' = "none" => harm = "none",
         refresh.at \in {"sent", "answered", "pause"} /\ webLocks =>
           Busy(t) \/ \A u \in Tabs : ~Busy(u),
         webLocks /\ harm' = "none" =>
           /\ refresh.at = "answered" =>
                refresh.answer # "race" /\ (refresh.answer = "invalid" => ~alive')
           /\ alive' =>
                /\ refresh.at = "sent" \/ (refresh.at = "answered" /\ refresh.answer \in Browser!Bring) => refresh.held = 0
                /\ ~ (refresh.at = "answered" /\ refresh.answer \in Browser!Bring) /\ (\A u \in Tabs \ {t} : ~Brings(u)) =>
                     jar' \in {0, Browser!Gone}
  PROVE  LockInv'
<1>1. \A u \in Tabs : op'[u] = IF u = t THEN refresh ELSE op[u]
  BY TabTypes
<1> SUFFICES ASSUME webLocks
             PROVE  /\ \A u, v \in Tabs : Busy(u)' /\ Busy(v)' => u = v
                    /\ harm' = "none" =>
                         /\ \A u \in Tabs : TabFits(u)'
                         /\ alive' /\ (\A u \in Tabs : ~Brings(u)') => jar' \in {0, Browser!Gone}
  BY DEF LockInv, Browser!Gone
<1>2. \A u, v \in Tabs : Busy(u) /\ Busy(v) => u = v
  BY DEF TabsInv, LockInv
<1>3. \A u, v \in Tabs : Busy(u)' /\ Busy(v)' => u = v
  BY <1>1, <1>2 DEF Busy
<1>4. ASSUME harm' = "none", NEW u \in Tabs PROVE TabFits(u)'
  <2>1. CASE u = t
    BY <1>1, <1>4, <2>1 DEF TabFits, Brings
  <2>2. CASE u # t
    <3>1. TabFits(u)
      BY <1>4 DEF TabsInv, LockInv
    <3>2. QED
      BY <1>1, <2>2, <3>1 DEF TabFits, Brings
  <2>3. QED
    BY <2>1, <2>2
<1>5. harm' = "none" /\ alive' /\ (\A u \in Tabs : ~Brings(u)') => jar' \in {0, Browser!Gone}
  BY <1>1 DEF Brings
<1>6. QED
  BY <1>3, <1>4, <1>5

LEMMA OpKept ==
  ASSUME TabsInv, NEW t \in Tabs, NEW refresh \in Op, op' = [op EXCEPT ![t] = refresh],
         UNCHANGED <<webLocks, alive, harm, jar>>,
         \/ refresh.at \in {"idle", "lock"} /\ ~Brings(t)
         \/ refresh.at = op[t].at /\ refresh.answer = op[t].answer /\ refresh.held = op[t].held
  PROVE  LockInv'
<1>1. webLocks /\ harm = "none" => TabFits(t) /\ (alive /\ (\A u \in Tabs : ~Brings(u)) => jar \in {0, Browser!Gone})
  BY DEF TabsInv, LockInv
<1>2. \A u \in Tabs : Brings(u) => u = t \/ u \in Tabs \ {t}
  OBVIOUS
<1>3. refresh.at \in {"sent", "answered", "pause"} => Busy(t)
  BY DEF Busy
<1>4. QED
  BY <1>1, <1>2, <1>3, LockMoves DEF TabFits, Brings

LEMMA EnsureFits ==
  ASSUME TabsInv, NEW t \in Tabs, NEW waits \in SUBSET {"timer", "boot"}, NEW shows \in Tab,
         Browser!EnsureSession(t, waits, shows), UNCHANGED <<webLocks, alive, jar, exit, harm>>,
         shows.shown = "session" => shows.timer # "off" \/ "timer" \in waits \cup op[t].waits
  PROVE  TabsInv'
<1>1. /\ op[t] \in Op /\ tab \in [Tabs -> Tab] /\ op \in [Tabs -> Op] /\ "none" \in Browser!Envelope
      /\ envelope \in Browser!Envelope /\ "cleared" \in {"refreshed", "cleared"}
  BY TabTypes DEF Browser!Envelope
<1>2. /\ alive \in BOOLEAN /\ jar \in 0..Browser!Gone
      /\ inbox \in [Tabs -> Seq({"refreshed", "cleared"})]
      /\ exit \in {"none", "current", "spent", "done"} /\ harm \in {"none", "lost", "aborted"}
      /\ op[t].at = "idle" => op[t].waits = {}
  BY DEF TabsInv, Browser!TypeOK
<1>3. CASE jar = Browser!Gone
  <2> DEFINE cleared == [shows EXCEPT !.mirror = "none"]
  <2>1. cleared \in Tab /\ cleared.shown = shows.shown /\ cleared.timer = shows.timer
    BY <1>1, MirrorFits
  <2>2. /\ envelope' = "none" /\ op' = op
        /\ inbox' = inbox \/ Browser!TellTo(Tabs \ {t}, "cleared")
        /\ tab' = [tab EXCEPT ![t] = IF waits = {} THEN cleared ELSE Browser!Applied(cleared, "logged_out")]
    BY <1>3 DEF Browser!EnsureSession
  <2> HIDE DEF cleared
  <2>3. PICK next \in Tab : /\ tab' = [tab EXCEPT ![t] = next]
                            /\ Renewed(next, op[t])
    <3>1. CASE waits = {}
      <4>1. Renewed(cleared, op[t])
        BY <2>1, <3>1 DEF Renewed
      <4>2. QED
        BY <2>1, <2>2, <3>1, <4>1
    <3>2. CASE waits # {}
      <4>1. PICK applied \in Tab : /\ applied = Browser!Applied(cleared, "logged_out")
                                   /\ applied.shown = "session" => applied.timer = "set"
        BY <2>1, AppliedFits
      <4>2. QED
        BY <2>2, <3>2, <4>1 DEF Renewed
    <3>3. QED
      BY <3>1, <3>2
  <2>4. inbox' \in [Tabs -> Seq({"refreshed", "cleared"})]
    BY <1>1, <1>2, <2>2, TellFits
  <2>5. PICK refresh \in Op : refresh = op[t] /\ op' = [op EXCEPT ![t] = refresh]
    BY <1>1, <2>2
  <2>6. LockInv'
    BY <2>5, OpKept
  <2>7. Renewed(next, refresh)
    BY <2>3, <2>5
  <2>8. refresh.at = "idle" => refresh.waits = {}
    BY <1>2, <2>5
  <2>9. envelope' \in Browser!Envelope
    BY <1>1, <2>2
  <2>10. QED
    BY <1>2, <2>3, <2>4, <2>5, <2>6, <2>7, <2>8, <2>9, TabMoves
<1>4. CASE jar # Browser!Gone
  <2>1. /\ op' = [op EXCEPT ![t] = IF op[t].at = "idle"
                                   THEN [Browser!NoOp EXCEPT !.at = "lock", !.waits = waits, !.call = waits = {}]
                                   ELSE [op[t] EXCEPT !.waits = @ \cup waits]]
        /\ tab' = [tab EXCEPT ![t] = shows]
        /\ UNCHANGED <<envelope, inbox>>
    BY <1>4 DEF Browser!EnsureSession
  <2>2. PICK refresh \in Op : /\ op' = [op EXCEPT ![t] = refresh] /\ refresh.at # "idle"
                              /\ refresh.waits = waits \cup op[t].waits
                              /\ \/ refresh.at = "lock" /\ ~Brings(t)
                                 \/ refresh.at = op[t].at /\ refresh.answer = op[t].answer /\ refresh.held = op[t].held
    <3>1. CASE op[t].at = "idle"
      <4> DEFINE refresh == [Browser!NoOp EXCEPT !.at = "lock", !.waits = waits, !.call = waits = {}]
      <4>1. refresh \in Op /\ refresh.at = "lock" /\ refresh.waits = waits
        BY TabTypes DEF Op
      <4>2. op' = [op EXCEPT ![t] = refresh]
        BY <1>1, <2>1, <3>1
      <4> HIDE DEF refresh
      <4>3. QED
        BY <1>2, <3>1, <4>1, <4>2 DEF Brings
    <3>2. CASE op[t].at # "idle"
      <4> DEFINE refresh == [op[t] EXCEPT !.waits = @ \cup waits]
      <4>1. /\ refresh \in Op /\ refresh.at = op[t].at /\ refresh.waits = op[t].waits \cup waits
            /\ refresh.answer = op[t].answer /\ refresh.held = op[t].held
        BY <1>1 DEF Op
      <4>2. op' = [op EXCEPT ![t] = refresh]
        BY <2>1, <3>2
      <4> HIDE DEF refresh
      <4>3. QED
        BY <3>2, <4>1, <4>2
    <3>3. QED
      BY <3>1, <3>2
  <2>3. LockInv'
    BY <2>2, OpKept
  <2>4. Renewed(shows, refresh)
    BY <2>2 DEF Renewed
  <2>5. QED
    BY <1>1, <1>2, <2>1, <2>2, <2>3, <2>4, TabMoves
<1>5. QED
  BY <1>3, <1>4

LEMMA TabAsks ==
  ASSUME TabsInv, NEW t \in Tabs,
         Browser!TimerFires(t) \/ Browser!CallRefused(t) \/ Browser!Boot(t)
  PROVE  TabsInv'
<1>1. /\ tab[t] \in Tab /\ tab \in [Tabs -> Tab] /\ op[t] \in Op /\ op \in [Tabs -> Op]
  BY TabTypes
<1>2. Renewed(tab[t], op[t])
  BY DEF TabsInv, Browser!ShownIsRenewed, Renewed
<1>3. CASE Browser!TimerFires(t)
  <2> DEFINE shows == [tab[t] EXCEPT !.timer = "off"]
  <2>1. shows \in Tab
    BY <1>1 DEF Tab
  <2>2. Browser!EnsureSession(t, {"timer"}, shows) /\ UNCHANGED <<webLocks, alive, jar, exit, harm>>
    BY <1>3 DEF Browser!TimerFires
  <2> HIDE DEF shows
  <2>3. {"timer"} \in SUBSET {"timer", "boot"} /\ "timer" \in {"timer"} \cup op[t].waits
    OBVIOUS
  <2>4. QED
    BY <2>1, <2>2, <2>3, EnsureFits
<1>4. CASE Browser!CallRefused(t)
  <2>1. Browser!EnsureSession(t, {}, tab[t]) /\ UNCHANGED <<webLocks, alive, jar, exit, harm>>
    BY <1>4 DEF Browser!CallRefused
  <2>2. {} \in SUBSET {"timer", "boot"}
    OBVIOUS
  <2>3. tab[t].shown = "session" => tab[t].timer # "off" \/ "timer" \in {} \cup op[t].waits
    BY <1>2 DEF Renewed
  <2>4. QED
    BY <1>1, <2>1, <2>2, <2>3, EnsureFits
<1>5. CASE Browser!Boot(t)
  <2> DEFINE looked == Browser!Looked(t)
  <2>1. looked \in Tab
    BY <1>1, TabTypes, MirrorFits DEF Browser!Looked
  <2>2. CASE jar # Browser!Gone /\ envelope = "fresh"
    <3>1. /\ tab' = [tab EXCEPT ![t] = Browser!Applied(looked, "authenticated")]
          /\ UNCHANGED <<envelope, op, inbox, webLocks, alive, jar, exit, harm>>
      BY <1>5, <2>2 DEF Browser!Boot
    <3> HIDE DEF looked
    <3>2. PICK applied \in Tab : /\ applied = Browser!Applied(looked, "authenticated")
                                 /\ applied.shown = "session" => applied.timer = "set"
      BY <2>1, AppliedFits
    <3>3. tab' = [tab EXCEPT ![t] = applied]
      BY <3>1, <3>2
    <3>4. PICK refresh \in Op : refresh = op[t] /\ op' = [op EXCEPT ![t] = refresh]
      BY <1>1, <3>1
    <3>5. LockInv' /\ (refresh.at = "idle" => refresh.waits = {})
      BY <3>1, <3>4, OpKept DEF TabsInv
    <3>6. Renewed(applied, refresh)
      BY <3>2 DEF Renewed
    <3>7. /\ alive' \in BOOLEAN /\ jar' \in 0..Browser!Gone
          /\ inbox' \in [Tabs -> Seq({"refreshed", "cleared"})] /\ envelope' \in Browser!Envelope
          /\ exit' \in {"none", "current", "spent", "done"} /\ harm' \in {"none", "lost", "aborted"}
      BY <3>1 DEF TabsInv, Browser!TypeOK
    <3>8. QED
      BY <3>1, <3>3, <3>4, <3>5, <3>6, <3>7, TabMoves
  <2>3. CASE ~ (jar # Browser!Gone /\ envelope = "fresh")
    <3> DEFINE shows == [looked EXCEPT !.shown = "outage"]
    <3>1. /\ Browser!EnsureSession(t, {"boot"}, shows)
          /\ UNCHANGED <<webLocks, alive, jar, exit, harm>>
      BY <1>5, <2>3 DEF Browser!Boot
    <3>2. shows \in Tab /\ shows.shown = "outage"
      BY <2>1 DEF Tab
    <3> HIDE DEF shows
    <3>3. {"boot"} \in SUBSET {"timer", "boot"}
      OBVIOUS
    <3>4. QED
      BY <3>1, <3>2, <3>3, EnsureFits
  <2>4. QED
    BY <2>2, <2>3
<1>6. QED
  BY <1>3, <1>4, <1>5

LEMMA EndFits ==
  ASSUME TabsInv, NEW t \in Tabs, NEW mirror \in Browser!Envelope, NEW result,
         Browser!Result(t, [tab[t] EXCEPT !.mirror = mirror], result),
         UNCHANGED <<webLocks, alive, exit, harm>>, jar' \in 0..Browser!Gone,
         envelope' \in Browser!Envelope, inbox' \in [Tabs -> Seq({"refreshed", "cleared"})],
         webLocks /\ harm = "none" /\ alive /\ (\A u \in Tabs \ {t} : ~Brings(u)) => jar' \in {0, Browser!Gone}
  PROVE  TabsInv'
<1>1. PICK shows \in Tab : /\ tab' = [tab EXCEPT ![t] = shows]
                           /\ op' = [op EXCEPT ![t] = Browser!NoOp]
                           /\ Renewed(shows, Browser!NoOp)
  BY ResultFits
<1>2. PICK refresh \in Op : refresh = Browser!NoOp /\ refresh.at = "idle" /\ refresh.waits = {}
  BY TabTypes
<1>3. LockInv'
  BY <1>1, <1>2, LockMoves
<1>4. /\ alive' \in BOOLEAN /\ exit' \in {"none", "current", "spent", "done"}
      /\ harm' \in {"none", "lost", "aborted"}
  BY DEF TabsInv, Browser!TypeOK
<1>5. QED
  BY <1>1, <1>2, <1>3, <1>4, TabMoves

(* As long as no answer is on its way the cookie has the newest token.     *)
LEMMA CookieFits ==
  ASSUME TabsInv, NEW t \in Tabs, ~Brings(t), webLocks, harm = "none", alive,
         \A u \in Tabs \ {t} : ~Brings(u)
  PROVE  jar \in {0, Browser!Gone}
BY DEF TabsInv, LockInv

LEMMA LogoutFits ==
  ASSUME TabsInv, NEW t \in Tabs, Browser!LoggedOut(t), UNCHANGED <<webLocks, alive, exit, harm>>,
         \/ jar' = Browser!Gone
         \/ jar' = jar /\ (webLocks /\ harm = "none" => ~Brings(t))
         \/ jar' \in 0..Browser!Gone /\ (webLocks /\ harm = "none" /\ alive => jar' = 0)
  PROVE  TabsInv'
<1>1. "none" \in Browser!Envelope /\ jar \in 0..Browser!Gone /\ Browser!Gone \in 0..Browser!Gone
  BY TabTypes DEF Browser!Envelope, Browser!Gone
<1>2. /\ envelope' = "none" /\ Browser!Result(t, [tab[t] EXCEPT !.mirror = "none"], "logged_out")
      /\ Browser!TellTo(Tabs, "cleared")
  BY DEF Browser!LoggedOut, Browser!Tell
<1>3. inbox' \in [Tabs -> Seq({"refreshed", "cleared"})]
  BY <1>2, TellFits
<1>4. webLocks /\ harm = "none" /\ alive /\ (\A u \in Tabs \ {t} : ~Brings(u)) => jar' \in {0, Browser!Gone}
  BY CookieFits
<1>5. QED
  BY <1>1, <1>2, <1>3, <1>4, EndFits

(* The refresh of one tab goes on, and those who wait for it go on         *)
(* waiting.                                                                *)
LEMMA OpMoves ==
  ASSUME TabsInv, NEW t \in Tabs, NEW refresh \in Op, op' = [op EXCEPT ![t] = refresh],
         refresh.waits = op[t].waits, refresh.at # "idle",
         tab' = tab \/ tab' = [tab EXCEPT ![t] = Browser!Looked(t)],
         UNCHANGED <<webLocks, envelope, inbox>>, alive' \in BOOLEAN, jar' \in 0..Browser!Gone,
         exit' \in {"none", "current", "spent", "done"}, harm' \in {"none", "lost", "aborted"},
         LockInv'
  PROVE  TabsInv'
<1>1. tab \in [Tabs -> Tab] /\ envelope \in Browser!Envelope /\ Browser!Read(t) \in Browser!Envelope
  BY TabTypes
<1>2. PICK shows \in Tab : /\ tab' = [tab EXCEPT ![t] = shows]
                           /\ shows.shown = tab[t].shown /\ shows.timer = tab[t].timer
  <2>1. CASE tab' = tab
    BY <1>1, <2>1
  <2>2. CASE tab' = [tab EXCEPT ![t] = Browser!Looked(t)]
    BY <1>1, <2>2, MirrorFits DEF Browser!Looked
  <2>3. QED
    BY <2>1, <2>2
<1>3. Renewed(shows, refresh)
  BY <1>2 DEF TabsInv, Browser!ShownIsRenewed, Renewed
<1>4. inbox' \in [Tabs -> Seq({"refreshed", "cleared"})]
  BY DEF TabsInv, Browser!TypeOK
<1>5. QED
  BY <1>1, <1>2, <1>3, <1>4, TabMoves

LEMMA PostFits ==
  ASSUME TabsInv, NEW t \in Tabs, Browser!Post(t), UNCHANGED <<webLocks, alive, jar, exit, harm>>,
         webLocks => Busy(t) \/ \A u \in Tabs : ~Busy(u), ~Brings(t)
  PROVE  TabsInv'
<1>1. CASE jar = Browser!Gone
  BY <1>1, LogoutFits DEF Browser!Post
<1>2. CASE jar # Browser!Gone
  <2>1. op[t] \in Op /\ jar \in 0..Browser!Gone
    BY TabTypes
  <2>2. PICK refresh \in Op : /\ op' = [op EXCEPT ![t] = refresh] /\ refresh.at = "sent"
                              /\ refresh.held = jar /\ refresh.waits = op[t].waits
    <3> DEFINE refresh == [op[t] EXCEPT !.at = "sent", !.held = jar]
    <3>1. refresh \in Op /\ refresh.at = "sent" /\ refresh.held = jar /\ refresh.waits = op[t].waits
      BY <2>1 DEF Op
    <3>2. op' = [op EXCEPT ![t] = refresh]
      BY <1>2 DEF Browser!Post
    <3> HIDE DEF refresh
    <3>3. QED
      BY <3>1, <3>2
  <2>3. \A u \in Tabs : webLocks /\ u # t => ~Brings(u)
    BY DEF TabsInv, LockInv, Busy, Brings
  <2>4. webLocks /\ harm = "none" /\ alive => jar = 0
    BY <1>2, <2>3, CookieFits
  <2>5. LockInv'
    BY <2>2, <2>4, LockMoves
  <2>6. /\ tab' = [tab EXCEPT ![t] = Browser!Looked(t)] /\ UNCHANGED <<envelope, inbox>>
    BY <1>2 DEF Browser!Post
  <2>7. /\ alive' \in BOOLEAN /\ exit' \in {"none", "current", "spent", "done"}
        /\ harm' \in {"none", "lost", "aborted"}
    BY DEF TabsInv, Browser!TypeOK
  <2>8. QED
    BY <2>1, <2>2, <2>5, <2>6, <2>7, OpMoves
<1>3. QED
  BY <1>1, <1>2

LEMMA TabPosts ==
  ASSUME TabsInv, NEW t \in Tabs, Browser!Enter(t) \/ Browser!TryAgain(t)
  PROVE  TabsInv'
<1>1. UNCHANGED <<webLocks, alive, jar, exit, harm>> /\ ~Brings(t)
  BY DEF Browser!Enter, Browser!TryAgain, Brings
<1>2. CASE Browser!TryAgain(t)
  <2>1. Busy(t) /\ Browser!Post(t)
    BY <1>2 DEF Browser!TryAgain, Busy
  <2>2. QED
    BY <1>1, <2>1, PostFits
<1>3. CASE Browser!Enter(t)
  <2>1. webLocks => \A u \in Tabs : ~Busy(u)
    BY <1>3 DEF Browser!Enter, Browser!MayEnter, Busy
  <2>2. CASE Browser!Post(t)
    BY <1>1, <2>1, <2>2, PostFits
  <2>3. CASE Browser!Result(t, Browser!Looked(t), "authenticated") /\ UNCHANGED <<envelope, inbox>>
    <3>1. /\ envelope' \in Browser!Envelope /\ inbox' \in [Tabs -> Seq({"refreshed", "cleared"})]
          /\ jar' \in 0..Browser!Gone
      BY <1>1, <2>3 DEF TabsInv, Browser!TypeOK
    <3>2. webLocks /\ harm = "none" /\ alive /\ (\A u \in Tabs \ {t} : ~Brings(u)) => jar' \in {0, Browser!Gone}
      BY <1>1, CookieFits
    <3>3. Browser!Result(t, [tab[t] EXCEPT !.mirror = Browser!Read(t)], "authenticated")
      BY <2>3 DEF Browser!Looked
    <3>4. QED
      BY <1>1, <3>1, <3>2, <3>3, TabTypes, EndFits
  <2>4. QED
    BY <1>3, <2>2, <2>3 DEF Browser!Enter
<1>4. QED
  BY <1>2, <1>3

LEMMA AgedFits == \A age \in 0..Browser!Gone : Browser!Aged(age) \in 0..Browser!Gone
BY DEF Browser!Aged, Browser!Older, Browser!Gone

LEMMA AnsweredFits ==
  ASSUME TabsInv, NEW t \in Tabs, NEW answer \in {"race", "invalid", "outage", "denied", "ok", "corrupt"}
  PROVE  \E refresh \in Op : /\ refresh = Browser!Answered(t, answer)
                             /\ refresh.at = "answered" /\ refresh.answer = answer
                             /\ refresh.held = IF answer \in Browser!Bring THEN 0 ELSE Browser!Gone
                             /\ refresh.waits = op[t].waits
<1> DEFINE held == IF answer \in Browser!Bring THEN 0 ELSE Browser!Gone
<1>1. op[t] \in Op /\ held \in 0..Browser!Gone
  BY TabTypes DEF Browser!Gone
<1> DEFINE refresh == [op[t] EXCEPT !.at = "answered", !.answer = answer, !.held = held]
<1>2. refresh = Browser!Answered(t, answer)
  BY DEF Browser!Answered
<1> HIDE DEF held
<1>3. /\ refresh \in Op /\ refresh.at = "answered" /\ refresh.answer = answer
      /\ refresh.held = held /\ refresh.waits = op[t].waits
  BY <1>1 DEF Op
<1> HIDE DEF refresh
<1>4. QED
  BY <1>2, <1>3 DEF held

(* The token that the server exchanges is the newest one.                  *)
LEMMA TabServed ==
  ASSUME TabsInv, NEW t \in Tabs, Browser!Serve(t)
  PROVE  TabsInv'
<1>1. /\ op[t].at = "sent" /\ UNCHANGED <<webLocks, envelope, tab, inbox, harm>> /\ ~Brings(t) /\ Busy(t)
  BY DEF Browser!Serve, Brings, Busy
<1>2. /\ alive \in BOOLEAN /\ jar \in 0..Browser!Gone /\ exit \in {"none", "current", "spent", "done"}
      /\ harm \in {"none", "lost", "aborted"} /\ op \in [Tabs -> Op] /\ tab \in [Tabs -> Tab]
      /\ envelope \in Browser!Envelope /\ inbox \in [Tabs -> Seq({"refreshed", "cleared"})]
  BY TabTypes DEF TabsInv, Browser!TypeOK
<1>3. webLocks /\ harm = "none" /\ alive => op[t].held = 0
  BY <1>1 DEF TabsInv, LockInv, TabFits
<1>4. webLocks /\ harm = "none" /\ alive => jar \in {0, Browser!Gone}
  <2>1. \A u \in Tabs : webLocks => ~Brings(u)
    BY <1>1 DEF TabsInv, LockInv, Busy, Brings
  <2>2. QED
    BY <1>1, <2>1, CookieFits
<1>5. ASSUME NEW answer \in Browser!Bring, alive, op[t].held = 0,
             op' = [u \in Tabs |-> IF u = t THEN Browser!Answered(t, answer)
                                   ELSE [op[u] EXCEPT !.held = Browser!Aged(@)]],
             jar' = Browser!Aged(jar), exit' = IF exit = "current" THEN "spent" ELSE exit,
             UNCHANGED alive
      PROVE  TabsInv'
  <2>1. PICK refresh \in Op : /\ refresh = Browser!Answered(t, answer) /\ refresh.at = "answered"
                              /\ refresh.answer = answer /\ refresh.held = 0
                              /\ refresh.waits = op[t].waits
    <3>1. answer \in {"race", "invalid", "outage", "denied", "ok", "corrupt"}
      BY <1>5 DEF Browser!Bring
    <3>2. QED
      BY <1>5, <3>1, AnsweredFits
  <2>2. ASSUME NEW u \in Tabs
        PROVE  /\ op'[u] \in Op /\ op'[u].waits = op[u].waits
               /\ u # t => op'[u].at = op[u].at
               /\ u = t => op'[u] = refresh
    <3>1. CASE u = t
      BY <1>5, <2>1, <3>1
    <3>2. CASE u # t
      <4>1. op[u] \in Op /\ Browser!Aged(op[u].held) \in 0..Browser!Gone
        BY <1>2, AgedFits DEF Op
      <4>2. op'[u] = [op[u] EXCEPT !.held = Browser!Aged(op[u].held)]
        BY <1>5, <3>2
      <4>3. QED
        BY <3>2, <4>1, <4>2 DEF Op
    <3>3. QED
      BY <3>1, <3>2
  <2>3. op' \in [Tabs -> Op]
    BY <1>5, <2>2
  <2>4. LockInv'
    <3> SUFFICES ASSUME webLocks
                 PROVE  /\ \A u, v \in Tabs : Busy(u)' /\ Busy(v)' => u = v
                        /\ harm' = "none" =>
                             /\ \A u \in Tabs : TabFits(u)'
                             /\ alive' /\ (\A u \in Tabs : ~Brings(u)') => jar' \in {0, Browser!Gone}
      BY <1>1 DEF LockInv, Browser!Gone
    <3>1. \A u \in Tabs : Busy(u) => u = t
      BY <1>1 DEF TabsInv, LockInv
    <3>2. \A u \in Tabs : Busy(u)' => u = t
      BY <2>2, <3>1 DEF Busy
    <3>3. \A u \in Tabs : TabFits(u)'
      BY <1>5, <2>1, <2>2, <3>2 DEF TabFits, Brings, Busy, Browser!Bring
    <3>4. Brings(t)'
      BY <1>5, <2>1, <2>2 DEF Brings, Browser!Bring
    <3>5. QED
      BY <3>2, <3>3, <3>4
  <2>5. jar' \in 0..Browser!Gone /\ exit' \in {"none", "current", "spent", "done"}
    BY <1>2, <1>5, AgedFits
  <2>6. Browser!TypeOK'
    <3>1. webLocks' \in WebLocks /\ alive' \in BOOLEAN
      BY <1>1, <1>2, <1>5 DEF TabsInv, Browser!TypeOK
    <3>2. tab' \in [Tabs -> Tab] /\ envelope' \in Browser!Envelope
      BY <1>1, <1>2
    <3>3. inbox' \in [Tabs -> Seq({"refreshed", "cleared"})] /\ harm' \in {"none", "lost", "aborted"}
      BY <1>1, <1>2
    <3>4. QED
      BY <2>3, <2>5, <3>1, <3>2, <3>3 DEF Browser!TypeOK, Browser!Bring, Tab, Op, Browser!Envelope
  <2>7. Browser!ShownIsRenewed'
    BY <1>1, <2>2 DEF TabsInv, Browser!ShownIsRenewed
  <2>8. \A u \in Tabs : op'[u].at = "idle" => op'[u].waits = {}
    BY <2>1, <2>2 DEF TabsInv
  <2>9. QED
    BY <2>4, <2>6, <2>7, <2>8 DEF TabsInv
<1>6. CASE /\ alive /\ op[t].held = 1 /\ op' = [op EXCEPT ![t] = Browser!Answered(t, "race")]
           /\ UNCHANGED <<alive, jar, exit>>
  <2>1. PICK refresh \in Op : /\ refresh = Browser!Answered(t, "race") /\ refresh.at = "answered"
                              /\ refresh.answer = "race" /\ refresh.waits = op[t].waits
    BY AnsweredFits
  <2>2. ~ (webLocks /\ harm = "none")
    BY <1>3, <1>6
  <2>3. LockInv'
    BY <1>1, <1>6, <2>1, <2>2, LockMoves
  <2>4. QED
    BY <1>1, <1>2, <1>6, <2>1, <2>3, OpMoves
<1>7. CASE /\ alive' = FALSE /\ op' = [op EXCEPT ![t] = Browser!Answered(t, "invalid")]
           /\ UNCHANGED <<jar, exit>>
  <2>1. PICK refresh \in Op : /\ refresh = Browser!Answered(t, "invalid") /\ refresh.at = "answered"
                              /\ refresh.answer = "invalid" /\ refresh.waits = op[t].waits
    BY AnsweredFits
  <2>2. LockInv'
    BY <1>1, <1>7, <2>1, LockMoves
  <2>3. QED
    BY <1>1, <1>2, <1>7, <2>1, <2>2, OpMoves
<1>8. QED
  BY <1>5, <1>6, <1>7 DEF Browser!Serve

(* An answer is an outage, or is lost, or the refresh goes away.           *)
LEMMA TabFails ==
  ASSUME TabsInv, NEW t \in Tabs, Browser!Refuse(t) \/ Browser!Lose(t) \/ Browser!Abort(t)
  PROVE  TabsInv'
<1>1. UNCHANGED <<webLocks, alive, jar, envelope, inbox, exit>> /\ Busy(t)
  BY DEF Browser!Refuse, Browser!Lose, Browser!Abort, Busy
<1>2. /\ alive \in BOOLEAN /\ jar \in 0..Browser!Gone /\ exit \in {"none", "current", "spent", "done"}
      /\ harm \in {"none", "lost", "aborted"} /\ op \in [Tabs -> Op] /\ tab \in [Tabs -> Tab]
      /\ envelope \in Browser!Envelope /\ inbox \in [Tabs -> Seq({"refreshed", "cleared"})]
  BY TabTypes DEF TabsInv, Browser!TypeOK
<1>3. ASSUME NEW answer \in {"outage", "denied"}
      PROVE  \E refresh \in Op : /\ refresh = Browser!Answered(t, answer) /\ refresh.at = "answered"
                                 /\ refresh.answer \notin Browser!Bring \cup {"race", "invalid"}
                                 /\ refresh.waits = op[t].waits
  BY <1>3, AnsweredFits DEF Browser!Bring
<1>4. CASE Browser!Refuse(t)
  <2>1. PICK answer \in {"outage", "denied"} : op' = [op EXCEPT ![t] = Browser!Answered(t, answer)]
    BY <1>4 DEF Browser!Refuse
  <2>2. PICK refresh \in Op : /\ refresh = Browser!Answered(t, answer) /\ refresh.at = "answered"
                              /\ refresh.answer \notin Browser!Bring \cup {"race", "invalid"}
                              /\ refresh.waits = op[t].waits
    BY <1>3
  <2>3. op' = [op EXCEPT ![t] = refresh] /\ UNCHANGED <<harm, tab>> /\ ~Brings(t)
    BY <1>4, <2>1, <2>2 DEF Browser!Refuse, Brings
  <2>4. LockInv'
    BY <1>1, <2>2, <2>3, LockMoves, CookieFits
  <2>5. QED
    BY <1>1, <1>2, <2>2, <2>3, <2>4, OpMoves
<1>5. CASE Browser!Lose(t)
  <2>1. PICK refresh \in Op : /\ refresh = Browser!Answered(t, "outage") /\ refresh.at = "answered"
                              /\ refresh.answer \notin Browser!Bring \cup {"race", "invalid"}
                              /\ refresh.waits = op[t].waits
    BY <1>3
  <2>2. op' = [op EXCEPT ![t] = refresh] /\ harm' = "lost" /\ harm = "none" /\ UNCHANGED tab
    BY <1>5, <2>1 DEF Browser!Lose, Browser!Calm
  <2>3. LockInv'
    BY <1>1, <2>1, <2>2, LockMoves
  <2>4. QED
    BY <1>1, <1>2, <2>1, <2>2, <2>3, OpMoves
<1>6. CASE Browser!Abort(t)
  <2>1. /\ op' = [op EXCEPT ![t] = Browser!NoOp] /\ harm' = "aborted"
        /\ tab' = [tab EXCEPT ![t].timer = IF @ = "off" /\ "timer" \in op[t].waits THEN "lost" ELSE @]
    BY <1>6 DEF Browser!Abort
  <2>2. PICK ended \in Op : ended = Browser!NoOp /\ ended.at = "idle" /\ ended.waits = {}
    BY TabTypes
  <2>3. PICK shows \in Tab : tab' = [tab EXCEPT ![t] = shows] /\ Renewed(shows, ended)
    <3> DEFINE timer == IF tab[t].timer = "off" /\ "timer" \in op[t].waits THEN "lost" ELSE tab[t].timer
               shows == [tab[t] EXCEPT !.timer = timer]
    <3>1. tab[t] \in Tab /\ (tab[t].shown = "session" => tab[t].timer # "off" \/ "timer" \in op[t].waits)
      BY <1>2 DEF TabsInv, Browser!ShownIsRenewed
    <3>2. shows \in Tab /\ shows.shown = tab[t].shown /\ shows.timer = timer
      BY <3>1 DEF Tab
    <3>3. tab' = [tab EXCEPT ![t] = shows]
      BY <1>2, <2>1
    <3> HIDE DEF shows
    <3>4. QED
      BY <3>1, <3>2, <3>3 DEF Renewed
  <2>4. LockInv'
    BY <1>1, <2>1, <2>2, LockMoves DEF Browser!Bring
  <2>5. QED
    BY <1>1, <1>2, <2>1, <2>2, <2>3, <2>4, TabMoves
<1>7. QED
  BY <1>4, <1>5, <1>6

LEMMA TabReceives ==
  ASSUME TabsInv, NEW t \in Tabs, Browser!Receive(t)
  PROVE  TabsInv'
<1>1. /\ op[t].at = "answered" /\ UNCHANGED <<webLocks, alive, exit, harm>> /\ Busy(t)
      /\ jar' = CASE op[t].answer \in Browser!Bring -> op[t].held
                  [] op[t].answer = "invalid" -> Browser!Gone
                  [] OTHER -> jar
  BY DEF Browser!Receive, Busy
<1>2. /\ alive \in BOOLEAN /\ jar \in 0..Browser!Gone /\ exit \in {"none", "current", "spent", "done"}
      /\ harm \in {"none", "lost", "aborted"} /\ op[t] \in Op /\ op \in [Tabs -> Op] /\ tab \in [Tabs -> Tab]
      /\ envelope \in Browser!Envelope /\ inbox \in [Tabs -> Seq({"refreshed", "cleared"})]
  BY TabTypes DEF TabsInv, Browser!TypeOK
<1>3. op[t].held \in 0..Browser!Gone /\ Browser!Gone \in 0..Browser!Gone
  BY <1>2 DEF Op, Browser!Gone
<1>4. webLocks /\ harm = "none" => TabFits(t)
  BY DEF TabsInv, LockInv
<1>5. CASE op[t].answer = "ok"
  <2>1. /\ envelope' = "fresh" /\ jar' = op[t].held
        /\ Browser!Result(t, [tab[t] EXCEPT !.mirror = "fresh"], "authenticated")
        /\ Browser!TellTo(Tabs, "refreshed")
    BY <1>1, <1>5 DEF Browser!Receive, Browser!Tell, Browser!Bring
  <2>2. inbox' \in [Tabs -> Seq({"refreshed", "cleared"})] /\ "fresh" \in Browser!Envelope
    BY <2>1, TellFits DEF Browser!Envelope
  <2>3. webLocks /\ harm = "none" /\ alive => jar' = 0
    BY <1>1, <1>4, <1>5, <2>1 DEF TabFits, Brings, Browser!Bring
  <2>4. QED
    BY <1>1, <1>3, <2>1, <2>2, <2>3, EndFits
<1>6. CASE op[t].answer = "corrupt"
  <2>1. Browser!LoggedOut(t) /\ jar' = op[t].held
    BY <1>1, <1>6 DEF Browser!Receive, Browser!Bring
  <2>2. webLocks /\ harm = "none" /\ alive => jar' = 0
    BY <1>1, <1>4, <1>6, <2>1 DEF TabFits, Brings, Browser!Bring
  <2>3. QED
    BY <1>1, <1>3, <2>1, <2>2, LogoutFits
<1>7. CASE op[t].answer \notin Browser!Bring
  <2> ~Brings(t)
    BY <1>7 DEF Brings
  <2>1. webLocks /\ harm = "none" /\ alive /\ (\A u \in Tabs \ {t} : ~Brings(u)) => jar \in {0, Browser!Gone}
    BY CookieFits
  <2>2. CASE Browser!LoggedOut(t)
    <3>1. jar' = Browser!Gone \/ jar' = jar
      BY <1>1, <1>7
    <3>2. QED
      BY <1>1, <2>2, <3>1, LogoutFits
  <2>3. ASSUME op[t].answer # "invalid", UNCHANGED <<envelope, inbox>>, NEW result,
               Browser!Result(t, Browser!Looked(t), result)
        PROVE  TabsInv'
    <3>1. jar' = jar
      BY <1>1, <1>7, <2>3
    <3>2. Browser!Result(t, [tab[t] EXCEPT !.mirror = Browser!Read(t)], result)
      BY <2>3 DEF Browser!Looked
    <3>3. QED
      BY <1>1, <1>2, <2>1, <2>3, <3>1, <3>2, TabTypes, EndFits
  <2>4. ASSUME NEW mode \in {"again", "race"}, op[t].answer # "invalid", UNCHANGED <<envelope, inbox>>,
               op' = [op EXCEPT ![t] = [op[t] EXCEPT !.at = "pause", !.mode = mode, !.answer = "none"]],
               tab' = [tab EXCEPT ![t] = Browser!Looked(t)]
        PROVE  TabsInv'
    <3> DEFINE pausing == [op[t] EXCEPT !.at = "pause", !.mode = mode, !.answer = "none"]
    <3>1. pausing \in Op /\ pausing.at = "pause" /\ pausing.waits = op[t].waits
      BY <1>2 DEF Op
    <3>2. op' = [op EXCEPT ![t] = pausing]
      BY <2>4
    <3> HIDE DEF pausing
    <3>3. jar' = jar
      BY <1>1, <1>7, <2>4
    <3>4. LockInv'
      BY <1>1, <2>1, <3>1, <3>2, <3>3, LockMoves
    <3>5. QED
      BY <1>1, <1>2, <2>4, <3>1, <3>2, <3>3, <3>4, OpMoves
  <2>5. CASE op[t].answer = "race" /\ Browser!Race(t) /\ UNCHANGED <<envelope, inbox>>
    <3>1. op[t].answer # "invalid"
      BY <2>5
    <3>2. CASE Browser!Read(t) = "fresh"
      BY <2>3, <2>5, <3>1, <3>2 DEF Browser!Race
    <3>3. CASE Browser!Read(t) # "fresh"
      BY <2>4, <2>5, <3>1, <3>3 DEF Browser!Race
    <3>4. QED
      BY <3>2, <3>3
  <2>6. CASE op[t].answer = "outage" /\ Browser!Outage(t) /\ UNCHANGED <<envelope, inbox>>
    <3>1. op[t].answer # "invalid"
      BY <2>6
    <3>2. CASE op[t].mode = "first"
      BY <2>4, <2>6, <3>1, <3>2 DEF Browser!Outage
    <3>3. CASE op[t].mode # "first"
      BY <2>3, <2>6, <3>1, <3>3 DEF Browser!Outage
    <3>4. QED
      BY <3>2, <3>3
  <2>7. QED
    BY <1>7, <2>2, <2>5, <2>6 DEF Browser!Receive, Browser!Bring
<1>8. QED
  BY <1>5, <1>6, <1>7 DEF Browser!Bring

(* The steps that no refresh is moved by.                                  *)
LEMMA TabsRest ==
  ASSUME TabsInv, UNCHANGED <<op, webLocks, harm>>, alive' \in BOOLEAN, alive' => alive,
         jar' \in {jar, Browser!Gone}, envelope' \in Browser!Envelope,
         inbox' \in [Tabs -> Seq({"refreshed", "cleared"})],
         exit' \in {"none", "current", "spent", "done"}, tab' \in [Tabs -> Tab],
         \A t \in Tabs : Renewed(tab[t], op[t]) => Renewed(tab'[t], op[t])
  PROVE  TabsInv'
<1>1. jar' \in 0..Browser!Gone
  BY DEF TabsInv, Browser!TypeOK, Browser!Gone
<1>2. Browser!TypeOK'
  BY <1>1 DEF TabsInv, Browser!TypeOK, Tab, Browser!Envelope
<1>3. Browser!ShownIsRenewed'
  BY DEF TabsInv, Browser!ShownIsRenewed, Renewed
<1>4. LockInv'
  BY DEF TabsInv, LockInv, TabFits, Brings, Busy, Browser!Gone
<1>5. QED
  BY <1>2, <1>3, <1>4 DEF TabsInv

LEMMA TabsRestSteps ==
  ASSUME TabsInv,
         \/ \E t \in Tabs : Browser!CallRefusedAgain(t) \/ Browser!Hear(t) \/ Browser!Logout(t)
         \/ Browser!ServeLogout \/ Browser!RevokeElsewhere \/ Browser!EnvelopeAges
         \/ UNCHANGED tabVars
  PROVE  TabsInv'
<1>1. /\ alive \in BOOLEAN /\ exit \in {"none", "current", "spent", "done"} /\ tab \in [Tabs -> Tab]
      /\ envelope \in Browser!Envelope /\ inbox \in [Tabs -> Seq({"refreshed", "cleared"})]
      /\ {"none", "fresh", "stale"} \subseteq Browser!Envelope
  BY TabTypes DEF TabsInv, Browser!TypeOK, Browser!Envelope
<1>2. ASSUME NEW t \in Tabs, NEW shows \in Tab, tab' = [tab EXCEPT ![t] = shows],
             Renewed(tab[t], op[t]) => Renewed(shows, op[t])
      PROVE  /\ tab' \in [Tabs -> Tab]
             /\ \A u \in Tabs : Renewed(tab[u], op[u]) => Renewed(tab'[u], op[u])
  BY <1>1, <1>2
<1>3. ASSUME NEW t \in Tabs, Browser!CallRefusedAgain(t) PROVE TabsInv'
  <2>1. /\ UNCHANGED <<webLocks, alive, jar, op, exit, harm>> /\ envelope' = "none"
        /\ tab' = [tab EXCEPT ![t].mirror = "none"] /\ Browser!TellTo(Tabs, "cleared")
    BY <1>3 DEF Browser!CallRefusedAgain, Browser!Tell
  <2>2. PICK shows \in Tab : /\ tab' = [tab EXCEPT ![t] = shows]
                             /\ shows.shown = tab[t].shown /\ shows.timer = tab[t].timer
    BY <1>1, <2>1, MirrorFits
  <2>3. Renewed(tab[t], op[t]) => Renewed(shows, op[t])
    BY <2>2 DEF Renewed
  <2>4. inbox' \in [Tabs -> Seq({"refreshed", "cleared"})]
    BY <2>1, TellFits
  <2>5. QED
    BY <1>1, <1>2, <2>1, <2>2, <2>3, <2>4, TabsRest
<1>4. ASSUME NEW t \in Tabs, Browser!Hear(t) PROVE TabsInv'
  <2>1. /\ inbox[t] # <<>> /\ inbox' = [inbox EXCEPT ![t] = Tail(@)]
        /\ UNCHANGED <<webLocks, alive, jar, envelope, op, exit, harm>>
    BY <1>4 DEF Browser!Hear
  <2>2. inbox' \in [Tabs -> Seq({"refreshed", "cleared"})]
    <3>1. Tail(inbox[t]) \in Seq({"refreshed", "cleared"})
      BY <1>1, <2>1
    <3>2. QED
      BY <1>1, <2>1, <3>1
  <2>3. PICK shows \in Tab : /\ tab' = [tab EXCEPT ![t] = shows]
                             /\ shows.shown = "session" => shows.timer = "set"
    <3>1. tab[t] \in Tab
      BY <1>1
    <3>2. CASE Head(inbox[t]) = "cleared"
      <4> DEFINE shows == [tab[t] EXCEPT !.shown = "nobody", !.timer = "off"]
      <4>1. shows \in Tab /\ shows.shown = "nobody"
        BY <3>1 DEF Tab
      <4>2. tab' = [tab EXCEPT ![t] = shows]
        BY <1>4, <3>2 DEF Browser!Hear
      <4> HIDE DEF shows
      <4>3. QED
        BY <4>1, <4>2
    <3>3. CASE Head(inbox[t]) # "cleared" /\ Browser!Read(t) = "none"
      <4> DEFINE shows == [tab[t] EXCEPT !.shown = "nobody"]
      <4>1. shows \in Tab /\ shows.shown = "nobody"
        BY <3>1 DEF Tab
      <4>2. tab' = [tab EXCEPT ![t] = shows]
        BY <1>4, <3>3 DEF Browser!Hear
      <4> HIDE DEF shows
      <4>3. QED
        BY <4>1, <4>2
    <3>4. CASE Head(inbox[t]) # "cleared" /\ Browser!Read(t) # "none"
      <4>1. Browser!Looked(t) \in Tab
        BY <3>1, TabTypes, MirrorFits DEF Browser!Looked
      <4>2. PICK applied \in Tab : /\ applied = Browser!Applied(Browser!Looked(t), "authenticated")
                                   /\ applied.shown = "session" => applied.timer = "set"
        BY <4>1, AppliedFits
      <4>3. tab' = [tab EXCEPT ![t] = Browser!Applied(Browser!Looked(t), "authenticated")]
        BY <1>4, <3>4 DEF Browser!Hear
      <4>4. QED
        BY <4>2, <4>3
    <3>5. QED
      BY <3>2, <3>3, <3>4
  <2>4. Renewed(shows, op[t])
    BY <2>3 DEF Renewed
  <2>5. QED
    BY <1>1, <1>2, <2>1, <2>2, <2>3, <2>4, TabsRest
<1>5. ASSUME NEW t \in Tabs, Browser!Logout(t) PROVE TabsInv'
  <2>1. /\ UNCHANGED <<webLocks, alive, jar, op, harm>> /\ envelope' = "none"
        /\ exit' \in {"current", "spent"} /\ Browser!TellTo(Tabs, "cleared")
        /\ tab' = [tab EXCEPT ![t] = [shown |-> "nobody", timer |-> "off", mirror |-> "none"]]
    BY <1>5 DEF Browser!Logout, Browser!Tell
  <2>2. PICK shows \in Tab : /\ tab' = [tab EXCEPT ![t] = shows] /\ shows.shown = "nobody"
    <3> DEFINE shows == [shown |-> "nobody", timer |-> "off", mirror |-> "none"]
    <3>1. shows \in Tab /\ shows.shown = "nobody"
      BY DEF Tab, Browser!Envelope
    <3>2. tab' = [tab EXCEPT ![t] = shows]
      BY <2>1
    <3> HIDE DEF shows
    <3>3. QED
      BY <3>1, <3>2
  <2>3. Renewed(shows, op[t])
    BY <2>2 DEF Renewed
  <2>4. inbox' \in [Tabs -> Seq({"refreshed", "cleared"})]
    BY <2>1, TellFits
  <2>5. QED
    BY <1>1, <1>2, <2>1, <2>2, <2>3, <2>4, TabsRest
<1>6. CASE Browser!ServeLogout
  BY <1>1, <1>6, TabsRest DEF Browser!ServeLogout
<1>7. CASE Browser!RevokeElsewhere
  BY <1>1, <1>7, TabsRest DEF Browser!RevokeElsewhere
<1>8. CASE Browser!EnvelopeAges
  <2>1. \A m \in Browser!Envelope : Browser!Worn(m) \in Browser!Envelope
    BY DEF Browser!Worn, Browser!Envelope
  <2>2. ASSUME NEW u \in Tabs
        PROVE  /\ tab'[u] \in Tab /\ tab'[u].shown = tab[u].shown /\ tab'[u].timer = tab[u].timer
    <3>1. tab[u] \in Tab /\ Browser!Worn(tab[u].mirror) \in Browser!Envelope
      BY <1>1, <2>1 DEF Tab
    <3>2. tab'[u] = [tab[u] EXCEPT !.mirror = Browser!Worn(tab[u].mirror)]
      BY <1>8 DEF Browser!EnvelopeAges
    <3>3. QED
      BY <3>1, <3>2, MirrorFits
  <2>3. tab' \in [Tabs -> Tab]
    BY <1>8, <2>2 DEF Browser!EnvelopeAges
  <2>4. \A u \in Tabs : Renewed(tab[u], op[u]) => Renewed(tab'[u], op[u])
    BY <2>2 DEF Renewed
  <2>5. envelope' \in Browser!Envelope /\ UNCHANGED <<webLocks, alive, jar, op, inbox, exit, harm>>
    BY <1>1, <1>8, <2>1 DEF Browser!EnvelopeAges
  <2>6. QED
    BY <1>1, <2>3, <2>4, <2>5, TabsRest
<1>9. CASE UNCHANGED tabVars
  BY <1>1, <1>9, TabsRest DEF tabVars
<1>10. QED
  BY <1>3, <1>4, <1>5, <1>6, <1>7, <1>8, <1>9

LEMMA TabsStep == TabsInv /\ (Browser!Next \/ UNCHANGED tabVars) => TabsInv'
BY TabAsks, TabPosts, TabServed, TabFails, TabReceives, TabsRestSteps DEF Browser!Next

LEMMA TabsInit == Browser!Init => TabsInv
<1> SUFFICES ASSUME Browser!Init PROVE TabsInv
  OBVIOUS
<1>1. /\ webLocks \in WebLocks /\ alive = TRUE /\ jar = 0 /\ envelope = "stale"
      /\ tab = [t \in Tabs |-> Browser!Closed] /\ op = [t \in Tabs |-> Browser!NoOp]
      /\ inbox = [t \in Tabs |-> <<>>] /\ exit = "none" /\ harm = "none"
  BY DEF Browser!Init
<1>2. Browser!TypeOK
  BY <1>1 DEF Browser!TypeOK, Browser!Envelope, Browser!Closed, Browser!NoOp, Browser!Gone
<1>3. Browser!ShownIsRenewed /\ \A t \in Tabs : op[t].at = "idle" => op[t].waits = {}
  BY <1>1 DEF Browser!ShownIsRenewed, Browser!Closed, Browser!NoOp
<1>4. LockInv
  BY <1>1 DEF LockInv, TabFits, Brings, Busy, Browser!NoOp
<1>5. QED
  BY <1>2, <1>3, <1>4 DEF TabsInv

LEMMA TabsAreKept == TabsInv => Browser!TabsKeepSession
BY DEF TabsInv, LockInv, TabFits, Browser!TabsKeepSession, Browser!TabsDoNotRace

-----------------------------------------------------------------------------
(* PhoneSignup, for any browsers F, requests S, keys K and tries A.  The   *)
(* proof that a flow has is a code of its own that was texted; a signup    *)
(* holds the flow's lock from the check of the proof on.                   *)
PhoneFlow == [status : {"ABSENT", "ADDRESS_COLLECTED", "OTP_SENT", "PHONE_VERIFIED", "COMPLETED"},
              proof : 0..MaxCodes, consumed : BOOLEAN]

PhoneSend(F, K) == [at : {"idle", "key", "latest", "create", "text", "sent", "failed"},
                    flow : F \cup {noKey}, key : K \cup {noKey}, code : Nat]

SendFits(F, send) ==
  /\ send.at # "idle" => send.flow \in F
  /\ send.at \in {"text", "sent", "failed"} => send.code \in DOMAIN codes

CodeFits(A, code) ==
  /\ code.status = "PENDING" => code.attempts < A
  /\ code.status = "BLOCKED" => code.attempts <= A

FlowFits(f) ==
  /\ flows[f].proof # 0 => flows[f].proof \in phone /\ codes[flows[f].proof].flow = f
  /\ f \in signing \cup accounts => flows[f].proof # 0
  /\ flows[f].consumed <=> f \in accounts

PhoneInv(F, S, K, A) ==
  /\ codes \in Seq(Phone(F, S, K, A)!Code) /\ Len(codes) <= MaxCodes
  /\ phone \subseteq DOMAIN codes
  /\ flows \in [F -> PhoneFlow] /\ cookie \in [F -> 0..MaxCodes]
  /\ starting \subseteq F /\ signing \subseteq F
  /\ accounts = {} \/ \E f \in F : accounts = {f}
  /\ sends \in [S -> PhoneSend(F, K)]
  /\ \A s \in S : SendFits(F, sends[s])
  /\ \A i \in DOMAIN codes : CodeFits(A, codes[i])
  /\ \A f \in F : FlowFits(f)
  /\ \A i, j \in DOMAIN codes :
       codes[i].key # noKey /\ codes[i].flow = codes[j].flow /\ codes[i].key = codes[j].key => i = j

LEMMA PhoneCounts ==
  ASSUME NEW F, NEW S, NEW K, NEW A
  PROVE  \A T : Phone(F, S, K, A)!Cardinality(T) = Cardinality(T)
BY DEF Phone!Cardinality, Cardinality

LEMMA PhoneIsProven ==
  ASSUME NEW F, NEW S, NEW K, NEW A \in Nat \ {0}, PhoneInv(F, S, K, A)
  PROVE  /\ Phone(F, S, K, A)!TypeOK /\ Phone(F, S, K, A)!OneCodePerKey
         /\ Phone(F, S, K, A)!SignupIsProven
<1>1. Cardinality(accounts) <= 1 /\ accounts \subseteq F
  <2>1. CASE accounts = {}
    BY <2>1, FS_EmptySet
  <2>2. CASE \E f \in F : accounts = {f}
    BY <2>2, FS_Singleton
  <2>3. QED
    BY <2>1, <2>2 DEF PhoneInv
<1>2. Phone(F, S, K, A)!TypeOK
  BY <1>1 DEF PhoneInv, PhoneFlow, Phone!TypeOK
<1>3. Phone(F, S, K, A)!OneCodePerKey
  BY DEF PhoneInv, Phone!OneCodePerKey
<1>4. Phone(F, S, K, A)!SignupIsProven
  BY <1>1, PhoneCounts DEF PhoneInv, FlowFits, Phone!SignupIsProven
<1>5. QED
  BY <1>2, <1>3, <1>4

LEMMA PhoneInit ==
  ASSUME NEW F, NEW S, NEW K, NEW A \in Nat \ {0}, Phone(F, S, K, A)!Init
  PROVE  PhoneInv(F, S, K, A)
<1>1. /\ flows = [f \in F |-> Phone(F, S, K, A)!NoFlow] /\ codes = << >> /\ phone = {}
      /\ cookie = [f \in F |-> 0] /\ starting = {} /\ signing = {} /\ accounts = {}
      /\ sends = [s \in S |-> Phone(F, S, K, A)!IdleSend]
  BY DEF Phone!Init
<1>2. flows \in [F -> PhoneFlow] /\ cookie \in [F -> 0..MaxCodes] /\ sends \in [S -> PhoneSend(F, K)]
  BY <1>1, PhoneBounds DEF Phone!NoFlow, Phone!IdleSend, PhoneFlow, PhoneSend
<1>3. /\ \A s \in S : SendFits(F, sends[s])
      /\ \A f \in F : FlowFits(f)
  BY <1>1 DEF SendFits, FlowFits, Phone!NoFlow, Phone!IdleSend
<1>4. codes \in Seq(Phone(F, S, K, A)!Code) /\ Len(codes) <= MaxCodes /\ DOMAIN codes = {}
  BY <1>1, PhoneBounds
<1>5. QED
  BY <1>1, <1>2, <1>3, <1>4 DEF PhoneInv

LEMMA PhoneMoves ==
  ASSUME NEW F, NEW S, NEW K, NEW A \in Nat \ {0}, PhoneInv(F, S, K, A),
         codes' \in Seq(Phone(F, S, K, A)!Code), Len(codes') = Len(codes),
         \A i \in DOMAIN codes : /\ codes'[i].flow = codes[i].flow /\ codes'[i].key = codes[i].key
                                 /\ CodeFits(A, codes'[i]),
         phone \subseteq phone', phone' \subseteq DOMAIN codes,
         flows' \in [F -> PhoneFlow], cookie' \in [F -> 0..MaxCodes],
         starting' \subseteq F, signing' \subseteq F,
         accounts' = {} \/ \E f \in F : accounts' = {f},
         sends' \in [S -> PhoneSend(F, K)], \A s \in S : SendFits(F, sends'[s]),
         \A f \in F :
           /\ flows'[f].proof # 0 => flows'[f].proof \in phone' /\ codes[flows'[f].proof].flow = f
           /\ f \in signing' \cup accounts' => flows'[f].proof # 0
           /\ flows'[f].consumed <=> f \in accounts'
  PROVE  PhoneInv(F, S, K, A)'
<1>1. codes \in Seq(Phone(F, S, K, A)!Code)
  BY DEF PhoneInv
<1>2. DOMAIN codes' = DOMAIN codes
  BY <1>1
<1>3. Phone(F, S, K, A)!Code' = Phone(F, S, K, A)!Code
  BY DEF Phone!Code
<1>4. \A s \in S : SendFits(F, sends[s])'
  BY <1>2 DEF SendFits
<1>5. \A f \in F : FlowFits(f)'
  BY <1>2 DEF FlowFits
<1>6. \A i \in DOMAIN codes' : CodeFits(A, codes[i])'
  BY <1>2 DEF CodeFits
<1>7. \A i, j \in DOMAIN codes' :
        codes'[i].key # noKey /\ codes'[i].flow = codes'[j].flow /\ codes'[i].key = codes'[j].key => i = j
  <2>1. SUFFICES ASSUME NEW i \in DOMAIN codes, NEW j \in DOMAIN codes, codes'[i].key # noKey,
                        codes'[i].flow = codes'[j].flow, codes'[i].key = codes'[j].key
                 PROVE  i = j
    BY <1>2
  <2>2. codes[i].key # noKey /\ codes[i].flow = codes[j].flow /\ codes[i].key = codes[j].key
    BY <2>1
  <2>3. QED
    BY <2>2 DEF PhoneInv
<1>8. Len(codes') <= MaxCodes /\ phone' \subseteq DOMAIN codes'
  BY <1>2 DEF PhoneInv
<1>9. QED
  BY <1>3, <1>4, <1>5, <1>6, <1>7, <1>8 DEF PhoneInv

LEMMA PhoneSends ==
  ASSUME NEW F, NEW S, NEW K, NEW A \in Nat \ {0}, PhoneInv(F, S, K, A), NEW s \in S,
         NEW send \in PhoneSend(F, K), SendFits(F, send), sends' = [sends EXCEPT ![s] = send],
         codes' \in Seq(Phone(F, S, K, A)!Code), Len(codes') = Len(codes),
         \A i \in DOMAIN codes : /\ codes'[i].flow = codes[i].flow /\ codes'[i].key = codes[i].key
                                 /\ CodeFits(A, codes'[i]),
         phone \subseteq phone', phone' \subseteq DOMAIN codes,
         UNCHANGED <<cookie, starting, signing, accounts>>,
         flows' \in [F -> PhoneFlow],
         \A f \in F : flows'[f].proof = flows[f].proof /\ flows'[f].consumed = flows[f].consumed
  PROVE  PhoneInv(F, S, K, A)'
<1>1. /\ sends \in [S -> PhoneSend(F, K)] /\ \A u \in S : SendFits(F, sends[u])
      /\ \A f \in F : FlowFits(f)
      /\ cookie' \in [F -> 0..MaxCodes] /\ starting' \subseteq F /\ signing' \subseteq F
      /\ accounts' = {} \/ \E f \in F : accounts' = {f}
  BY DEF PhoneInv
<1>2. sends' \in [S -> PhoneSend(F, K)] /\ \A u \in S : SendFits(F, sends'[u])
  BY <1>1
<1>3. \A f \in F :
        /\ flows'[f].proof # 0 => flows'[f].proof \in phone' /\ codes[flows'[f].proof].flow = f
        /\ f \in signing' \cup accounts' => flows'[f].proof # 0
        /\ flows'[f].consumed <=> f \in accounts'
  BY <1>1 DEF FlowFits
<1>4. QED
  BY <1>1, <1>2, <1>3, PhoneMoves

(* A request for a code, but for its creation.                             *)
LEMMA PhoneSendSteps ==
  ASSUME NEW F, NEW S, NEW K, NEW A \in Nat \ {0}, PhoneInv(F, S, K, A), NEW s \in S,
         \/ Phone(F, S, K, A)!BeginSend(s) \/ Phone(F, S, K, A)!FindKeyed(s)
         \/ Phone(F, S, K, A)!FindLatest(s) \/ Phone(F, S, K, A)!StopSend(s)
         \/ Phone(F, S, K, A)!Text(s) \/ Phone(F, S, K, A)!RecordSent(s)
         \/ Phone(F, S, K, A)!RecordFailed(s)
  PROVE  PhoneInv(F, S, K, A)'
<1>1. /\ codes \in Seq(Phone(F, S, K, A)!Code) /\ phone \subseteq DOMAIN codes
      /\ \A i \in DOMAIN codes : CodeFits(A, codes[i])
      /\ flows \in [F -> PhoneFlow] /\ sends \in [S -> PhoneSend(F, K)]
      /\ sends[s] \in PhoneSend(F, K) /\ SendFits(F, sends[s])
  BY DEF PhoneInv
<1>2. ASSUME NEW send \in PhoneSend(F, K), SendFits(F, send), sends' = [sends EXCEPT ![s] = send],
             UNCHANGED <<flows, codes, phone, cookie, starting, signing, accounts>>
      PROVE  PhoneInv(F, S, K, A)'
  BY <1>1, <1>2, PhoneSends
<1>3. PICK idle \in PhoneSend(F, K) : idle = Phone(F, S, K, A)!IdleSend /\ idle.at = "idle" /\ SendFits(F, idle)
  <2>1. /\ Phone(F, S, K, A)!IdleSend \in PhoneSend(F, K)
        /\ Phone(F, S, K, A)!IdleSend.at = "idle"
    BY DEF Phone!IdleSend, PhoneSend
  <2>2. SendFits(F, Phone(F, S, K, A)!IdleSend)
    BY <2>1 DEF SendFits
  <2>3. QED
    BY <2>1, <2>2
<1>4. ASSUME NEW at \in {"latest", "create", "sent", "failed"}, sends[s].at # "idle",
             at \in {"sent", "failed"} => sends[s].at \in {"text", "sent"}
      PROVE  \E send \in PhoneSend(F, K) : /\ send = [sends[s] EXCEPT !.at = at] /\ SendFits(F, send)
  <2> DEFINE send == [sends[s] EXCEPT !.at = at]
  <2>1. send \in PhoneSend(F, K) /\ send.at = at /\ send.flow = sends[s].flow /\ send.code = sends[s].code
    BY <1>1 DEF PhoneSend
  <2> HIDE DEF send
  <2>2. SendFits(F, send)
    BY <1>1, <1>4, <2>1 DEF SendFits
  <2>3. QED
    BY <2>1, <2>2 DEF send
<1>5. CASE Phone(F, S, K, A)!BeginSend(s)
  <2>1. PICK f \in F, k \in K \cup {noKey} :
          sends' = [sends EXCEPT ![s] = [Phone(F, S, K, A)!IdleSend EXCEPT
                      !.at = IF k = noKey THEN "latest" ELSE "key", !.flow = f, !.key = k]]
    BY <1>5 DEF Phone!BeginSend, Phone!SetSend
  <2> DEFINE send == [Phone(F, S, K, A)!IdleSend EXCEPT
                        !.at = IF k = noKey THEN "latest" ELSE "key", !.flow = f, !.key = k]
  <2>2. send \in PhoneSend(F, K) /\ send.flow = f /\ send.at \in {"latest", "key"}
    BY <1>3 DEF PhoneSend
  <2>3. sends' = [sends EXCEPT ![s] = send]
    BY <2>1
  <2> HIDE DEF send
  <2>4. SendFits(F, send)
    BY <2>2 DEF SendFits
  <2>5. QED
    BY <1>2, <1>5, <2>2, <2>3, <2>4 DEF Phone!BeginSend, Phone!SendOnly
<1>6. CASE Phone(F, S, K, A)!FindKeyed(s)
  <2>1. /\ sends[s].at = "key" /\ UNCHANGED <<flows, codes, phone, cookie, starting, signing, accounts>>
        /\ \/ sends' = [sends EXCEPT ![s] = idle]
           \/ sends' = [sends EXCEPT ![s] = [sends[s] EXCEPT !.at = "latest"]]
    BY <1>3, <1>6 DEF Phone!FindKeyed, Phone!SetSend, Phone!SendOnly
  <2>2. QED
    BY <1>2, <1>3, <1>4, <2>1
<1>7. CASE Phone(F, S, K, A)!FindLatest(s)
  <2>1. /\ sends[s].at = "latest" /\ UNCHANGED <<flows, codes, phone, cookie, starting, signing, accounts>>
        /\ \/ sends' = [sends EXCEPT ![s] = idle]
           \/ sends' = [sends EXCEPT ![s] = [sends[s] EXCEPT !.at = "create"]]
    BY <1>3, <1>7 DEF Phone!FindLatest, Phone!SetSend, Phone!SendOnly
  <2>2. QED
    BY <1>2, <1>3, <1>4, <2>1
<1>8. CASE Phone(F, S, K, A)!StopSend(s)
  BY <1>2, <1>3, <1>8 DEF Phone!StopSend, Phone!SetSend, Phone!SendOnly
<1>9. CASE Phone(F, S, K, A)!Text(s)
  <2>1. PICK at \in {"sent", "failed"} : sends' = [sends EXCEPT ![s] = [sends[s] EXCEPT !.at = at]]
    BY <1>9 DEF Phone!Text, Phone!SetSend
  <2>2. /\ sends[s].at = "text" /\ phone' \in {phone, phone \cup {sends[s].code}}
        /\ UNCHANGED <<flows, codes, cookie, starting, signing, accounts>>
    BY <1>9 DEF Phone!Text
  <2>3. PICK send \in PhoneSend(F, K) : send = [sends[s] EXCEPT !.at = at] /\ SendFits(F, send)
    BY <1>4, <2>2
  <2>4. phone' \subseteq DOMAIN codes /\ phone \subseteq phone'
    BY <1>1, <2>2 DEF SendFits
  <2>5. QED
    BY <1>1, <2>1, <2>2, <2>3, <2>4, PhoneSends
<1>10. CASE Phone(F, S, K, A)!RecordSent(s)
  <2>1. /\ sends[s].at = "sent" /\ UNCHANGED <<codes, phone, cookie, starting, signing, accounts>>
        /\ \/ flows' = [flows EXCEPT ![sends[s].flow].status = "OTP_SENT"] /\ sends' = [sends EXCEPT ![s] = idle]
           \/ sends' = [sends EXCEPT ![s] = [sends[s] EXCEPT !.at = "failed"]] /\ flows' = flows
    BY <1>3, <1>10 DEF Phone!RecordSent, Phone!SetSend
  <2>2. CASE flows' = flows /\ sends' = [sends EXCEPT ![s] = [sends[s] EXCEPT !.at = "failed"]]
    BY <1>2, <1>4, <2>1, <2>2
  <2>3. CASE flows' = [flows EXCEPT ![sends[s].flow].status = "OTP_SENT"] /\ sends' = [sends EXCEPT ![s] = idle]
    <3>1. PICK f \in F : f = sends[s].flow
      BY <1>1, <2>1 DEF SendFits
    <3>2. PICK flow \in PhoneFlow : /\ flows' = [flows EXCEPT ![f] = flow]
                                    /\ flow.proof = flows[f].proof /\ flow.consumed = flows[f].consumed
      <4> DEFINE flow == [flows[f] EXCEPT !.status = "OTP_SENT"]
      <4>1. flows[f] \in PhoneFlow
        BY <1>1
      <4>2. flow \in PhoneFlow /\ flow.proof = flows[f].proof /\ flow.consumed = flows[f].consumed
        BY <4>1 DEF PhoneFlow
      <4>3. flows' = [flows EXCEPT ![f] = flow]
        BY <2>3, <3>1
      <4> HIDE DEF flow
      <4>4. QED
        BY <4>2, <4>3
    <3>3. flows' \in [F -> PhoneFlow]
          /\ \A g \in F : flows'[g].proof = flows[g].proof /\ flows'[g].consumed = flows[g].consumed
      BY <1>1, <3>2
    <3>4. QED
      BY <1>1, <1>3, <2>1, <2>3, <3>3, PhoneSends
  <2>4. QED
    BY <2>1, <2>2, <2>3
<1>11. CASE Phone(F, S, K, A)!RecordFailed(s)
  <2>1. /\ sends[s].at = "failed" /\ sends' = [sends EXCEPT ![s] = idle]
        /\ codes' \in {codes, [codes EXCEPT ![sends[s].code].status = "FAILED"]}
        /\ UNCHANGED <<flows, phone, cookie, starting, signing, accounts>>
    BY <1>3, <1>11 DEF Phone!RecordFailed, Phone!SetSend
  <2>2. PICK i \in DOMAIN codes : i = sends[s].code
    BY <1>1, <2>1 DEF SendFits
  <2>3. CASE codes' = codes
    BY <1>2, <1>3, <2>1, <2>3
  <2>4. CASE codes' = [codes EXCEPT ![i].status = "FAILED"]
    <3>1. PICK code \in Phone(F, S, K, A)!Code :
            /\ codes' = [codes EXCEPT ![i] = code]
            /\ code.flow = codes[i].flow /\ code.key = codes[i].key /\ code.status = "FAILED"
      <4> DEFINE code == [codes[i] EXCEPT !.status = "FAILED"]
      <4>1. codes[i] \in Phone(F, S, K, A)!Code
        BY <1>1
      <4>2. /\ code \in Phone(F, S, K, A)!Code
            /\ code.flow = codes[i].flow /\ code.key = codes[i].key /\ code.status = "FAILED"
        BY <4>1 DEF Phone!Code
      <4>3. codes' = [codes EXCEPT ![i] = code]
        BY <2>4
      <4> HIDE DEF code
      <4>4. QED
        BY <4>2, <4>3
    <3>2. codes' \in Seq(Phone(F, S, K, A)!Code) /\ Len(codes') = Len(codes)
      BY <1>1, <3>1
    <3>3. \A j \in DOMAIN codes : /\ codes'[j].flow = codes[j].flow /\ codes'[j].key = codes[j].key
                                  /\ CodeFits(A, codes'[j])
      BY <1>1, <3>1 DEF CodeFits
    <3>4. QED
      BY <1>1, <1>3, <2>1, <3>2, <3>3, PhoneSends
  <2>5. QED
    BY <2>1, <2>2, <2>3, <2>4
<1>12. QED
  BY <1>5, <1>6, <1>7, <1>8, <1>9, <1>10, <1>11

(* The index on flow and key keeps a second code from being made.          *)
LEMMA PhoneCreates ==
  ASSUME NEW F, NEW S, NEW K, NEW A \in Nat \ {0}, PhoneInv(F, S, K, A), NEW s \in S,
         Phone(F, S, K, A)!CreateCode(s)
  PROVE  PhoneInv(F, S, K, A)'
<1>1. /\ codes \in Seq(Phone(F, S, K, A)!Code) /\ Len(codes) <= MaxCodes /\ phone \subseteq DOMAIN codes
      /\ \A i \in DOMAIN codes : CodeFits(A, codes[i])
      /\ flows \in [F -> PhoneFlow] /\ cookie \in [F -> 0..MaxCodes]
      /\ sends \in [S -> PhoneSend(F, K)] /\ \A u \in S : SendFits(F, sends[u])
      /\ sends[s] \in PhoneSend(F, K) /\ SendFits(F, sends[s])
      /\ \A f \in F : FlowFits(f)
  BY DEF PhoneInv
<1>2. /\ sends[s].at = "create" /\ sends[s].flow \in F /\ sends[s].key \in K \cup {noKey}
      /\ UNCHANGED <<flows, phone, cookie, starting, signing, accounts>>
  BY <1>1 DEF Phone!CreateCode, SendFits, PhoneSend
<1>3. CASE Phone(F, S, K, A)!Keyed(sends[s])
  <2>1. sends' = [sends EXCEPT ![s] = Phone(F, S, K, A)!IdleSend] /\ codes' = codes
    BY <1>3 DEF Phone!CreateCode, Phone!SetSend
  <2>2. /\ Phone(F, S, K, A)!IdleSend \in PhoneSend(F, K)
        /\ Phone(F, S, K, A)!IdleSend.at = "idle"
    BY DEF Phone!IdleSend, PhoneSend
  <2>3. PICK idle \in PhoneSend(F, K) : idle = Phone(F, S, K, A)!IdleSend /\ SendFits(F, idle)
    BY <2>2 DEF SendFits
  <2>4. QED
    BY <1>1, <1>2, <2>1, <2>3, PhoneSends
<1>4. CASE ~Phone(F, S, K, A)!Keyed(sends[s])
  <2> DEFINE made == [flow |-> sends[s].flow, key |-> sends[s].key, status |-> "PENDING", attempts |-> 0]
             text == [sends[s] EXCEPT !.at = "text", !.code = Len(codes) + 1]
  <2>1. /\ Len(codes) < MaxCodes /\ codes' = Append(codes, made) /\ sends' = [sends EXCEPT ![s] = text]
    BY <1>4 DEF Phone!CreateCode, Phone!SetSend
  <2>2. made \in Phone(F, S, K, A)!Code /\ CodeFits(A, made)
    BY <1>2 DEF Phone!Code, CodeFits
  <2>3. /\ text \in PhoneSend(F, K) /\ text.at = "text" /\ text.flow \in F /\ text.code = Len(codes) + 1
    <3>1. Len(codes) + 1 \in Nat
      BY <1>1
    <3>2. QED
      BY <1>1, <1>2, <3>1 DEF PhoneSend
  <2>4. made.flow = sends[s].flow /\ made.key = sends[s].key
    OBVIOUS
  <2> HIDE DEF made, text
  <2>5. /\ codes' \in Seq(Phone(F, S, K, A)!Code) /\ Len(codes') = Len(codes) + 1
        /\ DOMAIN codes' = DOMAIN codes \cup {Len(codes) + 1}
        /\ codes'[Len(codes) + 1] = made
        /\ \A i \in DOMAIN codes : codes'[i] = codes[i] /\ i # Len(codes) + 1
    BY <1>1, <2>1, <2>2
  <2>6. /\ codes' \in Seq(Phone(F, S, K, A)!Code') /\ Len(codes') <= MaxCodes
        /\ phone' \subseteq DOMAIN codes'
    <3>1. Phone(F, S, K, A)!Code' = Phone(F, S, K, A)!Code
      BY DEF Phone!Code
    <3>2. Len(codes) + 1 <= MaxCodes
      BY <1>1, <2>1, PhoneBounds
    <3>3. QED
      BY <1>1, <1>2, <2>5, <3>1, <3>2
  <2>7. sends' \in [S -> PhoneSend(F, K)] /\ \A u \in S : SendFits(F, sends[u])'
    <3>1. sends' \in [S -> PhoneSend(F, K)]
      BY <1>1, <2>1, <2>3
    <3>2. ASSUME NEW u \in S
          PROVE  SendFits(F, sends[u])'
      <4>1. CASE u = s
        BY <1>1, <2>1, <2>3, <2>5, <4>1 DEF SendFits
      <4>2. CASE u # s
        BY <1>1, <2>1, <2>5, <4>2 DEF SendFits
      <4>3. QED
        BY <4>1, <4>2
    <3>3. QED
      BY <3>1, <3>2
  <2>8. \A i \in DOMAIN codes' : CodeFits(A, codes[i])'
    <3>1. ASSUME NEW i \in DOMAIN codes'
          PROVE  CodeFits(A, codes[i])'
      <4>1. CASE i = Len(codes) + 1
        BY <2>2, <2>5, <4>1 DEF CodeFits
      <4>2. CASE i \in DOMAIN codes
        BY <1>1, <2>5, <4>2 DEF CodeFits
      <4>3. QED
        BY <2>5, <3>1, <4>1, <4>2
    <3>2. QED
      BY <3>1
  <2>9. \A f \in F : FlowFits(f)'
    <3>1. ASSUME NEW f \in F
          PROVE  FlowFits(f)'
      <4>1. flows'[f].proof # 0 => flows'[f].proof \in phone' /\ codes'[flows'[f].proof].flow = f
        BY <1>1, <1>2, <2>5 DEF FlowFits
      <4>2. QED
        BY <1>1, <1>2, <4>1 DEF FlowFits
    <3>2. QED
      BY <3>1
  <2>10. ASSUME NEW i \in DOMAIN codes', NEW j \in DOMAIN codes', codes'[i].key # noKey,
                codes'[i].flow = codes'[j].flow, codes'[i].key = codes'[j].key
         PROVE  i = j
    <3>1. \A k \in DOMAIN codes : sends[s].key # noKey => ~(codes[k].flow = sends[s].flow /\ codes[k].key = sends[s].key)
      BY <1>4 DEF Phone!Keyed
    <3>2. CASE i \in DOMAIN codes /\ j \in DOMAIN codes
      <4>1. codes[i].key # noKey /\ codes[i].flow = codes[j].flow /\ codes[i].key = codes[j].key
        BY <2>5, <2>10, <3>2
      <4>2. QED
        BY <3>2, <4>1 DEF PhoneInv
    <3>3. CASE i \in DOMAIN codes /\ j = Len(codes) + 1
      BY <2>4, <2>5, <2>10, <3>1, <3>3
    <3>4. CASE i = Len(codes) + 1 /\ j \in DOMAIN codes
      BY <2>4, <2>5, <2>10, <3>1, <3>4
    <3>5. QED
      BY <2>5, <2>10, <3>2, <3>3, <3>4
  <2>11. /\ flows' \in [F -> PhoneFlow] /\ cookie' \in [F -> 0..MaxCodes]
         /\ starting' \subseteq F /\ signing' \subseteq F
         /\ accounts' = {} \/ \E f \in F : accounts' = {f}
    BY <1>1, <1>2 DEF PhoneInv
  <2>12. QED
    BY <2>6, <2>7, <2>8, <2>9, <2>10, <2>11 DEF PhoneInv
<1>5. QED
  BY <1>3, <1>4


(* One flow changes, and the code that is typed for it, if any.            *)
LEMMA PhoneMovesFlow ==
  ASSUME NEW F, NEW S, NEW K, NEW A \in Nat \ {0}, PhoneInv(F, S, K, A), NEW f \in F,
         NEW flow \in PhoneFlow, flows' = [flows EXCEPT ![f] = flow],
         codes' \in Seq(Phone(F, S, K, A)!Code), Len(codes') = Len(codes),
         \A i \in DOMAIN codes : /\ codes'[i].flow = codes[i].flow /\ codes'[i].key = codes[i].key
                                 /\ CodeFits(A, codes'[i]),
         phone' = phone, sends' = sends, cookie' \in [F -> 0..MaxCodes],
         starting' \subseteq F, signing' \subseteq F,
         accounts' = {} \/ \E g \in F : accounts' = {g},
         \A g \in F \ {f} : (g \in accounts' <=> g \in accounts) /\ (g \in signing' => g \in signing),
         flow.proof # 0 => flow.proof \in phone /\ codes[flow.proof].flow = f,
         f \in signing' \cup accounts' => flow.proof # 0,
         flow.consumed <=> f \in accounts'
  PROVE  PhoneInv(F, S, K, A)'
<1>1. /\ phone \subseteq DOMAIN codes /\ flows \in [F -> PhoneFlow]
      /\ sends \in [S -> PhoneSend(F, K)] /\ \A s \in S : SendFits(F, sends[s])
      /\ \A g \in F : FlowFits(g)
  BY DEF PhoneInv
<1>2. flows' \in [F -> PhoneFlow] /\ flows'[f] = flow /\ \A g \in F \ {f} : flows'[g] = flows[g]
  BY <1>1
<1>3. ASSUME NEW g \in F
      PROVE  /\ flows'[g].proof # 0 => flows'[g].proof \in phone' /\ codes[flows'[g].proof].flow = g
             /\ g \in signing' \cup accounts' => flows'[g].proof # 0
             /\ flows'[g].consumed <=> g \in accounts'
  <2>1. CASE g = f
    BY <1>2, <2>1
  <2>2. CASE g # f
    BY <1>1, <1>2, <2>2 DEF FlowFits
  <2>3. QED
    BY <2>1, <2>2
<1>4. QED
  BY <1>1, <1>2, <1>3, PhoneMoves

(* A start reads whether there is an account, and writes the flow later.   *)
LEMMA PhoneStarts ==
  ASSUME NEW F, NEW S, NEW K, NEW A \in Nat \ {0}, PhoneInv(F, S, K, A), NEW f \in F,
         Phone(F, S, K, A)!StartChecked(f) \/ Phone(F, S, K, A)!StartWritten(f)
  PROVE  PhoneInv(F, S, K, A)'
<1>1. /\ codes \in Seq(Phone(F, S, K, A)!Code) /\ \A i \in DOMAIN codes : CodeFits(A, codes[i])
      /\ flows \in [F -> PhoneFlow] /\ flows[f] \in PhoneFlow /\ cookie \in [F -> 0..MaxCodes]
      /\ starting \subseteq F /\ signing \subseteq F
      /\ accounts = {} \/ \E g \in F : accounts = {g}
      /\ FlowFits(f)
  BY DEF PhoneInv
<1>2. /\ UNCHANGED <<codes, phone, cookie, signing, accounts, sends>>
      /\ starting' = starting \cup {f} \/ starting' = starting \ {f}
      /\ flows' = flows \/ flows' = [flows EXCEPT ![f].status = "ADDRESS_COLLECTED"]
  BY DEF Phone!StartChecked, Phone!StartWritten
<1>3. starting' \subseteq F
  BY <1>1, <1>2
<1>4. PICK flow \in PhoneFlow : /\ flows' = [flows EXCEPT ![f] = flow]
                                /\ flow.proof = flows[f].proof /\ flow.consumed = flows[f].consumed
  <2>1. CASE flows' = flows
    BY <1>1, <2>1
  <2>2. CASE flows' = [flows EXCEPT ![f].status = "ADDRESS_COLLECTED"]
    <3> DEFINE flow == [flows[f] EXCEPT !.status = "ADDRESS_COLLECTED"]
    <3>1. flow \in PhoneFlow /\ flow.proof = flows[f].proof /\ flow.consumed = flows[f].consumed
      BY <1>1 DEF PhoneFlow
    <3>2. flows' = [flows EXCEPT ![f] = flow]
      BY <2>2
    <3> HIDE DEF flow
    <3>3. QED
      BY <3>1, <3>2
  <2>3. QED
    BY <1>2, <2>1, <2>2
<1>5. QED
  BY <1>1, <1>2, <1>3, <1>4, PhoneMovesFlow DEF FlowFits

(* A code is typed: it expires, it proves the number, or it was wrong.     *)
LEMMA PhoneVerifies ==
  ASSUME NEW F, NEW S, NEW K, NEW A \in Nat \ {0}, PhoneInv(F, S, K, A), NEW f \in F,
         Phone(F, S, K, A)!Verify(f)
  PROVE  PhoneInv(F, S, K, A)'
<1>1. /\ codes \in Seq(Phone(F, S, K, A)!Code) /\ Len(codes) <= MaxCodes
      /\ \A i \in DOMAIN codes : CodeFits(A, codes[i])
      /\ phone \subseteq DOMAIN codes
      /\ flows \in [F -> PhoneFlow] /\ flows[f] \in PhoneFlow /\ cookie \in [F -> 0..MaxCodes]
      /\ starting \subseteq F /\ signing \subseteq F
      /\ accounts = {} \/ \E g \in F : accounts = {g}
      /\ FlowFits(f)
  BY DEF PhoneInv
<1>2. PICK i \in Phone(F, S, K, A)!Live(f), typed \in phone \cup {0} :
        \/ Phone(F, S, K, A)!Expired(i)
        \/ codes[i].status = "PENDING" /\ typed = i /\ Phone(F, S, K, A)!Prove(f, i)
        \/ codes[i].status = "PENDING" /\ typed # i /\ Phone(F, S, K, A)!Guess(i)
  <2>1. PICK asked \in {Phone(F, S, K, A)!Live(f)} \cup {{i} : i \in Phone(F, S, K, A)!Live(f)},
             typed \in phone \cup {0} :
          \E i \in Phone(F, S, K, A)!Newest(asked) :
            \/ Phone(F, S, K, A)!Expired(i)
            \/ codes[i].status = "PENDING" /\ typed = i /\ Phone(F, S, K, A)!Prove(f, i)
            \/ codes[i].status = "PENDING" /\ typed # i /\ Phone(F, S, K, A)!Guess(i)
    BY DEF Phone!Verify
  <2>2. asked \subseteq Phone(F, S, K, A)!Live(f)
    OBVIOUS
  <2>3. Phone(F, S, K, A)!Newest(asked) \subseteq asked
    BY DEF Phone!Newest
  <2>4. QED
    BY <2>1, <2>2, <2>3
<1>3. /\ i \in DOMAIN codes /\ codes[i] \in Phone(F, S, K, A)!Code /\ codes[i].flow = f
      /\ codes[i].status \in {"PENDING", "BLOCKED"} /\ i \in 1..MaxCodes
      /\ CodeFits(A, codes[i]) /\ codes[i].attempts \in 0..A
  <2>1. i \in DOMAIN codes /\ codes[i].flow = f /\ codes[i].status \in {"PENDING", "BLOCKED"}
    BY DEF Phone!Live
  <2>2. i \in 1..MaxCodes
    BY <1>1, <2>1, PhoneBounds
  <2>3. codes[i].attempts \in 0..(A + 1)
    <3>1. codes[i] \in Phone(F, S, K, A)!Code
      BY <1>1, <2>1
    <3>2. QED
      BY <3>1 DEF Phone!Code
  <2>4. codes[i].attempts <= A
    BY <1>1, <2>1, <2>3 DEF CodeFits
  <2>5. QED
    BY <1>1, <2>1, <2>2, <2>3, <2>4
<1>4. UNCHANGED <<phone, starting, signing, accounts, sends>>
  BY DEF Phone!Verify
<1>5. ASSUME NEW code \in Phone(F, S, K, A)!Code, codes' = [codes EXCEPT ![i] = code],
             code.flow = codes[i].flow, code.key = codes[i].key, CodeFits(A, code)
      PROVE  /\ codes' \in Seq(Phone(F, S, K, A)!Code) /\ Len(codes') = Len(codes)
             /\ \A j \in DOMAIN codes : /\ codes'[j].flow = codes[j].flow /\ codes'[j].key = codes[j].key
                                        /\ CodeFits(A, codes'[j])
  BY <1>1, <1>3, <1>5
<1>6. ASSUME NEW status \in {"PENDING", "BLOCKED", "EXPIRED", "VERIFIED"}
      PROVE  \E code \in Phone(F, S, K, A)!Code :
               /\ code = [codes[i] EXCEPT !.attempts = codes[i].attempts + 1, !.status = status]
               /\ code.flow = codes[i].flow /\ code.key = codes[i].key
               /\ code.status = status /\ code.attempts = codes[i].attempts + 1
  <2> DEFINE code == [codes[i] EXCEPT !.attempts = codes[i].attempts + 1, !.status = status]
  <2>1. codes[i].attempts + 1 \in 0..(A + 1)
    BY <1>3
  <2>2. /\ code \in Phone(F, S, K, A)!Code
        /\ code.flow = codes[i].flow /\ code.key = codes[i].key
        /\ code.status = status /\ code.attempts = codes[i].attempts + 1
    BY <1>3, <2>1 DEF Phone!Code
  <2> HIDE DEF code
  <2>3. QED
    BY <2>2 DEF code
<1>7. /\ flows[f].proof # 0 => flows[f].proof \in phone /\ codes[flows[f].proof].flow = f
      /\ f \in signing' \cup accounts' => flows[f].proof # 0
      /\ flows[f].consumed <=> f \in accounts'
      /\ phone' = phone /\ sends' = sends /\ starting' \subseteq F /\ signing' \subseteq F
      /\ accounts' = {} \/ \E g \in F : accounts' = {g}
      /\ \A g \in F \ {f} : (g \in accounts' <=> g \in accounts) /\ (g \in signing' => g \in signing)
  BY <1>1, <1>4 DEF FlowFits
<1>8. CASE Phone(F, S, K, A)!Expired(i)
  <2>1. /\ codes' = [codes EXCEPT ![i] = [codes[i] EXCEPT !.attempts = codes[i].attempts + 1, !.status = "EXPIRED"]]
        /\ UNCHANGED <<flows, cookie>>
    BY <1>3, <1>8 DEF Phone!Expired
  <2>2. PICK code \in Phone(F, S, K, A)!Code :
          /\ code = [codes[i] EXCEPT !.attempts = codes[i].attempts + 1, !.status = "EXPIRED"]
          /\ code.flow = codes[i].flow /\ code.key = codes[i].key /\ code.status = "EXPIRED"
    BY <1>6
  <2>3. codes' = [codes EXCEPT ![i] = code] /\ CodeFits(A, code)
    BY <2>1, <2>2 DEF CodeFits
  <2>4. PICK flow \in PhoneFlow : flow = flows[f] /\ flows' = [flows EXCEPT ![f] = flow]
    BY <1>1, <2>1
  <2>5. /\ codes' \in Seq(Phone(F, S, K, A)!Code) /\ Len(codes') = Len(codes)
        /\ \A j \in DOMAIN codes : /\ codes'[j].flow = codes[j].flow /\ codes'[j].key = codes[j].key
                                   /\ CodeFits(A, codes'[j])
    BY <1>5, <2>2, <2>3
  <2>6. cookie' \in [F -> 0..MaxCodes]
    BY <1>1, <2>1
  <2>7. QED
    BY <1>7, <2>4, <2>5, <2>6, PhoneMovesFlow
<1>9. CASE codes[i].status = "PENDING" /\ Phone(F, S, K, A)!Guess(i)
  <2>1. PICK status \in {"PENDING", "BLOCKED"} :
          /\ codes' = [codes EXCEPT ![i] = [codes[i] EXCEPT !.attempts = codes[i].attempts + 1, !.status = status]]
          /\ status = "PENDING" => codes[i].attempts + 1 < A
    <3> DEFINE status == IF codes[i].attempts + 1 >= A THEN "BLOCKED" ELSE "PENDING"
    <3>1. codes' = [codes EXCEPT ![i] = [codes[i] EXCEPT !.attempts = codes[i].attempts + 1, !.status = status]]
      BY <1>3, <1>9 DEF Phone!Guess
    <3>2. status \in {"PENDING", "BLOCKED"} /\ (status = "PENDING" => codes[i].attempts + 1 < A)
      BY <1>3
    <3> HIDE DEF status
    <3>3. QED
      BY <3>1, <3>2
  <2>2. UNCHANGED <<flows, cookie>>
    BY <1>9 DEF Phone!Guess
  <2>3. PICK code \in Phone(F, S, K, A)!Code :
          /\ code = [codes[i] EXCEPT !.attempts = codes[i].attempts + 1, !.status = status]
          /\ code.flow = codes[i].flow /\ code.key = codes[i].key
          /\ code.status = status /\ code.attempts = codes[i].attempts + 1
    <3>1. status \in {"PENDING", "BLOCKED", "EXPIRED", "VERIFIED"}
      BY <2>1
    <3>2. QED
      BY <1>6, <3>1
  <2>4. codes[i].attempts < A
    BY <1>3, <1>9 DEF CodeFits
  <2>5. codes' = [codes EXCEPT ![i] = code] /\ CodeFits(A, code)
    BY <1>3, <2>1, <2>3, <2>4 DEF CodeFits
  <2>6. PICK flow \in PhoneFlow : flow = flows[f] /\ flows' = [flows EXCEPT ![f] = flow]
    BY <1>1, <2>2
  <2>7. /\ codes' \in Seq(Phone(F, S, K, A)!Code) /\ Len(codes') = Len(codes)
        /\ \A j \in DOMAIN codes : /\ codes'[j].flow = codes[j].flow /\ codes'[j].key = codes[j].key
                                   /\ CodeFits(A, codes'[j])
    BY <1>5, <2>3, <2>5
  <2>8. cookie' \in [F -> 0..MaxCodes]
    BY <1>1, <2>2
  <2>9. QED
    BY <1>7, <2>6, <2>7, <2>8, PhoneMovesFlow
<1>10. CASE typed = i /\ Phone(F, S, K, A)!Prove(f, i)
  <2>1. /\ codes' = [codes EXCEPT ![i] = [codes[i] EXCEPT !.attempts = codes[i].attempts + 1, !.status = "VERIFIED"]]
        /\ cookie' \in {cookie, [cookie EXCEPT ![f] = i]}
    BY <1>3, <1>10 DEF Phone!Prove
  <2>2. PICK flow \in PhoneFlow : /\ flow.proof = i /\ flow.consumed = flows[f].consumed
                                 /\ flows' = [flows EXCEPT ![f] = flow]
    <3> DEFINE flow == [flows[f] EXCEPT !.proof = i, !.status = "PHONE_VERIFIED"]
    <3>1. i \in 0..MaxCodes
      BY <1>3, PhoneBounds
    <3>2. /\ flow \in PhoneFlow /\ flow.proof = i /\ flow.consumed = flows[f].consumed
      BY <1>1, <3>1 DEF PhoneFlow
    <3>3. flows' = [flows EXCEPT ![f] = flow]
      BY <1>1, <1>10 DEF Phone!Prove
    <3> HIDE DEF flow
    <3>4. QED
      BY <3>2, <3>3
  <2>3. PICK code \in Phone(F, S, K, A)!Code :
          /\ code = [codes[i] EXCEPT !.attempts = codes[i].attempts + 1, !.status = "VERIFIED"]
          /\ code.flow = codes[i].flow /\ code.key = codes[i].key /\ code.status = "VERIFIED"
    BY <1>6
  <2>4. codes' = [codes EXCEPT ![i] = code] /\ CodeFits(A, code)
    BY <2>1, <2>3 DEF CodeFits
  <2>5. cookie' \in [F -> 0..MaxCodes]
    BY <1>1, <1>3, <2>1
  <2>6. i \in phone /\ i # 0
    BY <1>3, <1>10
  <2>7. /\ codes' \in Seq(Phone(F, S, K, A)!Code) /\ Len(codes') = Len(codes)
        /\ \A j \in DOMAIN codes : /\ codes'[j].flow = codes[j].flow /\ codes'[j].key = codes[j].key
                                   /\ CodeFits(A, codes'[j])
    BY <1>5, <2>3, <2>4
  <2>8. flow.proof # 0 => flow.proof \in phone /\ codes[flow.proof].flow = f
    BY <1>3, <2>2, <2>6
  <2>9. QED
    BY <1>7, <2>2, <2>5, <2>6, <2>7, <2>8, PhoneMovesFlow
<1>11. QED
  BY <1>2, <1>8, <1>9, <1>10


(* A signup begins with a proof, and holds the flow until it ends.         *)
LEMMA PhoneLocks ==
  ASSUME NEW F, NEW S, NEW K, NEW A \in Nat \ {0}, PhoneInv(F, S, K, A), NEW f \in F,
         \/ Phone(F, S, K, A)!BeginSignup(f)
         \/ Phone(F, S, K, A)!AbortSignup(f)
         \/ Phone(F, S, K, A)!CommitSignup(f) /\ Phone(F, S, K, A)!NumberTaken
  PROVE  PhoneInv(F, S, K, A)'
<1>1. /\ codes \in Seq(Phone(F, S, K, A)!Code) /\ \A i \in DOMAIN codes : CodeFits(A, codes[i])
      /\ flows \in [F -> PhoneFlow] /\ flows[f] \in PhoneFlow /\ cookie \in [F -> 0..MaxCodes]
      /\ starting \subseteq F /\ signing \subseteq F
      /\ accounts = {} \/ \E g \in F : accounts = {g}
      /\ FlowFits(f)
  BY DEF PhoneInv
<1>2. /\ UNCHANGED <<flows, codes, phone, cookie, starting, accounts, sends>>
      /\ \/ signing' = signing \cup {f} /\ flows[f].proof # 0
         \/ signing' = signing \ {f}
  BY DEF Phone!BeginSignup, Phone!AbortSignup, Phone!CommitSignup, Phone!Ready
<1>3. PICK flow \in PhoneFlow : flow = flows[f] /\ flows' = [flows EXCEPT ![f] = flow]
  BY <1>1, <1>2
<1>4. /\ f \in signing' \cup accounts' => flow.proof # 0
      /\ flow.proof # 0 => flow.proof \in phone /\ codes[flow.proof].flow = f
      /\ flow.consumed <=> f \in accounts'
      /\ phone' = phone /\ sends' = sends /\ starting' \subseteq F /\ signing' \subseteq F
      /\ accounts' = {} \/ \E g \in F : accounts' = {g}
      /\ \A g \in F \ {f} : (g \in accounts' <=> g \in accounts) /\ (g \in signing' => g \in signing)
      /\ cookie' \in [F -> 0..MaxCodes]
  BY <1>1, <1>2, <1>3 DEF FlowFits
<1>5. /\ codes' \in Seq(Phone(F, S, K, A)!Code) /\ Len(codes') = Len(codes)
      /\ \A i \in DOMAIN codes : /\ codes'[i].flow = codes[i].flow /\ codes'[i].key = codes[i].key
                                 /\ CodeFits(A, codes'[i])
  BY <1>1, <1>2
<1>6. QED
  BY <1>3, <1>4, <1>5, PhoneMovesFlow

(* The account is made of the flow that is locked: it has its proof.       *)
LEMMA PhoneSignsUp ==
  ASSUME NEW F, NEW S, NEW K, NEW A \in Nat \ {0}, PhoneInv(F, S, K, A), NEW f \in F,
         Phone(F, S, K, A)!CommitSignup(f), ~Phone(F, S, K, A)!NumberTaken
  PROVE  PhoneInv(F, S, K, A)'
<1>1. /\ codes \in Seq(Phone(F, S, K, A)!Code) /\ \A i \in DOMAIN codes : CodeFits(A, codes[i])
      /\ flows \in [F -> PhoneFlow] /\ flows[f] \in PhoneFlow /\ cookie \in [F -> 0..MaxCodes]
      /\ starting \subseteq F /\ signing \subseteq F
      /\ FlowFits(f)
  BY DEF PhoneInv
<1>2. /\ accounts = {} /\ f \in signing /\ signing' = signing \ {f} /\ accounts' = {f}
      /\ codes' = [i \in DOMAIN codes |->
                     IF codes[i].flow = f /\ codes[i].status = "VERIFIED"
                     THEN [codes[i] EXCEPT !.status = "CONSUMED"] ELSE codes[i]]
      /\ flows' = [flows EXCEPT ![f].status = "COMPLETED", ![f].consumed = TRUE]
      /\ cookie' \in {cookie, [cookie EXCEPT ![f] = 0]}
      /\ UNCHANGED <<phone, starting, sends>>
  BY DEF Phone!CommitSignup, Phone!NumberTaken
<1>3. PICK flow \in PhoneFlow : /\ flow.proof = flows[f].proof /\ flow.consumed = TRUE
                                /\ flows' = [flows EXCEPT ![f] = flow]
  <2> DEFINE flow == [flows[f] EXCEPT !.status = "COMPLETED", !.consumed = TRUE]
  <2>1. flow \in PhoneFlow /\ flow.proof = flows[f].proof /\ flow.consumed = TRUE
    BY <1>1 DEF PhoneFlow
  <2>2. flows' = [flows EXCEPT ![f] = flow]
    BY <1>1, <1>2
  <2> HIDE DEF flow
  <2>3. QED
    BY <2>1, <2>2
<1>4. ASSUME NEW i \in DOMAIN codes
      PROVE  /\ codes'[i] \in Phone(F, S, K, A)!Code
             /\ codes'[i].flow = codes[i].flow /\ codes'[i].key = codes[i].key
             /\ CodeFits(A, codes'[i])
  <2> DEFINE code == [codes[i] EXCEPT !.status = "CONSUMED"]
  <2>1. codes[i] \in Phone(F, S, K, A)!Code /\ CodeFits(A, codes[i])
    BY <1>1
  <2>2. /\ code \in Phone(F, S, K, A)!Code /\ code.flow = codes[i].flow /\ code.key = codes[i].key
        /\ code.status = "CONSUMED"
    BY <2>1 DEF Phone!Code
  <2>3. codes'[i] \in {codes[i], code}
    BY <1>2
  <2> HIDE DEF code
  <2>4. CodeFits(A, code)
    BY <2>2 DEF CodeFits
  <2>5. QED
    BY <2>1, <2>2, <2>3, <2>4
<1>5. codes' \in Seq(Phone(F, S, K, A)!Code) /\ Len(codes') = Len(codes)
  <2>1. DOMAIN codes = 1..Len(codes) /\ Len(codes) \in Nat
    BY <1>1
  <2>2. codes' \in [1..Len(codes) -> Phone(F, S, K, A)!Code]
    <3>1. codes' = [i \in DOMAIN codes |-> codes'[i]]
      BY <1>2
    <3>2. QED
      BY <1>4, <2>1, <3>1
  <2>3. QED
    BY <2>1, <2>2
<1>6. /\ f \in signing' \cup accounts' => flow.proof # 0
      /\ flow.proof # 0 => flow.proof \in phone /\ codes[flow.proof].flow = f
      /\ flow.consumed <=> f \in accounts'
      /\ phone' = phone /\ sends' = sends /\ starting' \subseteq F /\ signing' \subseteq F
      /\ \E g \in F : accounts' = {g}
      /\ \A g \in F \ {f} : (g \in accounts' <=> g \in accounts) /\ (g \in signing' => g \in signing)
  BY <1>1, <1>2, <1>3 DEF FlowFits
<1>7. cookie' \in [F -> 0..MaxCodes]
  BY <1>1, <1>2, PhoneBounds
<1>8. QED
  BY <1>3, <1>4, <1>5, <1>6, <1>7, PhoneMovesFlow

LEMMA PhoneStep ==
  ASSUME NEW F, NEW S, NEW K, NEW A \in Nat \ {0}, PhoneInv(F, S, K, A),
         Phone(F, S, K, A)!Next \/ UNCHANGED phoneVars
  PROVE  PhoneInv(F, S, K, A)'
<1>1. CASE UNCHANGED phoneVars
  BY <1>1 DEF phoneVars, PhoneInv, SendFits, FlowFits, CodeFits, Phone!Code
<1>2. ASSUME NEW f \in F,
             \/ Phone(F, S, K, A)!StartChecked(f) \/ Phone(F, S, K, A)!StartWritten(f)
             \/ Phone(F, S, K, A)!Verify(f) \/ Phone(F, S, K, A)!BeginSignup(f)
             \/ Phone(F, S, K, A)!CommitSignup(f) \/ Phone(F, S, K, A)!AbortSignup(f)
      PROVE  PhoneInv(F, S, K, A)'
  BY <1>2, PhoneStarts, PhoneVerifies, PhoneLocks, PhoneSignsUp
<1>3. ASSUME NEW s \in S,
             \/ Phone(F, S, K, A)!BeginSend(s) \/ Phone(F, S, K, A)!FindKeyed(s)
             \/ Phone(F, S, K, A)!FindLatest(s) \/ Phone(F, S, K, A)!CreateCode(s)
             \/ Phone(F, S, K, A)!Text(s) \/ Phone(F, S, K, A)!RecordSent(s)
             \/ Phone(F, S, K, A)!RecordFailed(s) \/ Phone(F, S, K, A)!StopSend(s)
      PROVE  PhoneInv(F, S, K, A)'
  BY <1>3, PhoneCreates, PhoneSendSteps
<1>4. QED
  BY <1>1, <1>2, <1>3 DEF Phone!Next


-----------------------------------------------------------------------------
(* The keys of the whole run: whichever part of it a behaviour is about,   *)
(* the others stand still.                                                 *)
PhonePartInv ==
  IF part = "codes" THEN PhoneInv({f3}, {s1, s2}, {k1}, 1) ELSE PhoneInv({f1, f2}, {s3}, {}, MaxAttempts)

KeysInv == MoneyInv /\ UploadInv /\ TabsInv /\ PhonePartInv /\ RefundInv /\ PaidInv /\ AccountTypeOK

LEMMA PhonePartInit == KeysInit => PhonePartInv
<1>1. MaxAttempts \in Nat \ {0} /\ 1 \in Nat \ {0}
  BY PhoneBounds
<1>2. CASE part = "codes"
  BY <1>1, <1>2, PhoneInit DEF KeysInit, PhonePartInv
<1>3. CASE part # "codes"
  BY <1>1, <1>3, PhoneInit DEF KeysInit, PhonePartInv
<1>4. QED
  BY <1>2, <1>3

LEMMA PhonePartStep ==
  ASSUME PhonePartInv, KeysNext
  PROVE  PhonePartInv'
<1>1. MaxAttempts \in Nat \ {0} /\ 1 \in Nat \ {0} /\ part' = part
  BY PhoneBounds DEF KeysNext
<1>2. CASE part = "codes"
  <2>1. PhoneInv({f3}, {s1, s2}, {k1}, 1) /\ Phone({f3}, {s1, s2}, {k1}, 1)!Next
    BY <1>2 DEF KeysNext, PhonePartInv
  <2>2. PhoneInv({f3}, {s1, s2}, {k1}, 1)'
    BY <1>1, <2>1, PhoneStep
  <2>3. QED
    BY <1>1, <1>2, <2>2 DEF PhonePartInv
<1>3. CASE part # "codes"
  <2>1. PhoneInv({f1, f2}, {s3}, {}, MaxAttempts)
    BY <1>3 DEF PhonePartInv
  <2>2. Phone({f1, f2}, {s3}, {}, MaxAttempts)!Next \/ UNCHANGED phoneVars
    BY <1>3 DEF KeysNext
  <2>3. PhoneInv({f1, f2}, {s3}, {}, MaxAttempts)'
    BY <1>1, <2>1, <2>2, PhoneStep
  <2>4. QED
    BY <1>1, <1>3, <2>3 DEF PhonePartInv
<1>4. QED
  BY <1>2, <1>3

LEMMA PhonePartRests ==
  ASSUME PhonePartInv, UNCHANGED <<part, phoneVars>>
  PROVE  PhonePartInv'
<1>1. MaxAttempts \in Nat \ {0} /\ 1 \in Nat \ {0} /\ part' = part /\ UNCHANGED phoneVars
  BY PhoneBounds
<1>2. CASE part = "codes"
  <2>1. PhoneInv({f3}, {s1, s2}, {k1}, 1)
    BY <1>2 DEF PhonePartInv
  <2>2. PhoneInv({f3}, {s1, s2}, {k1}, 1)'
    BY <1>1, <2>1, PhoneStep
  <2>3. QED
    BY <1>1, <1>2, <2>2 DEF PhonePartInv
<1>3. CASE part # "codes"
  <2>1. PhoneInv({f1, f2}, {s3}, {}, MaxAttempts)
    BY <1>3 DEF PhonePartInv
  <2>2. PhoneInv({f1, f2}, {s3}, {}, MaxAttempts)'
    BY <1>1, <2>1, PhoneStep
  <2>3. QED
    BY <1>1, <1>3, <2>2 DEF PhonePartInv
<1>4. QED
  BY <1>2, <1>3

LEMMA KeysStep ==
  KeysInv /\ [KeysNext]_<<part, vars, moneyVars, uploadVars, phoneVars, accountVars, tabVars>> => KeysInv'
<1> SUFFICES ASSUME KeysInv,
                    [KeysNext]_<<part, vars, moneyVars, uploadVars, phoneVars, accountVars, tabVars>>
             PROVE  KeysInv'
  OBVIOUS
<1>1. /\ Money!Next \/ UNCHANGED moneyVars
      /\ Upload!Next \/ UNCHANGED uploadVars
      /\ Browser!Next \/ UNCHANGED tabVars
      /\ [Next]_vars /\ [AccountNext]_accountVars
  BY DEF KeysNext
<1>2. PhonePartInv'
  BY PhonePartStep, PhonePartRests DEF KeysInv
<1>3. RefundInv' /\ PaidInv' /\ AccountTypeOK'
  BY <1>1, RefundInvStep, PaidStep, TypeStep, CredentialsAreBounded DEF KeysInv
<1>4. MoneyInv' /\ UploadInv' /\ TabsInv'
  BY <1>1, MoneyStep, UploadStep, TabsStep DEF KeysInv
<1>5. QED
  BY <1>2, <1>3, <1>4 DEF KeysInv

LEMMA KeysAreInv == KeysSpec => []KeysInv
<1>1. KeysInit => KeysInv
  BY MoneyInit, UploadInit, TabsInit, PhonePartInit, RefundInvInit, PaidInit,
     AccountTypeInit DEF KeysInit, KeysInv
<1>2. QED
  BY <1>1, KeysStep, PTL DEF KeysSpec

(* Every part of the run keeps its types; among them, no more is booked as *)
(* refunded than was paid, and no code is tried too often.                 *)
THEOREM KeysTypes == KeysSpec => []KeysTypeOK
<1>1. KeysInv => KeysTypeOK
  <2> SUFFICES ASSUME KeysInv
               PROVE  KeysTypeOK
    OBVIOUS
  <2>1. Money!TypeOK /\ Upload!TypeOK /\ Browser!TypeOK /\ TypeOK /\ AccountTypeOK
    BY MoneyIsTyped, UploadIsTrue DEF KeysInv, TabsInv, RefundInv
  <2>2. part = "codes" => Phone({f3}, {s1, s2}, {k1}, 1)!TypeOK
    BY PhoneIsProven DEF KeysInv, PhonePartInv
  <2>3. part = "number" => Phone({f1, f2}, {s3}, {}, MaxAttempts)!TypeOK
    BY PhoneIsProven, PhoneBounds DEF KeysInv, PhonePartInv
  <2>4. QED
    BY <2>1, <2>2, <2>3 DEF KeysTypeOK
<1>2. QED
  BY <1>1, KeysAreInv, PTL

(* What is booked as refunded was paid back by the gateway, and so was the *)
(* refund that a replayed request is told of, in any order of requests,    *)
(* lost answers, retries and crashes.                                      *)
THEOREM KeysPayBack == KeysSpec => []RefundsArePaidBack
<1>1. KeysInv => RefundsArePaidBack
  BY PaidIsMade DEF KeysInv, RefundsArePaidBack
<1>2. QED
  BY <1>1, KeysAreInv, PTL

(* However requests for a code and signups cross, and whatever the service *)
(* that texts says: one code for a key, one account of the number, and     *)
(* that of a flow which has proved it with a code of its own.              *)
THEOREM KeysProve == KeysSpec => []NumberIsProvenOnce
<1>1. KeysInv => NumberIsProvenOnce
  <2> SUFFICES ASSUME KeysInv
               PROVE  NumberIsProvenOnce
    OBVIOUS
  <2>1. CASE part = "codes"
    BY <2>1, PhoneIsProven DEF KeysInv, PhonePartInv, NumberIsProvenOnce
  <2>2. CASE part # "codes"
    BY <2>2, PhoneIsProven, PhoneBounds DEF KeysInv, PhonePartInv, NumberIsProvenOnce
  <2>3. QED
    BY <2>1, <2>2
<1>2. QED
  BY <1>1, KeysAreInv, PTL

(* With Web Locks, and unless an answer was lost, the server takes no      *)
(* token of a living session for a stolen one and answers no race; and a   *)
(* tab that shows the session keeps a timer or waits for a refresh, unless *)
(* its timer went with an aborted one. In whatever order answers,          *)
(* messages, reloads and signs-out come.                                   *)
THEOREM KeysKeepTabs == KeysSpec => []TabsKeepSession
<1>1. KeysInv => TabsKeepSession
  BY TabsAreKept DEF KeysInv, TabsKeepSession
<1>2. QED
  BY <1>1, KeysAreInv, PTL

(* A key of either service is answered again only with what was executed   *)
(* under it: whatever Redis reports of its commands, whatever is lost of   *)
(* the row's writes and in whatever order they come, whoever crashes.      *)
THEOREM KeysReplay == KeysSpec => []ReplaysAreTrue
<1>1. KeysInv => ReplaysAreTrue
  BY MoneyIsTyped, UploadIsTrue DEF KeysInv, ReplaysAreTrue
<1>2. QED
  BY <1>1, KeysAreInv, PTL

(* An image that may be seen or used is stored, however uploads under one  *)
(* key, edits of the product and the sweep cross; but for an asset that    *)
(* expired while an edit attached it, and one whose key was completed by   *)
(* an update that reported an error.                                       *)
THEOREM KeysStore == KeysSpec => []OfferedIsStored
<1>1. KeysInv => OfferedIsStored
  BY UploadIsTrue DEF KeysInv, OfferedIsStored
<1>2. QED
  BY <1>1, KeysAreInv, PTL

(* An upload ends no reservation but its own.                              *)
THEOREM KeysOwn == KeysSpec => EntryIsItsOwners
<1>1. KeysInv /\ [KeysNext]_<<part, vars, moneyVars, uploadVars, phoneVars, accountVars, tabVars>>
        => [OwnersAlone]_(Upload!keyVars)
  <2> SUFFICES ASSUME KeysInv,
                      [KeysNext]_<<part, vars, moneyVars, uploadVars, phoneVars, accountVars, tabVars>>
               PROVE  [OwnersAlone]_(Upload!keyVars)
    OBVIOUS
  <2>1. Upload!Next \/ UNCHANGED uploadVars
    BY DEF KeysNext
  <2>2. QED
    BY <2>1, OwnersStep DEF KeysInv
<1>2. KeysSpec => [][OwnersAlone]_(Upload!keyVars)
  BY <1>1, KeysAreInv, PTL DEF KeysSpec
<1>3. QED
  BY <1>2 DEF EntryIsItsOwners, Upload!EntryIsItsOwners, OwnersAlone
=============================================================================
