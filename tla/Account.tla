------------------------------ MODULE Account -------------------------------
(***************************************************************************)
(* What opens a user's sessions, and what ends them: sign-in with a        *)
(* password or with Google, linking Google, the reset of a password by     *)
(* mail (auth.service.ts), and, from within a session, the change of the   *)
(* password, the end of other sessions and the deletion of the account     *)
(* (customer-account.service.ts).  Every handler reads, hashes a password  *)
(* or asks Google, and writes later; the row that it writes is the one     *)
(* user's of this module.                                                  *)
(*                                                                         *)
(* Passwords and links to Google are numbered in one sequence, 0 is none.  *)
(* A sign-in with the wrong password, the count of those, rate limits, the *)
(* signup by mail and the expiry of sessions are left out; whether a reset *)
(* or a deletion code has run out is left to chance.                       *)
(***************************************************************************)
EXTENDS Integers, FiniteSets

CONSTANTS
  Calls,           \* calls that may be under way at once
  Sessions,        \* bound: the sessions that are opened
  Resets,          \* bound: the resets that are asked for
  MaxCredential    \* bound: passwords and links the user has had

ASSUME CredentialsAreBounded == MaxCredential \in Nat \ {0}

VARIABLES
  user,        \* the users row, with its identity_providers row
  sessions,    \* the sessions rows
  resets,      \* the password_resets rows
  deletion,    \* whether an account_deletion_requests row is open
  issued,      \* the number of the last credential
  calls

accountVars == <<user, sessions, resets, deletion, issued, calls>>

NoSession == [state |-> "absent", credential |-> 0, late |-> FALSE]

Revoked == [NoSession EXCEPT !.state = "revoked"]

Idle == [at |-> "idle", credential |-> 0, session |-> {}, listed |-> {}, reset |-> {}, late |-> FALSE]

AccountInit ==
  /\ user = [status |-> "ACTIVE", password |-> 1, google |-> 0, named |-> TRUE]
  /\ sessions = [s \in Sessions |-> NoSession]
  /\ resets = [r \in Resets |-> [state |-> "absent", late |-> FALSE]]
  /\ deletion = FALSE
  /\ issued = 1
  /\ calls = [c \in Calls |-> Idle]

CallAt(c, point) == calls[c].at = point

Live == {s \in Sessions : sessions[s].state = "live"}

Revoke(gone) == [s \in Sessions |-> IF s \in gone THEN Revoked ELSE sessions[s]]

Set(c, call) == calls' = [calls EXCEPT ![c] = call]

(* A call that was under way when a credential was replaced is late from   *)
(* then on.                                                                *)
SetAndOvertake(c, call) ==
  calls' = [d \in Calls |-> IF d = c THEN call
                            ELSE IF CallAt(d, "idle") THEN calls[d] ELSE [calls[d] EXCEPT !.late = TRUE]]

Begin(c, call) == CallAt(c, "idle") /\ Set(c, call) /\ UNCHANGED <<user, sessions, resets, deletion, issued>>

Proceed(c, from, call) == CallAt(c, from) /\ Set(c, call) /\ UNCHANGED <<user, sessions, resets, deletion, issued>>

-----------------------------------------------------------------------------
(* login: the row is read by its mail address, which a deleted account has *)
(* no more, and the typed password compared with what was read.            *)
LoginRead(c) ==
  /\ user.status = "ACTIVE" /\ user.named /\ user.password # 0
  /\ Begin(c, [Idle EXCEPT !.at = "create", !.credential = user.password])

(* googleLogin of a linked identity, which no look at the user follows.    *)
GoogleFind(c) ==
  /\ user.google # 0
  /\ Begin(c, [Idle EXCEPT !.at = "mark", !.credential = user.google])

(* markLogin fails when the identity has been deleted.                     *)
GoogleMark(c) ==
  Proceed(c, "mark", IF user.google = calls[c].credential THEN [calls[c] EXCEPT !.at = "create"] ELSE Idle)

(* Another call is to change the password: it has listed the sessions that *)
(* it will end and has not committed yet.                                  *)
ChangingBut(c) == \E d \in Calls \ {c} : CallAt(d, "change")

(* SessionService.create, the end of every sign-in.                        *)
OpenSession(c) ==
  /\ CallAt(c, "create")
  /\ \E s \in Sessions :
       /\ sessions[s].state = "absent"
       /\ sessions' = [sessions EXCEPT ![s] = [state |-> "live", credential |-> calls[c].credential,
                                               late |-> calls[c].late \/ ChangingBut(c)]]
  /\ Set(c, Idle)
  /\ UNCHANGED <<user, resets, deletion, issued>>

(* linkGoogle asks for the password; of the user's status it takes no      *)
(* notice.                                                                 *)
LinkRead(c) ==
  /\ user.google = 0 /\ user.named /\ user.password # 0
  /\ Begin(c, [Idle EXCEPT !.at = "link"])

(* The unique indexes of identity_providers refuse a second link.          *)
LinkCommit(c) ==
  /\ CallAt(c, "link")
  /\ IF user.google # 0
     THEN Set(c, Idle) /\ UNCHANGED <<user, issued>>
     ELSE /\ issued < MaxCredential
          /\ issued' = issued + 1
          /\ user' = [user EXCEPT !.google = issued', !.status = "ACTIVE"]
          /\ Set(c, [calls[c] EXCEPT !.at = "create", !.credential = issued', !.late = FALSE])
  /\ UNCHANGED <<sessions, resets, deletion>>

-----------------------------------------------------------------------------
(* requestPasswordReset.                                                   *)
RequestRead(c) ==
  /\ user.status = "ACTIVE" /\ user.named /\ user.password # 0
  /\ Begin(c, [Idle EXCEPT !.at = "request"])

RequestCreate(c) ==
  /\ CallAt(c, "request")
  /\ \E r \in Resets :
       /\ resets[r].state = "absent"
       /\ resets' = [resets EXCEPT ![r] = [state |-> "open", late |-> calls[c].late]]
  /\ Set(c, Idle)
  /\ UNCHANGED <<user, sessions, deletion, issued>>

(* confirmPasswordReset looks at the reset before it hashes the password,  *)
(* and not again.                                                          *)
ConfirmRead(c) ==
  \E r \in Resets : resets[r].state = "open" /\ Begin(c, [Idle EXCEPT !.at = "confirm", !.reset = {r}])

(* Mutant: the transaction goes on when the reset is no longer there.      *)
ResetStands_Always(c) == TRUE

(* The update of the reset fails when the row was deleted.                 *)
ResetStands(c) == \A r \in calls[c].reset : resets[r].state # "deleted"

(* Mutant: the sessions stay.                                              *)
ConfirmCommit_KeepsSessions(c) ==
  /\ CallAt(c, "confirm")
  /\ IF ~ResetStands(c)
     THEN Set(c, Idle) /\ UNCHANGED <<user, sessions, resets, issued>>
     ELSE /\ issued < MaxCredential
          /\ issued' = issued + 1
          /\ user' = [user EXCEPT !.password = issued', !.status = "ACTIVE"]
          /\ resets' = [r \in Resets |-> IF r \in calls[c].reset THEN [resets[r] EXCEPT !.state = "used"]
                                         ELSE resets[r]]
          /\ UNCHANGED sessions
          /\ SetAndOvertake(c, Idle)
  /\ UNCHANGED deletion

(* One transaction: the new password, the reset used up, and every session *)
(* revoked that is not revoked yet.                                        *)
ConfirmCommit(c) ==
  /\ CallAt(c, "confirm")
  /\ IF ~ResetStands(c)
     THEN Set(c, Idle) /\ UNCHANGED <<user, sessions, resets, issued>>
     ELSE /\ issued < MaxCredential
          /\ issued' = issued + 1
          /\ user' = [user EXCEPT !.password = issued', !.status = "ACTIVE"]
          /\ resets' = [r \in Resets |-> IF r \in calls[c].reset THEN [resets[r] EXCEPT !.state = "used"]
                                         ELSE resets[r]]
          /\ sessions' = Revoke(Live)
          /\ SetAndOvertake(c, Idle)
  /\ UNCHANGED deletion

-----------------------------------------------------------------------------
(* What follows is asked for in a session, which AccessTokenGuard finds    *)
(* alive, and whose user it finds active, when the call begins.            *)
Guarded(s) == s \in Live /\ user.status = "ACTIVE"

(* changePassword compares the old password, and then lists the sessions   *)
(* that will end, all but its own.                                         *)
ChangeRead(c, s) ==
  /\ Guarded(s) /\ user.password # 0
  /\ Begin(c, [Idle EXCEPT !.at = "list", !.session = {s}])

ChangeList(c) ==
  Proceed(c, "list", [calls[c] EXCEPT !.at = "change", !.listed = Live \ calls[c].session])

(* The transaction writes the password and ends the listed sessions.  The  *)
(* session that asked goes on with the new password.                       *)
ChangeCommit(c) ==
  /\ CallAt(c, "change") /\ issued < MaxCredential
  /\ issued' = issued + 1
  /\ user' = [user EXCEPT !.password = issued']
  /\ sessions' = [s \in Sessions |->
       IF s \in calls[c].listed THEN Revoked
       ELSE IF s \in calls[c].session \cap Live
            THEN [state |-> "live", credential |-> issued', late |-> ChangingBut(c)]
       ELSE sessions[s]]
  /\ SetAndOvertake(c, Idle)
  /\ UNCHANGED <<resets, deletion>>

(* revokeOtherSessions, a list and an update.                              *)
OthersList(c, s) ==
  Guarded(s) /\ Begin(c, [Idle EXCEPT !.at = "others", !.session = {s}, !.listed = Live \ {s}])

OthersRevoke(c) ==
  /\ CallAt(c, "others")
  /\ sessions' = Revoke(calls[c].listed)
  /\ Set(c, Idle)
  /\ UNCHANGED <<user, resets, deletion, issued>>

(* revokeSession, of the own session or another one; a logout ends its own *)
(* as well.                                                                *)
RevokeOne(s) ==
  /\ s \in Live
  /\ sessions' = Revoke({s})
  /\ UNCHANGED <<user, resets, deletion, issued, calls>>

(* requestDeleteAccount.                                                   *)
RequestDelete(s) ==
  /\ Guarded(s)
  /\ deletion' = TRUE
  /\ UNCHANGED <<user, sessions, resets, issued, calls>>

(* deleteAccount finds the request, and the code or the password right.    *)
DeleteRead(c, s) ==
  Guarded(s) /\ deletion /\ Begin(c, [Idle EXCEPT !.at = "delete"])

(* One transaction.  The mail address is replaced, so that nobody finds    *)
(* the row by the old one.                                                 *)
DeleteCommit(c) ==
  /\ CallAt(c, "delete")
  /\ user' = [status |-> "DELETED", password |-> 0, google |-> 0, named |-> FALSE]
  /\ resets' = [r \in Resets |-> IF resets[r].state = "absent" THEN resets[r]
                                 ELSE [state |-> "deleted", late |-> FALSE]]
  /\ sessions' = Revoke(Live)
  /\ deletion' = FALSE
  /\ SetAndOvertake(c, Idle)
  /\ UNCHANGED issued

(* A call ends early: a statement fails or the process stops.              *)
Fail(c) ==
  /\ ~CallAt(c, "idle")
  /\ Set(c, Idle)
  /\ UNCHANGED <<user, sessions, resets, deletion, issued>>

Go(c) ==
  \/ LoginRead(c) \/ GoogleFind(c) \/ GoogleMark(c) \/ OpenSession(c)
  \/ LinkRead(c) \/ LinkCommit(c)
  \/ RequestRead(c) \/ RequestCreate(c) \/ ConfirmRead(c) \/ ConfirmCommit(c)
  \/ ChangeList(c) \/ ChangeCommit(c) \/ OthersRevoke(c) \/ DeleteCommit(c) \/ Fail(c)

Ask(c, s) == ChangeRead(c, s) \/ OthersList(c, s) \/ DeleteRead(c, s)

AccountNext ==
  \/ \E c \in Calls : Go(c) \/ \E s \in Sessions : Ask(c, s)
  \/ \E s \in Sessions : RevokeOne(s) \/ RequestDelete(s)

AccountSpec == AccountInit /\ [][AccountNext]_accountVars

-----------------------------------------------------------------------------
Credential == 0..MaxCredential

CallPoint == {"idle", "mark", "create", "link", "request", "confirm", "list", "change", "others", "delete"}

(* Every variable has its type.                                            *)
AccountTypeOK ==
  /\ user \in [status : {"ACTIVE", "DELETED"}, password : Credential, google : Credential, named : BOOLEAN]
  /\ sessions \in [Sessions -> [state : {"absent", "live", "revoked"}, credential : Credential, late : BOOLEAN]]
  /\ resets \in [Resets -> [state : {"absent", "open", "used", "deleted"}, late : BOOLEAN]]
  /\ deletion \in BOOLEAN
  /\ issued \in Credential
  /\ calls \in [Calls -> [at : CallPoint, credential : Credential, session : SUBSET Sessions,
                          listed : SUBSET Sessions, reset : SUBSET Resets, late : BOOLEAN]]

(* A session lives on without a password or a link that is still the       *)
(* user's only when the sign-in that opened it crossed the very change     *)
(* that took the credential away: a replaced password, a reset or a        *)
(* deletion ends every other one, however resets, changes and sign-ins     *)
(* cross.                                                                  *)
EndedCredentialsEnd ==
  \A s \in Live : sessions[s].late \/ sessions[s].credential \in {user.password, user.google} \ {0}

(* A deleted account becomes active again only by a link to Google or a    *)
(* reset that had been begun before the deletion and crossed it; a reset   *)
(* mailed before is worth nothing afterwards.                              *)
DeletedStaysDeleted ==
  [][user.status = "DELETED" /\ user'.status # "DELETED" =>
       \E c \in Calls :
         \/ CallAt(c, "link") /\ calls[c].late
         \/ CallAt(c, "confirm") /\ \A r \in calls[c].reset : resets[r].late]_accountVars
=============================================================================
