----------------------------- MODULE TabSessions -----------------------------
(***************************************************************************)
(* The tabs of one browser and the session they share: auth-refresh.ts,    *)
(* session-refresh-provider.tsx and the retry after a 401 in api.ts.       *)
(*                                                                         *)
(* The tabs share the cookies and the envelope in localStorage; each has   *)
(* a mirror of the envelope in its sessionStorage, a timer for the next    *)
(* refresh and at most one refresh under way, which others wait for.  The  *)
(* server keeps what Sessions shows of it: a token is exchanged once, its  *)
(* direct parent is answered with a race for a short time, anything older  *)
(* ends the session.  A token is known by its age, the number of exchanges *)
(* since it was issued, where 2 stands for all that are older.             *)
(*                                                                         *)
(* A browser without Web Locks has a lock in localStorage that is read and *)
(* written in two steps and expires: it keeps nobody out for certain.      *)
(* Left out: the cooldown of 15 seconds after an outage, which only delays *)
(* requests, a page loaded a second time, and signing in again.            *)
(***************************************************************************)
EXTENDS Naturals, Sequences

CONSTANTS
  Tabs,
  WebLocks,      \* whether the browser has navigator.locks, or both
  MaxInbox       \* bound: messages a tab has not looked at

Gone == 3     \* no cookie

Older(age) == IF age < 2 THEN age + 1 ELSE age

VARIABLES
  webLocks,
  alive,       \* whether the server knows the session
  jar,         \* the age of the refresh token among the cookies, or Gone
  envelope,    \* the envelope in localStorage
  tab,         \* what each tab shows, its mirror and its timer
  op,          \* the refresh of each tab
  inbox,       \* messages of the channel on their way to each tab
  exit,        \* the logout
  harm         \* the one answer that may be lost, or refresh aborted

vars == <<webLocks, alive, jar, envelope, tab, op, inbox, exit, harm>>

NoOp == [at |-> "idle", mode |-> "first", held |-> Gone, answer |-> "none",
         waits |-> {}, call |-> FALSE]

Closed == [shown |-> "closed", timer |-> "off", mirror |-> "none"]

Init ==
  /\ webLocks \in WebLocks
  /\ alive = TRUE /\ jar = 0 /\ envelope = "stale"
  /\ tab = [t \in Tabs |-> Closed]
  /\ op = [t \in Tabs |-> NoOp]
  /\ inbox = [t \in Tabs |-> <<>>]
  /\ exit = "none" /\ harm = "none"

(* readSessionEnvelope: the mirror follows what is read, and stands in for *)
(* an envelope that is gone.                                               *)
Read(t) == IF envelope # "none" THEN envelope ELSE tab[t].mirror

Looked(t) == [tab[t] EXCEPT !.mirror = Read(t)]

(* A message goes to all subscribed channels, the tab's own included.  The *)
(* events of localStorage repeat it to the other tabs and are left out,    *)
(* but where an envelope is removed and no message sent.                   *)
TellTo(others, message) ==
  /\ \A t \in others : Len(inbox[t]) < MaxInbox
  /\ inbox' = [t \in Tabs |-> IF t \in others /\ tab[t] # Closed THEN Append(inbox[t], message)
                                                               ELSE inbox[t]]

Tell(message) == TellTo(Tabs, message)

(* What the provider shows after a refresh it has asked for.  Both an      *)
(* authenticated tab and one that met an outage set their timer.           *)
Applied(state, result) ==
  CASE result = "authenticated" -> [state EXCEPT !.shown = "session", !.timer = "set"]
    [] result = "outage" ->
         [state EXCEPT !.shown = IF state.mirror = "none" THEN "outage" ELSE "session", !.timer = "set"]
    [] OTHER -> [state EXCEPT !.shown = "nobody"]

(* A refresh is over: those who wait for it get its result.  A call whose  *)
(* answer was 401 shows nothing itself.                                    *)
Result(t, state, result) ==
  /\ tab' = [tab EXCEPT ![t] = IF op[t].waits # {} THEN Applied(state, result) ELSE state]
  /\ op' = [op EXCEPT ![t] = NoOp]

(* clearSessionEnvelope in the course of a refresh.                        *)
LoggedOut(t) ==
  /\ envelope' = "none"
  /\ Result(t, [tab[t] EXCEPT !.mirror = "none"], "logged_out")
  /\ Tell("cleared")

-----------------------------------------------------------------------------
(* ensureSession, asked by the timer, a page that starts, or a call whose  *)
(* answer was 401, for which nobody waits here.  Without a csrf cookie     *)
(* there is nothing to refresh.                                            *)
EnsureSession(t, waits, state) ==
  IF jar = Gone
  THEN /\ envelope' = "none"
       /\ IF envelope = "none" THEN UNCHANGED inbox ELSE TellTo(Tabs \ {t}, "cleared")
       /\ LET cleared == [state EXCEPT !.mirror = "none"]
          IN tab' = [tab EXCEPT ![t] = IF waits = {} THEN cleared ELSE Applied(cleared, "logged_out")]
       /\ UNCHANGED op
  ELSE /\ op' = [op EXCEPT ![t] = IF op[t].at = "idle"
                                  THEN [NoOp EXCEPT !.at = "lock", !.waits = waits, !.call = waits = {}]
                                  ELSE [op[t] EXCEPT !.waits = @ \cup waits]]
       /\ tab' = [tab EXCEPT ![t] = state]
       /\ UNCHANGED <<envelope, inbox>>

TimerFires(t) ==
  /\ tab[t].timer = "set"
  /\ EnsureSession(t, {"timer"}, [tab[t] EXCEPT !.timer = "off"])
  /\ UNCHANGED <<webLocks, alive, jar, exit, harm>>

(* A call is answered with 401: its access token has run out, or the       *)
(* session has ended.                                                      *)
CallRefused(t) ==
  /\ tab[t] # Closed
  /\ envelope # "fresh" \/ ~alive
  /\ EnsureSession(t, {}, tab[t])
  /\ UNCHANGED <<webLocks, alive, jar, exit, harm>>

(* A call is refused again after a refresh.                                *)
CallRefusedAgain(t) ==
  /\ tab[t] # Closed /\ ~alive /\ envelope = "fresh"
  /\ envelope' = "none"
  /\ tab' = [tab EXCEPT ![t].mirror = "none"]
  /\ Tell("cleared")
  /\ UNCHANGED <<webLocks, alive, jar, op, exit, harm>>

(* boot of the provider, when a page is loaded.                            *)
Boot(t) ==
  /\ tab[t] = Closed
  /\ IF jar # Gone /\ envelope = "fresh"
     THEN /\ tab' = [tab EXCEPT ![t] = Applied(Looked(t), "authenticated")]
          /\ UNCHANGED <<envelope, op, inbox>>
     ELSE EnsureSession(t, {"boot"}, [Looked(t) EXCEPT !.shown = "outage"])
  /\ UNCHANGED <<webLocks, alive, jar, exit, harm>>

-----------------------------------------------------------------------------
(* postRefresh: the request takes the cookies along.                       *)
Post(t) ==
  IF jar = Gone
  THEN LoggedOut(t)
  ELSE /\ op' = [op EXCEPT ![t] = [@ EXCEPT !.at = "sent", !.held = jar]]
       /\ tab' = [tab EXCEPT ![t] = Looked(t)]
       /\ UNCHANGED <<envelope, inbox>>

(* Mutant: nobody waits for the lock.                                      *)
MayEnter_Always(t) == TRUE

MayEnter(t) == webLocks => \A u \in Tabs : op[u].at \notin {"sent", "answered", "pause"}

(* withRefreshLock, and the look at the envelope that comes first unless a *)
(* refresh is forced, as all but that of a starting page are; the lock of  *)
(* a browser without Web Locks looks too, when it had to wait.             *)
Enter(t) ==
  /\ op[t].at = "lock" /\ MayEnter(t)
  /\ \E looks \in {"boot" \in op[t].waits, "boot" \in op[t].waits \/ ~webLocks} :
       IF looks /\ Read(t) = "fresh"
       THEN Result(t, Looked(t), "authenticated") /\ UNCHANGED <<envelope, inbox>>
       ELSE Post(t)
  /\ UNCHANGED <<webLocks, alive, jar, exit, harm>>

(* The answers that bring a token; of a corrupt one the tab reads no more. *)
Bring == {"ok", "corrupt"}

Answered(t, answer) ==
  [op[t] EXCEPT !.at = "answered", !.answer = answer, !.held = IF answer \in Bring THEN 0 ELSE Gone]

Aged(holder) == IF holder = Gone THEN Gone ELSE Older(holder)

(* AuthService.refresh.  With an exchange every other token gets older.    *)
Serve(t) ==
  /\ op[t].at = "sent"
  /\ \/ /\ alive /\ op[t].held = 0
        /\ \E answer \in Bring :
             op' = [u \in Tabs |-> IF u = t THEN Answered(t, answer) ELSE [op[u] EXCEPT !.held = Aged(@)]]
        /\ jar' = Aged(jar) /\ exit' = IF exit = "current" THEN "spent" ELSE exit
        /\ UNCHANGED alive
     \/ /\ alive /\ op[t].held = 1
        /\ op' = [op EXCEPT ![t] = Answered(t, "race")]
        /\ UNCHANGED <<alive, jar, exit>>
     \/ /\ ~alive \/ op[t].held # 0
        /\ alive' = FALSE
        /\ op' = [op EXCEPT ![t] = Answered(t, "invalid")]
        /\ UNCHANGED <<jar, exit>>
  /\ UNCHANGED <<webLocks, envelope, tab, inbox, harm>>

(* The request does not get as far: no connection or a 5xx, or another 4xx *)
(* than those of the session, as that of the rate limit, which the browser *)
(* takes for the end of the session.                                       *)
Refuse(t) ==
  /\ op[t].at = "sent"
  /\ \E answer \in {"outage", "denied"} : op' = [op EXCEPT ![t] = Answered(t, answer)]
  /\ UNCHANGED <<webLocks, alive, jar, envelope, tab, inbox, exit, harm>>

(* Bound: one of three incidents, a lost answer, an aborted refresh or a   *)
(* logout.                                                                 *)
Calm == exit = "none" /\ harm = "none"

(* An answer is lost on its way, cookies and all.                          *)
Lose(t) ==
  /\ op[t].at = "answered" /\ op[t].answer # "outage"
  /\ Calm
  /\ harm' = "lost"
  /\ op' = [op EXCEPT ![t] = Answered(t, "outage")]
  /\ UNCHANGED <<webLocks, alive, jar, envelope, tab, inbox, exit>>

(* The call that began a refresh goes away, and its signal, if it has one, *)
(* takes the refresh with it; those who wait for it get an exception, and  *)
(* a timer among them is not set again: it is lost.                        *)
Abort(t) ==
  /\ Calm
  /\ op[t].call /\ op[t].at \in {"sent", "answered", "pause"}
  /\ harm' = "aborted"
  /\ op' = [op EXCEPT ![t] = NoOp]
  /\ tab' = [tab EXCEPT ![t].timer = IF @ = "off" /\ "timer" \in op[t].waits THEN "lost" ELSE @]
  /\ UNCHANGED <<webLocks, alive, jar, envelope, inbox, exit>>

(* Mutant: after the second outage the tab is not told.                    *)
Outage_Silent(t) ==
  /\ op' = [op EXCEPT ![t] = IF @.mode = "first"
                             THEN [@ EXCEPT !.at = "pause", !.mode = "again", !.answer = "none"]
                             ELSE NoOp]
  /\ tab' = [tab EXCEPT ![t] = Looked(t)]

(* An outage: once more, and then those who wait are told.                 *)
Outage(t) ==
  IF op[t].mode = "first"
  THEN /\ op' = [op EXCEPT ![t] = [@ EXCEPT !.at = "pause", !.mode = "again", !.answer = "none"]]
       /\ tab' = [tab EXCEPT ![t] = Looked(t)]
  ELSE Result(t, Looked(t), "outage")

(* A race: another tab's envelope, or once more in half a second.          *)
Race(t) ==
  IF Read(t) = "fresh"
  THEN Result(t, Looked(t), "authenticated")
  ELSE /\ op' = [op EXCEPT ![t] = [@ EXCEPT !.at = "pause", !.mode = "race", !.answer = "none"]]
       /\ tab' = [tab EXCEPT ![t] = Looked(t)]

(* The answer arrives with its cookies, and performRefreshRecovery goes    *)
(* on. That a corrupt one is announced twice, by postRefresh too, is left  *)
(* out.                                                                    *)
Receive(t) ==
  /\ op[t].at = "answered"
  /\ jar' = CASE op[t].answer \in Bring -> op[t].held
              [] op[t].answer = "invalid" -> Gone
              [] OTHER -> jar
  /\ \/ /\ op[t].answer = "ok"
        /\ envelope' = "fresh"
        /\ Result(t, [tab[t] EXCEPT !.mirror = "fresh"], "authenticated")
        /\ Tell("refreshed")
     \/ /\ \/ op[t].answer \in {"invalid", "denied", "corrupt"}
           \/ op[t].answer = "race" /\ op[t].mode = "race"
        /\ LoggedOut(t)
     \/ /\ op[t].answer = "race" /\ op[t].mode # "race"
        /\ Race(t)
        /\ UNCHANGED <<envelope, inbox>>
     \/ /\ op[t].answer = "outage"
        /\ Outage(t)
        /\ UNCHANGED <<envelope, inbox>>
  /\ UNCHANGED <<webLocks, alive, exit, harm>>

TryAgain(t) ==
  /\ op[t].at = "pause"
  /\ Post(t)
  /\ UNCHANGED <<webLocks, alive, jar, exit, harm>>

-----------------------------------------------------------------------------
(* The provider hears of what a tab has done.                              *)
Hear(t) ==
  /\ inbox[t] # <<>>
  /\ inbox' = [inbox EXCEPT ![t] = Tail(@)]
  /\ tab' = [tab EXCEPT ![t] =
       IF Head(inbox[t]) = "cleared" THEN [@ EXCEPT !.shown = "nobody", !.timer = "off"]
       ELSE IF Read(t) = "none" THEN [@ EXCEPT !.shown = "nobody"]
       ELSE Applied(Looked(t), "authenticated")]
  /\ UNCHANGED <<webLocks, alive, jar, envelope, op, exit, harm>>

(* The user signs out: first in the tab, then at the server, which looks   *)
(* for the token the browser had then; its answer takes the cookies away.  *)
Logout(t) ==
  /\ tab[t].shown = "session" /\ Calm
  /\ envelope' = "none"
  /\ tab' = [tab EXCEPT ![t] = [shown |-> "nobody", timer |-> "off", mirror |-> "none"]]
  /\ Tell("cleared")
  /\ exit' = IF jar = 0 THEN "current" ELSE "spent"
  /\ UNCHANGED <<webLocks, alive, jar, op, harm>>

ServeLogout ==
  /\ exit \in {"current", "spent"}
  /\ alive' = (alive /\ exit # "current")
  /\ jar' = Gone
  /\ exit' = "done"
  /\ UNCHANGED <<webLocks, envelope, tab, op, inbox, harm>>

(* The session is revoked from another device.                             *)
RevokeElsewhere ==
  /\ alive
  /\ alive' = FALSE
  /\ UNCHANGED <<webLocks, jar, envelope, tab, op, inbox, exit, harm>>

(* Access tokens run out.                                                  *)
Worn(value) == IF value = "fresh" THEN "stale" ELSE value

EnvelopeAges ==
  /\ \/ envelope = "fresh"
     \/ envelope # "fresh" /\ \E t \in Tabs : tab[t].mirror = "fresh"
  /\ envelope' = Worn(envelope)
  /\ tab' = [t \in Tabs |-> [tab[t] EXCEPT !.mirror = Worn(@)]]
  /\ UNCHANGED <<webLocks, alive, jar, op, inbox, exit, harm>>

Next ==
  \/ \E t \in Tabs :
       \/ TimerFires(t) \/ CallRefused(t) \/ CallRefusedAgain(t) \/ Boot(t)
       \/ Enter(t) \/ Serve(t) \/ Refuse(t) \/ Receive(t) \/ TryAgain(t) \/ Lose(t) \/ Abort(t)
       \/ Hear(t) \/ Logout(t)
  \/ ServeLogout \/ RevokeElsewhere \/ EnvelopeAges

Spec == Init /\ [][Next]_vars

-----------------------------------------------------------------------------
Envelope == {"none", "fresh", "stale"}

(* Every variable has its type.                                            *)
TypeOK ==
  /\ webLocks \in WebLocks /\ alive \in BOOLEAN /\ jar \in 0..Gone /\ envelope \in Envelope
  /\ tab \in [Tabs -> [shown : {"closed", "session", "nobody", "outage"}, timer : {"off", "set", "lost"}, mirror : Envelope]]
  /\ op \in [Tabs -> [at : {"idle", "lock", "sent", "answered", "pause"},
                      mode : {"first", "again", "race"}, held : 0..Gone,
                      answer : {"none", "race", "invalid", "outage", "denied"} \cup Bring,
                      waits : SUBSET {"timer", "boot"}, call : BOOLEAN]]
  /\ inbox \in [Tabs -> Seq({"refreshed", "cleared"})]
  /\ exit \in {"none", "current", "spent", "done"} /\ harm \in {"none", "lost", "aborted"}

(* With Web Locks the tabs of a browser never present one token twice: the *)
(* server never answers a race, and takes a token for a stolen or ended    *)
(* one only when the session has ended.  The exception is a lost answer,   *)
(* which leaves all tabs with a token that is spent.  What this does not   *)
(* say: an answer that is no verdict on the token, as that of the rate     *)
(* limit, or a corrupt one, also ends what a tab shows, while the session  *)
(* lives.                                                                  *)
TabsDoNotRace ==
  webLocks /\ harm = "none" =>
    \A t \in Tabs : op[t].at = "answered" =>
      op[t].answer # "race" /\ (op[t].answer = "invalid" => ~alive)

(* A tab that shows the session will ask for it again, through races,      *)
(* outages and what the other tabs tell it, and so learns when it is over. *)
(* The exception is a tab whose timer waited for a refresh that a call     *)
(* took with it, until the tab hears of a later refresh.                   *)
ShownIsRenewed ==
  \A t \in Tabs : tab[t].shown = "session" => tab[t].timer # "off" \/ "timer" \in op[t].waits

(* The tabs of a browser do not take the session from each other, and none *)
(* that shows it forgets to renew it, with the exceptions named above.     *)
TabsKeepSession == TabsDoNotRace /\ ShownIsRenewed
=============================================================================
