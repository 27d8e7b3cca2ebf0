--------------------------- MODULE PaymentWorkers ---------------------------
(***************************************************************************)
(* What drives payments without a customer: gateway webhooks               *)
(* (webhook.service.ts), reconciliation runs (reconciliation.service.ts)   *)
(* and the payment worker of every server process                          *)
(* (payment-workers.service.ts).                                           *)
(*                                                                         *)
(* An event is processed by the request that has received it and by the    *)
(* ticks of the workers; reading the event, claiming it, asking the        *)
(* gateway and writing the outcome are separate steps.  A tick reads the   *)
(* list of due runs, works through it, reads the list of due events and    *)
(* works through that.  What verifying a payment does to the payment is    *)
(* OrderPayments' matter: here it answers or throws.                       *)
(***************************************************************************)
EXTENDS Integers, FiniteSets

CONSTANTS
  Workers,          \* server processes that tick
  CashfreeEvents, PhonepeEvents,
  CashfreeRuns, PhonepeRuns,   \* reconciliation runs, by the payment's provider
  DlqAt,            \* attempts after which an event or a run is given up (8)
  MaxAttempts,      \* bound on the attempts counters
  MaxFaults,        \* bound on crashes and on ticks that outlast their lock of 25 seconds
  VerifyMayBeSlow   \* whether a verification may outlast its claim of 2 minutes

(* The bound on the counters does not hide the giving up.                  *)
ASSUME WorkerBounds ==
  /\ DlqAt \in Nat \ {0} /\ MaxAttempts \in Nat /\ MaxFaults \in Nat
  /\ DlqAt <= MaxAttempts
  /\ VerifyMayBeSlow \in BOOLEAN

Events == CashfreeEvents \cup PhonepeEvents

Runs == CashfreeRuns \cup PhonepeRuns

(* Processes, events and runs are told apart, and "none" and "free" are    *)
(* none of them.                                                           *)
ASSUME WorkerNames ==
  /\ Workers \cap Events = {}
  /\ "none" \notin Events \cup Runs
  /\ "free" \notin Workers

(* Each event has the job that its receiving request leaves running.       *)
Jobs == Workers \cup Events

VARIABLES
  events,    \* webhook events; due: nextRunAt has come, stale: the claim is 2 minutes old
  runs,      \* reconciliation_runs; due: nextCheckAt has come
  lock,      \* lock:payment_worker in Redis: its holder, or "free"
  jobs,      \* what each worker and each receiving request is doing
  crashes,   \* how many processes have stopped at work
  overruns   \* how many ticks have outlasted their lock

vars == <<events, runs, lock, jobs, crashes, overruns>>

Idle == [at |-> "idle", runs |-> {}, run |-> "none", seen |-> [r \in Runs |-> 0],
         events |-> {}, event |-> "none", attempts |-> 0]

Init ==
  /\ events = [e \in Events |-> [status |-> "NONE", attempts |-> 0, due |-> FALSE, stale |-> FALSE]]
  /\ runs = [r \in Runs |-> [status |-> "PENDING", attempts |-> 0, due |-> TRUE]]
  /\ lock = "free"
  /\ jobs = [j \in Jobs |-> Idle]
  /\ crashes = 0
  /\ overruns = 0

At(j, point) == jobs[j].at = point

Set(j, job) == jobs' = [jobs EXCEPT ![j] = job]

Goto(j, point) == Set(j, [jobs[j] EXCEPT !.at = point])

FaultLeft == crashes + overruns < MaxFaults

Bump(n) == IF n < MaxAttempts THEN n + 1 ELSE n

-----------------------------------------------------------------------------
(* Mutant: the event is processed before it is stored.                     *)
Ingest_Unstored(e) ==
  /\ events[e].status = "NONE" /\ At(e, "idle")
  /\ Set(e, [Idle EXCEPT !.at = "read", !.event = e])
  /\ UNCHANGED <<events, runs, lock, crashes, overruns>>

(* ingestCashfree and ingestPhonepe: a new event is stored, and processed  *)
(* by the same process after the answer.  A repeated one (the dedupe key   *)
(* is unique) changes nothing.                                             *)
Ingest(e) ==
  /\ events[e].status = "NONE"
  /\ events' = [events EXCEPT ![e].status = "RECEIVED", ![e].due = TRUE]
  /\ Set(e, [Idle EXCEPT !.at = "read", !.event = e])
  /\ UNCHANGED <<runs, lock, crashes, overruns>>

(* Where a job goes on: a worker to the next event of its list.            *)
NextEvent(j) == IF j \in Workers THEN [jobs[j] EXCEPT !.at = "events", !.event = "none"] ELSE Idle

ReadEvent(j) ==
  /\ At(j, "read")
  /\ LET e == jobs[j].event
     IN IF events[e].status \in {"PROCESSED", "DLQ"}
        THEN Set(j, NextEvent(j))
        ELSE Set(j, [jobs[j] EXCEPT !.at = "claim", !.attempts = events[e].attempts])
  /\ UNCHANGED <<events, runs, lock, crashes, overruns>>

(* Mutant: an event is claimed whatever has become of it.                  *)
Claimable_Any(e) == TRUE

Claimable(e) ==
  \/ events[e].status \in {"RECEIVED", "FAILED"}
  \/ events[e].status = "PROCESSING" /\ events[e].stale

ClaimEvent(j) ==
  /\ At(j, "claim")
  /\ LET e == jobs[j].event
     IN IF Claimable(e)
        THEN /\ events' = [events EXCEPT ![e] = [status |-> "PROCESSING",
                             attempts |-> Bump(@.attempts), due |-> FALSE, stale |-> FALSE]]
             /\ Goto(j, "verify")
        ELSE /\ Set(j, NextEvent(j))
             /\ UNCHANGED events
  /\ UNCHANGED <<runs, lock, crashes, overruns>>

(* verifyPaymentWithGateway or verifyPhonepePayment returns or throws.     *)
VerifyEvent(j) ==
  /\ At(j, "verify")
  /\ \/ Goto(j, "processed")
     \/ Goto(j, "failed")
  /\ UNCHANGED <<events, runs, lock, crashes, overruns>>

EventProcessed(j) ==
  /\ At(j, "processed")
  /\ events' = [events EXCEPT ![jobs[j].event].status = "PROCESSED", ![jobs[j].event].stale = FALSE]
  /\ Set(j, NextEvent(j))
  /\ UNCHANGED <<runs, lock, crashes, overruns>>

(* Mutant: the attempt is counted twice.                                   *)
Tried_Twice(attempts) == attempts + 2

(* The attempts that a failure counts: those read before the claim, and    *)
(* this one.                                                               *)
Tried(attempts) == attempts + 1

EventFailed(j) ==
  /\ At(j, "failed")
  /\ events' = [events EXCEPT ![jobs[j].event] =
       [@ EXCEPT !.status = IF Tried(jobs[j].attempts) >= DlqAt THEN "DLQ" ELSE "FAILED",
                 !.due = FALSE, !.stale = FALSE]]
  /\ Set(j, NextEvent(j))
  /\ UNCHANGED <<runs, lock, crashes, overruns>>

-----------------------------------------------------------------------------
(* A tick: SET NX of the lock, expiry of reservations (Inventory's         *)
(* ExpireReservation), and the list of due runs.                           *)
Tick(w) ==
  /\ At(w, "idle")
  /\ lock = "free"
  /\ lock' = w
  /\ Set(w, [Idle EXCEPT !.at = "runs",
               !.runs = {r \in Runs : runs[r].status \in {"PENDING", "FAILED"} /\ runs[r].due},
               !.seen = [r \in Runs |-> runs[r].attempts]])
  /\ UNCHANGED <<events, runs, crashes, overruns>>

(* The lock is never given back, it ends after 25 seconds: when the tick   *)
(* is over, or while it is still at work.                                  *)
LockEnds ==
  /\ lock # "free"
  /\ lock' = "free"
  /\ UNCHANGED <<events, runs, jobs, crashes>>
  /\ \/ At(lock, "idle") /\ UNCHANGED overruns
     \/ ~At(lock, "idle") /\ FaultLeft /\ overruns' = overruns + 1

StartRun(w, r) ==
  /\ At(w, "runs") /\ r \in jobs[w].runs
  /\ runs' = [runs EXCEPT ![r].status = "IN_PROGRESS", ![r].attempts = Bump(@)]
  /\ Set(w, [jobs[w] EXCEPT !.at = "verify_run", !.run = r, !.runs = @ \ {r}])
  /\ UNCHANGED <<events, lock, crashes, overruns>>

(* A PhonePe payment has no Cashfree order: its verification always        *)
(* throws.                                                                 *)
VerifyRun(w) ==
  /\ At(w, "verify_run")
  /\ \/ jobs[w].run \in CashfreeRuns /\ \/ Goto(w, "settled")
                                        \/ Goto(w, "unsettled")
     \/ Goto(w, "threw")
  /\ UNCHANGED <<events, runs, lock, crashes, overruns>>

(* Mutant: a run that has thrown is left in progress.                      *)
RunOutcome_Forgotten(w) ==
  CASE At(w, "settled")   -> "RESOLVED"
    [] At(w, "unsettled") -> "PENDING"
    [] At(w, "threw")     -> "IN_PROGRESS"

RunOutcome(w) ==
  CASE At(w, "settled")   -> "RESOLVED"
    [] At(w, "unsettled") -> "PENDING"
    [] At(w, "threw")     -> IF Tried(jobs[w].seen[jobs[w].run]) >= DlqAt THEN "DLQ" ELSE "FAILED"

RunEnds(w) ==
  /\ jobs[w].at \in {"settled", "unsettled", "threw"}
  /\ runs' = [runs EXCEPT ![jobs[w].run].status = RunOutcome(w), ![jobs[w].run].due = FALSE]
  /\ Set(w, [jobs[w] EXCEPT !.at = "runs", !.run = "none"])
  /\ UNCHANGED <<events, lock, crashes, overruns>>

(* Mutant: an event whose claim is stale is not due.                       *)
DueEvents_NotStale ==
  {e \in CashfreeEvents : events[e].status \in {"RECEIVED", "FAILED"} /\ events[e].due}

(* The worker reads webhook_events, where Cashfree's events are; PhonePe's *)
(* are in a table of their own.                                            *)
DueEvents ==
  {e \in CashfreeEvents : \/ events[e].status \in {"RECEIVED", "FAILED"} /\ events[e].due
                          \/ events[e].status = "PROCESSING" /\ events[e].stale}

ListEvents(w) ==
  /\ At(w, "runs") /\ jobs[w].runs = {}
  /\ Set(w, [jobs[w] EXCEPT !.at = "events", !.events = DueEvents])
  /\ UNCHANGED <<events, runs, lock, crashes, overruns>>

TakeEvent(w) ==
  /\ At(w, "events")
  /\ \/ \E e \in jobs[w].events :
          Set(w, [jobs[w] EXCEPT !.at = "read", !.event = e, !.events = @ \ {e}])
     \/ jobs[w].events = {} /\ Set(w, Idle)
  /\ UNCHANGED <<events, runs, lock, crashes, overruns>>

(* The process stops, or an error ends the tick.                           *)
Crash(j) ==
  /\ FaultLeft
  /\ ~At(j, "idle")
  /\ crashes' = crashes + 1
  /\ Set(j, Idle)
  /\ UNCHANGED <<events, runs, lock, overruns>>

(* Time passes: the next try comes, and a claim gets old.                  *)
EventComesDue(e) ==
  /\ events[e].status \in {"RECEIVED", "FAILED"} /\ ~events[e].due
  /\ events' = [events EXCEPT ![e].due = TRUE]
  /\ UNCHANGED <<runs, lock, jobs, crashes, overruns>>

Verifying(j, e) == jobs[j].event = e /\ jobs[j].at \in {"verify", "processed", "failed"}

ClaimGetsOld(e) ==
  /\ events[e].status = "PROCESSING" /\ ~events[e].stale
  /\ VerifyMayBeSlow \/ ~ \E j \in Jobs : Verifying(j, e)
  /\ events' = [events EXCEPT ![e].stale = TRUE]
  /\ UNCHANGED <<runs, lock, jobs, crashes, overruns>>

RunComesDue(r) ==
  /\ runs[r].status \in {"PENDING", "FAILED"} /\ ~runs[r].due
  /\ runs' = [runs EXCEPT ![r].due = TRUE]
  /\ UNCHANGED <<events, lock, jobs, crashes, overruns>>

JobStep(j) ==
  \/ ReadEvent(j)
  \/ ClaimEvent(j)
  \/ VerifyEvent(j)
  \/ EventProcessed(j)
  \/ EventFailed(j)

WorkerStep(w) ==
  \/ \E r \in Runs : StartRun(w, r)
  \/ VerifyRun(w)
  \/ RunEnds(w)
  \/ ListEvents(w)
  \/ TakeEvent(w)

TimePasses ==
  \/ LockEnds
  \/ \E e \in Events : EventComesDue(e) \/ ClaimGetsOld(e)
  \/ \E r \in Runs : RunComesDue(r)

Next ==
  \/ \E e \in Events : Ingest(e)
  \/ \E j \in Jobs : JobStep(j) \/ Crash(j)
  \/ \E w \in Workers : Tick(w) \/ WorkerStep(w)
  \/ TimePasses

Spec == Init /\ [][Next]_vars

(* Fairness: timers fire and every job goes on until it ends (setInterval, *)
(* awaited promises), time passes, and a payment that is asked for again   *)
(* and again is settled at last.                                           *)
LiveSpec ==
  /\ Spec
  /\ \A j \in Jobs : WF_vars(JobStep(j))
  /\ \A w \in Workers : WF_vars(Tick(w)) /\ WF_vars(WorkerStep(w))
  /\ WF_vars(LockEnds /\ UNCHANGED overruns)
  /\ \A e \in Events : WF_vars(EventComesDue(e)) /\ WF_vars(ClaimGetsOld(e))
  /\ \A r \in Runs : WF_vars(RunComesDue(r))
  /\ \A w \in Workers, r \in CashfreeRuns :
       SF_vars(VerifyRun(w) /\ jobs[w].run = r /\ jobs'[w].at # "unsettled")

-----------------------------------------------------------------------------
EventStatus == {"NONE", "RECEIVED", "PROCESSING", "PROCESSED", "FAILED", "DLQ"}

Point == {"idle", "runs", "verify_run", "settled", "unsettled", "threw",
          "events", "read", "claim", "verify", "processed", "failed"}

Job == [at : Point, runs : SUBSET Runs, run : Runs \cup {"none"},
        seen : [Runs -> 0 .. MaxAttempts], events : SUBSET Events,
        event : Events \cup {"none"}, attempts : 0 .. MaxAttempts]

(* The variables have their types, only a claimed event gets stale, and    *)
(* jobs work on stored events only.                                        *)
TypeOK ==
  /\ events \in [Events -> [status : EventStatus, attempts : 0 .. MaxAttempts,
                            due : BOOLEAN, stale : BOOLEAN]]
  /\ \A e \in Events : events[e].stale => events[e].status = "PROCESSING"
  /\ runs \in [Runs -> [status : {"PENDING", "IN_PROGRESS", "RESOLVED", "FAILED", "DLQ"},
                        attempts : 0 .. MaxAttempts, due : BOOLEAN]]
  /\ lock \in Workers \cup {"free"}
  /\ jobs \in [Jobs -> Job]
  /\ \A j \in Jobs : jobs[j].event \in Events => events[jobs[j].event].status # "NONE"
  /\ crashes \in Nat /\ overruns \in Nat /\ crashes + overruns <= MaxFaults

(* As long as no verification outlasts its claim, an event is verified by  *)
(* one job at a time, be it the receiving request or any worker.           *)
OneVerifier ==
  \A e \in Events : \A i, j \in Jobs : Verifying(i, e) /\ Verifying(j, e) => i = j

(* ... and what has been processed or given up is not touched again.       *)
OutcomeIsFinal ==
  [][ \A e \in Events : events[e].status \in {"PROCESSED", "DLQ"} =>
        events'[e].status = events[e].status ]_vars

(* An event or a run is not given up before it has been tried DlqAt times, *)
(* although the tries are counted from a row read before the claim.        *)
GivenUpAfterEnough ==
  /\ \A e \in Events : events[e].status = "DLQ" => events[e].attempts >= DlqAt
  /\ \A r \in Runs : runs[r].status = "DLQ" => runs[r].attempts >= DlqAt

(* One job at a time tries an event, and often enough before giving it up. *)
EventsAreTriedInTurn == OneVerifier /\ GivenUpAfterEnough

(* Every Cashfree event that is received is processed or given up, whoever *)
(* crashes on the way.                                                     *)
CashfreeEventSettles ==
  \A e \in CashfreeEvents :
    events[e].status = "RECEIVED" ~> events[e].status \in {"PROCESSED", "DLQ"}

(* The same of a PhonePe event, which is given the same statuses, a time   *)
(* of its next try and an index to find it by.                             *)
PhonepeEventSettles ==
  \A e \in PhonepeEvents :
    events[e].status = "RECEIVED" ~> events[e].status \in {"PROCESSED", "DLQ"}

(* Every run is resolved or given up, unless a process has crashed: a run  *)
(* that was in progress then is not taken up again.                        *)
RunSettles ==
  \A r \in Runs : <>(runs[r].status \in {"RESOLVED", "DLQ"} \/ crashes > 0)

(* No Cashfree event that was received is left lying, nor a run whose      *)
(* process has not stopped.                                                *)
WorkSettles == CashfreeEventSettles /\ RunSettles

=============================================================================
