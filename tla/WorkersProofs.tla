---------------------------- MODULE WorkersProofs ----------------------------
(***************************************************************************)
(* Proofs about PaymentWorkers, for any number of server processes, events *)
(* and runs.                                                               *)
(***************************************************************************)
EXTENDS PaymentWorkers, TLAPS

(* A try whose count was read as n before it was counted is in the counter *)
(* (unless the counter is at its bound).                                   *)
Counted(n, attempts) == n + 1 <= attempts \/ attempts = MaxAttempts

HasEvent == {"read", "claim", "verify", "processed", "failed"}

HasRun == {"verify_run", "settled", "unsettled", "threw"}

Claims(job) == job.at \in {"verify", "processed", "failed"}

(* What a job knows of the rows, by the point it has come to: the counts   *)
(* it has read are no higher than the counters, and lower once it has      *)
(* claimed the event or begun the run; and its claim holds as long as no   *)
(* verification outlasts a claim.                                          *)
FitsEvent(job, ev) ==
  /\ job.at \in HasEvent => job.event # "none"
  /\ job.event # "none" => ev[job.event].status # "NONE"
  /\ \A e \in job.events : ev[e].status # "NONE"
  /\ job.at = "claim" => job.attempts <= ev[job.event].attempts
  /\ Claims(job) =>
       /\ Counted(job.attempts, ev[job.event].attempts)
       /\ \/ VerifyMayBeSlow
          \/ ev[job.event].status = "PROCESSING" /\ ~ev[job.event].stale

FitsRun(job, rn) ==
  /\ \A r \in Runs : job.seen[r] <= rn[r].attempts
  /\ job.at \in HasRun => /\ job.run # "none"
                          /\ Counted(job.seen[job.run], rn[job.run].attempts)

JobsFit == \A j \in Jobs : FitsEvent(jobs[j], events) /\ FitsRun(jobs[j], runs)

(* One job claims an event at a time.                                      *)
ClaimsApart ==
  \A i, j \in Jobs : Claims(jobs[i]) /\ Claims(jobs[j]) /\ jobs[i].event = jobs[j].event => i = j

WorkersInv ==
  /\ TypeOK
  /\ JobsFit
  /\ VerifyMayBeSlow \/ ClaimsApart
  /\ GivenUpAfterEnough

EventRow == [status : EventStatus, attempts : 0 .. MaxAttempts, due : BOOLEAN, stale : BOOLEAN]

RunRow == [status : {"PENDING", "IN_PROGRESS", "RESOLVED", "FAILED", "DLQ"},
           attempts : 0 .. MaxAttempts, due : BOOLEAN]

-----------------------------------------------------------------------------
LEMMA BumpCounts ==
  ASSUME NEW n \in 0 .. MaxAttempts
  PROVE  Bump(n) \in 0 .. MaxAttempts /\ n <= Bump(n) /\ Counted(n, Bump(n))
BY WorkerBounds DEF Bump, Counted

LEMMA CountedGrows ==
  ASSUME NEW n \in 0 .. MaxAttempts, NEW m \in 0 .. MaxAttempts, NEW a \in 0 .. MaxAttempts,
         Counted(n, m), m <= a
  PROVE  Counted(n, a)
BY WorkerBounds DEF Counted

(* What a try was counted from is enough to give up by.                    *)
LEMMA CountedIsEnough ==
  ASSUME NEW n \in 0 .. MaxAttempts, NEW m \in 0 .. MaxAttempts,
         Counted(n, m), Tried(n) >= DlqAt
  PROVE  m >= DlqAt
BY WorkerBounds DEF Counted, Tried

LEMMA IdleFits ==
  ASSUME WorkersInv, NEW ev, NEW rn \in [Runs -> RunRow]
  PROVE  Idle \in Job /\ FitsEvent(Idle, ev) /\ FitsRun(Idle, rn)
<1>1. Idle \in Job
  BY WorkerBounds DEF Idle, Job, Point
<1>2. FitsEvent(Idle, ev)
  BY DEF FitsEvent, Idle, HasEvent, Claims
<1>3. FitsRun(Idle, rn)
  BY DEF FitsRun, Idle, HasRun, RunRow
<1> QED
  BY <1>1, <1>2, <1>3

(* What a step may do to the rows, and must leave to the other jobs.       *)
EventsGrow ==
  /\ events' \in [Events -> EventRow]
  /\ \A e \in Events : /\ events'[e].stale => events'[e].status = "PROCESSING"
                       /\ events'[e].status = "DLQ" => events'[e].attempts >= DlqAt
                       /\ events[e].attempts <= events'[e].attempts
                       /\ events[e].status # "NONE" => events'[e].status # "NONE"

RunsGrow ==
  /\ runs' \in [Runs -> RunRow]
  /\ \A r \in Runs : /\ runs[r].attempts <= runs'[r].attempts
                     /\ runs'[r].status = "DLQ" => runs'[r].attempts >= DlqAt

OtherClaimsHold(j, job) ==
  VerifyMayBeSlow \/
    \A i \in Jobs \ {j} : Claims(jobs[i]) =>
      /\ events'[jobs[i].event].status = "PROCESSING" /\ ~events'[jobs[i].event].stale
      /\ Claims(job) => jobs[i].event # job.event

Clock ==
  lock \in Workers \cup {"free"} /\ crashes \in Nat /\ overruns \in Nat /\ crashes + overruns <= MaxFaults

LEMMA WhatHolds ==
  ASSUME WorkersInv
  PROVE  /\ events \in [Events -> EventRow] /\ runs \in [Runs -> RunRow] /\ Clock
         /\ \A j \in Jobs : jobs[j] \in Job /\ FitsEvent(jobs[j], events) /\ FitsRun(jobs[j], runs)
         /\ events' = events => EventsGrow
         /\ runs' = runs => RunsGrow
BY WorkerBounds
   DEF WorkersInv, TypeOK, JobsFit, EventRow, RunRow, Clock, EventsGrow, RunsGrow, GivenUpAfterEnough

(* A job that was fitting stays so when the rows only grow.                *)
LEMMA FitsGrows ==
  ASSUME WorkersInv, NEW j \in Jobs, EventsGrow, RunsGrow,
         Claims(jobs[j]) =>
           \/ VerifyMayBeSlow
           \/ events'[jobs[j].event].status = "PROCESSING" /\ ~events'[jobs[j].event].stale
  PROVE  FitsEvent(jobs[j], events') /\ FitsRun(jobs[j], runs')
<1>1. /\ jobs[j] \in Job /\ FitsEvent(jobs[j], events) /\ FitsRun(jobs[j], runs)
      /\ events \in [Events -> EventRow] /\ runs \in [Runs -> RunRow]
  BY WhatHolds
<1> USE DEF EventsGrow, RunsGrow
<1>2. FitsEvent(jobs[j], events')
  <2>1. jobs[j].at \in HasEvent => jobs[j].event \in Events
    BY <1>1 DEF Job, FitsEvent
  <2>2. jobs[j].event # "none" => events'[jobs[j].event].status # "NONE"
    BY <1>1 DEF Job, FitsEvent
  <2>3. \A e \in jobs[j].events : events'[e].status # "NONE"
    BY <1>1 DEF Job, FitsEvent
  <2>4. jobs[j].at = "claim" => jobs[j].attempts <= events'[jobs[j].event].attempts
    BY <1>1, <2>1, WorkerBounds DEF Job, FitsEvent, HasEvent, EventRow
  <2>5. Claims(jobs[j]) => Counted(jobs[j].attempts, events'[jobs[j].event].attempts)
    BY <1>1, <2>1, CountedGrows DEF Job, FitsEvent, HasEvent, EventRow, Claims
  <2> QED
    BY <1>1, <2>2, <2>3, <2>4, <2>5 DEF FitsEvent
<1>3. FitsRun(jobs[j], runs')
  <2>1. \A r \in Runs : jobs[j].seen[r] <= runs'[r].attempts
    BY <1>1, WorkerBounds DEF Job, FitsRun, RunRow
  <2>2. jobs[j].at \in HasRun => Counted(jobs[j].seen[jobs[j].run], runs'[jobs[j].run].attempts)
    <3>1. SUFFICES ASSUME jobs[j].at \in HasRun
                   PROVE  Counted(jobs[j].seen[jobs[j].run], runs'[jobs[j].run].attempts)
      OBVIOUS
    <3>2. jobs[j].run \in Runs /\ jobs[j].seen[jobs[j].run] \in 0 .. MaxAttempts
      BY <1>1, <3>1 DEF Job, FitsRun
    <3> QED
      BY <1>1, <3>1, <3>2, CountedGrows DEF FitsRun, RunRow
  <2> QED
    BY <1>1, <2>1, <2>2 DEF FitsRun
<1> QED
  BY <1>2, <1>3

(* A step that sets one job to something that fits preserves the invariant *)
(* when the rows only grow and the other jobs' claims hold.                *)
LEMMA StepKeeps ==
  ASSUME WorkersInv, NEW j \in Jobs, NEW job \in Job, Set(j, job),
         EventsGrow, RunsGrow, Clock', OtherClaimsHold(j, job),
         FitsEvent(job, events'), FitsRun(job, runs')
  PROVE  WorkersInv'
<1>1. /\ jobs' \in [Jobs -> Job] /\ jobs'[j] = job
      /\ \A i \in Jobs \ {j} : jobs'[i] = jobs[i]
  BY DEF WorkersInv, TypeOK, Set
<1>2. JobsFit'
  <2>1. ASSUME NEW i \in Jobs PROVE FitsEvent(jobs'[i], events') /\ FitsRun(jobs'[i], runs')
    <3>1. CASE i = j
      BY <1>1, <3>1
    <3>2. CASE i # j
      BY <1>1, <3>2, FitsGrows DEF OtherClaimsHold
    <3> QED
      BY <3>1, <3>2
  <2> QED
    BY <2>1 DEF JobsFit
<1>3. VerifyMayBeSlow \/ ClaimsApart'
  BY <1>1 DEF ClaimsApart, WorkersInv, OtherClaimsHold
<1>4. TypeOK'
  <2>1. \A i \in Jobs : jobs'[i].event \in Events => events'[jobs'[i].event].status # "NONE"
    BY <1>2, WorkerNames DEF JobsFit, FitsEvent
  <2> QED
    BY <1>1, <2>1 DEF TypeOK, EventRow, RunRow, Clock, EventsGrow, RunsGrow
<1>5. GivenUpAfterEnough'
  BY DEF GivenUpAfterEnough, EventsGrow, RunsGrow
<1> QED
  BY <1>2, <1>3, <1>4, <1>5 DEF WorkersInv

(* A step of one job that touches no row.                                  *)
LEMMA QuietStepKeeps ==
  ASSUME WorkersInv, NEW j \in Jobs, NEW job \in Job, Set(j, job),
         events' = events, runs' = runs, Clock',
         FitsEvent(job, events), FitsRun(job, runs),
         Claims(job) => Claims(jobs[j]) /\ job.event = jobs[j].event
  PROVE  WorkersInv'
<1>1. OtherClaimsHold(j, job)
  BY DEF WorkersInv, JobsFit, FitsEvent, ClaimsApart, OtherClaimsHold
<1> QED
  BY <1>1, WhatHolds, StepKeeps

(* A job that only moves on to a point at which nothing more is asked.     *)
LEMMA MoveKeeps ==
  ASSUME WorkersInv, NEW j \in Jobs, NEW point \in Point, Goto(j, point),
         UNCHANGED <<events, runs, lock, crashes, overruns>>,
         \/ point \in {"processed", "failed"} /\ jobs[j].at = "verify"
         \/ point \in {"settled", "unsettled", "threw"} /\ jobs[j].at = "verify_run"
  PROVE  WorkersInv'
<1> DEFINE job == [jobs[j] EXCEPT !.at = point]
<1>1. jobs[j] \in Job /\ FitsEvent(jobs[j], events) /\ FitsRun(jobs[j], runs) /\ Clock'
  BY WhatHolds DEF Clock
<1>2. job \in Job /\ Set(j, job)
  BY <1>1 DEF Job, Goto
<1>3. FitsEvent(job, events) /\ FitsRun(job, runs)
  BY <1>1 DEF FitsEvent, FitsRun, HasEvent, HasRun, Claims, Job
<1>4. Claims(job) => Claims(jobs[j]) /\ job.event = jobs[j].event
  BY <1>1 DEF Claims, Job
<1> QED
  BY <1>1, <1>2, <1>3, <1>4, QuietStepKeeps

(* Where a job goes on is a job that claims nothing.                       *)
LEMMA NextEventFits ==
  ASSUME WorkersInv, NEW j \in Jobs,
         NEW ev, \A e \in Events : events[e].status # "NONE" => ev[e].status # "NONE"
  PROVE  /\ NextEvent(j) \in Job /\ ~Claims(NextEvent(j))
         /\ FitsEvent(NextEvent(j), ev) /\ FitsRun(NextEvent(j), runs)
<1>1. jobs[j] \in Job /\ FitsEvent(jobs[j], events) /\ FitsRun(jobs[j], runs)
      /\ runs \in [Runs -> RunRow]
  BY WhatHolds
<1>2. CASE j \in Workers
  <2> DEFINE job == [jobs[j] EXCEPT !.at = "events", !.event = "none"]
  <2>1. job \in Job /\ job.at = "events" /\ job.event = "none"
        /\ job.events = jobs[j].events /\ job.seen = jobs[j].seen
    BY <1>1 DEF Job, Point
  <2>2. FitsEvent(job, ev)
    BY <1>1, <2>1 DEF FitsEvent, HasEvent, Claims, Job
  <2>3. FitsRun(job, runs)
    BY <1>1, <2>1 DEF FitsRun, HasRun
  <2> QED
    BY <1>2, <2>1, <2>2, <2>3 DEF NextEvent, Claims
<1>3. CASE j \notin Workers
  BY <1>1, <1>3, IdleFits DEF NextEvent, Claims, Idle
<1> QED
  BY <1>2, <1>3

-----------------------------------------------------------------------------
LEMMA IngestKeeps ==
  ASSUME WorkersInv, NEW e \in Events, Ingest(e)
  PROVE  WorkersInv'
<1> DEFINE job == [Idle EXCEPT !.at = "read", !.event = e]
<1>1. /\ events \in [Events -> EventRow] /\ runs \in [Runs -> RunRow] /\ RunsGrow /\ Clock'
      /\ events' = [events EXCEPT ![e].status = "RECEIVED", ![e].due = TRUE]
      /\ events[e].status = "NONE" /\ e \in Jobs
  BY WhatHolds DEF Ingest, Jobs, Clock
<1>2. /\ events' \in [Events -> EventRow]
      /\ events'[e].status = "RECEIVED" /\ events'[e].attempts = events[e].attempts
      /\ events'[e].stale = events[e].stale
      /\ \A f \in Events \ {e} : events'[f] = events[f]
  BY <1>1 DEF EventRow, EventStatus
<1>3. EventsGrow
  BY <1>1, <1>2, WorkerBounds DEF EventsGrow, WorkersInv, TypeOK, GivenUpAfterEnough, EventRow
<1>4. Idle \in Job /\ FitsRun(Idle, runs)
  BY <1>1, IdleFits
<1>5. /\ job \in Job /\ Set(e, job) /\ job.at = "read" /\ job.event = e /\ job.events = {}
      /\ job.seen = Idle.seen
  BY <1>4 DEF Ingest, Job, Point, Idle
<1>6. FitsEvent(job, events') /\ FitsRun(job, runs') /\ ~Claims(job)
  <2>1. FitsRun(job, runs')
    BY <1>4, <1>5 DEF FitsRun, HasRun, Ingest
  <2> QED
    BY <1>2, <1>5, <2>1, WorkerNames DEF FitsEvent, HasEvent, Claims
<1>7. OtherClaimsHold(e, job)
  <2>1. \A i \in Jobs : Claims(jobs[i]) => jobs[i].event \in Events /\ jobs[i].event # e
    BY <1>1 DEF WorkersInv, TypeOK, JobsFit, FitsEvent, Claims, HasEvent, Job
  <2> QED
    BY <1>2, <1>6, <2>1 DEF WorkersInv, JobsFit, FitsEvent, OtherClaimsHold
<1> QED
  BY <1>1, <1>3, <1>5, <1>6, <1>7, StepKeeps

LEMMA ReadEventKeeps ==
  ASSUME WorkersInv, NEW j \in Jobs, ReadEvent(j)
  PROVE  WorkersInv'
<1> DEFINE e == jobs[j].event
           job == [jobs[j] EXCEPT !.at = "claim", !.attempts = events[e].attempts]
<1>1. /\ jobs[j] \in Job /\ FitsEvent(jobs[j], events) /\ FitsRun(jobs[j], runs)
      /\ events \in [Events -> EventRow] /\ e \in Events /\ jobs[j].at = "read"
      /\ Clock' /\ UNCHANGED <<events, runs>>
  BY WhatHolds DEF ReadEvent, At, FitsEvent, HasEvent, Job, Clock
<1>2. CASE Set(j, NextEvent(j))
  BY <1>1, <1>2, NextEventFits, QuietStepKeeps
<1>3. CASE Set(j, job)
  <2>1. job \in Job
    BY <1>1 DEF Job, Point, EventRow
  <2>2. FitsEvent(job, events) /\ FitsRun(job, runs) /\ ~Claims(job)
    BY <1>1, WorkerBounds DEF FitsEvent, FitsRun, HasEvent, HasRun, Claims, Job, EventRow
  <2> QED
    BY <1>1, <1>3, <2>1, <2>2, QuietStepKeeps
<1> QED
  BY <1>2, <1>3 DEF ReadEvent

LEMMA ClaimEventKeeps ==
  ASSUME WorkersInv, NEW j \in Jobs, ClaimEvent(j)
  PROVE  WorkersInv'
<1> DEFINE e == jobs[j].event
           job == [jobs[j] EXCEPT !.at = "verify"]
           row == [status |-> "PROCESSING", attempts |-> Bump(events[e].attempts),
                   due |-> FALSE, stale |-> FALSE]
<1>1. /\ jobs[j] \in Job /\ FitsEvent(jobs[j], events) /\ FitsRun(jobs[j], runs)
      /\ events \in [Events -> EventRow] /\ e \in Events /\ jobs[j].at = "claim"
      /\ runs \in [Runs -> RunRow] /\ RunsGrow /\ runs' = runs /\ Clock'
  BY WhatHolds DEF ClaimEvent, At, FitsEvent, HasEvent, Job, Clock
<1>2. CASE ~Claimable(e)
  <2>1. Set(j, NextEvent(j)) /\ events' = events
    BY <1>2 DEF ClaimEvent
  <2> QED
    BY <1>1, <2>1, NextEventFits, QuietStepKeeps
<1>3. CASE Claimable(e)
  <2>1. events' = [events EXCEPT ![e] = row] /\ Set(j, job)
    BY <1>3 DEF ClaimEvent, Goto
  <2>2. /\ row \in EventRow /\ events[e].attempts <= row.attempts
        /\ Counted(events[e].attempts, row.attempts)
    BY <1>1, BumpCounts DEF EventRow, EventStatus
  <2>3. /\ events' \in [Events -> EventRow] /\ events'[e] = row
        /\ \A f \in Events \ {e} : events'[f] = events[f]
    BY <1>1, <2>1, <2>2
  <2>4. EventsGrow
    BY <1>1, <2>2, <2>3, WorkerBounds DEF EventsGrow, WorkersInv, TypeOK, GivenUpAfterEnough, EventRow
  <2>5. job \in Job /\ job.at = "verify" /\ job.event = e /\ job.events = jobs[j].events
        /\ job.attempts = jobs[j].attempts /\ job.seen = jobs[j].seen
    BY <1>1 DEF Job, Point
  <2>6. Counted(job.attempts, row.attempts)
    BY <1>1, <2>2, <2>5, WorkerBounds DEF FitsEvent, Job, EventRow, Counted
  <2>7. FitsEvent(job, events') /\ FitsRun(job, runs')
    <3>1. \A f \in job.events : events'[f].status # "NONE"
      BY <1>1, <2>4, <2>5 DEF FitsEvent, Job, EventsGrow
    <3>2. FitsEvent(job, events')
      BY <1>1, <2>3, <2>5, <2>6, <3>1 DEF FitsEvent, HasEvent, Claims
    <3>3. FitsRun(job, runs')
      BY <1>1, <2>5 DEF FitsRun, HasRun
    <3> QED
      BY <3>2, <3>3
  <2>8. OtherClaimsHold(j, job)
    <3>1. VerifyMayBeSlow \/ \A i \in Jobs : Claims(jobs[i]) =>
            /\ jobs[i].event \in Events /\ jobs[i].event # e
            /\ events[jobs[i].event].status = "PROCESSING" /\ ~events[jobs[i].event].stale
      BY <1>3 DEF WorkersInv, TypeOK, JobsFit, FitsEvent, Claims, HasEvent, Job, Claimable
    <3> QED
      BY <2>3, <2>5, <3>1 DEF OtherClaimsHold
  <2> QED
    BY <1>1, <2>1, <2>4, <2>5, <2>7, <2>8, StepKeeps
<1> QED
  BY <1>2, <1>3

(* The outcome of a verification is written to the event that is claimed,  *)
(* and no other job has claimed it as long as none outlasts its claim.     *)
LEMMA OutcomeKeeps ==
  ASSUME WorkersInv, NEW j \in Jobs, Claims(jobs[j]), NEW row \in EventRow,
         events' = [events EXCEPT ![jobs[j].event] = row],
         row.attempts = events[jobs[j].event].attempts, ~row.stale,
         row.status \in {"PROCESSED", "FAILED", "DLQ"},
         row.status = "DLQ" => row.attempts >= DlqAt,
         Set(j, NextEvent(j)), UNCHANGED <<runs, lock, crashes, overruns>>
  PROVE  WorkersInv'
<1> DEFINE e == jobs[j].event
<1>1. /\ FitsEvent(jobs[j], events) /\ e \in Events
      /\ events \in [Events -> EventRow] /\ RunsGrow /\ runs' = runs /\ Clock'
  BY WhatHolds DEF FitsEvent, HasEvent, Job, Clock, Claims
<1>2. /\ events' \in [Events -> EventRow] /\ events'[e] = row
      /\ \A f \in Events \ {e} : events'[f] = events[f]
  BY <1>1
<1>3. EventsGrow
  BY <1>1, <1>2, WorkerBounds DEF EventsGrow, WorkersInv, TypeOK, GivenUpAfterEnough, EventRow
<1>4. /\ NextEvent(j) \in Job /\ ~Claims(NextEvent(j))
      /\ FitsEvent(NextEvent(j), events') /\ FitsRun(NextEvent(j), runs')
  BY <1>1, <1>3, NextEventFits DEF EventsGrow
<1>5. OtherClaimsHold(j, NextEvent(j))
  <2>1. VerifyMayBeSlow \/ \A i \in Jobs \ {j} : Claims(jobs[i]) =>
          /\ jobs[i].event \in Events /\ jobs[i].event # e
          /\ events[jobs[i].event].status = "PROCESSING" /\ ~events[jobs[i].event].stale
    BY DEF WorkersInv, TypeOK, JobsFit, FitsEvent, HasEvent, Claims, Job, ClaimsApart
  <2> QED
    BY <1>2, <1>4, <2>1 DEF OtherClaimsHold
<1> QED
  BY <1>1, <1>3, <1>4, <1>5, StepKeeps

LEMMA EventProcessedKeeps ==
  ASSUME WorkersInv, NEW j \in Jobs, EventProcessed(j)
  PROVE  WorkersInv'
<1> DEFINE e == jobs[j].event
           row == [events[e] EXCEPT !.status = "PROCESSED", !.stale = FALSE]
<1>1. Claims(jobs[j]) /\ e \in Events /\ events \in [Events -> EventRow]
  BY WhatHolds DEF EventProcessed, At, Claims, FitsEvent, HasEvent, Job
<1>2. row \in EventRow /\ row.attempts = events[e].attempts /\ ~row.stale /\ row.status = "PROCESSED"
  BY <1>1 DEF EventRow, EventStatus
<1>3. events' = [events EXCEPT ![e] = row]
  BY <1>1 DEF EventProcessed, EventRow
<1> QED
  BY <1>1, <1>2, <1>3, OutcomeKeeps DEF EventProcessed

LEMMA EventFailedKeeps ==
  ASSUME WorkersInv, NEW j \in Jobs, EventFailed(j)
  PROVE  WorkersInv'
<1> DEFINE e == jobs[j].event
           status == IF Tried(jobs[j].attempts) >= DlqAt THEN "DLQ" ELSE "FAILED"
           row == [events[e] EXCEPT !.status = status, !.due = FALSE, !.stale = FALSE]
<1>1. /\ Claims(jobs[j]) /\ e \in Events /\ events \in [Events -> EventRow]
      /\ jobs[j] \in Job /\ FitsEvent(jobs[j], events)
  BY WhatHolds DEF EventFailed, At, Claims, FitsEvent, HasEvent, Job
<1>2. row \in EventRow /\ row.attempts = events[e].attempts /\ ~row.stale /\ row.status = status
  BY <1>1 DEF EventRow, EventStatus
<1>3. status = "DLQ" => row.attempts >= DlqAt
  <2>1. jobs[j].attempts \in 0 .. MaxAttempts /\ events[e].attempts \in 0 .. MaxAttempts
    BY <1>1 DEF Job, EventRow
  <2>2. Counted(jobs[j].attempts, events[e].attempts)
    BY <1>1 DEF FitsEvent
  <2> QED
    BY <1>2, <2>1, <2>2, CountedIsEnough
<1>4. events' = [events EXCEPT ![e] = row]
  BY DEF EventFailed
<1> HIDE DEF row
<1> QED
  BY <1>1, <1>2, <1>3, <1>4, OutcomeKeeps DEF EventFailed

LEMMA VerifyKeeps ==
  ASSUME WorkersInv, NEW j \in Jobs, VerifyEvent(j) \/ (j \in Workers /\ VerifyRun(j))
  PROVE  WorkersInv'
<1>1. PICK point \in Point :
        /\ Goto(j, point)
        /\ \/ point \in {"processed", "failed"} /\ jobs[j].at = "verify"
           \/ point \in {"settled", "unsettled", "threw"} /\ jobs[j].at = "verify_run"
  BY DEF VerifyEvent, VerifyRun, At, Point
<1>2. UNCHANGED <<events, runs, lock, crashes, overruns>>
  BY DEF VerifyEvent, VerifyRun
<1> QED
  BY <1>1, <1>2, MoveKeeps

-----------------------------------------------------------------------------
LEMMA TickKeeps ==
  ASSUME WorkersInv, NEW w \in Workers, Tick(w)
  PROVE  WorkersInv'
<1> DEFINE due == {r \in Runs : runs[r].status \in {"PENDING", "FAILED"} /\ runs[r].due}
           seen == [r \in Runs |-> runs[r].attempts]
           job == [Idle EXCEPT !.at = "runs", !.runs = due, !.seen = seen]
<1>1. runs \in [Runs -> RunRow] /\ Clock' /\ w \in Jobs /\ Idle \in Job /\ UNCHANGED <<events, runs>>
  BY WhatHolds, IdleFits DEF Tick, Clock, Jobs
<1>2. /\ job \in Job /\ job.at = "runs" /\ job.event = "none" /\ job.events = {} /\ job.seen = seen
  <2>1. due \in SUBSET Runs /\ seen \in [Runs -> 0 .. MaxAttempts]
    BY <1>1 DEF RunRow
  <2> QED
    BY <1>1, <2>1 DEF Job, Idle, Point
<1>3. FitsEvent(job, events) /\ ~Claims(job)
  BY <1>2 DEF FitsEvent, HasEvent, Claims
<1>4. FitsRun(job, runs)
  BY <1>1, <1>2, WorkerBounds DEF FitsRun, HasRun, RunRow
<1>5. Set(w, job)
  BY DEF Tick
<1> QED
  BY <1>1, <1>2, <1>3, <1>4, <1>5, QuietStepKeeps

LEMMA StartRunKeeps ==
  ASSUME WorkersInv, NEW w \in Workers, NEW r \in Runs, StartRun(w, r)
  PROVE  WorkersInv'
<1> DEFINE job == [jobs[w] EXCEPT !.at = "verify_run", !.run = r, !.runs = @ \ {r}]
           row == [runs[r] EXCEPT !.status = "IN_PROGRESS", !.attempts = Bump(@)]
<1>1. /\ w \in Jobs /\ jobs[w] \in Job /\ FitsEvent(jobs[w], events) /\ FitsRun(jobs[w], runs)
      /\ runs \in [Runs -> RunRow] /\ EventsGrow /\ Clock' /\ events' = events
  BY WhatHolds DEF StartRun, Clock, Jobs
<1>2. /\ row \in RunRow /\ row.status = "IN_PROGRESS"
      /\ runs[r].attempts <= row.attempts /\ Counted(runs[r].attempts, row.attempts)
  BY <1>1, BumpCounts DEF RunRow
<1>3. runs' = [runs EXCEPT ![r] = row]
  BY <1>1 DEF StartRun, RunRow
<1> HIDE DEF row
<1>4. runs' \in [Runs -> RunRow] /\ runs'[r] = row /\ \A q \in Runs \ {r} : runs'[q] = runs[q]
  BY <1>1, <1>2, <1>3
<1>5. RunsGrow
  BY <1>1, <1>2, <1>4, WorkerBounds DEF RunsGrow, WorkersInv, GivenUpAfterEnough, RunRow
<1>6. /\ job \in Job /\ Set(w, job) /\ job.at = "verify_run" /\ job.run = r
      /\ job.event = jobs[w].event /\ job.events = jobs[w].events /\ job.seen = jobs[w].seen
  BY <1>1 DEF StartRun, Job, Point
<1>7. FitsEvent(job, events') /\ ~Claims(job)
  BY <1>1, <1>6 DEF FitsEvent, HasEvent, Claims
<1>8. FitsRun(job, runs')
  <2>1. \A q \in Runs : jobs[w].seen[q] \in 0 .. MaxAttempts /\ jobs[w].seen[q] <= runs[q].attempts
    BY <1>1 DEF FitsRun, Job
  <2>2. \A q \in Runs : runs[q].attempts \in 0 .. MaxAttempts /\ runs'[q].attempts \in 0 .. MaxAttempts
                      /\ runs[q].attempts <= runs'[q].attempts
    BY <1>1, <1>4, <1>5 DEF RunRow, RunsGrow
  <2>3. \A q \in Runs : jobs[w].seen[q] <= runs'[q].attempts
    BY <2>1, <2>2, WorkerBounds
  <2>4. Counted(jobs[w].seen[r], runs'[r].attempts)
    BY <1>2, <1>4, <2>1, <2>2, WorkerBounds DEF Counted
  <2> QED
    BY <1>6, <2>3, <2>4, WorkerNames DEF FitsRun
<1>9. OtherClaimsHold(w, job)
  BY <1>1, <1>7 DEF OtherClaimsHold, WorkersInv, JobsFit, FitsEvent
<1> QED
  BY <1>1, <1>5, <1>6, <1>7, <1>8, <1>9, StepKeeps

LEMMA RunEndsKeeps ==
  ASSUME WorkersInv, NEW w \in Workers, RunEnds(w)
  PROVE  WorkersInv'
<1> DEFINE r == jobs[w].run
           job == [jobs[w] EXCEPT !.at = "runs", !.run = "none"]
           row == [runs[r] EXCEPT !.status = RunOutcome(w), !.due = FALSE]
<1>1. /\ w \in Jobs /\ jobs[w] \in Job /\ FitsEvent(jobs[w], events) /\ FitsRun(jobs[w], runs)
      /\ runs \in [Runs -> RunRow] /\ EventsGrow /\ Clock' /\ events' = events /\ r \in Runs
      /\ jobs[w].at \in {"settled", "unsettled", "threw"}
  BY WhatHolds DEF RunEnds, Clock, Jobs, FitsRun, HasRun, Job
<1>2. RunOutcome(w) \in {"RESOLVED", "PENDING", "FAILED", "DLQ"}
  BY <1>1 DEF RunOutcome, At
<1>3. RunOutcome(w) = "DLQ" => runs[r].attempts >= DlqAt
  <2>1. RunOutcome(w) = "DLQ" => Tried(jobs[w].seen[r]) >= DlqAt
    BY <1>1 DEF RunOutcome, At
  <2>2. Counted(jobs[w].seen[r], runs[r].attempts)
    BY <1>1 DEF FitsRun, HasRun
  <2>3. jobs[w].seen[r] \in 0 .. MaxAttempts /\ runs[r].attempts \in 0 .. MaxAttempts
    BY <1>1 DEF Job, RunRow
  <2> QED
    BY <2>1, <2>2, <2>3, CountedIsEnough
<1>4. row \in RunRow /\ row.status = RunOutcome(w) /\ row.attempts = runs[r].attempts
  BY <1>1, <1>2 DEF RunRow
<1>5. runs' = [runs EXCEPT ![r] = row]
  BY <1>1 DEF RunEnds, RunRow
<1> HIDE DEF row
<1>6. runs' \in [Runs -> RunRow] /\ runs'[r] = row /\ \A q \in Runs \ {r} : runs'[q] = runs[q]
  BY <1>1, <1>4, <1>5
<1>7. RunsGrow
  BY <1>1, <1>3, <1>4, <1>6, WorkerBounds DEF RunsGrow, WorkersInv, GivenUpAfterEnough, RunRow
<1>8. /\ job \in Job /\ Set(w, job) /\ job.at = "runs"
      /\ job.event = jobs[w].event /\ job.events = jobs[w].events /\ job.seen = jobs[w].seen
  BY <1>1 DEF RunEnds, Job, Point
<1>9. FitsEvent(job, events') /\ ~Claims(job)
  BY <1>1, <1>8 DEF FitsEvent, HasEvent, Claims
<1>10. FitsRun(job, runs')
  <2>1. \A q \in Runs : runs'[q].attempts = runs[q].attempts
    BY <1>4, <1>6
  <2> QED
    BY <1>1, <1>8, <2>1 DEF FitsRun, HasRun
<1>11. OtherClaimsHold(w, job)
  BY <1>1, <1>9 DEF OtherClaimsHold, WorkersInv, JobsFit, FitsEvent
<1> QED
  BY <1>1, <1>7, <1>8, <1>9, <1>10, <1>11, StepKeeps

LEMMA ListEventsKeeps ==
  ASSUME WorkersInv, NEW w \in Workers, ListEvents(w)
  PROVE  WorkersInv'
<1> DEFINE job == [jobs[w] EXCEPT !.at = "events", !.events = DueEvents]
<1>1. /\ w \in Jobs /\ jobs[w] \in Job /\ FitsEvent(jobs[w], events) /\ FitsRun(jobs[w], runs)
      /\ Clock' /\ UNCHANGED <<events, runs>>
  BY WhatHolds DEF ListEvents, Clock, Jobs
<1>2. DueEvents \in SUBSET Events /\ \A e \in DueEvents : events[e].status # "NONE"
  BY DEF DueEvents, Events
<1>3. /\ job \in Job /\ Set(w, job) /\ job.at = "events" /\ job.events = DueEvents
      /\ job.event = jobs[w].event /\ job.seen = jobs[w].seen
  BY <1>1, <1>2 DEF ListEvents, Job, Point
<1>4. FitsEvent(job, events) /\ FitsRun(job, runs) /\ ~Claims(job)
  BY <1>1, <1>2, <1>3 DEF FitsEvent, FitsRun, HasEvent, HasRun, Claims
<1> QED
  BY <1>1, <1>3, <1>4, QuietStepKeeps

LEMMA TakeEventKeeps ==
  ASSUME WorkersInv, NEW w \in Workers, TakeEvent(w)
  PROVE  WorkersInv'
<1>1. /\ w \in Jobs /\ jobs[w] \in Job /\ FitsEvent(jobs[w], events) /\ FitsRun(jobs[w], runs)
      /\ runs \in [Runs -> RunRow] /\ Clock' /\ UNCHANGED <<events, runs>>
  BY WhatHolds DEF TakeEvent, Clock, Jobs
<1>2. CASE Set(w, Idle)
  BY <1>1, <1>2, IdleFits, QuietStepKeeps DEF Claims, Idle
<1>3. ASSUME NEW e \in jobs[w].events,
             Set(w, [jobs[w] EXCEPT !.at = "read", !.event = e, !.events = @ \ {e}])
      PROVE  WorkersInv'
  <2> DEFINE job == [jobs[w] EXCEPT !.at = "read", !.event = e, !.events = @ \ {e}]
  <2>1. /\ job \in Job /\ Set(w, job) /\ job.at = "read" /\ job.event = e
        /\ job.events \subseteq jobs[w].events /\ job.seen = jobs[w].seen
        /\ e \in Events
    BY <1>1, <1>3 DEF Job, Point
  <2>2. FitsEvent(job, events) /\ FitsRun(job, runs) /\ ~Claims(job)
    BY <1>1, <2>1, WorkerNames DEF FitsEvent, FitsRun, HasEvent, HasRun, Claims
  <2> QED
    BY <1>1, <2>1, <2>2, QuietStepKeeps
<1> QED
  BY <1>2, <1>3 DEF TakeEvent

LEMMA CrashKeeps ==
  ASSUME WorkersInv, NEW j \in Jobs, Crash(j)
  PROVE  WorkersInv'
<1>1. Clock' /\ UNCHANGED <<events, runs>> /\ Set(j, Idle) /\ runs \in [Runs -> RunRow]
  BY WhatHolds, WorkerBounds DEF Crash, Clock, FaultLeft
<1> QED
  BY <1>1, IdleFits, QuietStepKeeps DEF Claims, Idle

-----------------------------------------------------------------------------
(* Time passes for no job: the others' claims hold because a claim gets    *)
(* old only when its verification may be slow.                             *)
LEMMA TimeKeeps ==
  ASSUME WorkersInv, jobs' = jobs, EventsGrow, RunsGrow, Clock',
         VerifyMayBeSlow \/ \A i \in Jobs : Claims(jobs[i]) =>
           events'[jobs[i].event].status = "PROCESSING" /\ ~events'[jobs[i].event].stale
  PROVE  WorkersInv'
<1>1. JobsFit'
  BY FitsGrows DEF JobsFit
<1>2. TypeOK'
  BY <1>1, WorkerNames
     DEF WorkersInv, JobsFit, FitsEvent, TypeOK, EventRow, RunRow, Clock, EventsGrow, RunsGrow
<1>3. GivenUpAfterEnough' /\ (VerifyMayBeSlow \/ ClaimsApart')
  BY DEF GivenUpAfterEnough, EventsGrow, RunsGrow, ClaimsApart, WorkersInv
<1> QED
  BY <1>1, <1>2, <1>3 DEF WorkersInv

LEMMA TimePassesKeeps ==
  ASSUME WorkersInv, TimePasses
  PROVE  WorkersInv'
<1>0. /\ events \in [Events -> EventRow] /\ runs \in [Runs -> RunRow] /\ Clock
      /\ events' = events => EventsGrow
      /\ runs' = runs => RunsGrow
      /\ VerifyMayBeSlow \/ \A i \in Jobs : Claims(jobs[i]) =>
            events[jobs[i].event].status = "PROCESSING" /\ ~events[jobs[i].event].stale
      /\ \A i \in Jobs : Claims(jobs[i]) => jobs[i].event \in Events
      /\ \A e \in Events : events[e].stale => events[e].status = "PROCESSING"
  <2>1. \A e \in Events : events[e].stale => events[e].status = "PROCESSING"
    BY DEF WorkersInv, TypeOK
  <2> QED
    BY <2>1, WhatHolds DEF FitsEvent, Claims, HasEvent, Job
<1>1. CASE LockEnds
  <2>1. Clock'
    BY <1>0, <1>1, WorkerBounds DEF LockEnds, Clock, FaultLeft
  <2> QED
    BY <1>0, <1>1, <2>1, TimeKeeps DEF LockEnds
<1>2. ASSUME NEW e \in Events, EventComesDue(e) \/ ClaimGetsOld(e)
      PROVE  WorkersInv'
  <2>1. /\ events' \in [Events -> EventRow]
        /\ events'[e].status = events[e].status /\ events'[e].attempts = events[e].attempts
        /\ events'[e].stale => events'[e].status = "PROCESSING"
        /\ \A f \in Events \ {e} : events'[f] = events[f]
    <3>1. CASE EventComesDue(e)
      BY <1>0, <3>1 DEF EventComesDue, EventRow
    <3>2. CASE ClaimGetsOld(e)
      BY <1>0, <3>2 DEF ClaimGetsOld, EventRow
    <3> QED
      BY <1>2, <3>1, <3>2
  <2>2. EventsGrow
    BY <1>0, <2>1, WorkerBounds DEF EventsGrow, WorkersInv, TypeOK, GivenUpAfterEnough, EventRow
  <2>3. RunsGrow /\ Clock' /\ jobs' = jobs
    BY <1>0, <1>2 DEF EventComesDue, ClaimGetsOld, Clock
  <2>4. VerifyMayBeSlow \/ \A i \in Jobs : Claims(jobs[i]) =>
          events'[jobs[i].event].status = "PROCESSING" /\ ~events'[jobs[i].event].stale
    <3>1. CASE EventComesDue(e)
      BY <1>0, <2>1, <3>1 DEF EventComesDue, EventRow
    <3>2. CASE ClaimGetsOld(e)
      BY <1>0, <2>1, <3>2 DEF ClaimGetsOld, Verifying, Claims
    <3> QED
      BY <1>2, <3>1, <3>2
  <2> QED
    BY <2>2, <2>3, <2>4, TimeKeeps
<1>3. ASSUME NEW r \in Runs, RunComesDue(r)
      PROVE  WorkersInv'
  <2>1. /\ runs' \in [Runs -> RunRow]
        /\ \A q \in Runs : runs'[q].status = runs[q].status /\ runs'[q].attempts = runs[q].attempts
    BY <1>0, <1>3 DEF RunComesDue, RunRow
  <2>2. RunsGrow
    BY <1>0, <2>1, WorkerBounds DEF RunsGrow, WorkersInv, GivenUpAfterEnough, RunRow
  <2> QED
    BY <1>0, <1>3, <2>2, TimeKeeps DEF RunComesDue, Clock
<1> QED
  BY <1>1, <1>2, <1>3 DEF TimePasses

-----------------------------------------------------------------------------
LEMMA InitWorkersInv == Init => WorkersInv
<1> SUFFICES ASSUME Init PROVE WorkersInv
  OBVIOUS
<1> USE WorkerBounds
<1>1. Idle \in Job
  BY DEF Idle, Job, Point
<1>2. /\ events \in [Events -> EventRow] /\ runs \in [Runs -> RunRow]
      /\ \A e \in Events : events[e].status = "NONE" /\ ~events[e].stale
      /\ \A r \in Runs : runs[r].status = "PENDING" /\ runs[r].attempts = 0
      /\ jobs \in [Jobs -> Job] /\ \A j \in Jobs : jobs[j] = Idle
  BY <1>1 DEF Init, EventRow, RunRow, EventStatus
<1>3. JobsFit
  <2>1. \A j \in Jobs : FitsEvent(jobs[j], events)
    BY <1>2 DEF FitsEvent, Idle, HasEvent, Claims
  <2>2. \A j \in Jobs : FitsRun(jobs[j], runs)
    BY <1>2 DEF FitsRun, Idle, HasRun
  <2> QED
    BY <2>1, <2>2 DEF JobsFit
<1>4. TypeOK
  <2>1. \A j \in Jobs : jobs[j].event \notin Events
    BY <1>2, WorkerNames DEF Idle
  <2>2. lock = "free" /\ crashes = 0 /\ overruns = 0
    BY DEF Init
  <2> QED
    BY <1>2, <2>1, <2>2 DEF TypeOK, EventRow, RunRow
<1>5. GivenUpAfterEnough /\ ClaimsApart
  BY <1>2 DEF GivenUpAfterEnough, ClaimsApart, Claims, Idle
<1> QED
  BY <1>3, <1>4, <1>5 DEF WorkersInv

LEMMA NextWorkersInv == WorkersInv /\ [Next]_vars => WorkersInv'
<1> SUFFICES ASSUME WorkersInv, [Next]_vars PROVE WorkersInv'
  OBVIOUS
<1>1. ASSUME NEW e \in Events, Ingest(e) PROVE WorkersInv'
  BY <1>1, IngestKeeps
<1>2. ASSUME NEW j \in Jobs, JobStep(j) PROVE WorkersInv'
  BY <1>2, ReadEventKeeps, ClaimEventKeeps, VerifyKeeps, EventProcessedKeeps, EventFailedKeeps
     DEF JobStep
<1>3. ASSUME NEW j \in Jobs, Crash(j) PROVE WorkersInv'
  BY <1>3, CrashKeeps
<1>4. ASSUME NEW w \in Workers, Tick(w) PROVE WorkersInv'
  BY <1>4, TickKeeps
<1>5. ASSUME NEW w \in Workers, WorkerStep(w) PROVE WorkersInv'
  BY <1>5, StartRunKeeps, VerifyKeeps, RunEndsKeeps, ListEventsKeeps, TakeEventKeeps
     DEF WorkerStep, Jobs
<1>6. CASE TimePasses
  BY <1>6, TimePassesKeeps
<1>7. CASE UNCHANGED vars
  BY <1>7 DEF vars, WorkersInv, TypeOK, JobsFit, FitsEvent, FitsRun, ClaimsApart, GivenUpAfterEnough
<1> QED
  BY <1>1, <1>2, <1>3, <1>4, <1>5, <1>6, <1>7 DEF Next

THEOREM WorkersInvariant == Spec => []WorkersInv
BY InitWorkersInv, NextWorkersInv, PTL DEF Spec

(* The rows and the jobs have their types, only a claimed event gets       *)
(* stale, and a job works on stored events only (webhook.service.ts,       *)
(* payment-workers.service.ts).                                            *)
THEOREM WorkersTypes == Spec => []TypeOK
<1>1. WorkersInv => TypeOK
  BY DEF WorkersInv
<1> QED
  BY <1>1, WorkersInvariant, PTL

(* Neither an event nor a reconciliation run is given up before it has     *)
(* been tried DlqAt times, although each failure counts from a row that    *)
(* was read before the claim, and whether or not claims outlast their      *)
(* time.                                                                   *)
THEOREM NothingIsGivenUpEarly == Spec => []GivenUpAfterEnough
<1>1. WorkersInv => GivenUpAfterEnough
  BY DEF WorkersInv
<1> QED
  BY <1>1, WorkersInvariant, PTL

(* As long as no verification outlasts its claim of two minutes, receiving *)
(* requests and workers try an event one at a time, and often enough       *)
(* before one of them gives it up (claimEvent of webhook.service.ts).      *)
THEOREM TriedInTurn ==
  ASSUME VerifyMayBeSlow = FALSE
  PROVE  Spec => []EventsAreTriedInTurn
<1>1. WorkersInv => EventsAreTriedInTurn
  <2>1. WorkersInv => OneVerifier
    BY DEF WorkersInv, ClaimsApart, Claims, OneVerifier, Verifying
  <2> QED
    BY <2>1 DEF WorkersInv, EventsAreTriedInTurn
<1> QED
  BY <1>1, WorkersInvariant, PTL

(* Under the same condition an event that is processed or given up keeps   *)
(* that status: no late answer, retry or repeated delivery reopens it.     *)
THEOREM OutcomesAreFinal ==
  ASSUME VerifyMayBeSlow = FALSE
  PROVE  Spec => OutcomeIsFinal
<1> DEFINE Final(e) == events[e].status \in {"PROCESSED", "DLQ"} => events'[e].status = events[e].status
           Kept == \A e \in Events : Final(e)
<1>1. WorkersInv /\ [Next]_vars => [Kept]_vars
  <2> SUFFICES ASSUME WorkersInv, Next PROVE Kept
    OBVIOUS
  <2>0. /\ events \in [Events -> EventRow]
        /\ \A j \in Jobs : Claims(jobs[j]) =>
              jobs[j].event \in Events /\ events[jobs[j].event].status = "PROCESSING"
    BY WhatHolds DEF FitsEvent, Claims, HasEvent, Job
  <2>1. ASSUME NEW e \in Events, Ingest(e) PROVE Kept
    BY <2>0, <2>1 DEF Ingest, EventRow
  <2>2. ASSUME NEW j \in Jobs, ClaimEvent(j) PROVE Kept
    BY <2>0, <2>2 DEF ClaimEvent, Claimable, EventRow
  <2>3. ASSUME NEW j \in Jobs, EventProcessed(j) PROVE Kept
    BY <2>0, <2>3 DEF EventProcessed, EventRow, At, Claims
  <2>4. ASSUME NEW j \in Jobs, EventFailed(j) PROVE Kept
    BY <2>0, <2>4 DEF EventFailed, EventRow, At, Claims
  <2>5. ASSUME NEW e \in Events, EventComesDue(e) \/ ClaimGetsOld(e) PROVE Kept
    BY <2>0, <2>5 DEF EventComesDue, ClaimGetsOld, EventRow
  <2>6. events' = events => Kept
    OBVIOUS
  <2>7. ASSUME NEW j \in Jobs, ReadEvent(j) \/ VerifyEvent(j) \/ Crash(j) PROVE events' = events
    BY <2>7 DEF ReadEvent, VerifyEvent, Crash
  <2>8. ASSUME NEW w \in Workers, Tick(w) \/ WorkerStep(w) PROVE events' = events
    BY <2>8 DEF Tick, WorkerStep, StartRun, VerifyRun, RunEnds, ListEvents, TakeEvent
  <2>9. LockEnds \/ (\E r \in Runs : RunComesDue(r)) => events' = events
    BY DEF LockEnds, RunComesDue
  <2> QED
    BY <2>1, <2>2, <2>3, <2>4, <2>5, <2>6, <2>7, <2>8, <2>9 DEF Next, JobStep, TimePasses
<1>2. OutcomeIsFinal <=> [][Kept]_vars
  BY PTL DEF OutcomeIsFinal
<1> QED
  BY <1>1, <1>2, WorkersInvariant, PTL DEF Spec
=============================================================================
