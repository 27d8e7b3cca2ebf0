----------------------------- MODULE Onboarding -----------------------------
(***************************************************************************)
(* How a store is set up, submitted and reviewed: onboarding.service.ts    *)
(* with its state machine, and admin-approvals.service.ts.                 *)
(*                                                                         *)
(* One store.  Its owner works in several tabs, several admins look at its *)
(* review.  Every call reads first and writes later, in one transaction    *)
(* whose rows no lock protects before it writes them; launch reads before  *)
(* its transaction begins.                                                 *)
(***************************************************************************)
EXTENDS Naturals

CONSTANTS
  Tabs,       \* calls the owner may have under way
  Admins,     \* decisions that may be under way
  LastStep,   \* the steps of the setup are 1..LastStep (5 of them)
  MaxCalls    \* bound on the calls

ASSUME OnboardingBounds == LastStep \in Nat \ {0} /\ MaxCalls \in Nat

Actors == Tabs \cup Admins

Steps == 1..LastStep

Review == LastStep + 1   \* the step that makes the store ready for review

(* The lifecycle's states by rank: 0 is PENDING, a step's number says that *)
(* it is done.                                                             *)
ReadyForReview == Review
ApprovalPending == Review + 1
Active == Review + 2
Suspended == Review + 3

VARIABLES
  lifecycle,   \* store_onboarding_states.state
  completed,   \* the steps with a time of completion
  store,       \* stores.status
  review,      \* store_approval_reviews.status
  calls,       \* what each actor is doing, and the lifecycle it has read
  made,        \* how many calls have been made
  astray       \* whether a step has written over a lifecycle that it had not read
               \* since a submission or a decision last wrote all three rows

vars == <<lifecycle, completed, store, review, calls, made, astray>>

Idle == [at |-> "idle", seen |-> 0, step |-> 0]

Init ==
  /\ lifecycle = 0 /\ completed = {}
  /\ store = "PENDING" /\ review = "NONE"
  /\ calls = [a \in Actors |-> Idle]
  /\ made = 0 /\ astray = FALSE

Begin(a, call) ==
  /\ calls[a] = Idle
  /\ made < MaxCalls /\ made' = made + 1
  /\ calls' = [calls EXCEPT ![a] = call]
  /\ UNCHANGED <<lifecycle, completed, store, review, astray>>

End(a) == calls' = [calls EXCEPT ![a] = Idle] /\ UNCHANGED made

(* The owner's pages work on a store that has not been turned down.        *)
OwnerMayGoOn == store \in {"PENDING", "APPROVED"}

(* Mutant: any step may be done first.                                     *)
StepIsOpen_Always(step) == TRUE

(* A step is open once the step before it has been done.                   *)
StepIsOpen(step) == lifecycle >= step - 1

ReadForStep(t, step) ==
  /\ OwnerMayGoOn /\ StepIsOpen(step)
  /\ Begin(t, [at |-> "step", seen |-> lifecycle, step |-> step])

(* A step done again leaves the state as it was read, not as it is.        *)
After(seen, step) == IF seen <= step THEN step ELSE seen

CompleteStep(t) ==
  /\ calls[t].at = "step"
  /\ completed' = completed \cup {calls[t].step}
  /\ lifecycle' = After(calls[t].seen, calls[t].step)
  /\ astray' = (astray \/ (lifecycle > Review /\ calls[t].seen # lifecycle))
  /\ End(t) /\ UNCHANGED <<store, review>>

MayLaunch == lifecycle \in {LastStep, ReadyForReview}

ReadForLaunch(t) ==
  /\ OwnerMayGoOn /\ MayLaunch
  /\ Begin(t, [at |-> "launch", seen |-> lifecycle, step |-> 0])

(* Mutant: a review that has been decided stays so.                        *)
Launch_KeepsReview(t) ==
  /\ calls[t].at = "launch"
  /\ lifecycle' = ApprovalPending
  /\ store' = "PENDING"
  /\ review' = IF review = "NONE" THEN "PENDING" ELSE review
  /\ astray' = FALSE
  /\ End(t) /\ UNCHANGED completed

Launch(t) ==
  /\ calls[t].at = "launch"
  /\ lifecycle' = ApprovalPending
  /\ store' = "PENDING"
  /\ review' = "PENDING"
  /\ astray' = FALSE
  /\ End(t) /\ UNCHANGED completed

ReviewIsPending == review = "PENDING" /\ store = "PENDING"

ReadForDecision(a, verdict) ==
  /\ ReviewIsPending
  /\ Begin(a, [at |-> verdict, seen |-> lifecycle, step |-> 0])

Approve(a) ==
  /\ calls[a].at = "approve"
  /\ review' = "AUTO_APPROVED"
  /\ lifecycle' = Active
  /\ store' = "APPROVED"
  /\ astray' = FALSE
  /\ End(a) /\ UNCHANGED completed

(* Mutant: the store is written with a status of the account.              *)
Reject_Suspends(a) ==
  /\ calls[a].at = "reject"
  /\ review' = "REJECTED"
  /\ lifecycle' = Suspended
  /\ store' = "SUSPENDED"
  /\ astray' = FALSE
  /\ End(a) /\ UNCHANGED completed

Reject(a) ==
  /\ calls[a].at = "reject"
  /\ review' = "REJECTED"
  /\ lifecycle' = Suspended
  /\ store' = "REJECTED"
  /\ astray' = FALSE
  /\ End(a) /\ UNCHANGED completed

Next ==
  \/ \E t \in Tabs :
       \/ \E step \in Steps \cup {Review} : ReadForStep(t, step)
       \/ CompleteStep(t) \/ ReadForLaunch(t) \/ Launch(t)
  \/ \E a \in Admins :
       \/ \E verdict \in {"approve", "reject"} : ReadForDecision(a, verdict)
       \/ Approve(a) \/ Reject(a)

Spec == Init /\ [][Next]_vars
-----------------------------------------------------------------------------
TypeOK ==
  /\ lifecycle \in 0..Suspended /\ completed \subseteq Steps \cup {Review}
  /\ store \in {"PENDING", "APPROVED", "REJECTED"}
  /\ review \in {"NONE", "PENDING", "AUTO_APPROVED", "REJECTED"}
  /\ calls \in [Actors -> [at : {"idle", "step", "launch", "approve", "reject"},
                           seen : 0..Suspended, step : 0..Review]]
  /\ made \in 0..MaxCalls /\ astray \in BOOLEAN

(* The three rows of a store agree, however late launches and the          *)
(* decisions of several admins are written: it is listed exactly when its  *)
(* review has been passed and its set-up is active, and so for a rejection *)
(* and for a review that is open.  The exception is a step of the set-up   *)
(* that was begun before a submission or a decision and is written after   *)
(* it: it puts back the lifecycle alone, until the rows are next written   *)
(* together.                                                               *)
RowsAgree ==
  ~astray =>
    /\ store = "APPROVED" <=> lifecycle = Active
    /\ store = "REJECTED" <=> lifecycle = Suspended
    /\ review = "AUTO_APPROVED" <=> lifecycle = Active
    /\ review = "REJECTED" <=> lifecycle = Suspended
    /\ review = "PENDING" <=> lifecycle = ApprovalPending

(* No step is skipped: although a tab may write back a state that others   *)
(* have moved on from, the lifecycle never runs ahead of the steps done,   *)
(* and what has been submitted is complete.                                *)
RankIsEarned ==
  /\ \A step \in Steps : lifecycle >= step => step \in completed
  /\ review # "NONE" => Steps \subseteq completed

(* Whatever two tabs and two admins have read before they write, nothing   *)
(* is reviewed that is not complete, and the rows of a store contradict    *)
(* each other only after a step that a submission or a decision has        *)
(* overtaken.                                                              *)
SetupIsInStep == RowsAgree /\ RankIsEarned

(* "Review submission is idempotent: final validation and state changes    *)
(* happen in one transaction" (docs/architecture.md:37): submitting again  *)
(* does not undo the approval of the first submission.                     *)
SubmissionIsIdempotent == [][store = "APPROVED" => store' # "PENDING"]_vars
=============================================================================
