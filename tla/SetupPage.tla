----------------------------- MODULE SetupPage ------------------------------
(***************************************************************************)
(* The page on which a merchant sets up a store (useOnboarding.ts) with    *)
(* the handlers that keep its drafts and complete its steps                *)
(* (onboarding.service.ts, draft.service.ts).                              *)
(*                                                                         *)
(* The page lets the merchant go on before a step is stored: completions   *)
(* wait in a queue of promises, edits are saved as drafts two seconds      *)
(* later, and a newer save or the completion of the step aborts the save   *)
(* under way, which the server may carry out nevertheless.  A draft has a  *)
(* version, which a request names and the answer renews.                   *)
(*                                                                         *)
(* One page from its loading to the launch, and the only one of its store. *)
(* Its code runs with its microtasks to the next request; a handler of the *)
(* server reads in one step and writes in another.  The contents of a step *)
(* are the number of the edit that made them, 0 as loaded.  The copy in    *)
(* localStorage, the upload of logos and the checks of a form, which only  *)
(* refuse, are left out.                                                   *)
(***************************************************************************)
EXTENDS Naturals, Sequences

CONSTANTS
  LastStep,      \* the steps of the setup are 1..LastStep (5 of them)
  Unversioned,   \* steps that are completed whatever the draft's version (LOCATION)
  MaxEdits,      \* bound on edits and completions
  MaxSent,       \* bound on the requests
  MaxFaults      \* bound on lost answers and on forms only the server finds wrong

Steps == 1 .. LastStep

Review == LastStep + 1

Submitted == LastStep + 2   \* the lifecycle's APPROVAL_PENDING

VARIABLES
  values,       \* valuesRef: what the page shows of each step
  shown,        \* currentStepRef
  generation,   \* localGeneration
  known,        \* versionsRef, 0 if undefined
  pending,      \* pendingAutoSave with its timer
  save,         \* the draft save under way (draftSaveAbort, -Promise, -Step)
  completions,  \* completionQueue, first the one under way
  completing,   \* the request of the completion under way, or 0
  failed,       \* failedCompletion: its step, or 0
  launch,       \* what handleLaunch waits for
  saving,       \* savingState
  drafts,       \* store_onboarding_drafts, version 0 if there is no row
  committed,    \* the step's contents in the tables of the store
  rank,         \* store_onboarding_states.state
  requests,     \* the requests at the server or answered by it
  sent,         \* how many requests have been sent
  faults,       \* how many faults there were
  confirmed,    \* history: the contents with which a step was last continued
  told,         \* history: the steps with a failed completion
  unsaved       \* ... and with no later one that succeeded

pageVars == <<values, shown, generation, known, pending, save, completions, completing, failed,
              launch, saving>>

serverVars == <<drafts, committed, rank>>

historyVars == <<confirmed, told, unsaved>>

setupVars == <<pageVars, serverVars, requests, sent, faults, historyVars>>

Nothing == [step |-> 0, value |-> 0]

NoSave == [id |-> 0, step |-> 0, generation |-> 0, byHand |-> FALSE]

NotLaunching == [at |-> "no", on |-> 0]

(* The page loads a store whose first steps have been done.                *)
Init ==
  /\ rank \in 0 .. LastStep
  /\ shown = rank + 1
  /\ drafts = [s \in Steps |-> [value |-> 0, version |-> IF s <= rank THEN 1 ELSE 0]]
  /\ known = [s \in Steps |-> drafts[s].version]
  /\ values = [s \in Steps |-> 0] /\ committed = values /\ confirmed = values
  /\ generation = 0 /\ pending = Nothing /\ save = NoSave
  /\ completions = << >> /\ completing = 0 /\ failed = 0
  /\ launch = NotLaunching /\ saving = "idle"
  /\ requests = {} /\ sent = 0 /\ faults = 0
  /\ told = {} /\ unsaved = {}

(* A step of the microtasks is due: nothing else happens on the page.      *)
Due ==
  \/ completions # << >> /\ completing = 0
  \/ launch.at = "queue" /\ completions = << >>
  \/ launch.at = "ready"

Open == ~Due /\ launch.at # "done"

Post(rest, kind, what) ==
  /\ sent < MaxSent /\ sent' = sent + 1
  /\ requests' = rest \cup
       {[id |-> sent', kind |-> kind, step |-> what.step, value |-> what.value,
         version |-> IF what.step \in Steps THEN known[what.step] ELSE 0,
         at |-> "sent", rank |-> 0, answer |-> 0]}

(* Without a request that is aborted; the server may go on with it.        *)
Left(id) ==
  LET rest == {r \in requests : r.id # id}
  IN  {rest, rest \cup {r \in requests : r.id = id /\ r.at # "done"}}

(* handleLaunch once the save it waits for has ended and left another one. *)
Hears(id, outcome, next) ==
  IF launch.at \notin {"first", "second"} \/ launch.on # id THEN launch
  ELSE IF outcome = "failed" THEN NotLaunching
  ELSE IF launch.at = "first" /\ next # 0 THEN [at |-> "second", on |-> next]
  ELSE [at |-> "ready", on |-> 0]

StartDraftSave(what, byHand) ==
  /\ \E rest \in Left(save.id) : Post(rest, "save", what)
  /\ save' = [id |-> sent', step |-> what.step, generation |-> generation, byHand |-> byHand]
  /\ saving' = "saving"

UpdateValue ==
  /\ Open /\ shown \in Steps
  /\ generation < MaxEdits /\ generation' = generation + 1
  /\ values' = [values EXCEPT ![shown] = generation']
  /\ pending' = [step |-> shown, value |-> generation']
  /\ saving' = "idle"
  /\ UNCHANGED <<shown, known, save, completions, completing, failed, launch, serverVars,
                 requests, sent, faults, historyVars>>

AutoSave ==
  /\ ~Due /\ pending # Nothing
  /\ StartDraftSave(pending, FALSE)
  /\ pending' = Nothing
  /\ launch' = Hears(save.id, "aborted", sent')
  /\ UNCHANGED <<values, shown, generation, known, completions, completing, failed, serverVars,
                 faults, historyVars>>

SaveCurrentDraft ==
  /\ Open /\ shown \in Steps /\ saving # "saving" /\ launch.at = "no"
  /\ StartDraftSave([step |-> shown, value |-> values[shown]], TRUE)
  /\ pending' = IF pending.step = shown THEN Nothing ELSE pending
  /\ UNCHANGED <<values, shown, generation, known, completions, completing, failed, launch, serverVars,
                 faults, historyVars>>

CompleteCurrentStep ==
  /\ Open /\ shown \in Steps /\ launch.at = "no"
  /\ generation < MaxEdits /\ generation' = generation + 1
  /\ failed' = IF failed = shown THEN 0 ELSE failed
  /\ completions' = Append(completions, [step |-> shown, value |-> values[shown]])
  /\ confirmed' = [confirmed EXCEPT ![shown] = values[shown]]
  /\ shown' = shown + 1
  /\ saving' = "saving"
  /\ UNCHANGED <<values, known, pending, save, completing, launch, serverVars, requests, sent, faults,
                 told, unsaved>>

GoBack ==
  /\ Open /\ shown > 1 /\ shown' = shown - 1
  /\ UNCHANGED <<values, generation, known, pending, save, completions, completing, failed, launch,
                 saving, serverVars, requests, sent, faults, historyVars>>

(* The next completion ends the draft saves of its step and is sent.       *)
SendCompletion ==
  /\ completions # << >> /\ completing = 0
  /\ LET c == Head(completions)
         ends == save.step = c.step
     IN  /\ pending' = IF pending.step = c.step THEN Nothing ELSE pending
         /\ save' = IF ends THEN NoSave ELSE save
         /\ \E rest \in (IF ends THEN Left(save.id) ELSE {requests}) : Post(rest, "complete", c)
  /\ completing' = sent'
  /\ UNCHANGED <<values, shown, generation, known, completions, failed, launch, saving, serverVars,
                 faults, historyVars>>

HandleLaunch ==
  /\ Open /\ shown = Review /\ launch.at = "no"
  /\ launch' = [at |-> "queue", on |-> 0]
  /\ UNCHANGED <<values, shown, generation, known, pending, save, completions, completing, failed, saving,
                 serverVars, requests, sent, faults, historyVars>>

(* Mutant: the launch does not wait for the completions.                   *)
QueueIsDone_Always == TRUE

QueueIsDone == completions = << >>

FlushAnyPendingDraftSave ==
  /\ launch.at = "queue" /\ QueueIsDone
  /\ \/ /\ pending # Nothing
        /\ StartDraftSave(pending, FALSE) /\ pending' = Nothing
        /\ launch' = [at |-> "first", on |-> sent']
     \/ /\ pending = Nothing
        /\ launch' = IF save.id # 0 THEN [at |-> "second", on |-> save.id] ELSE [at |-> "ready", on |-> 0]
        /\ UNCHANGED <<pending, save, saving, requests, sent>>
  /\ UNCHANGED <<values, shown, generation, known, completions, completing, failed, serverVars, faults,
                 historyVars>>

SendLaunch ==
  /\ launch.at = "ready"
  /\ \/ failed # 0 /\ launch' = NotLaunching /\ UNCHANGED <<requests, sent>>
     \/ /\ failed = 0 /\ Post(requests, "launch", Nothing)
        /\ launch' = [at |-> "sent", on |-> sent']
  /\ UNCHANGED <<values, shown, generation, known, pending, save, completions, completing, failed, saving,
                 serverVars, faults, historyVars>>
-----------------------------------------------------------------------------
(* How a request ends for the page: with the version that was written, or  *)
(* with 0 if it failed.                                                    *)
SaveEnds(answer) ==
  LET latest == save.generation = generation
  IN  /\ known' = IF answer = 0 THEN known ELSE [known EXCEPT ![save.step] = answer]
      /\ saving' = IF answer = 0 THEN IF latest \/ save.byHand THEN "error" ELSE saving
                   ELSE IF latest THEN "saved" ELSE saving
      /\ save' = NoSave
      /\ launch' = Hears(save.id, IF answer = 0 THEN "failed" ELSE "saved", 0)
      /\ UNCHANGED <<completions, completing, failed, told, unsaved>>

CompletionEnds(answer) ==
  LET step == Head(completions).step
  IN  /\ known' = IF answer = 0 THEN known ELSE [known EXCEPT ![step] = answer]
      /\ failed' = IF answer = 0 THEN step ELSE 0
      /\ saving' = IF answer = 0 THEN "error" ELSE "saved"
      /\ told' = IF answer = 0 THEN told \cup {step} ELSE told
      /\ unsaved' = IF answer = 0 THEN unsaved \cup {step} ELSE unsaved \ {step}
      /\ completions' = Tail(completions) /\ completing' = 0
      /\ UNCHANGED <<save, launch>>

LaunchEnds(answer) ==
  /\ launch' = IF answer = 0 THEN NotLaunching ELSE [at |-> "done", on |-> 0]
  /\ UNCHANGED <<known, saving, save, completions, completing, failed, told, unsaved>>

Ends(id, answer) ==
  \/ id = save.id /\ SaveEnds(answer)
  \/ id = completing /\ CompletionEnds(answer)
  \/ launch.at = "sent" /\ id = launch.on /\ LaunchEnds(answer)

Arrives(r) ==
  /\ ~Due /\ r.at = "done"
  /\ Ends(r.id, r.answer)
  /\ requests' = requests \ {r}
  /\ UNCHANGED <<values, shown, generation, pending, serverVars, sent, faults, confirmed>>

(* The connection breaks; the server may go on.                            *)
Breaks(r) ==
  /\ ~Due /\ faults < MaxFaults /\ faults' = faults + 1
  /\ Ends(r.id, 0)
  /\ requests' \in Left(r.id)
  /\ UNCHANGED <<values, shown, generation, pending, serverVars, sent, confirmed>>
-----------------------------------------------------------------------------
(* What the server makes of a request; nobody waits for an aborted one.    *)
Becomes(r, at, answer) ==
  requests' = (requests \ {r}) \cup
    IF at = "done" /\ r.id # save.id /\ r.id # completing /\ r.id # launch.on THEN {}
    ELSE {[r EXCEPT !.at = at, !.answer = answer, !.rank = IF r.kind = "complete" THEN rank ELSE 0]}

(* The draft has been changed since the version that the request names.    *)
Conflict(r) ==
  /\ ~(r.kind = "complete" /\ r.step \in Unversioned)
  /\ r.version # 0 /\ drafts[r.step].version # 0
  /\ drafts[r.step].version # r.version

ReadForRequest(r) ==
  /\ r.at = "sent"
  /\ CASE r.kind = "launch" ->
            IF rank >= Submitted THEN Becomes(r, "done", 1)
            ELSE IF rank >= LastStep THEN Becomes(r, "read", 0) ELSE Becomes(r, "done", 0)
       [] r.kind = "save" -> IF Conflict(r) THEN Becomes(r, "done", 0) ELSE Becomes(r, "read", 0)
       [] OTHER -> IF Conflict(r) \/ rank < r.step - 1 THEN Becomes(r, "done", 0) ELSE Becomes(r, "read", 0)
  /\ UNCHANGED <<pageVars, serverVars, sent, faults, historyVars>>

(* A draft save, or the completion of a step that the server finds wrong,  *)
(* which is kept as a draft.                                               *)
SaveDraft(r) ==
  /\ \/ r.kind = "save" /\ r.at = "read" /\ UNCHANGED faults
     \/ /\ r.kind = "complete" /\ r.at = "sent" /\ ~Conflict(r)
        /\ faults < MaxFaults /\ faults' = faults + 1
  /\ drafts' = [drafts EXCEPT ![r.step] = [value |-> r.value, version |-> @.version + 1]]
  /\ Becomes(r, "done", IF r.kind = "save" THEN drafts'[r.step].version ELSE 0)
  /\ UNCHANGED <<pageVars, committed, rank, sent, historyVars>>

CompleteStep(r) ==
  /\ r.kind = "complete" /\ r.at = "read"
  /\ drafts' = [drafts EXCEPT ![r.step] = [value |-> r.value, version |-> @.version + 1]]
  /\ committed' = [committed EXCEPT ![r.step] = r.value]
  /\ rank' = IF r.rank <= r.step THEN r.step ELSE r.rank
  /\ Becomes(r, "done", drafts'[r.step].version)
  /\ UNCHANGED <<pageVars, sent, faults, historyVars>>

LaunchStore(r) ==
  /\ r.kind = "launch" /\ r.at = "read"
  /\ rank' = Submitted
  /\ Becomes(r, "done", 1)
  /\ UNCHANGED <<pageVars, drafts, committed, sent, faults, historyVars>>

Next ==
  \/ UpdateValue \/ AutoSave \/ SaveCurrentDraft \/ CompleteCurrentStep \/ GoBack
  \/ SendCompletion \/ HandleLaunch \/ FlushAnyPendingDraftSave \/ SendLaunch
  \/ \E r \in requests :
       \/ Arrives(r) \/ Breaks(r)
       \/ ReadForRequest(r) \/ SaveDraft(r) \/ CompleteStep(r) \/ LaunchStore(r)

Spec == Init /\ [][Next]_setupVars
-----------------------------------------------------------------------------
TypeOK ==
  /\ values \in [Steps -> 0 .. MaxEdits] /\ confirmed \in [Steps -> 0 .. MaxEdits]
  /\ committed \in [Steps -> 0 .. MaxEdits]
  /\ shown \in 1 .. Review /\ rank \in 0 .. Submitted
  /\ generation \in 0 .. MaxEdits /\ sent \in 0 .. MaxSent /\ faults \in 0 .. MaxFaults
  /\ \A s \in Steps : known[s] <= drafts[s].version
  /\ save.id \in 0 .. sent /\ completing \in 0 .. sent
  /\ completing # 0 => completions # << >>
  /\ failed \in Steps \cup {0} /\ unsaved \subseteq told /\ told \subseteq Steps
  /\ saving \in {"idle", "saving", "saved", "error"}
  /\ launch.at \in {"no", "queue", "first", "second", "ready", "sent", "done"}

Launches == launch.at \in {"sent", "done"}

(* What is submitted for review is what the merchant has confirmed: for    *)
(* each step the store holds the contents of its last "Continue", or newer *)
(* ones, however many completions were still queued when "Submit" was      *)
(* pressed and however saves and completions overtook each other, unless   *)
(* the page said that the step could not be saved.                         *)
ConfirmedIsSubmitted ==
  Launches => \A s \in Steps \ told : committed[s] >= confirmed[s]

(* "Finish saving the previous onboarding step before submitting."         *)
(* (useOnboarding.ts:509): a store is not submitted while the last         *)
(* completion of a step has failed.                                        *)
FailureHoldsLaunch == Launches => unsaved = {}
=============================================================================
