----------------------------- MODULE PhotoQueue -----------------------------
(***************************************************************************)
(* The photos of a product as a merchant's browser uploads them            *)
(* (product-media-manager.tsx): each photo of the draft shows a file, each *)
(* attempt to upload that file has an id of its own, and attempts wait in  *)
(* a queue.  The queue, the files and the timers belong to the mounted     *)
(* component.  The draft belongs to the drawer around it and outlives the  *)
(* component, which goes when the merchant turns to another step and comes *)
(* back empty; the promises of the old one run on.                         *)
(*                                                                         *)
(* An attempt computes its key, sends the file, and after a 401 renews the *)
(* session and sends it again (upload-engine-api.ts).  JavaScript runs a   *)
(* handler to its next await, so each action is one such stretch.  The     *)
(* limits on files and the order, scope and primacy of photos are left out.*)
(***************************************************************************)
EXTENDS Integers, FiniteSets

CONSTANTS
  Photos,         \* bound: the ids of photos
  Stored,         \* photos an edited product has from the server
  Concurrency,    \* uploadConcurrency
  MaxAttempts,    \* maxUploadAttempts
  MaxFiles,       \* bound: the files that are chosen
  MaxTries        \* bound: the ids of attempts

VARIABLES
  mount,     \* the mounted component, 1 or 2
  draft,     \* the photos of the draft
  kept,      \* imagesRef of component 1 once it is gone
  picked,    \* new photos and replacements whose file is being looked at
  files,     \* filesRef of each component
  queue,     \* queueRef of each component, in the order of the attempts
  flights,   \* the attempts under way
  timers,    \* retryTimersRef of each component, with the failed attempt
  used,      \* files and attempt ids used so far
  crossed    \* history: photos that a component already gone has replaced

photoVars == <<mount, draft, kept, picked, files, queue, flights, timers, used, crossed>>

Mounts == 1..2

NoPhoto == [status |-> "absent", file |-> 0, try |-> 0, n |-> 0, retryable |-> FALSE, asset |-> 0]

Init ==
  /\ mount = 1
  /\ draft = [p \in Photos |-> IF p \in Stored THEN [NoPhoto EXCEPT !.status = "stored", !.file = 1, !.asset = 1]
                               ELSE NoPhoto]
  /\ kept = [p \in Photos |-> NoPhoto]
  /\ picked = {}
  /\ files = [m \in Mounts |-> [p \in Photos |-> 0]]
  /\ queue = [m \in Mounts |-> {}]
  /\ flights = {}
  /\ timers = [m \in Mounts |-> [p \in Photos |-> 0]]
  /\ used = [files |-> 1, tries |-> 0]
  /\ crossed = {}

There(photo) == photo.status \notin {"absent", "removed"}

Active == {"queued", "validating", "uploading", "retrying"}

(* What component m sees as the photos.                                    *)
Seen(m) == IF m = mount THEN draft ELSE kept

(* Mutant: the attempt is not compared.                                    *)
IsAttempt_OfPhoto(photo, try) == There(photo)

IsAttempt(photo, try) == There(photo) /\ photo.try = try

(* updateImageAttempt and updateImage: what component m writes goes to its *)
(* own view of the photos and to the draft.                                *)
Edited(m, p, edit) ==
  [draft |-> [draft EXCEPT ![p] = edit[@]],
   kept |-> IF m = mount THEN kept ELSE [kept EXCEPT ![p] = edit[@]]]

(* Photo p as the draft has it and as the component left behind saw it.    *)
Views(p) == {draft[p], kept[p]}

Same == [draft |-> draft, kept |-> kept]

Written(views) == draft' = views.draft /\ kept' = views.kept

-----------------------------------------------------------------------------
(* Mutant: attempts that wait begin only when another one is queued.       *)
NextUp_OnEnqueue(m, waiting, out, ended) ==
  {first \in waiting : ~ended /\ Cardinality({f \in out : f.mount = m}) < Concurrency
                       /\ \A item \in waiting : first.try <= item.try}

(* processQueue is called whenever an attempt is queued or has ended, and  *)
(* then at most one attempt can begin: the first that waits.  Attempts are *)
(* numbered when they are queued, so that is the one of the least number.  *)
NextUp(m, waiting, out, ended) ==
  {first \in waiting : Cardinality({f \in out : f.mount = m}) < Concurrency
                       /\ \A item \in waiting : first.try <= item.try}

Flight(m, item) ==
  [mount |-> m, photo |-> item.photo, try |-> item.try, file |-> item.file, n |-> item.n,
   at |-> "key", aborted |-> FALSE]

Begun(photos, begun) ==
  [p \in Photos |-> IF \E i \in begun : i.photo = p /\ IsAttempt(photos[p], i.try)
                    THEN [photos[p] EXCEPT !.status = "validating"] ELSE photos[p]]

(* The queue of m becomes `waiting`, the flights become `out`, and the     *)
(* photos as in `views`; then the queue is processed.                      *)
Process(m, waiting, out, ended, views) ==
  LET begun == NextUp(m, waiting, out, ended)
  IN /\ queue' = [queue EXCEPT ![m] = waiting \ begun]
     /\ flights' = out \cup {Flight(m, i) : i \in begun}
     /\ Written([draft |-> Begun(views.draft, begun), kept |-> Begun(views.kept, begun)])

(* A new attempt at uploading the file of photo p, put to the queue.       *)
Enqueue(m, p, file, n, views) ==
  Process(m, queue[m] \cup {[photo |-> p, try |-> used.tries + 1, file |-> file, n |-> n]},
          flights, FALSE, views)

(* handleFiles and replace look at the file first, and wait for that.      *)
LookAt(p) ==
  /\ used.files < MaxFiles
  /\ used' = [used EXCEPT !.files = used.files + 1]
  /\ picked' = picked \cup {[mount |-> mount, photo |-> p, file |-> used.files + 1]}
  /\ UNCHANGED <<mount, draft, kept, files, queue, flights, timers, crossed>>

(* handleFiles for one file, under an id that no photo has had.            *)
Choose(p) ==
  /\ draft[p].status = "absent" /\ \A r \in picked : r.photo # p
  /\ LookAt(p)

(* The rest of it, in the component it was begun in, mounted or not.       *)
Add(r) ==
  LET m == r.mount
      p == r.photo
      edit == [photo \in Views(p) |->
                 [NoPhoto EXCEPT !.status = "queued", !.file = r.file, !.try = used.tries + 1, !.n = 1]]
  IN /\ \A photo \in Views(p) : photo.status = "absent"
     /\ used.tries < MaxTries
     /\ used' = [used EXCEPT !.tries = used.tries + 1]
     /\ picked' = picked \ {r}
     /\ files' = [files EXCEPT ![m][p] = r.file]
     /\ Enqueue(m, p, r.file, 1, Edited(m, p, edit))
     /\ UNCHANGED <<mount, timers, crossed>>

-----------------------------------------------------------------------------
(* abortUpload takes the attempt out of the queue and aborts its request.  *)
(* An attempt that is not under way in this component is aborted at once.  *)
Unqueued(m, try) == {item \in queue[m] : item.try # try}

Aborted(m, try) ==
  {IF f.mount = m /\ f.try = try THEN [f EXCEPT !.aborted = TRUE] ELSE f : f \in flights}

Away(m, try) == \E f \in flights : f.mount = m /\ f.try = try

AbortedPhoto(m, photo) ==
  IF photo.try = 0 \/ Away(m, photo.try) THEN photo ELSE [photo EXCEPT !.status = "aborted", !.retryable = FALSE]

Abort(p) ==
  LET try == draft[p].try
      edit == [photo \in Views(p) |-> AbortedPhoto(mount, photo)]
  IN /\ draft[p].status \in Active \ {"validating"}
     /\ timers' = [timers EXCEPT ![mount][p] = 0]
     /\ queue' = [queue EXCEPT ![mount] = Unqueued(mount, try)]
     /\ flights' = Aborted(mount, try)
     /\ Written(Edited(mount, p, edit))
     /\ UNCHANGED <<mount, picked, files, used, crossed>>

(* remove, which aborts first.                                             *)
Remove(p) ==
  LET edit == [photo \in Views(p) |-> [NoPhoto EXCEPT !.status = "removed"]]
  IN /\ There(draft[p])
     /\ timers' = [timers EXCEPT ![mount][p] = 0]
     /\ queue' = [queue EXCEPT ![mount] = {item \in queue[mount] : item.photo # p}]
     /\ flights' = Aborted(mount, draft[p].try)
     /\ files' = [files EXCEPT ![mount][p] = 0]
     /\ Written(Edited(mount, p, edit))
     /\ UNCHANGED <<mount, picked, used, crossed>>

(* replace is offered for a photo that neither failed nor is under way.    *)
Pick(p) ==
  /\ draft[p].status \in {"stored", "uploaded", "validating"}
  /\ LookAt(p)

(* The rest of replace, whatever has become of the photo meanwhile.        *)
Replace(r) ==
  LET m == r.mount
      p == r.photo
      try == Seen(m)[p].try
      edit == [photo \in Views(p) |->
        IF There(photo)
        THEN [NoPhoto EXCEPT !.status = "queued", !.file = r.file, !.try = used.tries + 1, !.n = 1]
        ELSE photo]
  IN /\ Seen(m)[p].status # "absent"
     /\ used.tries < MaxTries
     /\ used' = [used EXCEPT !.tries = used.tries + 1]
     /\ picked' = picked \ {r}
     /\ timers' = [timers EXCEPT ![m][p] = 0]
     /\ files' = [files EXCEPT ![m][p] = r.file]
     /\ Process(m, Unqueued(m, try) \cup {[photo |-> p, try |-> used.tries + 1, file |-> r.file, n |-> 1]},
                Aborted(m, try), FALSE, Edited(m, p, edit))
     /\ crossed' = IF m = mount THEN crossed ELSE crossed \cup {p}
     /\ UNCHANGED mount

-----------------------------------------------------------------------------
(* retry and the end of an automatic retry's delay make a new attempt at   *)
(* the file that the component holds for the photo.                        *)
Again(m, p) ==
  LET photo == Seen(m)[p]
      edit == [other \in Views(p) |->
        IF IsAttempt(other, photo.try)
        THEN [other EXCEPT !.status = "retrying", !.try = used.tries + 1, !.n = photo.n + 1, !.retryable = FALSE]
        ELSE other]
  IN /\ used.tries < MaxTries
     /\ used' = [used EXCEPT !.tries = used.tries + 1]
     /\ timers' = [timers EXCEPT ![m][p] = 0]
     /\ Enqueue(m, p, files[m][p], photo.n + 1, Edited(m, p, edit))
     /\ UNCHANGED <<mount, picked, files, crossed>>

(* By the button of the photo or of a message of either component, or for  *)
(* a photo that failed when the browser is online again.                   *)
Retry(m, p) ==
  /\ m <= mount
  /\ Seen(m)[p].status \in {"failed", "aborted"} /\ files[m][p] # 0
  /\ Again(m, p)

TimerFires(m, p) ==
  /\ timers[m][p] # 0
  /\ LET photo == Seen(m)[p]
     IN IF photo.try = timers[m][p] /\ photo.status = "failed" /\ photo.retryable /\ files[m][p] # 0
        THEN Again(m, p)
        ELSE /\ timers' = [timers EXCEPT ![m][p] = 0]
             /\ UNCHANGED <<mount, draft, kept, picked, files, queue, flights, used, crossed>>

-----------------------------------------------------------------------------
(* updateImageAttempt by attempt f.                                        *)
Outcome(f, status, retryable, asset) ==
  Edited(f.mount, f.photo,
    [photo \in Views(f.photo) |->
      IF IsAttempt(photo, f.try)
      THEN [photo EXCEPT !.status = status, !.retryable = retryable, !.asset = asset]
      ELSE photo])

Onward(f, at) ==
  /\ flights' = (flights \ {f}) \cup {[f EXCEPT !.at = at]}
  /\ UNCHANGED <<mount, picked, files, queue, timers, used, crossed>>

(* The key is made and the request sent.                                   *)
Send(f) ==
  f.at = "key" /\ ~f.aborted /\ Onward(f, "sent") /\ Written(Outcome(f, "uploading", FALSE, 0))

(* The server answers 401, the first time.                                 *)
Refused(f) == f.at = "sent" /\ ~f.aborted /\ Onward(f, "session") /\ UNCHANGED <<draft, kept>>

(* With the session renewed the request is sent again.  An abort that came *)
(* before is not heard any more.                                           *)
Resend(f) == f.at = "session" /\ Onward(f, IF f.aborted THEN "deaf" ELSE "resent") /\ UNCHANGED <<draft, kept>>

(* The end of startUpload, with what follows it.                           *)
Ended(f, timersAfter, filesAfter, views) ==
  /\ Process(f.mount, queue[f.mount], flights \ {f}, TRUE, views)
  /\ timers' = timersAfter /\ files' = filesAfter
  /\ UNCHANGED <<mount, picked, used, crossed>>

(* An answer counts only when the photo still waits for this attempt.      *)
Arrives(f) ==
  /\ f.at = "deaf" \/ (f.at \in {"sent", "resent"} /\ ~f.aborted)
  /\ IF IsAttempt(Seen(f.mount)[f.photo], f.try)
     THEN Ended(f, timers, [files EXCEPT ![f.mount][f.photo] = 0], Outcome(f, "uploaded", FALSE, f.file))
     ELSE Ended(f, timers, files, Same)

(* The request fails; a timer is set while attempts are left.              *)
Fails(f, retryable) ==
  LET again == retryable /\ f.n < MaxAttempts /\ files[f.mount][f.photo] # 0
  IN /\ f.at = "deaf" \/ ~f.aborted
     /\ Ended(f, IF again THEN [timers EXCEPT ![f.mount][f.photo] = f.try] ELSE timers,
              files, Outcome(f, "failed", retryable, 0))

(* The abort is noticed.                                                   *)
IsAborted(f) == f.aborted /\ f.at # "deaf" /\ Ended(f, timers, files, Outcome(f, "aborted", FALSE, 0))

-----------------------------------------------------------------------------
(* The merchant turns to another step and comes back: the component aborts *)
(* its requests and stops its timers, and a new one has the draft only.    *)
Leave ==
  /\ mount = 1
  /\ mount' = 2
  /\ kept' = draft
  /\ flights' = {[f EXCEPT !.aborted = TRUE] : f \in flights}
  /\ timers' = [timers EXCEPT ![1] = [p \in Photos |-> 0]]
  /\ UNCHANGED <<draft, picked, files, queue, used, crossed>>

Progress(f) ==
  \/ Send(f) \/ Refused(f) \/ Resend(f) \/ Arrives(f) \/ IsAborted(f)
  \/ \E retryable \in BOOLEAN : Fails(f, retryable)

FlightOf(m) == \E f \in flights : f.mount = m /\ Progress(f)

Next ==
  \/ \E p \in Photos : Choose(p) \/ Abort(p) \/ Remove(p) \/ Pick(p)
  \/ \E r \in picked : Add(r) \/ Replace(r)
  \/ \E m \in Mounts, p \in Photos : Retry(m, p) \/ TimerFires(m, p)
  \/ \E m \in Mounts : FlightOf(m)
  \/ Leave

Spec == Init /\ [][Next]_photoVars

-----------------------------------------------------------------------------
File == 0..MaxFiles

Try == 0..MaxTries

Photo == [status : Active \cup {"absent", "removed", "stored", "uploaded", "failed", "aborted"},
          file : File, try : Try, n : Nat, retryable : BOOLEAN, asset : File]

(* Every variable has its type.                                            *)
TypeOK ==
  /\ mount \in Mounts
  /\ draft \in [Photos -> Photo] /\ kept \in [Photos -> Photo]
  /\ picked \subseteq [mount : Mounts, photo : Photos, file : File]
  /\ files \in [Mounts -> [Photos -> File]]
  /\ timers \in [Mounts -> [Photos -> Try]]
  /\ queue \in [Mounts -> SUBSET [photo : Photos, try : Try, file : File, n : Nat]]
  /\ flights \subseteq [mount : Mounts, photo : Photos, try : Try, file : File, n : Nat,
                         at : {"key", "sent", "session", "resent", "deaf"}, aborted : BOOLEAN]
  /\ used \in [files : File, tries : Try]
  /\ crossed \subseteq Photos

(* The asset of a photo, which is what the product is saved with, was made *)
(* of the file that the photo shows: the answer to an attempt at another   *)
(* file never lands there, however replacing, removing, retrying and       *)
(* leaving cross it.  (Except for a photo that a component has replaced    *)
(* after it was left: replace asks nothing once the file is looked at.)    *)
(* No attempt waits while it is under way.                                 *)
AssetIsItsFile ==
  /\ \A p \in Photos \ crossed : draft[p].asset # 0 => draft[p].asset = draft[p].file
  /\ \A m \in Mounts : \A item \in queue[m] : ~Away(m, item.try)

Waiting(p) == draft[p].status \in Active

(* A photo that shows it is waiting has its attempt in a queue or under    *)
(* way, and a queue that is not empty has an attempt under way whose end   *)
(* moves it on: nothing waits for ever, even when its component is gone,   *)
(* since every request ends by its timeout at the latest.                  *)
WaitingIsOnItsWay ==
  /\ \A p \in Photos : Waiting(p) =>
       \E m \in Mounts : Away(m, draft[p].try) \/ \E item \in queue[m] : item.try = draft[p].try
  /\ \A m \in Mounts : queue[m] # {} => \E f \in flights : f.mount = m
=============================================================================
