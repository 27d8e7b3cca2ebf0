---------------------------- MODULE UploadEngine ----------------------------
(***************************************************************************)
(* Product images: their upload under an idempotency key                   *)
(* (upload-engine.service.ts over UploadIdempotency), their use by a       *)
(* product (products.service.ts) and the sweep that removes the rest.      *)
(*                                                                         *)
(* An upload stores the original with the media provider, writes a row in  *)
(* upload_assets and completes its key; what fails after the original was  *)
(* stored destroys it.  A request makes one asset at most and names it.    *)
(* The rows and the provider's files agree only as far as these steps keep *)
(* them so.  (The semaphore that turns a third upload away with 429 stands *)
(* before everything and leaves nothing behind.)                           *)
(***************************************************************************)
EXTENDS UploadIdempotency

CONSTANTS
  Editors,     \* edits of the product that may be under way
  MaxTries,    \* attempts after which an asset is not swept any more (5)
  MaxEdits     \* bound on the edits

VARIABLES
  original,   \* requests that hold the provider's answer
  files,      \* the originals that the provider has, by public id (external)
  assets,     \* upload_assets
  image,      \* product_images: the asset of one product's image
  edits,      \* what each editor has read and is about to write
  edited,     \* how many edits there have been
  sweep,      \* the assets that a sweep has read and not dealt with
  late,       \* (auxiliary) assets attached after they had expired
  doubted     \* (auxiliary) assets whose key was completed by an update that reported an error

imageVars == <<assets, image, edits, edited, late>>

engineVars == <<original, files, imageVars, sweep, doubted>>

vars == <<keyVars, engineVars>>

NoImage == "none"

NoAsset == [status |-> "NONE", expired |-> FALSE, aged |-> FALSE, tries |-> 0, cleaned |-> FALSE]

Asset == [status : {"NONE", "READY", "ATTACHED", "ORPHANED", "REJECTED"},
          expired : BOOLEAN, aged : BOOLEAN, tries : Nat, cleaned : BOOLEAN]

NoEdit == [at |-> "idle", seen |-> NoImage, to |-> NoImage]

Init ==
  /\ InitKey
  /\ original = {} /\ files = {}
  /\ assets = [r \in Requests |-> NoAsset]
  /\ image = NoImage
  /\ edits = [e \in Editors |-> NoEdit] /\ edited = 0
  /\ sweep = {}
  /\ late = {} /\ doubted = {}

-----------------------------------------------------------------------------
(* The upload.                                                             *)

Goes(r, point) == Goto(r, point) /\ UNCHANGED <<row, executed, entry, persists>>

(* The image is refused, or the provider is not asked.                     *)
Refuse(r) ==
  /\ At(r, "work") /\ r \notin original
  /\ Goes(r, "fail") /\ UNCHANGED engineVars

(* Mutant: the folder is made from the image's content.                    *)
PublicId_OfContent(r) == Hash[r]

(* The file of an asset: its folder is made from the asset's own id.       *)
PublicId(r) == r

(* The original is stored and its answer arrives; or the answer is lost,   *)
(* and nobody knows of the file.                                           *)
UploadOriginal(r) ==
  /\ At(r, "work") /\ r \notin original
  /\ \/ /\ files' = files \cup {PublicId(r)} /\ original' = original \cup {r}
        /\ UNCHANGED keyVars
     \/ /\ files' \in {files, files \cup {PublicId(r)}}
        /\ Goes(r, "fail") /\ UNCHANGED original
  /\ UNCHANGED <<imageVars, sweep, doubted>>

(* The row is written, or the client has gone or the write fails.          *)
PersistReadyAsset(r) ==
  /\ At(r, "work") /\ r \in original
  /\ \/ /\ assets' = [assets EXCEPT ![r].status = "READY"]
        /\ executed' = executed \cup {r} /\ Goto(r, "complete")
        /\ UNCHANGED <<row, entry, persists>>
     \/ Goes(r, "fail") /\ UNCHANGED assets
  /\ UNCHANGED <<original, files, image, edits, edited, sweep, late, doubted>>

(* Completing the key in the table may report an error, with or without    *)
(* having had its effect.                                                  *)
CompletionFails(r) ==
  /\ At(r, "complete") /\ requests[r].backend = "database"
  /\ \/ UNCHANGED <<row, doubted>>
     \/ row' = [row EXCEPT !.status = "COMPLETED", !.by = r] /\ doubted' = doubted \cup {r}
  /\ Goto(r, "fail")
  /\ UNCHANGED <<executed, entry, persists, original, files, imageVars, sweep>>

(* Whatever failed, a stored original is destroyed, if that succeeds.      *)
DestroyOriginal(r) ==
  /\ At(r, "fail") /\ r \in original
  /\ original' = original \ {r}
  /\ files' \in {files, files \ {PublicId(r)}}
  /\ UNCHANGED <<keyVars, imageVars, sweep, doubted>>

UploadStep(r) ==
  \/ KeyStep(r) /\ (At(r, "fail") => r \notin original) /\ UNCHANGED engineVars
  \/ Refuse(r) \/ UploadOriginal(r) \/ PersistReadyAsset(r)
  \/ CompletionFails(r) \/ DestroyOriginal(r)
  \/ Crash(r) /\ original' = original \ {r}
       /\ UNCHANGED <<entry, persists, files, imageVars, sweep, doubted>>

-----------------------------------------------------------------------------
(* The product's image (one of the eight it may have).                     *)

(* The assets that clients have been told of.                              *)
Told == {r \in Requests : At(r, "answered")}
          \cup {requests[r].from : r \in {s \in Requests : At(s, "replayed")}}

Attachable(a) == assets[a].status = "READY" /\ ~assets[a].expired /\ a # image

(* An edit reads the product and checks an asset that is new to it; what   *)
(* it is going to write is decided by then.                                *)
BeginEdit(e, kind, to) ==
  /\ edits[e] = NoEdit /\ edited < MaxEdits /\ edited' = edited + 1
  /\ to \in {NoImage, image} \/ (to \in Told /\ Attachable(to))
  /\ \/ kind = "update"
     \/ kind = "replace" /\ image # NoImage /\ to \notin {NoImage, image}
     \/ kind = "delete" /\ image # NoImage /\ to = NoImage
  /\ edits' = [edits EXCEPT ![e] = [at |-> kind, seen |-> image, to |-> to]]
  /\ UNCHANGED <<keyVars, original, files, assets, image, sweep, late, doubted>>

(* Commits edit e: the asset it writes is attached and the one it has read *)
(* orphaned, whatever has become of both.                                  *)
Swap(e) ==
  LET edit == edits[e] IN
  /\ image' = edit.to
  /\ assets' = [a \in Requests |->
       IF a = edit.to THEN [assets[a] EXCEPT !.status = "ATTACHED", !.aged = FALSE]
       ELSE IF a = edit.seen THEN [assets[a] EXCEPT !.status = "ORPHANED", !.aged = FALSE]
       ELSE assets[a]]
  /\ late' = IF edit.to \notin {NoImage, edit.seen} /\ assets[edit.to].expired
             THEN late \cup {edit.to} ELSE late
  /\ UNCHANGED <<keyVars, original, files, edited, sweep, doubted>>

(* updateProduct deletes the image rows and writes new ones, deleteImage   *)
(* deletes one: other edits of the row will not find it.                   *)
RewriteImage(e) ==
  /\ edits[e].at \in {"update", "delete"} /\ Swap(e)
  /\ edits' = [f \in Editors |-> IF f = e \/ edits[f].at # "update" THEN NoEdit ELSE edits[f]]

ReplaceImage(e) ==
  /\ edits[e].at = "replace" /\ Swap(e)
  /\ edits' = [edits EXCEPT ![e] = NoEdit]

-----------------------------------------------------------------------------
(* The sweep.                                                              *)

(* The 24 hours of an asset that nothing uses pass.                        *)
Expire(a) ==
  /\ assets[a].status = "READY" /\ ~assets[a].expired
  /\ assets' = [assets EXCEPT ![a].expired = TRUE]
  /\ UNCHANGED <<keyVars, original, files, image, edits, edited, sweep, late, doubted>>

(* Fifteen minutes pass; no edit that has read the asset lasts as long.    *)
Age(a) ==
  /\ assets[a].status \in {"ORPHANED", "REJECTED"} /\ ~assets[a].aged
  /\ \A e \in Editors : a \notin {edits[e].seen, edits[e].to}
  /\ assets' = [assets EXCEPT ![a].aged = TRUE]
  /\ UNCHANGED <<keyVars, original, files, image, edits, edited, sweep, late, doubted>>

Sweepable(a) ==
  /\ ~assets[a].cleaned /\ assets[a].tries < MaxTries
  /\ \/ assets[a].status \in {"ORPHANED", "REJECTED"} /\ assets[a].aged
     \/ assets[a].status = "READY" /\ assets[a].expired /\ a # image

ReadSweep ==
  /\ sweep = {} /\ sweep' = {a \in Requests : Sweepable(a)} /\ sweep' # {}
  /\ UNCHANGED <<keyVars, original, files, imageVars, doubted>>

(* The files of an asset are destroyed and the asset written off without   *)
(* another look at its status; or the provider fails; or the time of the   *)
(* sweep is up, which ends the loop over the files but not the write.      *)
SweepAsset(a) ==
  /\ a \in sweep
  /\ \/ /\ files' \in {files, files \ {PublicId(a)}}
        /\ assets' = [assets EXCEPT ![a].status = "REJECTED", ![a].aged = FALSE,
                                   ![a].cleaned = TRUE, ![a].tries = @ + 1]
        /\ sweep' = sweep \ {a}
     \/ /\ files' \in {files, files \ {PublicId(a)}}
        /\ assets' = [assets EXCEPT ![a].aged = FALSE, ![a].tries = @ + 1]
        /\ sweep' = sweep \ {a}
     \/ sweep' = {} /\ UNCHANGED <<files, assets>>
  /\ UNCHANGED <<keyVars, original, image, edits, edited, late, doubted>>

Next ==
  \/ \E r \in Requests : UploadStep(r)
  \/ LeaseEnds /\ UNCHANGED engineVars
  \/ \E e \in Editors :
       \/ \E kind \in {"update", "replace", "delete"}, to \in Requests \cup {NoImage} : BeginEdit(e, kind, to)
       \/ RewriteImage(e) \/ ReplaceImage(e)
  \/ \E a \in Requests : Expire(a) \/ Age(a) \/ SweepAsset(a)
  \/ ReadSweep

Spec == Init /\ [][Next]_vars
-----------------------------------------------------------------------------
TypeOK ==
  /\ KeyTypeOK
  /\ files \subseteq {PublicId(r) : r \in Requests}
  /\ original \cup sweep \cup late \cup doubted \subseteq Requests
  /\ assets \in [Requests -> Asset]
  /\ image \in Requests \cup {NoImage}
  /\ edits \in [Editors -> [at : {"idle", "update", "replace", "delete"},
                            seen : Requests \cup {NoImage}, to : Requests \cup {NoImage}]]

(* The original of an image is there as long as anyone may see or use it:  *)
(* neither the upload's own clean-up, when the request or another under    *)
(* its key fails, nor the sweep takes it from an asset that a client has   *)
(* been told of and may attach, or that a product shows, in whatever order *)
(* edits of the product commit.  Two cases are left out: the asset expires *)
(* between an edit's check and its commit, and the update that completes   *)
(* the key reports an error after it has taken effect.                     *)
OfferedIsStored ==
  \A a \in Requests \ (late \cup doubted) :
    a = image \/ (a \in Told /\ Attachable(a)) => PublicId(a) \in files
=============================================================================
