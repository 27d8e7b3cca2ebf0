------------------------- MODULE UploadIdempotency -------------------------
(***************************************************************************)
(* The key of an image upload (uploads/idempotency.service.ts for          *)
(* upload.image.v1): a lease of 60 seconds in Redis, taken with SET NX,    *)
(* completed and given up by scripts that compare the reservation id, and  *)
(* the table when Redis does not answer.                                   *)
(*                                                                         *)
(* A Redis command that is answered with an error may have had its effect  *)
(* (the client's command timeout is 250 ms).                               *)
(***************************************************************************)
EXTENDS IdempotencyRows

CONSTANTS RedisMayFail,   \* whether a Redis command may be answered with an error
          LeaseMayEnd     \* whether an upload may take longer than its lease

VARIABLES
  entry,     \* the Redis entry of the key; owner is its reservationId
  persists   \* completed requests whose row is still to be written

keyVars == <<rowVars, entry, persists>>

Entry == [status : {"NONE", "IN_PROGRESS", "COMPLETED"},
          hash : {Hash[r] : r \in Requests} \cup {Nobody},
          owner : Requests \cup {Nobody}]

NoEntry == [status |-> "NONE", hash |-> Nobody, owner |-> Nobody]

Lease(r) == [status |-> "IN_PROGRESS", hash |-> Hash[r], owner |-> r]

InitKey ==
  /\ InitRows
  /\ entry = NoEntry
  /\ persists = {}

-----------------------------------------------------------------------------
SetNx(r) ==
  /\ At(r, "reserve")
  /\ \/ entry = NoEntry /\ entry' = Lease(r) /\ Reserved(r, "redis")
     \/ entry # NoEntry /\ Goto(r, "get") /\ UNCHANGED entry
     \/ /\ RedisMayFail
        /\ entry' \in {entry, IF entry = NoEntry THEN Lease(r) ELSE entry}
        /\ Goto(r, "db_create")
  /\ UNCHANGED <<row, executed, persists>>

(* An entry that has gone in the meantime, or no answer, sends the request *)
(* to the table.                                                           *)
Get(r) ==
  /\ At(r, "get")
  /\ \/ entry # NoEntry /\ Answered(r, [status |-> entry.status, hash |-> entry.hash, by |-> entry.owner])
     \/ (entry = NoEntry \/ RedisMayFail) /\ Goto(r, "db_create")
  /\ UNCHANGED <<row, executed, entry, persists>>

(* Mutant: the completion does not compare the reservation id.             *)
Owns_Anyone(r) == entry.status = "IN_PROGRESS"

Owns(r) == entry.status = "IN_PROGRESS" /\ entry.owner = r

(* COMPLETE_IF_RESERVED_SCRIPT: a completion that finds the entry gone     *)
(* sets nothing and still persists its row, as one that gets an error      *)
(* does; one that finds the entry of another does neither.                 *)
CompleteIfReserved(r) ==
  /\ At(r, "complete") /\ requests[r].backend = "redis"
  /\ \/ /\ Owns(r)
        /\ entry' = [status |-> "COMPLETED", hash |-> Hash[r], owner |-> r]
        /\ persists' = persists \cup {r}
     \/ /\ entry = NoEntry \/ RedisMayFail
        /\ persists' = persists \cup {r}
        /\ UNCHANGED entry
     \/ /\ entry # NoEntry /\ ~Owns(r)
        /\ UNCHANGED <<entry, persists>>
  /\ Goto(r, "answered")
  /\ UNCHANGED <<row, executed>>

(* DELETE_IF_RESERVED_SCRIPT *)
DeleteIfReserved(r) ==
  /\ At(r, "fail") /\ requests[r].backend = "redis"
  /\ \/ Owns(r) /\ entry' = NoEntry
     \/ (~Owns(r) \/ RedisMayFail) /\ UNCHANGED entry
  /\ Goto(r, "failed")
  /\ UNCHANGED <<row, executed, persists>>

(* persistCompleted runs on its own after the answer, and may fail.        *)
PersistCompleted(r) ==
  /\ r \in persists
  /\ persists' = persists \ {r}
  /\ row' \in {row, [status |-> "COMPLETED", hash |-> Hash[r], by |-> r]}
  /\ UNCHANGED <<requests, executed, entry>>

(* The 60 seconds of an unfinished reservation pass.                       *)
LeaseEnds ==
  /\ LeaseMayEnd
  /\ entry.status = "IN_PROGRESS"
  /\ entry' = NoEntry
  /\ UNCHANGED <<row, requests, executed, persists>>

(* What happens to the key; the guarded upload itself is UploadEngine's.   *)
KeyStep(r) ==
  \/ SetNx(r)
  \/ Get(r)
  \/ CompleteIfReserved(r)
  \/ DeleteIfReserved(r)
  \/ PersistCompleted(r)
  \/ Arrive(r, "reserve") /\ UNCHANGED <<entry, persists>>
  \/ RowStep(r) /\ UNCHANGED <<entry, persists>>

-----------------------------------------------------------------------------
(* The variables have their types, and every entry names its owner.        *)
KeyTypeOK ==
  /\ RowsTypeOK
  /\ entry \in Entry
  /\ entry = NoEntry \/ (entry.status # "NONE" /\ entry.owner # Nobody)
  /\ persists \subseteq Requests

(* A request whose lease has ended and has been given to another neither   *)
(* completes nor gives up the other's: the entry of a request in progress  *)
(* only changes by its own completion or failure, or by the end of the     *)
(* lease, and the entry of a completed upload never.                       *)
EntryIsItsOwners ==
  [][ /\ entry.status = "IN_PROGRESS" /\ entry' # entry =>
           \/ entry' = [entry EXCEPT !.status = "COMPLETED"]
                /\ At(entry.owner, "complete")
           \/ entry' = NoEntry /\ (LeaseEnds \/ At(entry.owner, "fail"))
      /\ entry.status = "COMPLETED" => entry' = entry ]_keyVars

=============================================================================
