-------------------------- MODULE IdempotencyRows --------------------------
(***************************************************************************)
(* One idempotency key in the idempotency_keys table, as both idempotency  *)
(* services use it: uploads/idempotency.service.ts for product.create.v1,  *)
(* and as the fallback of uploads and of the financial operations when     *)
(* Redis does not answer.                                                  *)
(*                                                                         *)
(* A request inserts the key, or reads the row that is there and decides.  *)
(* Insert, read and take-over are separate statements, and other requests  *)
(* run between them.  Retention (24 hours, 10 minutes for uploads, 7 days  *)
(* for financial operations) does not end within a behaviour.              *)
(***************************************************************************)
EXTENDS Integers, FiniteSets

CONSTANTS Requests,          \* requests sent with the key, retries included
          Hash,              \* what the service compares of each request: its hash, its user
          OperationMayFail   \* whether the guarded operation may fail

VARIABLES
  row,        \* the idempotency_keys row of the key
  requests,   \* where each request is, through which backend it holds the
              \* key, and whose response it was answered with
  executed    \* requests whose operation has been executed

rowVars == <<row, requests, executed>>

Nobody == "nobody"

None == [status |-> "NONE", hash |-> Nobody, by |-> Nobody]

InProgress(r) == [status |-> "IN_PROGRESS", hash |-> Hash[r], by |-> Nobody]

Point == {"idle", "reserve", "get", "del", "db_create", "db_read", "db_takeover",
          "work", "complete", "fail", "answered", "replayed", "refused", "failed"}

Record == [status : {"NONE", "IN_PROGRESS", "COMPLETED", "FAILED"},
           hash : {Hash[r] : r \in Requests} \cup {Nobody},
           by : Requests \cup {Nobody}]

Request == [at : Point, backend : {"none", "redis", "database"},
            from : Requests \cup {Nobody}]

InitRows ==
  /\ row = None
  /\ requests = [r \in Requests |-> [at |-> "idle", backend |-> "none", from |-> Nobody]]
  /\ executed = {}

At(r, point) == requests[r].at = point

Goto(r, point) == requests' = [requests EXCEPT ![r].at = point]

Reserved(r, backend) ==
  requests' = [requests EXCEPT ![r].at = "work", ![r].backend = backend]

(* The answer to a request that finds a live record of its key.            *)
Answered(r, record) ==
  IF record.status = "COMPLETED" /\ record.hash = Hash[r]
  THEN requests' = [requests EXCEPT ![r].at = "replayed", ![r].from = record.by]
  ELSE Goto(r, "refused")

-----------------------------------------------------------------------------
Arrive(r, point) ==
  /\ At(r, "idle")
  /\ requests' = [requests EXCEPT ![r].at = point]
  /\ UNCHANGED <<row, executed>>

DbCreate(r) ==
  /\ At(r, "db_create")
  /\ IF row = None
     THEN row' = InProgress(r) /\ Reserved(r, "database")
     ELSE Goto(r, "db_read") /\ UNCHANGED row
  /\ UNCHANGED executed

DbRead(r) ==
  /\ At(r, "db_read")
  /\ IF row.status = "FAILED" THEN Goto(r, "db_takeover") ELSE Answered(r, row)
  /\ UNCHANGED <<row, executed>>

(* The upsert does not look at the row again.                              *)
DbTakeover(r) ==
  /\ At(r, "db_takeover")
  /\ row' = InProgress(r)
  /\ Reserved(r, "database")
  /\ UNCHANGED executed

(* The guarded operation itself (external).                                *)
Execute(r) ==
  /\ At(r, "work")
  /\ \/ executed' = executed \cup {r} /\ Goto(r, "complete")
     \/ OperationMayFail /\ Goto(r, "fail") /\ UNCHANGED executed
  /\ UNCHANGED row

(* The update keeps the hash that is in the row.                           *)
DbComplete(r) ==
  /\ At(r, "complete") /\ requests[r].backend = "database"
  /\ row' = [row EXCEPT !.status = "COMPLETED", !.by = r]
  /\ Goto(r, "answered")
  /\ UNCHANGED executed

(* Errors of this update are ignored.                                      *)
DbFail(r) ==
  /\ At(r, "fail") /\ requests[r].backend = "database"
  /\ row' \in {row, [row EXCEPT !.status = "FAILED", !.by = Nobody]}
  /\ Goto(r, "failed")
  /\ UNCHANGED executed

(* The process stops; what it has written stays.                           *)
Crash(r) ==
  /\ requests[r].at \notin {"idle", "answered", "replayed", "refused", "failed"}
  /\ Goto(r, "failed")
  /\ UNCHANGED <<row, executed>>

RowStep(r) ==
  \/ DbCreate(r)
  \/ DbRead(r)
  \/ DbTakeover(r)
  \/ DbComplete(r)
  \/ DbFail(r)

-----------------------------------------------------------------------------
(* The variables have their types, and a record holds a response exactly   *)
(* when its status is COMPLETED.                                           *)
Sound(record) == record \in Record /\ (record.status = "COMPLETED" <=> record.by # Nobody)

RowsTypeOK ==
  /\ Sound(row)
  /\ requests \in [Requests -> Request]
  /\ executed \subseteq Requests

(* A replayed response is one that an executed request has given: nobody   *)
(* is answered from a reservation, a failed try or a crash.                *)
ReplayIsExecuted ==
  \A r \in Requests : At(r, "replayed") => requests[r].from \in executed

(* The next two are what a key is for.  They hold while Redis answers, no  *)
(* operation fails and no lease ends; the README says how they fail else.  *)
(*                                                                         *)
(* The operation of a key is executed once.                                *)
ExecutesOnce == \A r, s \in executed : r = s

(* A key is not answered with the response to a different request.         *)
ReplayIsOfSameRequest ==
  \A r \in Requests : At(r, "replayed") => Hash[requests[r].from] = Hash[r]

=============================================================================
