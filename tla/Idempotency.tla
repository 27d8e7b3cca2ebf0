---------------------------- MODULE Idempotency ----------------------------
(***************************************************************************)
(* The key of a checkout, a payment retry or a refund                      *)
(* (idempotency/idempotency.service.ts): an entry in Redis that decides,   *)
(* a row in idempotency_keys that follows it asynchronously, and the row   *)
(* alone when Redis does not answer.  The statements on the row are those  *)
(* of IdempotencyRows.                                                     *)
(*                                                                         *)
(* Unlike an upload's entry, this one names no owner: GET, DEL and SET are *)
(* separate, unconditional commands.                                       *)
(***************************************************************************)
EXTENDS IdempotencyRows

CONSTANTS RedisMayFail    \* whether a Redis command may be answered with an error

VARIABLES
  entry,    \* the Redis entry of the key
  writes    \* writes of the row that were started and not awaited

vars == <<rowVars, entry, writes>>

Write == [kind : {"create", "complete", "fail"}, by : Requests]

Init ==
  /\ InitRows
  /\ entry = None
  /\ writes = {}

Starts(kind, r) == writes' = writes \cup {[kind |-> kind, by |-> r]}

-----------------------------------------------------------------------------
SetNx(r) ==
  /\ At(r, "reserve")
  /\ \/ entry = None /\ entry' = InProgress(r) /\ Reserved(r, "redis") /\ Starts("create", r)
     \/ entry # None /\ Goto(r, "get") /\ UNCHANGED <<entry, writes>>
     \/ /\ RedisMayFail
        /\ entry' \in {entry, IF entry = None THEN InProgress(r) ELSE entry}
        /\ Goto(r, "db_create")
        /\ UNCHANGED writes
  /\ UNCHANGED <<row, executed>>

(* A GET that fails is answered from the process's own copy of a completed *)
(* entry, if it has one.                                                   *)
Get(r) ==
  /\ At(r, "get")
  /\ \/ entry = None /\ Goto(r, "del")
     \/ entry # None /\ Answered(r, entry)
     \/ /\ RedisMayFail
        /\ \/ Goto(r, "del")
           \/ \E s \in Requests :
                /\ At(s, "answered") /\ requests[s].backend = "redis"
                /\ Answered(r, [status |-> "COMPLETED", hash |-> Hash[s], by |-> s])
  /\ UNCHANGED <<row, executed, entry, writes>>

(* The entry is deleted, whosever it is by now, and the request starts     *)
(* again.                                                                  *)
Del(r) ==
  /\ At(r, "del")
  /\ \/ entry' = None
     \/ RedisMayFail /\ UNCHANGED entry
  /\ Goto(r, "reserve")
  /\ UNCHANGED <<row, executed, writes>>

(* Mutant: the entry keeps the hash it has.                                *)
Complete_KeepsHash(r) ==
  /\ At(r, "complete") /\ requests[r].backend = "redis"
  /\ entry' = [entry EXCEPT !.status = "COMPLETED", !.by = r]
  /\ Starts("complete", r)
  /\ Goto(r, "answered")
  /\ UNCHANGED <<row, executed>>

Complete(r) ==
  /\ At(r, "complete") /\ requests[r].backend = "redis"
  /\ \/ entry' = [status |-> "COMPLETED", hash |-> Hash[r], by |-> r]
     \/ RedisMayFail /\ UNCHANGED entry
  /\ Starts("complete", r)
  /\ Goto(r, "answered")
  /\ UNCHANGED <<row, executed>>

Fail(r) ==
  /\ At(r, "fail") /\ requests[r].backend = "redis"
  /\ \/ entry' = None
     \/ RedisMayFail /\ UNCHANGED entry
  /\ Starts("fail", r)
  /\ Goto(r, "failed")
  /\ UNCHANGED <<row, executed>>

(* createDbAsync, completeDbAsync and failDbAsync end in any order, or not *)
(* at all.                                                                 *)
RowWritten(w) ==
  CASE w.kind = "create"   -> IF row = None THEN InProgress(w.by) ELSE row
    [] w.kind = "complete" -> IF row = None
                              THEN [status |-> "COMPLETED", hash |-> Hash[w.by], by |-> w.by]
                              ELSE [row EXCEPT !.status = "COMPLETED", !.by = w.by]
    [] w.kind = "fail"     -> IF row = None THEN row
                              ELSE [row EXCEPT !.status = "FAILED", !.by = Nobody]

WriteEnds(w) ==
  /\ w \in writes
  /\ writes' = writes \ {w}
  /\ row' \in {row, RowWritten(w)}
  /\ UNCHANGED <<requests, executed, entry>>

Next ==
  \/ \E r \in Requests :
       \/ SetNx(r)
       \/ Get(r)
       \/ Del(r)
       \/ Complete(r)
       \/ Fail(r)
       \/ Arrive(r, "reserve") /\ UNCHANGED <<entry, writes>>
       \/ RowStep(r) /\ UNCHANGED <<entry, writes>>
       \/ Execute(r) /\ UNCHANGED <<entry, writes>>
       \/ Crash(r) /\ UNCHANGED <<entry, writes>>
  \/ \E w \in Write : WriteEnds(w)

Spec == Init /\ [][Next]_vars

-----------------------------------------------------------------------------
(* The variables have their types, and the entry and the row hold a        *)
(* response exactly when they are completed, in whatever order the writes  *)
(* that nobody awaits have reached the row.                                *)
TypeOK ==
  /\ RowsTypeOK
  /\ Sound(entry)
  /\ writes \subseteq Write

(* A completed entry holds the response to the request whose hash it is    *)
(* compared by, although entries are deleted and replaced while requests   *)
(* that have seen another one go on.                                       *)
EntryAnswersItsHash ==
  entry.status = "COMPLETED" => /\ entry.by \in executed
                                /\ entry.hash = Hash[entry.by]

=============================================================================
