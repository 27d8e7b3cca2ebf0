--------------------------- MODULE CatalogueEvents ---------------------------
(***************************************************************************)
(* How a change of the catalogue becomes an event: the rows of             *)
(* domain_events that product writes leave (products.service.ts), the      *)
(* relay of every process that adds them to a Redis stream, and the        *)
(* consumers that announce them (catalog-events.service.ts).  What an      *)
(* announcement does to the pages is CataloguePages' matter.               *)
(***************************************************************************)
EXTENDS Naturals, FiniteSets, Sequences, SequencesExt

CONSTANTS
  Processes,     \* API processes; each of them relays and consumes
  MaxEvents,     \* bound on the changes committed
  MaxAttempts,   \* attempts after which a row is given up (8)
  MaxMishaps     \* bound on crashes, and on queries and Redis commands that fail

VARIABLES
  changes,     \* how many changes have been committed
  records,     \* changes whose event is still to be written: [at, of]
  rows,        \* change -> its row in domain_events
  batch,       \* process -> the rows it is relaying, as it has read them
  stream,      \* the changes whose entries wait in the stream
  taken,       \* process -> the entries delivered to it that it has not applied
  online,      \* process -> whether its Redis circuit is closed
  mishaps,     \* how many faults there have been
  applied,     \* changes for which a consumer has incremented the versions
  lost         \* (auxiliary) changes of which some delivered entry came to nothing

vars == <<changes, records, rows, batch, stream, taken, online, mishaps, applied, lost>>

NoRows == [n \in {} |-> 0]

Init ==
  /\ changes = 0 /\ records = {}
  /\ rows = NoRows
  /\ batch = [p \in Processes |-> <<>>]
  /\ stream = <<>>
  /\ taken = [p \in Processes |-> <<>>]
  /\ online = [p \in Processes |-> TRUE]
  /\ mishaps = 0
  /\ applied = {} /\ lost = {}

-----------------------------------------------------------------------------
(* Redis.  Any command that fails opens the process's circuit.             *)

Answers(p) == online[p] /\ UNCHANGED <<online, mishaps>>

Fails(p) == online[p] /\ mishaps < MaxMishaps /\ mishaps' = mishaps + 1 /\ online' = [online EXCEPT ![p] = FALSE]

Refuses(p) == ~online[p] /\ UNCHANGED <<online, mishaps>>

Outage(p) == Fails(p) /\ UNCHANGED <<changes, records, rows, batch, stream, taken, applied, lost>>

CircuitCloses(p) ==
  /\ ~online[p] /\ online' = [online EXCEPT ![p] = TRUE]
  /\ UNCHANGED <<changes, records, rows, batch, stream, taken, mishaps, applied, lost>>

-----------------------------------------------------------------------------
(* Writing the event.                                                      *)

AddRow(n) ==
  rows' = [m \in DOMAIN rows \cup {n} |-> IF m = n THEN [status |-> "PENDING", attempts |-> 0] ELSE rows[m]]

(* A product is created in one transaction with its event.                 *)
CreateProduct ==
  /\ changes < MaxEvents /\ changes' = changes + 1
  /\ AddRow(changes + 1)
  /\ UNCHANGED <<records, batch, stream, taken, online, mishaps, applied, lost>>

(* A product is changed; recording the event is left running after the     *)
(* commit, and a failure to do it is logged and forgotten.                 *)
UpdateProduct(p) ==
  /\ changes < MaxEvents /\ changes' = changes + 1
  /\ records' = records \cup {[at |-> p, of |-> changes + 1]}
  /\ UNCHANGED <<rows, batch, stream, taken, online, mishaps, applied, lost>>

RecordCatalogChange(r) ==
  /\ records' = records \ {r}
  /\ \/ AddRow(r.of) /\ UNCHANGED mishaps
     \/ mishaps < MaxMishaps /\ mishaps' = mishaps + 1 /\ UNCHANGED rows
  /\ UNCHANGED <<changes, batch, stream, taken, online, applied, lost>>

-----------------------------------------------------------------------------
(* The relay.  Nothing keeps two processes from relaying the same row.     *)

(* Mutant: a row that could not be added once is not read again.           *)
Due_PendingOnly == {n \in DOMAIN rows : rows[n].status = "PENDING"}

Due == {n \in DOMAIN rows : rows[n].status \in {"PENDING", "FAILED"}}

(* The members of S, the oldest first.                                     *)
Orders(S) == {order \in [1..Cardinality(S) -> S] : \A i, j \in DOMAIN order : i < j => order[i] < order[j]}

ReadOutbox(p) ==
  /\ batch[p] = <<>> /\ Due # {}
  /\ \E order \in Orders(Due) :
       batch' = [batch EXCEPT ![p] =
         [i \in DOMAIN order |-> [of |-> order[i], attempts |-> rows[order[i]].attempts, added |-> FALSE]]]
  /\ UNCHANGED <<changes, records, rows, stream, taken, online, mishaps, applied, lost>>

Relayed(p) == batch' = [batch EXCEPT ![p] = Tail(@)]

(* Mutant: a row counts as published whether or not it could be added.     *)
RecordFailure_Ignored(row) ==
  rows' = [rows EXCEPT ![row.of] = [status |-> "PUBLISHED", attempts |-> @.attempts + 1]]

(* The attempts compared are those read with the batch.                    *)
RecordFailure(row) ==
  rows' = [rows EXCEPT ![row.of] =
             [attempts |-> @.attempts + 1,
              status |-> IF row.attempts + 1 >= MaxAttempts THEN "DEAD_LETTER" ELSE "FAILED"]]

(* The entry is added; or added without an answer; or not added.           *)
PublishOne(p) ==
  /\ batch[p] # <<>> /\ ~Head(batch[p]).added
  /\ LET row == Head(batch[p]) IN
       \/ /\ Answers(p)
          /\ stream' = Append(stream, row.of)
          /\ batch' = [batch EXCEPT ![p][1].added = TRUE]
          /\ UNCHANGED rows
       \/ /\ Fails(p) /\ stream' = Append(stream, row.of)
          /\ RecordFailure(row) /\ Relayed(p)
       \/ /\ Refuses(p) /\ UNCHANGED stream
          /\ RecordFailure(row) /\ Relayed(p)
  /\ UNCHANGED <<changes, records, taken, applied, lost>>

MarkPublished(p) ==
  /\ batch[p] # <<>> /\ Head(batch[p]).added
  /\ rows' = [rows EXCEPT ![Head(batch[p]).of] = [status |-> "PUBLISHED", attempts |-> @.attempts + 1]]
  /\ Relayed(p)
  /\ UNCHANGED <<changes, records, stream, taken, online, mishaps, applied, lost>>

(* The write of the outcome fails, and the rest of the batch is not        *)
(* relayed.                                                                *)
OutcomeFails(p) ==
  /\ batch[p] # <<>> /\ (Head(batch[p]).added \/ ~online[p])
  /\ mishaps < MaxMishaps /\ mishaps' = mishaps + 1
  /\ batch' = [batch EXCEPT ![p] = <<>>]
  /\ UNCHANGED <<changes, records, rows, stream, taken, online, applied, lost>>

-----------------------------------------------------------------------------
(* The consumers.  What has been delivered to one is not delivered again,  *)
(* and is acknowledged whether or not it could be applied.                 *)

ConsumeStream(p) ==
  /\ taken[p] = <<>> /\ stream # <<>>
  /\ \/ Answers(p) /\ taken' = [taken EXCEPT ![p] = stream] /\ UNCHANGED lost
     \/ Fails(p) /\ lost' = lost \cup ToSet(stream) /\ UNCHANGED taken
  /\ stream' = <<>>
  /\ UNCHANGED <<changes, records, rows, batch, applied>>

(* Incrementing the versions answers nothing when Redis cannot be reached. *)
ApplyCatalogEvent(p) ==
  /\ taken[p] # <<>>
  /\ \/ (Answers(p) \/ Fails(p)) /\ applied' = applied \cup {Head(taken[p])} /\ UNCHANGED lost
     \/ Refuses(p) /\ lost' = lost \cup {Head(taken[p])} /\ UNCHANGED applied
  /\ taken' = [taken EXCEPT ![p] = Tail(@)]
  /\ UNCHANGED <<changes, records, rows, batch, stream>>

(* A query of applyInventoryEvent fails, or after the versions have been   *)
(* incremented one of bumpGeoCardEpochForStore: the loop of consumeStream  *)
(* ends, and what else was delivered with the entry is applied by nobody.  *)
ApplyFails(p) ==
  /\ taken[p] # <<>>
  /\ mishaps < MaxMishaps /\ mishaps' = mishaps + 1
  /\ \/ online[p] /\ applied' = applied \cup {Head(taken[p])} /\ lost' = lost \cup ToSet(Tail(taken[p]))
     \/ applied' = applied /\ lost' = lost \cup ToSet(taken[p])
  /\ taken' = [taken EXCEPT ![p] = <<>>]
  /\ UNCHANGED <<changes, records, rows, batch, stream, online>>

-----------------------------------------------------------------------------
(* A process stops and is started again.                                   *)
Crash(p) ==
  /\ mishaps < MaxMishaps /\ mishaps' = mishaps + 1
  /\ records' = {r \in records : r.at # p}
  /\ batch' = [batch EXCEPT ![p] = <<>>]
  /\ taken' = [taken EXCEPT ![p] = <<>>]
  /\ lost' = lost \cup ToSet(taken[p])
  /\ online' = [online EXCEPT ![p] = TRUE]
  /\ UNCHANGED <<changes, rows, stream, applied>>

Relay(p) == ReadOutbox(p) \/ PublishOne(p) \/ MarkPublished(p)

Consume(p) == ConsumeStream(p) \/ ApplyCatalogEvent(p)

Next ==
  \/ CreateProduct
  \/ \E r \in records : RecordCatalogChange(r)
  \/ \E p \in Processes :
       \/ UpdateProduct(p) \/ Relay(p) \/ Consume(p) \/ CircuitCloses(p)
       \/ Outage(p) \/ OutcomeFails(p) \/ ApplyFails(p) \/ Crash(p)

Spec == Init /\ [][Next]_vars

(* The intervals of both jobs and the end of the circuit's pause.          *)
Fairness ==
  \A p \in Processes : WF_vars(Relay(p)) /\ WF_vars(Consume(p)) /\ WF_vars(CircuitCloses(p))

LiveSpec == Spec /\ Fairness
-----------------------------------------------------------------------------
TypeOK ==
  /\ changes \in 0..MaxEvents
  /\ \A r \in records : r.at \in Processes /\ r.of \in 1..changes /\ r.of \notin DOMAIN rows
  /\ DOMAIN rows \subseteq 1..changes
  /\ \A n \in DOMAIN rows : rows[n].status \in {"PENDING", "FAILED", "PUBLISHED", "DEAD_LETTER"}
  /\ \A p \in Processes : ToSet(taken[p]) \subseteq DOMAIN rows
  /\ ToSet(stream) \subseteq DOMAIN rows
  /\ applied \cup lost \subseteq DOMAIN rows

GivenUp(n) == n \in DOMAIN rows /\ rows[n].status = "DEAD_LETTER"

(* A recorded change is kept until it is delivered to a consumer: no crash *)
(* of the relay, no write that fails, no refused or doubled entry takes it *)
(* out of the outbox and the stream at once, unless Redis has refused it   *)
(* MaxAttempts times.  It is not claimed that a delivered one is applied.  *)
(* Since consumeStream acknowledges in any case and reclaims nothing, it   *)
(* is lost when the process stops with it, when the answer of the delivery *)
(* is, when Redis does not answer the increment, and when a query fails    *)
(* while it or an entry delivered before it is applied.  Redis keeps the   *)
(* stream.                                                                 *)
RecordedIsKept ==
  \A n \in DOMAIN rows :
    \/ n \in applied \cup lost \cup Due \cup ToSet(stream) \/ GivenUp(n)
    \/ \E p \in Processes : n \in ToSet(taken[p])

(* And it does not stay on its way: publishPending and consumeStream,      *)
(* called at intervals by every process, bring each recorded change to one *)
(* of these ends.                                                          *)
RecordedIsSettled ==
  \A n \in 1..MaxEvents : n \in DOMAIN rows ~> n \in applied \cup lost \/ GivenUp(n)
=============================================================================
