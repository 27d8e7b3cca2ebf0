------------------------------ MODULE Inventory ------------------------------
(***************************************************************************)
(* The inventory engine of one store at its default location               *)
(* (src/backend/src/modules/inventory/inventory.service.ts and the two     *)
(* other writers of its tables: the one-statement COD checkout and the     *)
(* archiving of a variant).                                                *)
(*                                                                         *)
(* Every operation runs in one PostgreSQL transaction that reads only rows *)
(* it has locked with FOR UPDATE (reservations, then items, or the items   *)
(* alone), so its writes appear at once, when it commits: an operation is  *)
(* one action.  A transaction that fails (a business error, a deadlock, a  *)
(* two second lock_timeout, a crash before COMMIT) writes nothing and is   *)
(* a step that is not taken.                                               *)
(***************************************************************************)
EXTENDS Integers, Sequences, FiniteSets

CONSTANTS
  Orders,          \* order ids a checkout may create
  Variants,        \* variants of the store; one inventory_items row each
  Quantity,        \* Quantity[o][v]: units of v in order o, 0 when not in it
  SeedAvailable,   \* stock_on_hand - stock_reserved of the variant's columns
  SeedReserved,    \* stock_reserved of those columns: holds of the old engine
  Backfilled,      \* variants whose row and first ledger row a migration wrote
  Adjustments,     \* idempotency keys of manual adjustments
  ReleaseReasons,  \* why releaseOrderStock is called, part of its key
  AdjustedVariant, \* the variant each manual adjustment is for
  Deltas           \* values of deltaAvailableStock

ASSUME OrdersFinite == IsFiniteSet(Orders)
ASSUME QuantityType == Quantity \in [Orders -> [Variants -> Nat]]
ASSUME SeedType == /\ SeedAvailable \in [Variants -> Nat]
                   /\ SeedReserved \in [Variants -> Nat]
ASSUME BackfilledType == Backfilled \subseteq Variants
ASSUME AdjustmentType == /\ AdjustedVariant \in [Adjustments -> Variants]
                         /\ Deltas \subseteq Int

VARIABLES
  rows,          \* the variants that have an inventory_items row
  items,         \* that row; for a variant without one, the row that
                 \* ensureInventoryItems would copy from the variant's columns
  reservations,  \* status of the order's reservation of the variant, or "NONE"
  operations,    \* response of each completed inventory_operations key
  ledger,        \* inventory_ledger rows of each variant, oldest first
  due,           \* orders whose reservations are past expires_at
  archived,      \* variants a product update has archived
  seen,          \* the row the merchant of an adjustment has loaded
  supplied       \* history: units the merchant has put on the shelf in all

vars == <<rows, items, reservations, operations, ledger, due, archived,
          seen, supplied>>

ReservationStatus == {"NONE", "ACTIVE", "CONFIRMED", "RELEASED", "EXPIRED"}

Settled == {"CONFIRMED", "RELEASED", "EXPIRED"}

Counters == [availableStock : Nat, reservedStock : Nat, soldStock : Nat]

Item == [availableStock : Nat, reservedStock : Nat, soldStock : Nat,
         version : Nat]

LedgerRow == [type : {"RESERVED", "RELEASED", "SOLD", "MANUAL_ADJUSTMENT"},
              before : Counters, after : Counters]

OperationKey ==
  ({"reserve", "cod_authorize", "confirm"} \X Orders)
    \cup ({"release"} \X Orders \X ReleaseReasons)
    \cup ({"adjust"} \X Adjustments)

Response == {"NONE", "RESERVED", "CONFIRMED", "ALREADY_CONFIRMED",
             "REQUIRES_REVIEW", "RELEASED", "NO_ACTIVE_RESERVATIONS", "APPLIED"}

CountersOf(item) == [availableStock |-> item.availableStock,
                     reservedStock |-> item.reservedStock,
                     soldStock |-> item.soldStock]

(* Mutant: a writer that leaves the version alone.                         *)
Moved_SameVersion(v, available, reserved, sold) ==
  [availableStock |-> items[v].availableStock + available,
   reservedStock |-> items[v].reservedStock + reserved,
   soldStock |-> items[v].soldStock + sold,
   version |-> items[v].version]

(* The row of v after a movement: every write of a row bumps its version.  *)
Moved(v, available, reserved, sold) ==
  [availableStock |-> items[v].availableStock + available,
   reservedStock |-> items[v].reservedStock + reserved,
   soldStock |-> items[v].soldStock + sold,
   version |-> items[v].version + 1]

Entry(type, before, after) ==
  [type |-> type, before |-> CountersOf(before), after |-> CountersOf(after)]

(* updateInventoryItem and createLedger for every variant of a set.        *)
Write(S, after, type) ==
  /\ items' = [v \in Variants |-> IF v \in S THEN after[v] ELSE items[v]]
  /\ ledger' = [v \in Variants |->
                  IF v \in S
                  THEN Append(ledger[v], Entry(type, items[v], after[v]))
                  ELSE ledger[v]]

(* Mutant: only one reservation of the order is updated.                   *)
SetStatus_OneLine(o, S, status) ==
  reservations' = [reservations EXCEPT ![o] =
    [v \in Variants |-> IF S # {} /\ v = CHOOSE w \in S : TRUE THEN status ELSE @[v]]]

SetStatus(o, S, status) ==
  reservations' = [reservations EXCEPT ![o] =
                     [v \in Variants |-> IF v \in S THEN status ELSE @[v]]]

LinesOf(o) == {v \in Variants : Quantity[o][v] > 0}

ReservedLines(o) == {v \in Variants : reservations[o][v] # "NONE"}

(* Mutant: the reservations are selected without their status.             *)
ActiveLines_AnyStatus(o) == ReservedLines(o)

ActiveLines(o) == {v \in Variants : reservations[o][v] = "ACTIVE"}

Holders(v, status) == {o \in Orders : reservations[o][v] = status}

Units(o, v) == {o} \X (1 .. Quantity[o][v])

(* The units of v that reservations with the given status stand for.       *)
Held(v, status) == UNION {Units(o, v) : o \in Holders(v, status)}

SeedItem(v) == [availableStock |-> SeedAvailable[v],
                reservedStock |-> SeedReserved[v], soldStock |-> 0,
                version |-> 1]

BackfillRow(v) == [type |-> "MANUAL_ADJUSTMENT",
                   before |-> [availableStock |-> 0, reservedStock |-> 0,
                               soldStock |-> 0],
                   after |-> CountersOf(SeedItem(v))]

NotLoaded == [availableStock |-> 0, reservedStock |-> 0, soldStock |-> 0,
              version |-> 0]

Init ==
  /\ rows = Backfilled
  /\ items = [v \in Variants |-> SeedItem(v)]
  /\ reservations = [o \in Orders |-> [v \in Variants |-> "NONE"]]
  /\ operations = [key \in OperationKey |-> "NONE"]
  /\ ledger = [v \in Variants |-> IF v \in Backfilled
                                  THEN <<BackfillRow(v)>> ELSE <<>>]
  /\ due = {}
  /\ archived = {}
  /\ seen = [k \in Adjustments |-> NotLoaded]
  /\ supplied = [v \in Variants |-> SeedAvailable[v] + SeedReserved[v]]

-----------------------------------------------------------------------------
(* claimOperation inserts the key and completeOperation stores the answer  *)
(* in the same transaction, so a key is claimed once; a second caller gets *)
(* the stored answer or an aborted transaction, and writes nothing here.   *)
Unclaimed(key) == operations[key] = "NONE"

Complete(key, response) == operations' = [operations EXCEPT ![key] = response]

(* Mutant: the stock check is left out.                                    *)
InStock_Unchecked(o) == TRUE

InStock(o) == \A v \in LinesOf(o) : items[v].availableStock >= Quantity[o][v]

(* An order row is written by the transaction that reserves its stock,     *)
(* under a new id: an order exists when its reservations do.               *)
Placed(o) == ReservedLines(o) # {}

(* initializeCatalogInventory for a variant that has just been created. A  *)
(* data-modifying CTE does not see the rows inserted by another one of the *)
(* same statement, so initialized_items is empty and no ledger row (nor an *)
(* inventory.initialized event) is written for a new row.  A new variant   *)
(* has no holds of the old engine.                                         *)
InitializeCatalogInventory(v) ==
  /\ v \notin rows
  /\ SeedReserved[v] = 0
  /\ rows' = rows \cup {v}
  /\ UNCHANGED <<items, reservations, operations, ledger, due, archived,
                 seen, supplied>>

(* reserveOrderStock: all the lines of the order or none of them.          *)
ReserveOrderStock(o) ==
  LET after == [v \in Variants |-> Moved(v, - Quantity[o][v], Quantity[o][v], 0)]
  IN /\ Unclaimed(<<"reserve", o>>)
     /\ ~ Placed(o)
     /\ LinesOf(o) # {}
     /\ InStock(o)
     /\ Write(LinesOf(o), after, "RESERVED")
     /\ SetStatus(o, LinesOf(o), "ACTIVE")
     /\ rows' = rows \cup LinesOf(o)
     /\ Complete(<<"reserve", o>>, "RESERVED")
     /\ UNCHANGED <<due, archived, seen, supplied>>

(* A COD order takes its units at once.                                    *)
TakeAtOnce(o) ==
  LET after == [v \in Variants |-> Moved(v, - Quantity[o][v], 0, Quantity[o][v])]
  IN /\ ~ Placed(o)
     /\ LinesOf(o) # {}
     /\ InStock(o)
     /\ Write(LinesOf(o), after, "SOLD")
     /\ SetStatus(o, LinesOf(o), "CONFIRMED")
     /\ UNCHANGED <<due, archived, seen, supplied>>

(* The one-statement checkout needs every row to exist and claims no key.  *)
CreateCodCheckoutFast(o) ==
  /\ TakeAtOnce(o)
  /\ LinesOf(o) \subseteq rows
  /\ UNCHANGED <<rows, operations>>

(* Its fallback creates the missing rows and claims a key.                 *)
AuthorizeCodOrderStock(o) ==
  /\ TakeAtOnce(o)
  /\ Unclaimed(<<"cod_authorize", o>>)
  /\ rows' = rows \cup LinesOf(o)
  /\ Complete(<<"cod_authorize", o>>, "CONFIRMED")

(* Mutant: one reservation that is still active is enough.                 *)
ConfirmResponse_AnyActive(o) ==
  IF ActiveLines(o) # {} THEN "CONFIRMED" ELSE "REQUIRES_REVIEW"

(* What confirmOrderStock answers from the order's locked reservations.    *)
ConfirmResponse(o) ==
  CASE ReservedLines(o) = {} -> "REQUIRES_REVIEW"
    [] /\ ReservedLines(o) # {}
       /\ \A v \in ReservedLines(o) : reservations[o][v] = "CONFIRMED"
         -> "ALREADY_CONFIRMED"
    [] /\ ReservedLines(o) # {}
       /\ ReservedLines(o) = ActiveLines(o)
         -> "CONFIRMED"
    [] OTHER -> "REQUIRES_REVIEW"

(* Mutant: the comparison is strict.                                       *)
Covered_Strict(o, S) == \A v \in S : items[v].reservedStock > Quantity[o][v]

(* Each reservation needs its units in the row's reserved counter. When it *)
(* is short, confirmOrderStock answers REQUIRES_REVIEW after it has        *)
(* settled some of the lines, and releaseReservations throws: the property *)
(* CountersCoverReservations shows that neither can happen.                *)
Covered(o, S) == \A v \in S : items[v].reservedStock >= Quantity[o][v]

ConfirmOrderStock(o) ==
  LET after == [v \in Variants |-> Moved(v, 0, - Quantity[o][v], Quantity[o][v])]
      S == IF ConfirmResponse(o) = "CONFIRMED" THEN ActiveLines(o) ELSE {}
  IN /\ Placed(o)
     /\ Unclaimed(<<"confirm", o>>)
     /\ Covered(o, S)
     /\ Write(S, after, "SOLD")
     /\ SetStatus(o, S, "CONFIRMED")
     /\ Complete(<<"confirm", o>>, ConfirmResponse(o))
     /\ UNCHANGED <<rows, due, archived, seen, supplied>>

(* releaseReservations: the units go back to the shelf.                    *)
Release(o, S, status) ==
  LET after == [v \in Variants |-> Moved(v, Quantity[o][v], - Quantity[o][v], 0)]
  IN /\ Covered(o, S)
     /\ Write(S, after, "RELEASED")
     /\ SetStatus(o, S, status)

ReleaseOrderStock(o, reason) ==
  /\ Placed(o)
  /\ Unclaimed(<<"release", o, reason>>)
  /\ Release(o, ActiveLines(o), "RELEASED")
  /\ Complete(<<"release", o, reason>>,
              IF ActiveLines(o) = {} THEN "NO_ACTIVE_RESERVATIONS" ELSE "RELEASED")
  /\ UNCHANGED <<rows, due, archived, seen, supplied>>

(* The reservations of an order share expires_at: it passes.               *)
DeadlinePasses(o) ==
  /\ Placed(o)
  /\ o \notin due
  /\ due' = due \cup {o}
  /\ UNCHANGED <<rows, items, reservations, operations, ledger, archived,
                 seen, supplied>>

(* expireReservations.  A batch releases its reservations one by one, and  *)
(* LIMIT and SKIP LOCKED may leave out any of them, so a batch of many is  *)
(* a sequence of batches of one.  The order itself is not touched.         *)
ExpireReservation(o, v) ==
  /\ o \in due
  /\ v \in ActiveLines(o)
  /\ Release(o, {v}, "EXPIRED")
  /\ UNCHANGED <<rows, operations, due, archived, seen, supplied>>

(* listStoreInventory: the merchant of an adjustment loads the row.        *)
LoadInventory(k) ==
  /\ AdjustedVariant[k] \in rows
  /\ Unclaimed(<<"adjust", k>>)
  /\ seen[k] # items[AdjustedVariant[k]]
  /\ seen' = [seen EXCEPT ![k] = items[AdjustedVariant[k]]]
  /\ UNCHANGED <<rows, items, reservations, operations, ledger, due, archived,
                 supplied>>

(* applyManualAdjustment with the version of the loaded row as             *)
(* expectedVersion.                                                        *)
ApplyManualAdjustment(k, delta) ==
  LET v == AdjustedVariant[k]
      after == [w \in Variants |-> Moved(w, delta, 0, 0)]
  IN /\ items[v].version = seen[k].version
     /\ items[v].availableStock + delta >= 0
     /\ Unclaimed(<<"adjust", k>>)
     /\ Write({v}, after, "MANUAL_ADJUSTMENT")
     /\ rows' = rows \cup {v}
     /\ Complete(<<"adjust", k>>, "APPLIED")
     /\ supplied' = [supplied EXCEPT ![v] = @ + delta]
     /\ UNCHANGED <<reservations, due, archived, seen>>

(* archiveProductVariants: the active reservations of the variant are      *)
(* released, but their units and the available ones are written off.       *)
ArchiveProductVariant(v) ==
  LET released == Cardinality(Held(v, "ACTIVE"))
      reserved == IF items[v].reservedStock > released
                  THEN items[v].reservedStock - released ELSE 0
      unheld == [items[v] EXCEPT !.reservedStock = reserved]
      after == [availableStock |-> 0, reservedStock |-> reserved,
                soldStock |-> items[v].soldStock, version |-> items[v].version + 1]
      releaseRow == IF released > 0
                    THEN <<Entry("RELEASED", items[v], unheld)>> ELSE <<>>
      zeroRow == IF items[v].availableStock > 0
                 THEN <<Entry("MANUAL_ADJUSTMENT", unheld, after)>> ELSE <<>>
  IN /\ v \in rows \ archived
     /\ archived' = archived \cup {v}
     /\ reservations' = [o \in Orders |->
          [w \in Variants |-> IF w = v /\ reservations[o][w] = "ACTIVE"
                              THEN "RELEASED" ELSE reservations[o][w]]]
     /\ items' = [items EXCEPT ![v] = after]
     /\ ledger' = [ledger EXCEPT ![v] = @ \o releaseRow \o zeroRow]
     /\ supplied' = [supplied EXCEPT ![v] =
                       @ - released - items[v].availableStock]
     /\ UNCHANGED <<rows, operations, due, seen>>

Next ==
  \/ \E v \in Variants : InitializeCatalogInventory(v)
  \/ \E o \in Orders : ReserveOrderStock(o)
  \/ \E o \in Orders : CreateCodCheckoutFast(o)
  \/ \E o \in Orders : AuthorizeCodOrderStock(o)
  \/ \E o \in Orders : ConfirmOrderStock(o)
  \/ \E o \in Orders, reason \in ReleaseReasons : ReleaseOrderStock(o, reason)
  \/ \E o \in Orders : DeadlinePasses(o)
  \/ \E o \in Orders, v \in Variants : ExpireReservation(o, v)
  \/ \E k \in Adjustments : LoadInventory(k)
  \/ \E k \in Adjustments, delta \in Deltas : ApplyManualAdjustment(k, delta)
  \/ \E v \in Variants : ArchiveProductVariant(v)

(* The payment worker's timer runs expireReservations every thirty         *)
(* seconds: a reservation that stays due and active is taken in the end.   *)
Spec ==
  /\ Init
  /\ [][Next]_vars
  /\ WF_vars(\E o \in Orders, v \in Variants : ExpireReservation(o, v))

-----------------------------------------------------------------------------
TypeOK ==
  /\ rows \subseteq Variants
  /\ items \in [Variants -> Item]
  /\ reservations \in [Orders -> [Variants -> ReservationStatus]]
  /\ operations \in [OperationKey -> Response]
  /\ ledger \in [Variants -> Seq(LedgerRow)]
  /\ due \subseteq Orders
  /\ archived \subseteq Variants
  /\ seen \in [Adjustments -> Item]
  /\ supplied \in [Variants -> Int]

(* The counters of a row say what its reservations say: the reserved units *)
(* are those of the ACTIVE reservations (and of the old engine), the sold  *)
(* ones those of the CONFIRMED ones, whatever the order in which           *)
(* checkouts, confirmations, releases, expiries and archivings commit.     *)
CountersMatchReservations ==
  \A v \in Variants :
    /\ items[v].reservedStock = SeedReserved[v] + Cardinality(Held(v, "ACTIVE"))
    /\ items[v].soldStock = Cardinality(Held(v, "CONFIRMED"))

(* No unit is lost, made up or sold twice: what is on the shelf, on hold   *)
(* and sold is what the merchant has supplied.  With the non-negative      *)
(* counters of TypeOK this is "never oversold".                            *)
UnitsAccounted ==
  \A v \in Variants :
    items[v].availableStock + items[v].reservedStock + items[v].soldStock
      = supplied[v]

(* The reserved_counter_underflow answer of confirmOrderStock and the      *)
(* INVENTORY_RELEASE_FAILED error of releaseReservations never happen: the *)
(* counter always covers every active reservation of an order.             *)
CountersCoverReservations == \A o \in Orders : Covered(o, ActiveLines(o))

(* Stock is accounted for in all three ways: by the reservations, by the   *)
(* supply, and for the releases and confirmations still to come.           *)
StockIsAccounted == CountersMatchReservations /\ UnitsAccounted /\ CountersCoverReservations

(* The ledger is an unbroken trail: each row starts from the counters the  *)
(* previous one ended with, and the last one ends with the stored counters *)
(* (what reconcile compares), for every row of every variant that has one. *)
Unbroken(entries, item) ==
  /\ \A i \in 1 .. Len(entries) - 1 : entries[i].after = entries[i + 1].before
  /\ Len(entries) > 0 => entries[Len(entries)].after = CountersOf(item)

LedgerIsTrail == \A v \in Variants : Unbroken(ledger[v], items[v])

(* expectedVersion is a sound check: while the version a merchant loaded   *)
(* is the current one, so are the counters the merchant saw, since every   *)
(* writer of the counters bumps the version.                               *)
VersionNamesCounters ==
  \A k \in Adjustments :
    LET v == AdjustedVariant[k]
    IN /\ seen[k].version <= items[v].version
       /\ seen[k].version = items[v].version => seen[k] = items[v]

(* What was written down about the stock can be relied on later: the       *)
(* ledger as its history, the version as its name.                         *)
RecordsAreTrue == LedgerIsTrail /\ VersionNamesCounters

(* A row comes with the ledger row that accounts for its first units.      *)
RowsHaveLedger ==
  \A v \in rows : items[v].availableStock > 0 => Len(ledger[v]) > 0

(* A reservation is settled once: what a confirmation, a release, an       *)
(* expiry or an archiving has decided is never decided again by a late     *)
(* one.                                                                    *)
SettledOnce ==
  [][\A o \in Orders, v \in Variants :
       reservations[o][v] \in Settled => reservations'[o][v] = reservations[o][v]]_vars

(* A reservation past its deadline does not keep its units: it is          *)
(* confirmed, released or expired in the end.                              *)
DueReservationsSettle ==
  \A o \in Orders, v \in Variants :
    (o \in due /\ reservations[o][v] = "ACTIVE") ~> (reservations[o][v] \in Settled)

(* The engine implements StockPool: whatever commits between what, the     *)
(* counter a checkout tests (availableStock) is the units nobody claims;   *)
(* an order claims all its lines or none and sells all or none of them; a  *)
(* release gives back all that the order still holds, while expiry (in     *)
(* batches) and archiving may take single lines from an order; and what is *)
(* sold or given back stays so.                                            *)
ClaimOf(status) ==
  CASE status = "NONE" -> "none"
    [] status = "ACTIVE" -> "held"
    [] status = "CONFIRMED" -> "sold"
    [] OTHER -> "returned"

Pool == INSTANCE StockPool WITH
  claims <- [o \in Orders |-> [v \in Variants |-> ClaimOf(reservations[o][v])]],
  supply <- supplied,
  free <- [v \in Variants |-> items[v].availableStock],
  Shelf <- SeedAvailable,
  Legacy <- SeedReserved

PoolSpec == Pool!Spec
=============================================================================
