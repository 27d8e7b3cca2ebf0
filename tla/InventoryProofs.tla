--------------------------- MODULE InventoryProofs ---------------------------
(***************************************************************************)
(* The safety of Inventory for any set of variants, any finite set of      *)
(* orders and any quantities, with the proofs.  The work is in the units:  *)
(* Held(v, status) is a set of units, and the counters of a row are the    *)
(* sizes of such sets, so each movement of a counter is matched with the   *)
(* units that one order brings into or out of a set.  It extends the       *)
(* module of the run, whose counter and quotes and whose refinement of     *)
(* StockPool have their theorems here too.                                 *)
(***************************************************************************)
EXTENDS MCInventory, FiniteSums, FiniteSetTheorems, SequenceTheorems, TLAPS

(* Held with the table of reservations as a parameter.                     *)
Table == [Orders -> [Variants -> ReservationStatus]]

HeldIn(r, v, status) ==
  UNION {Units(o, v) : o \in {p \in Orders : r[p][v] = status}}

(* An order line stands for as many units as its quantity.                 *)
LEMMA UnitsOfLine ==
  ASSUME NEW o \in Orders, NEW v \in Variants
  PROVE  /\ IsFiniteSet(Units(o, v))
         /\ Cardinality(Units(o, v)) = Quantity[o][v]
<1>1. Quantity[o][v] \in Nat
  BY QuantityType
<1>2. IsFiniteSet(1 .. Quantity[o][v]) /\ Cardinality(1 .. Quantity[o][v]) = Quantity[o][v]
  <2>1. ASSUME NEW n \in Nat
        PROVE  IsFiniteSet(1 .. n) /\ Cardinality(1 .. n) = n
    <3>1. /\ IsFiniteSet(1 .. n)
          /\ Cardinality(1 .. n) = IF 1 > n THEN 0 ELSE n - 1 + 1
      BY FS_Interval
    <3>2. (IF 1 > n THEN 0 ELSE n - 1 + 1) = n
      OBVIOUS
    <3>3. QED
      BY <3>1, <3>2
  <2>2. QED
    BY <1>1, <2>1
<1>3. IsFiniteSet({o}) /\ Cardinality({o}) = 1
  BY FS_Singleton
<1>4. /\ IsFiniteSet({o} \X (1 .. Quantity[o][v]))
      /\ Cardinality({o} \X (1 .. Quantity[o][v]))
           = Cardinality({o}) * Cardinality(1 .. Quantity[o][v])
  BY <1>2, <1>3, FS_Product, Zenon
<1>5. Cardinality({o}) * Cardinality(1 .. Quantity[o][v]) = Quantity[o][v]
  BY <1>1, <1>2, <1>3
<1>6. QED
  BY <1>4, <1>5, Zenon DEF Units

(* Finitely many orders hold finitely many units.                          *)
LEMMA HeldInFinite ==
  ASSUME NEW r, NEW v \in Variants, NEW status
  PROVE  IsFiniteSet(HeldIn(r, v, status))
<1> DEFINE P == {p \in Orders : r[p][v] = status}
           T == {Units(o, v) : o \in P}
           f == [o \in P |-> Units(o, v)]
<1>1. IsFiniteSet(P)
  BY OrdersFinite, FS_Subset
<1>2. f \in Surjection(P, T)
  BY DEF Surjection
<1>3. IsFiniteSet(T)
  BY <1>1, <1>2, FS_Surjection
<1>4. \A t \in T : IsFiniteSet(t)
  BY UnitsOfLine
<1>5. IsFiniteSet(UNION T)
  BY <1>3, <1>4, FS_UNION
<1>6. QED
  BY <1>5 DEF HeldIn

(* Between the tables r and s the units of v held in a status change by    *)
(* the units of the one order o.                                           *)
UnitsFollow(r, s, o, v, status) ==
  LET Hr == Cardinality(HeldIn(r, v, status))
      Hs == Cardinality(HeldIn(s, v, status))
  IN /\ Hr \in Nat /\ Hs \in Nat
     /\ s[o][v] = r[o][v] => Hs = Hr
     /\ s[o][v] = status /\ r[o][v] # status => Hs = Hr + Quantity[o][v]
     /\ s[o][v] # status /\ r[o][v] = status => Hs = Hr - Quantity[o][v]
     /\ s[o][v] # status /\ r[o][v] # status => Hs = Hr

(* When only one order's reservation of v changes, so does its share.      *)
LEMMA OneOrderMoves ==
  ASSUME NEW r, NEW s, NEW o \in Orders, NEW v \in Variants, NEW status,
         \A p \in Orders : p # o => s[p][v] = r[p][v]
  PROVE  UnitsFollow(r, s, o, v, status)
<1> DEFINE Hr == HeldIn(r, v, status)
           Hs == HeldIn(s, v, status)
           U == Units(o, v)
<1>1. /\ IsFiniteSet(Hr) /\ IsFiniteSet(Hs)
      /\ Cardinality(Hr) \in Nat /\ Cardinality(Hs) \in Nat
  BY HeldInFinite, FS_CardinalityType
<1>2. IsFiniteSet(U) /\ Cardinality(U) = Quantity[o][v]
  BY UnitsOfLine
<1>3. Quantity[o][v] \in Nat
  BY QuantityType
<1>4. ASSUME NEW t, NEW w, t[o][v] = status, w[o][v] # status,
             \A p \in Orders : p # o => t[p][v] = w[p][v]
      PROVE  Cardinality(HeldIn(t, v, status))
               = Cardinality(HeldIn(w, v, status)) + Quantity[o][v]
  <2>1. HeldIn(t, v, status) = HeldIn(w, v, status) \cup U
    BY <1>4 DEF HeldIn
  <2>2. HeldIn(w, v, status) \cap U = {}
    BY <1>4 DEF HeldIn, Units
  <2>3. IsFiniteSet(HeldIn(w, v, status)) /\ Cardinality(HeldIn(w, v, status)) \in Nat
    BY HeldInFinite, FS_CardinalityType
  <2>4. Cardinality(HeldIn(w, v, status) \cap U) = 0
    BY <2>2, FS_EmptySet
  <2>5. Cardinality(HeldIn(w, v, status) \cup U)
          = Cardinality(HeldIn(w, v, status)) + Cardinality(U)
              - Cardinality(HeldIn(w, v, status) \cap U)
    BY <1>2, <2>3, FS_Union, Zenon
  <2>6. Cardinality(HeldIn(w, v, status) \cup U)
          = Cardinality(HeldIn(w, v, status)) + Quantity[o][v]
    BY <1>2, <1>3, <2>3, <2>4, <2>5
  <2>7. QED
    BY <2>1, <2>6, Zenon
<1>5. ASSUME \/ s[o][v] = r[o][v]
             \/ s[o][v] # status /\ r[o][v] # status
      PROVE  Hs = Hr
  BY <1>5 DEF HeldIn
<1>6. ASSUME s[o][v] = status, r[o][v] # status
      PROVE  Cardinality(Hs) = Cardinality(Hr) + Quantity[o][v]
  BY <1>4, <1>6
<1>7. ASSUME s[o][v] # status, r[o][v] = status
      PROVE  Cardinality(Hr) = Cardinality(Hs) + Quantity[o][v]
  BY <1>4, <1>7
<1>8. QED
  BY <1>1, <1>3, <1>5, <1>6, <1>7 DEF UnitsFollow

-----------------------------------------------------------------------------
(* The inductive invariant: CountersMatchReservations needs the types, the *)
(* guards of the code need CountersMatchReservations, and the others need  *)
(* the counters that a movement starts from.                               *)
StockInv ==
  /\ TypeOK
  /\ CountersMatchReservations
  /\ UnitsAccounted
  /\ LedgerIsTrail
  /\ VersionNamesCounters

LedgerType == {"RESERVED", "RELEASED", "SOLD", "MANUAL_ADJUSTMENT"}

(* createLedger extends an unbroken trail to an unbroken trail.            *)
LEMMA TrailGrows ==
  ASSUME NEW entries \in Seq(LedgerRow), NEW before \in Item, NEW after \in Item,
         NEW type \in LedgerType, Unbroken(entries, before)
  PROVE  /\ Append(entries, Entry(type, before, after)) \in Seq(LedgerRow)
         /\ Unbroken(Append(entries, Entry(type, before, after)), after)
<1> DEFINE e == Entry(type, before, after)
           t == Append(entries, e)
<1>1. e \in LedgerRow /\ e.before = CountersOf(before) /\ e.after = CountersOf(after)
  BY DEF Entry, LedgerRow, CountersOf, Counters, Item, LedgerType
<1>2. /\ t \in Seq(LedgerRow)
      /\ Len(t) = Len(entries) + 1 /\ Len(entries) \in Nat
      /\ t[Len(t)] = e
      /\ \A i \in 1 .. Len(entries) : t[i] = entries[i]
  <2> HIDE DEF e
  <2>1. QED
    BY <1>1
<1> HIDE DEF e, t
<1>3. ASSUME NEW i \in 1 .. Len(t) - 1
      PROVE  t[i].after = t[i + 1].before
  <2>1. CASE i < Len(entries)
    <3>1. entries[i].after = entries[i + 1].before
      BY <1>2, <2>1 DEF Unbroken
    <3>2. t[i] = entries[i] /\ t[i + 1] = entries[i + 1]
      BY <1>2, <2>1
    <3>3. QED
      BY <3>1, <3>2
  <2>2. CASE i = Len(entries)
    <3>1. entries[i].after = CountersOf(before)
      BY <1>2, <1>3, <2>2 DEF Unbroken
    <3>2. t[i] = entries[i] /\ t[i + 1] = e
      BY <1>2, <2>2
    <3>3. QED
      BY <1>1, <3>1, <3>2
  <2>3. QED
    BY <1>2, <2>1, <2>2
<1>4. Unbroken(t, after)
  BY <1>1, <1>2, <1>3 DEF Unbroken
<1>5. QED
  BY <1>2, <1>4 DEF t, e

(* Any write of rows that bumps their versions keeps the trail and the     *)
(* meaning of the versions.                                                *)
LEMMA WriteKeeps ==
  ASSUME TypeOK, LedgerIsTrail, VersionNamesCounters,
         NEW S \in SUBSET Variants, NEW after, NEW type \in LedgerType,
         \A v \in S : after[v] \in Item /\ after[v].version = items[v].version + 1,
         Write(S, after, type), seen' = seen
  PROVE  /\ items' \in [Variants -> Item]
         /\ ledger' \in [Variants -> Seq(LedgerRow)]
         /\ LedgerIsTrail'
         /\ VersionNamesCounters'
<1>1. items' \in [Variants -> Item]
  BY DEF Write, TypeOK
<1>2. ASSUME NEW v \in Variants
      PROVE  ledger'[v] \in Seq(LedgerRow) /\ Unbroken(ledger'[v], items'[v])
  <2>1. items[v] \in Item /\ ledger[v] \in Seq(LedgerRow) /\ Unbroken(ledger[v], items[v])
    BY DEF TypeOK, LedgerIsTrail
  <2>2. CASE v \in S
    <3>1. ledger'[v] = Append(ledger[v], Entry(type, items[v], after[v])) /\ items'[v] = after[v]
      BY <2>2 DEF Write
    <3>2. QED
      BY <2>1, <2>2, <3>1, TrailGrows
  <2>3. CASE v \notin S
    BY <2>1, <2>3 DEF Write
  <2>4. QED
    BY <2>2, <2>3
<1>3. ledger' \in [Variants -> Seq(LedgerRow)]
  BY <1>2 DEF Write
<1>4. LedgerIsTrail'
  BY <1>2 DEF LedgerIsTrail
<1>5. VersionNamesCounters'
  <2>1. ASSUME NEW k \in Adjustments
        PROVE  /\ seen[k].version <= items'[AdjustedVariant[k]].version
               /\ seen[k].version = items'[AdjustedVariant[k]].version
                    => seen[k] = items'[AdjustedVariant[k]]
    <3> DEFINE v == AdjustedVariant[k]
    <3>1. /\ v \in Variants /\ seen[k] \in Item /\ items[v] \in Item
          /\ seen[k].version <= items[v].version
          /\ seen[k].version = items[v].version => seen[k] = items[v]
      BY AdjustmentType DEF TypeOK, VersionNamesCounters
    <3>2. v \in S => items'[v].version = items[v].version + 1
      BY <3>1 DEF Write
    <3>3. v \notin S => items'[v] = items[v]
      BY <3>1 DEF Write
    <3>4. items[v].version \in Nat /\ seen[k].version \in Nat
      BY <3>1 DEF Item
    <3> HIDE DEF v
    <3>5. QED
      BY <3>1, <3>2, <3>3, <3>4 DEF v
  <2>2. QED
    BY <2>1 DEF VersionNamesCounters
<1>6. QED
  BY <1>1, <1>3, <1>4, <1>5

(* The counters of the rows of S follow the reservations of o when these   *)
(* go from one status to another.                                          *)
Follows(o, S, after, from, to) ==
  \A v \in S :
    /\ reservations[o][v] = from
    /\ after[v] \in Item
    /\ after[v].version = items[v].version + 1
    /\ after[v].reservedStock = items[v].reservedStock
         + (IF to = "ACTIVE" THEN Quantity[o][v] ELSE 0)
         - (IF from = "ACTIVE" THEN Quantity[o][v] ELSE 0)
    /\ after[v].soldStock = items[v].soldStock
         + (IF to = "CONFIRMED" THEN Quantity[o][v] ELSE 0)
         - (IF from = "CONFIRMED" THEN Quantity[o][v] ELSE 0)
    /\ after[v].availableStock + after[v].reservedStock + after[v].soldStock
         = items[v].availableStock + items[v].reservedStock + items[v].soldStock

(* The movements of an order (reserve, authorize, confirm, release,        *)
(* expire): its lines of S go from one status to another, and the counters *)
(* follow.                                                                 *)
LEMMA OrderMoves ==
  ASSUME StockInv,
         NEW o \in Orders, NEW S \in SUBSET Variants, NEW after,
         NEW type \in LedgerType,
         NEW from \in ReservationStatus, NEW to \in ReservationStatus, from # to,
         Follows(o, S, after, from, to),
         Write(S, after, type), SetStatus(o, S, to),
         seen' = seen, supplied' = supplied
  PROVE  /\ items' \in [Variants -> Item]
         /\ ledger' \in [Variants -> Seq(LedgerRow)]
         /\ reservations' \in Table
         /\ CountersMatchReservations'
         /\ UnitsAccounted'
         /\ LedgerIsTrail'
         /\ VersionNamesCounters'
<1>1. TypeOK /\ CountersMatchReservations /\ UnitsAccounted /\ LedgerIsTrail /\ VersionNamesCounters
  BY DEF StockInv
<1>2. /\ items' \in [Variants -> Item]
      /\ ledger' \in [Variants -> Seq(LedgerRow)]
      /\ LedgerIsTrail' /\ VersionNamesCounters'
  BY <1>1, WriteKeeps DEF Follows
<1>3. /\ reservations \in Table
      /\ reservations' \in Table
      /\ \A p \in Orders, v \in Variants : p # o => reservations'[p][v] = reservations[p][v]
      /\ \A v \in S : reservations'[o][v] = to
      /\ \A v \in Variants \ S : reservations'[o][v] = reservations[o][v]
  BY <1>1 DEF TypeOK, Table, SetStatus
<1>4. /\ \A v \in S : items'[v] = after[v]
      /\ \A v \in Variants \ S : items'[v] = items[v]
  BY DEF Write
<1>5. ASSUME NEW v \in Variants
      PROVE  /\ items'[v].reservedStock
                  = SeedReserved[v] + Cardinality(HeldIn(reservations', v, "ACTIVE"))
             /\ items'[v].soldStock = Cardinality(HeldIn(reservations', v, "CONFIRMED"))
             /\ items'[v].availableStock + items'[v].reservedStock + items'[v].soldStock
                  = supplied[v]
  <2> DEFINE A == Cardinality(HeldIn(reservations, v, "ACTIVE"))
             B == Cardinality(HeldIn(reservations', v, "ACTIVE"))
             C == Cardinality(HeldIn(reservations, v, "CONFIRMED"))
             D == Cardinality(HeldIn(reservations', v, "CONFIRMED"))
             q == Quantity[o][v]
  <2>1. /\ items[v].reservedStock = SeedReserved[v] + A
        /\ items[v].soldStock = C
        /\ items[v].availableStock + items[v].reservedStock + items[v].soldStock = supplied[v]
    BY <1>1 DEF CountersMatchReservations, UnitsAccounted, Held, HeldIn, Holders
  <2>2. \A p \in Orders : p # o => reservations'[p][v] = reservations[p][v]
    BY <1>3
  <2>3. /\ UnitsFollow(reservations, reservations', o, v, "ACTIVE")
        /\ UnitsFollow(reservations, reservations', o, v, "CONFIRMED")
    BY <2>2, OneOrderMoves, Zenon
  <2>4. /\ A \in Nat /\ B \in Nat
        /\ reservations'[o][v] = reservations[o][v] => B = A /\ D = C
        /\ reservations'[o][v] = "ACTIVE" /\ reservations[o][v] # "ACTIVE" => B = A + q
        /\ reservations'[o][v] # "ACTIVE" /\ reservations[o][v] = "ACTIVE" => B = A - q
        /\ reservations'[o][v] # "ACTIVE" /\ reservations[o][v] # "ACTIVE" => B = A
        /\ C \in Nat /\ D \in Nat
        /\ reservations'[o][v] = "CONFIRMED" /\ reservations[o][v] # "CONFIRMED" => D = C + q
        /\ reservations'[o][v] # "CONFIRMED" /\ reservations[o][v] = "CONFIRMED" => D = C - q
        /\ reservations'[o][v] # "CONFIRMED" /\ reservations[o][v] # "CONFIRMED" => D = C
    BY <2>3 DEF UnitsFollow
  <2>5. q \in Nat /\ SeedReserved[v] \in Nat
    BY QuantityType, SeedType
  <2> HIDE DEF A, B, C, D, q
  <2>6. CASE v \notin S
    <3>1. items'[v] = items[v] /\ reservations'[o][v] = reservations[o][v]
      BY <1>3, <1>4, <2>6
    <3>2. B = A /\ D = C
      BY <2>4, <3>1
    <3>3. QED
      BY <2>1, <3>1, <3>2 DEF B, D
  <2>7. CASE v \in S
    <3>1. items'[v] = after[v] /\ reservations[o][v] = from /\ reservations'[o][v] = to
      BY <1>3, <1>4, <2>7 DEF Follows
    <3>2. /\ after[v].reservedStock = items[v].reservedStock
                + (IF to = "ACTIVE" THEN q ELSE 0) - (IF from = "ACTIVE" THEN q ELSE 0)
          /\ after[v].soldStock = items[v].soldStock
                + (IF to = "CONFIRMED" THEN q ELSE 0) - (IF from = "CONFIRMED" THEN q ELSE 0)
          /\ after[v].availableStock + after[v].reservedStock + after[v].soldStock
                = items[v].availableStock + items[v].reservedStock + items[v].soldStock
      BY <2>7 DEF q, Follows
    <3>3. B = A + (IF to = "ACTIVE" THEN q ELSE 0) - (IF from = "ACTIVE" THEN q ELSE 0)
      BY <2>4, <2>5, <3>1
    <3>4. D = C + (IF to = "CONFIRMED" THEN q ELSE 0) - (IF from = "CONFIRMED" THEN q ELSE 0)
      BY <2>4, <2>5, <3>1
    <3>5. after[v].reservedStock = SeedReserved[v] + B
      BY <2>1, <2>4, <2>5, <3>2, <3>3
    <3>6. after[v].soldStock = D
      BY <2>1, <2>4, <2>5, <3>2, <3>4
    <3>7. QED
      BY <2>1, <3>1, <3>2, <3>5, <3>6 DEF B, D
  <2>8. QED
    BY <2>6, <2>7
<1>6. CountersMatchReservations'
  BY <1>5 DEF CountersMatchReservations, Held, HeldIn, Holders
<1>7. UnitsAccounted'
  BY <1>5 DEF UnitsAccounted
<1>8. QED
  BY <1>2, <1>3, <1>6, <1>7

-----------------------------------------------------------------------------
LEMMA CountersAreNat ==
  ASSUME TypeOK, NEW v \in Variants
  PROVE  /\ items[v].availableStock \in Nat /\ items[v].reservedStock \in Nat
         /\ items[v].soldStock \in Nat /\ items[v].version \in Nat
BY DEF TypeOK, Item

LEMMA InitInv == Init => StockInv
<1> SUFFICES ASSUME Init PROVE StockInv
  OBVIOUS
<1>1. /\ \A v \in Variants : SeedItem(v) \in Item
      /\ \A v \in Variants : BackfillRow(v) \in LedgerRow
      /\ \A v \in Variants : BackfillRow(v).after = CountersOf(SeedItem(v))
      /\ NotLoaded \in Item
  BY SeedType DEF SeedItem, Item, BackfillRow, LedgerRow, Counters, CountersOf, NotLoaded
<1>2. TypeOK
  <2>1. ledger \in [Variants -> Seq(LedgerRow)]
    BY <1>1 DEF Init
  <2>2. supplied \in [Variants -> Int]
    BY SeedType DEF Init
  <2>3. rows \subseteq Variants
    BY BackfilledType DEF Init
  <2>4. QED
    BY <1>1, <2>1, <2>2, <2>3 DEF Init, TypeOK, ReservationStatus, Response
<1>3. CountersMatchReservations
  <2>1. ASSUME NEW v \in Variants, NEW status \in {"ACTIVE", "CONFIRMED"}
        PROVE  Cardinality(Held(v, status)) = 0
    <3>1. Held(v, status) = {}
      BY DEF Init, Held, Holders
    <3>2. QED
      BY <3>1, FS_EmptySet
  <2>2. QED
    BY <2>1, SeedType DEF CountersMatchReservations, Init, SeedItem
<1>4. UnitsAccounted
  BY SeedType DEF UnitsAccounted, Init, SeedItem
<1>5. LedgerIsTrail
  <2>1. ASSUME NEW v \in Variants
        PROVE  Unbroken(ledger[v], items[v])
    <3>1. CASE v \in Backfilled
      <4>1. ledger[v] = <<BackfillRow(v)>> /\ items[v] = SeedItem(v)
        BY <3>1 DEF Init
      <4> HIDE DEF Init
      <4>2. QED
        BY <1>1, <4>1 DEF Unbroken
    <3>2. CASE v \notin Backfilled
      <4>1. ledger[v] = <<>>
        BY <3>2 DEF Init
      <4>2. QED
        BY <4>1 DEF Unbroken
    <3>3. QED
      BY <3>1, <3>2
  <2>2. QED
    BY <2>1 DEF LedgerIsTrail
<1>6. VersionNamesCounters
  BY AdjustmentType DEF VersionNamesCounters, Init, NotLoaded, SeedItem
<1>7. QED
  BY <1>2, <1>3, <1>4, <1>5, <1>6 DEF StockInv

LEMMA ReserveInv ==
  ASSUME StockInv, NEW o \in Orders, ReserveOrderStock(o)
  PROVE  StockInv'
<1> DEFINE after == [v \in Variants |-> Moved(v, - Quantity[o][v], Quantity[o][v], 0)]
<1>1. TypeOK
  BY DEF StockInv
<1>2. /\ LinesOf(o) \in SUBSET Variants
      /\ Write(LinesOf(o), after, "RESERVED") /\ SetStatus(o, LinesOf(o), "ACTIVE")
      /\ seen' = seen /\ supplied' = supplied
  BY DEF ReserveOrderStock, LinesOf
<1>3. Follows(o, LinesOf(o), after, "NONE", "ACTIVE")
  <2> SUFFICES ASSUME NEW v \in LinesOf(o)
               PROVE  /\ reservations[o][v] = "NONE"
                      /\ after[v] \in Item
                      /\ after[v].version = items[v].version + 1
                      /\ after[v].reservedStock = items[v].reservedStock + Quantity[o][v] - 0
                      /\ after[v].soldStock = items[v].soldStock + 0 - 0
                      /\ after[v].availableStock + after[v].reservedStock + after[v].soldStock
                          = items[v].availableStock + items[v].reservedStock + items[v].soldStock
    BY DEF Follows
  <2>1. v \in Variants /\ Quantity[o][v] \in Nat
    BY QuantityType DEF LinesOf
  <2>2. items[v].availableStock >= Quantity[o][v] /\ reservations[o][v] = "NONE"
    BY <2>1 DEF ReserveOrderStock, InStock, Placed, ReservedLines
  <2>3. after[v] = Moved(v, - Quantity[o][v], Quantity[o][v], 0)
    BY <2>1
  <2> HIDE DEF after
  <2>4. QED
    BY <1>1, <2>1, <2>2, <2>3, CountersAreNat DEF Moved, Item
<1> HIDE DEF after
<1>4. /\ "RESERVED" \in LedgerType
      /\ "NONE" \in ReservationStatus /\ "ACTIVE" \in ReservationStatus
  BY DEF LedgerType, ReservationStatus
<1>6. /\ items' \in [Variants -> Item]
      /\ ledger' \in [Variants -> Seq(LedgerRow)]
      /\ reservations' \in Table
      /\ CountersMatchReservations' /\ UnitsAccounted'
      /\ LedgerIsTrail' /\ VersionNamesCounters'
  BY <1>2, <1>3, <1>4, OrderMoves
<1>7. TypeOK'
  BY <1>1, <1>2, <1>6 DEF TypeOK, Table, ReserveOrderStock, Complete, Response
<1>8. QED
  BY <1>6, <1>7 DEF StockInv

LEMMA TakeAtOnceKeeps ==
  ASSUME StockInv, NEW o \in Orders, TakeAtOnce(o)
  PROVE  /\ items' \in [Variants -> Item]
         /\ ledger' \in [Variants -> Seq(LedgerRow)]
         /\ reservations' \in Table
         /\ CountersMatchReservations' /\ UnitsAccounted'
         /\ LedgerIsTrail' /\ VersionNamesCounters'
<1> DEFINE after == [v \in Variants |-> Moved(v, - Quantity[o][v], 0, Quantity[o][v])]
<1>1. TypeOK
  BY DEF StockInv
<1>2. /\ LinesOf(o) \in SUBSET Variants
      /\ Write(LinesOf(o), after, "SOLD") /\ SetStatus(o, LinesOf(o), "CONFIRMED")
      /\ seen' = seen /\ supplied' = supplied
  BY DEF TakeAtOnce, LinesOf
<1>3. Follows(o, LinesOf(o), after, "NONE", "CONFIRMED")
  <2> SUFFICES ASSUME NEW v \in LinesOf(o)
               PROVE  /\ reservations[o][v] = "NONE"
                      /\ after[v] \in Item
                      /\ after[v].version = items[v].version + 1
                      /\ after[v].reservedStock = items[v].reservedStock + 0 - 0
                      /\ after[v].soldStock = items[v].soldStock + Quantity[o][v] - 0
                      /\ after[v].availableStock + after[v].reservedStock + after[v].soldStock
                          = items[v].availableStock + items[v].reservedStock + items[v].soldStock
    BY DEF Follows
  <2>1. v \in Variants /\ Quantity[o][v] \in Nat
    BY QuantityType DEF LinesOf
  <2>2. items[v].availableStock >= Quantity[o][v] /\ reservations[o][v] = "NONE"
    BY <2>1 DEF TakeAtOnce, InStock, Placed, ReservedLines
  <2>3. after[v] = Moved(v, - Quantity[o][v], 0, Quantity[o][v])
    BY <2>1
  <2> HIDE DEF after
  <2>4. QED
    BY <1>1, <2>1, <2>2, <2>3, CountersAreNat DEF Moved, Item
<1> HIDE DEF after
<1>4. /\ "SOLD" \in LedgerType
      /\ "NONE" \in ReservationStatus /\ "CONFIRMED" \in ReservationStatus
  BY DEF LedgerType, ReservationStatus
<1>5. QED
  BY <1>2, <1>3, <1>4, OrderMoves

LEMMA AuthorizeInv ==
  ASSUME StockInv, NEW o \in Orders,
         CreateCodCheckoutFast(o) \/ AuthorizeCodOrderStock(o)
  PROVE  StockInv'
<1>1. TypeOK
  BY DEF StockInv
<1>2. /\ TakeAtOnce(o)
      /\ due' = due /\ archived' = archived /\ seen' = seen /\ supplied' = supplied
      /\ LinesOf(o) \subseteq Variants
  BY DEF CreateCodCheckoutFast, AuthorizeCodOrderStock, TakeAtOnce, LinesOf
<1>3. /\ items' \in [Variants -> Item]
      /\ ledger' \in [Variants -> Seq(LedgerRow)]
      /\ reservations' \in Table
      /\ CountersMatchReservations' /\ UnitsAccounted'
      /\ LedgerIsTrail' /\ VersionNamesCounters'
  BY <1>2, TakeAtOnceKeeps
<1>4. rows' \subseteq Variants /\ operations' \in [OperationKey -> Response]
  BY <1>1, <1>2 DEF TypeOK, CreateCodCheckoutFast, AuthorizeCodOrderStock, Complete, Response
<1>5. TypeOK'
  BY <1>1, <1>2, <1>3, <1>4 DEF TypeOK, Table
<1>6. QED
  BY <1>3, <1>5 DEF StockInv

LEMMA ConfirmInv ==
  ASSUME StockInv, NEW o \in Orders, ConfirmOrderStock(o)
  PROVE  StockInv'
<1> DEFINE after == [v \in Variants |-> Moved(v, 0, - Quantity[o][v], Quantity[o][v])]
           S == IF ConfirmResponse(o) = "CONFIRMED" THEN ActiveLines(o) ELSE {}
<1>1. TypeOK
  BY DEF StockInv
<1>2. /\ S \in SUBSET Variants
      /\ Covered(o, S)
      /\ Write(S, after, "SOLD") /\ SetStatus(o, S, "CONFIRMED")
      /\ seen' = seen /\ supplied' = supplied
  BY DEF ConfirmOrderStock, ActiveLines
<1>3. Follows(o, S, after, "ACTIVE", "CONFIRMED")
  <2> SUFFICES ASSUME NEW v \in S
               PROVE  /\ reservations[o][v] = "ACTIVE"
                      /\ after[v] \in Item
                      /\ after[v].version = items[v].version + 1
                      /\ after[v].reservedStock = items[v].reservedStock + 0 - Quantity[o][v]
                      /\ after[v].soldStock = items[v].soldStock + Quantity[o][v] - 0
                      /\ after[v].availableStock + after[v].reservedStock + after[v].soldStock
                          = items[v].availableStock + items[v].reservedStock + items[v].soldStock
    BY DEF Follows
  <2>1. v \in Variants /\ Quantity[o][v] \in Nat
    BY <1>2, QuantityType
  <2>2. items[v].reservedStock >= Quantity[o][v] /\ reservations[o][v] = "ACTIVE"
    BY <1>2, <2>1 DEF Covered, ActiveLines
  <2>3. after[v] = Moved(v, 0, - Quantity[o][v], Quantity[o][v])
    BY <2>1
  <2> HIDE DEF after, S
  <2>4. QED
    BY <1>1, <2>1, <2>2, <2>3, CountersAreNat DEF Moved, Item
<1> HIDE DEF after, S
<1>4. /\ "SOLD" \in LedgerType
      /\ "ACTIVE" \in ReservationStatus /\ "CONFIRMED" \in ReservationStatus
  BY DEF LedgerType, ReservationStatus
<1>5. /\ items' \in [Variants -> Item]
      /\ ledger' \in [Variants -> Seq(LedgerRow)]
      /\ reservations' \in Table
      /\ CountersMatchReservations' /\ UnitsAccounted'
      /\ LedgerIsTrail' /\ VersionNamesCounters'
  BY <1>2, <1>3, <1>4, OrderMoves
<1>6. ConfirmResponse(o) \in Response
  BY DEF ConfirmResponse, Response
<1>7. TypeOK'
  BY <1>1, <1>2, <1>5, <1>6 DEF TypeOK, Table, ConfirmOrderStock, Complete
<1>8. QED
  BY <1>5, <1>7 DEF StockInv

(* releaseReservations, for the release of an order and for an expiry.     *)
LEMMA ReleaseKeeps ==
  ASSUME StockInv, NEW o \in Orders, NEW S \in SUBSET ActiveLines(o),
         NEW status \in {"RELEASED", "EXPIRED"}, Release(o, S, status),
         seen' = seen, supplied' = supplied
  PROVE  /\ items' \in [Variants -> Item]
         /\ ledger' \in [Variants -> Seq(LedgerRow)]
         /\ reservations' \in Table
         /\ CountersMatchReservations' /\ UnitsAccounted'
         /\ LedgerIsTrail' /\ VersionNamesCounters'
<1> DEFINE after == [v \in Variants |-> Moved(v, Quantity[o][v], - Quantity[o][v], 0)]
<1>1. TypeOK
  BY DEF StockInv
<1>2. /\ S \in SUBSET Variants
      /\ Covered(o, S) /\ Write(S, after, "RELEASED") /\ SetStatus(o, S, status)
  BY DEF Release, ActiveLines
<1>3. Follows(o, S, after, "ACTIVE", status)
  <2> SUFFICES ASSUME NEW v \in S
               PROVE  /\ reservations[o][v] = "ACTIVE"
                      /\ after[v] \in Item
                      /\ after[v].version = items[v].version + 1
                      /\ after[v].reservedStock = items[v].reservedStock + 0 - Quantity[o][v]
                      /\ after[v].soldStock = items[v].soldStock + 0 - 0
                      /\ after[v].availableStock + after[v].reservedStock + after[v].soldStock
                          = items[v].availableStock + items[v].reservedStock + items[v].soldStock
    BY DEF Follows
  <2>1. v \in Variants /\ Quantity[o][v] \in Nat
    BY <1>2, QuantityType
  <2>2. items[v].reservedStock >= Quantity[o][v] /\ reservations[o][v] = "ACTIVE"
    BY <1>2, <2>1 DEF Covered, ActiveLines
  <2>3. after[v] = Moved(v, Quantity[o][v], - Quantity[o][v], 0)
    BY <2>1
  <2> HIDE DEF after
  <2>4. QED
    BY <1>1, <2>1, <2>2, <2>3, CountersAreNat DEF Moved, Item
<1> HIDE DEF after
<1>4. /\ "RELEASED" \in LedgerType
      /\ "ACTIVE" \in ReservationStatus /\ status \in ReservationStatus /\ status # "ACTIVE"
  BY DEF LedgerType, ReservationStatus
<1>5. QED
  BY <1>2, <1>3, <1>4, OrderMoves

LEMMA ReleaseInv ==
  ASSUME StockInv, NEW o \in Orders, NEW reason \in ReleaseReasons,
         ReleaseOrderStock(o, reason)
  PROVE  StockInv'
<1>1. TypeOK
  BY DEF StockInv
<1>2. /\ Release(o, ActiveLines(o), "RELEASED")
      /\ seen' = seen /\ supplied' = supplied
  BY DEF ReleaseOrderStock
<1>3. /\ items' \in [Variants -> Item]
      /\ ledger' \in [Variants -> Seq(LedgerRow)]
      /\ reservations' \in Table
      /\ CountersMatchReservations' /\ UnitsAccounted'
      /\ LedgerIsTrail' /\ VersionNamesCounters'
  BY <1>2, ReleaseKeeps
<1>4. TypeOK'
  BY <1>1, <1>3 DEF TypeOK, Table, ReleaseOrderStock, Complete, Response
<1>5. QED
  BY <1>3, <1>4 DEF StockInv

LEMMA ExpireInv ==
  ASSUME StockInv, NEW o \in Orders, NEW v \in Variants, ExpireReservation(o, v)
  PROVE  StockInv'
<1>1. TypeOK
  BY DEF StockInv
<1>2. /\ {v} \in SUBSET ActiveLines(o)
      /\ Release(o, {v}, "EXPIRED")
      /\ seen' = seen /\ supplied' = supplied
  BY DEF ExpireReservation
<1>3. /\ items' \in [Variants -> Item]
      /\ ledger' \in [Variants -> Seq(LedgerRow)]
      /\ reservations' \in Table
      /\ CountersMatchReservations' /\ UnitsAccounted'
      /\ LedgerIsTrail' /\ VersionNamesCounters'
  BY <1>2, ReleaseKeeps
<1>4. TypeOK'
  BY <1>1, <1>3 DEF TypeOK, Table, ExpireReservation
<1>5. QED
  BY <1>3, <1>4 DEF StockInv

LEMMA AdjustInv ==
  ASSUME StockInv, NEW k \in Adjustments, NEW delta \in Deltas,
         ApplyManualAdjustment(k, delta)
  PROVE  StockInv'
<1> DEFINE v == AdjustedVariant[k]
           after == [w \in Variants |-> Moved(w, delta, 0, 0)]
<1>1. TypeOK /\ CountersMatchReservations /\ UnitsAccounted /\ LedgerIsTrail /\ VersionNamesCounters
  BY DEF StockInv
<1>2. /\ v \in Variants /\ delta \in Int
      /\ items[v].availableStock + delta >= 0
      /\ Write({v}, after, "MANUAL_ADJUSTMENT")
      /\ supplied' = [supplied EXCEPT ![v] = @ + delta]
      /\ seen' = seen /\ reservations' = reservations
  BY AdjustmentType DEF ApplyManualAdjustment
<1>3. after[v] = Moved(v, delta, 0, 0)
  BY <1>2
<1> HIDE DEF v, after
<1>4. /\ after[v] \in Item
      /\ after[v].version = items[v].version + 1
      /\ after[v].availableStock = items[v].availableStock + delta
      /\ after[v].reservedStock = items[v].reservedStock
      /\ after[v].soldStock = items[v].soldStock
  BY <1>1, <1>2, <1>3, CountersAreNat DEF Moved, Item
<1>5. /\ items' \in [Variants -> Item]
      /\ ledger' \in [Variants -> Seq(LedgerRow)]
      /\ LedgerIsTrail' /\ VersionNamesCounters'
  <2>1. {v} \in SUBSET Variants /\ "MANUAL_ADJUSTMENT" \in LedgerType
    BY <1>2 DEF LedgerType
  <2>2. \A w \in {v} : after[w] \in Item /\ after[w].version = items[w].version + 1
    BY <1>4
  <2>3. QED
    BY <1>1, <1>2, <2>1, <2>2, WriteKeeps
<1>6. /\ items'[v] = after[v]
      /\ \A w \in Variants : w # v => items'[w] = items[w]
  BY <1>2 DEF Write
<1>7. CountersMatchReservations'
  BY <1>1, <1>2, <1>4, <1>6 DEF CountersMatchReservations, Held, Holders
<1>8. UnitsAccounted'
  <2> SUFFICES ASSUME NEW w \in Variants
               PROVE  items'[w].availableStock + items'[w].reservedStock + items'[w].soldStock
                        = supplied'[w]
    BY DEF UnitsAccounted
  <2>1. supplied[w] \in Int
        /\ items[w].availableStock + items[w].reservedStock + items[w].soldStock = supplied[w]
    BY <1>1 DEF TypeOK, UnitsAccounted
  <2>2. CASE w = v
    <3>1. supplied'[w] = supplied[w] + delta
      BY <1>1, <1>2, <2>2 DEF TypeOK
    <3>2. QED
      BY <1>1, <1>2, <1>4, <1>6, <2>1, <2>2, <3>1, CountersAreNat
  <2>3. CASE w # v
    BY <1>1, <1>2, <1>6, <2>1, <2>3 DEF TypeOK
  <2>4. QED
    BY <2>2, <2>3
<1>9. TypeOK'
  <2>1. supplied' \in [Variants -> Int]
    BY <1>1, <1>2 DEF TypeOK
  <2>2. /\ rows' \subseteq Variants
        /\ operations' \in [OperationKey -> Response]
        /\ due' \subseteq Orders /\ archived' \subseteq Variants
    BY <1>1, <1>2 DEF TypeOK, ApplyManualAdjustment, Complete, Response, v
  <2>3. QED
    BY <1>1, <1>2, <1>5, <2>1, <2>2 DEF TypeOK
<1>10. QED
  BY <1>5, <1>7, <1>8, <1>9 DEF StockInv

(* The rows that archiving a variant may append.                           *)
LEMMA TrailGrowsByAny ==
  ASSUME NEW entries \in Seq(LedgerRow), NEW before \in Item, NEW after \in Item,
         NEW type \in LedgerType, Unbroken(entries, before),
         NEW written \in BOOLEAN,
         ~ written => CountersOf(after) = CountersOf(before)
  PROVE  LET t == entries \o (IF written THEN <<Entry(type, before, after)>> ELSE <<>>)
         IN t \in Seq(LedgerRow) /\ Unbroken(t, after)
<1>1. CASE written
  <2> DEFINE e == Entry(type, before, after)
  <2>1. Append(entries, e) \in Seq(LedgerRow) /\ Unbroken(Append(entries, e), after)
    BY TrailGrows
  <2>2. e \in LedgerRow
    BY DEF Entry, LedgerRow, CountersOf, Counters, Item, LedgerType
  <2> HIDE DEF e
  <2>3. entries \o <<e>> = Append(entries, e)
    BY <2>2, AppendIsConcat
  <2>4. QED
    BY <1>1, <2>1, <2>3 DEF e
<1>2. CASE ~ written
  <2>1. entries \o <<>> = entries
    BY ConcatEmptySeq
  <2>2. Unbroken(entries, after)
    BY <1>2 DEF Unbroken
  <2>3. QED
    BY <1>2, <2>1, <2>2
<1>3. QED
  BY <1>1, <1>2

LEMMA ArchiveInv ==
  ASSUME StockInv, NEW v \in Variants, ArchiveProductVariant(v)
  PROVE  StockInv'
<1> DEFINE released == Cardinality(Held(v, "ACTIVE"))
           reserved == IF items[v].reservedStock > released
                       THEN items[v].reservedStock - released ELSE 0
           unheld == [items[v] EXCEPT !.reservedStock = reserved]
           after == [availableStock |-> 0, reservedStock |-> reserved,
                     soldStock |-> items[v].soldStock, version |-> items[v].version + 1]
           releaseRow == IF released > 0
                         THEN <<Entry("RELEASED", items[v], unheld)>> ELSE <<>>
           zeroRow == IF items[v].availableStock > 0
                      THEN <<Entry("MANUAL_ADJUSTMENT", unheld, after)>> ELSE <<>>
<1>1. TypeOK /\ CountersMatchReservations /\ UnitsAccounted /\ LedgerIsTrail /\ VersionNamesCounters
  BY DEF StockInv
<1>2. /\ archived' = archived \cup {v}
      /\ reservations' = [o \in Orders |->
           [w \in Variants |-> IF w = v /\ reservations[o][w] = "ACTIVE"
                               THEN "RELEASED" ELSE reservations[o][w]]]
      /\ items' = [items EXCEPT ![v] = after]
      /\ ledger' = [ledger EXCEPT ![v] = @ \o releaseRow \o zeroRow]
      /\ supplied' = [supplied EXCEPT ![v] = @ - released - items[v].availableStock]
      /\ rows' = rows /\ operations' = operations /\ due' = due /\ seen' = seen
  BY DEF ArchiveProductVariant
<1>3. released \in Nat
  <2>1. Held(v, "ACTIVE") = HeldIn(reservations, v, "ACTIVE")
    BY DEF Held, HeldIn, Holders
  <2>2. QED
    BY <2>1, HeldInFinite, FS_CardinalityType
<1>4. /\ items[v] \in Item
      /\ items[v].reservedStock = SeedReserved[v] + released
      /\ SeedReserved[v] \in Nat
  BY <1>1, SeedType DEF TypeOK, CountersMatchReservations
<1>5. reserved = SeedReserved[v]
  BY <1>3, <1>4
<1> HIDE DEF released, reserved
<1>6. /\ unheld \in Item
      /\ unheld.availableStock = items[v].availableStock
      /\ unheld.reservedStock = reserved
      /\ unheld.soldStock = items[v].soldStock
      /\ unheld.version = items[v].version
  BY <1>4, <1>5 DEF Item
<1>7. /\ after \in Item
      /\ after.availableStock = 0
      /\ after.reservedStock = reserved
      /\ after.soldStock = items[v].soldStock
      /\ after.version = items[v].version + 1
  BY <1>4, <1>5 DEF Item
<1>8. /\ released > 0 \/ CountersOf(unheld) = CountersOf(items[v])
      /\ items[v].availableStock > 0 \/ CountersOf(after) = CountersOf(unheld)
  BY <1>3, <1>4, <1>5, <1>6, <1>7 DEF CountersOf, Item
<1> HIDE DEF unheld, after
<1>9. /\ ledger[v] \o releaseRow \o zeroRow \in Seq(LedgerRow)
      /\ Unbroken(ledger[v] \o releaseRow \o zeroRow, after)
  <2> DEFINE t == ledger[v] \o releaseRow
  <2>1. ledger[v] \in Seq(LedgerRow) /\ Unbroken(ledger[v], items[v])
    BY <1>1 DEF TypeOK, LedgerIsTrail
  <2>2. t \in Seq(LedgerRow) /\ Unbroken(t, unheld)
    <3>1. "RELEASED" \in LedgerType /\ (released > 0) \in BOOLEAN
      BY DEF LedgerType
    <3>2. QED
      BY <1>4, <1>6, <1>8, <2>1, <3>1, TrailGrowsByAny
  <2> HIDE DEF t, releaseRow
  <2>3. t \o zeroRow \in Seq(LedgerRow) /\ Unbroken(t \o zeroRow, after)
    <3>1. "MANUAL_ADJUSTMENT" \in LedgerType /\ (items[v].availableStock > 0) \in BOOLEAN
      BY DEF LedgerType
    <3>2. QED
      BY <1>6, <1>7, <1>8, <2>2, <3>1, TrailGrowsByAny
  <2>4. QED
    BY <2>3 DEF t
<1> HIDE DEF releaseRow, zeroRow
<1>10. /\ items' \in [Variants -> Item]
       /\ items'[v] = after
       /\ \A w \in Variants : w # v => items'[w] = items[w]
       /\ ledger' \in [Variants -> Seq(LedgerRow)]
       /\ ledger'[v] = ledger[v] \o releaseRow \o zeroRow
       /\ \A w \in Variants : w # v => ledger'[w] = ledger[w]
       /\ supplied' \in [Variants -> Int]
       /\ supplied'[v] = supplied[v] - released - items[v].availableStock
       /\ \A w \in Variants : w # v => supplied'[w] = supplied[w]
  <2>1. /\ items \in [Variants -> Item] /\ ledger \in [Variants -> Seq(LedgerRow)]
        /\ supplied \in [Variants -> Int]
        /\ items[v].availableStock \in Nat
    BY <1>1, <1>4 DEF TypeOK, Item
  <2>2. QED
    BY <1>2, <1>3, <1>7, <1>9, <2>1, SMTT(20)
<1>11. CountersMatchReservations'
  <2> SUFFICES ASSUME NEW w \in Variants
               PROVE  /\ items'[w].reservedStock
                           = SeedReserved[w] + Cardinality(Held(w, "ACTIVE")')
                      /\ items'[w].soldStock = Cardinality(Held(w, "CONFIRMED")')
    BY DEF CountersMatchReservations
  <2>1. /\ items[w].reservedStock = SeedReserved[w] + Cardinality(Held(w, "ACTIVE"))
        /\ items[w].soldStock = Cardinality(Held(w, "CONFIRMED"))
    BY <1>1 DEF CountersMatchReservations
  <2>2. \A o \in Orders : reservations'[o][w] =
          IF w = v /\ reservations[o][w] = "ACTIVE" THEN "RELEASED" ELSE reservations[o][w]
    BY <1>2
  <2>3. Held(w, "CONFIRMED")' = Held(w, "CONFIRMED")
    BY <2>2 DEF Held, Holders
  <2>4. CASE w = v
    <3>1. Held(w, "ACTIVE")' = {}
      BY <2>2, <2>4 DEF Held, Holders
    <3>2. Cardinality(Held(w, "ACTIVE")') = 0
      BY <3>1, FS_EmptySet
    <3>3. QED
      BY <1>4, <1>5, <1>7, <1>10, <2>1, <2>3, <2>4, <3>2
  <2>5. CASE w # v
    <3>1. Held(w, "ACTIVE")' = Held(w, "ACTIVE")
      BY <2>2, <2>5 DEF Held, Holders
    <3>2. QED
      BY <1>10, <2>1, <2>3, <2>5, <3>1
  <2>6. QED
    BY <2>4, <2>5
<1>12. UnitsAccounted'
  <2>1. /\ items[v].availableStock + items[v].reservedStock + items[v].soldStock = supplied[v]
        /\ items[v].availableStock \in Nat /\ items[v].soldStock \in Nat
    BY <1>1, CountersAreNat DEF UnitsAccounted
  <2>2. items'[v].availableStock + items'[v].reservedStock + items'[v].soldStock = supplied'[v]
    BY <1>3, <1>4, <1>5, <1>7, <1>10, <2>1
  <2>3. QED
    BY <1>1, <1>10, <2>2 DEF UnitsAccounted
<1>13. LedgerIsTrail'
  BY <1>1, <1>9, <1>10 DEF LedgerIsTrail
<1>14. VersionNamesCounters'
  <2> SUFFICES ASSUME NEW k \in Adjustments
               PROVE  /\ seen[k].version <= items'[AdjustedVariant[k]].version
                      /\ seen[k].version = items'[AdjustedVariant[k]].version
                           => seen[k] = items'[AdjustedVariant[k]]
    BY <1>2 DEF VersionNamesCounters
  <2>1. /\ AdjustedVariant[k] \in Variants /\ seen[k] \in Item
        /\ seen[k].version <= items[AdjustedVariant[k]].version
        /\ seen[k].version = items[AdjustedVariant[k]].version
             => seen[k] = items[AdjustedVariant[k]]
    BY <1>1, AdjustmentType DEF TypeOK, VersionNamesCounters
  <2>2. seen[k].version \in Nat /\ items[v].version \in Nat
    BY <1>4, <2>1 DEF Item
  <2>3. CASE AdjustedVariant[k] = v
    BY <1>7, <1>10, <2>1, <2>2, <2>3
  <2>4. CASE AdjustedVariant[k] # v
    BY <1>10, <2>1, <2>4
  <2>5. QED
    BY <2>3, <2>4
<1>15. TypeOK'
  <2>1. reservations' \in [Orders -> [Variants -> ReservationStatus]]
    BY <1>1, <1>2 DEF TypeOK, ReservationStatus
  <2>2. QED
    BY <1>1, <1>2, <1>10, <2>1 DEF TypeOK
<1>16. QED
  BY <1>11, <1>12, <1>13, <1>14, <1>15 DEF StockInv

-----------------------------------------------------------------------------
(* Steps that leave the counters, the reservations and the ledger alone.   *)
LEMMA IdleKeeps ==
  ASSUME StockInv, UNCHANGED <<items, reservations, ledger, seen, supplied>>
  PROVE  /\ CountersMatchReservations' /\ UnitsAccounted'
         /\ LedgerIsTrail' /\ VersionNamesCounters'
<1>1. CountersMatchReservations'
  BY DEF StockInv, CountersMatchReservations, Held, Holders
<1>2. UnitsAccounted'
  BY DEF StockInv, UnitsAccounted
<1>3. LedgerIsTrail'
  BY DEF StockInv, LedgerIsTrail
<1>4. VersionNamesCounters'
  BY DEF StockInv, VersionNamesCounters
<1>5. QED
  BY <1>1, <1>2, <1>3, <1>4

LEMMA NextInv == StockInv /\ [Next]_vars => StockInv'
<1> SUFFICES ASSUME StockInv, [Next]_vars PROVE StockInv'
  OBVIOUS
<1>1. ASSUME NEW v \in Variants, InitializeCatalogInventory(v)
      PROVE  StockInv'
  <2>1. TypeOK'
    BY <1>1 DEF InitializeCatalogInventory, StockInv, TypeOK
  <2>2. QED
    BY <1>1, <2>1, IdleKeeps DEF InitializeCatalogInventory, StockInv
<1>2. ASSUME NEW o \in Orders, DeadlinePasses(o)
      PROVE  StockInv'
  <2>1. TypeOK'
    BY <1>2 DEF DeadlinePasses, StockInv, TypeOK
  <2>2. QED
    BY <1>2, <2>1, IdleKeeps DEF DeadlinePasses, StockInv
<1>3. ASSUME NEW k \in Adjustments, LoadInventory(k)
      PROVE  StockInv'
  <2>1. /\ seen' = [seen EXCEPT ![k] = items[AdjustedVariant[k]]]
        /\ UNCHANGED <<rows, items, reservations, operations, ledger, due, archived, supplied>>
    BY <1>3 DEF LoadInventory
  <2>2. TypeOK /\ AdjustedVariant[k] \in Variants
    BY AdjustmentType DEF StockInv
  <2>3. TypeOK'
    BY <2>1, <2>2 DEF TypeOK
  <2>4. VersionNamesCounters'
    <3> SUFFICES ASSUME NEW j \in Adjustments
                 PROVE  /\ seen'[j].version <= items[AdjustedVariant[j]].version
                        /\ seen'[j].version = items[AdjustedVariant[j]].version
                             => seen'[j] = items[AdjustedVariant[j]]
      BY <2>1 DEF VersionNamesCounters
    <3>1. CASE j = k
      <4>1. seen'[j] = items[AdjustedVariant[j]]
        BY <2>1, <2>2, <3>1 DEF TypeOK
      <4>2. items[AdjustedVariant[j]].version \in Nat
        BY <2>2, <3>1, CountersAreNat
      <4>3. QED
        BY <4>1, <4>2
    <3>2. CASE j # k
      <4>1. seen'[j] = seen[j]
        BY <2>1, <2>2, <3>2 DEF TypeOK
      <4>2. QED
        BY <4>1 DEF StockInv, VersionNamesCounters
    <3>3. QED
      BY <3>1, <3>2
  <2>5. QED
    BY <2>1, <2>3, <2>4 DEF StockInv, CountersMatchReservations, Held, Holders,
         UnitsAccounted, LedgerIsTrail
<1>4. CASE UNCHANGED vars
  <2>1. TypeOK'
    BY <1>4 DEF vars, StockInv, TypeOK
  <2>2. QED
    BY <1>4, <2>1, IdleKeeps DEF vars, StockInv
<1>5. CASE Next
  BY <1>1, <1>2, <1>3, <1>5, ReserveInv, AuthorizeInv, ConfirmInv, ReleaseInv,
     ExpireInv, AdjustInv, ArchiveInv DEF Next
<1>6. QED
  BY <1>4, <1>5

(* What the engine's operations do to each other's guards: the counter of  *)
(* a row covers the active reservations of any one order.                  *)
LEMMA MatchCovers ==
  ASSUME TypeOK, CountersMatchReservations
  PROVE  CountersCoverReservations
<1> SUFFICES ASSUME NEW o \in Orders, NEW v \in ActiveLines(o)
             PROVE  items[v].reservedStock >= Quantity[o][v]
  BY DEF CountersCoverReservations, Covered
<1>1. v \in Variants /\ reservations[o][v] = "ACTIVE"
  BY DEF ActiveLines
<1>2. Units(o, v) \subseteq HeldIn(reservations, v, "ACTIVE")
  BY <1>1 DEF HeldIn
<1>3. Held(v, "ACTIVE") = HeldIn(reservations, v, "ACTIVE")
  BY DEF Held, HeldIn, Holders
<1>4. IsFiniteSet(Held(v, "ACTIVE")) /\ Cardinality(Held(v, "ACTIVE")) \in Nat
  BY <1>1, <1>3, HeldInFinite, FS_CardinalityType
<1>5. Cardinality(Units(o, v)) <= Cardinality(Held(v, "ACTIVE"))
  BY <1>2, <1>3, <1>4, FS_Subset
<1>6. Cardinality(Units(o, v)) = Quantity[o][v] /\ Quantity[o][v] \in Nat
  BY <1>1, UnitsOfLine, QuantityType
<1>7. items[v].reservedStock = SeedReserved[v] + Cardinality(Held(v, "ACTIVE"))
  BY <1>1 DEF CountersMatchReservations
<1>8. SeedReserved[v] \in Nat
  BY <1>1, SeedType
<1>9. QED
  BY <1>4, <1>5, <1>6, <1>7, <1>8

(* The stock invariant, for every store.                                   *)
THEOREM StockIsSafe == Spec => []StockInv
BY InitInv, NextInv, PTL DEF Spec

(* The state of the engine keeps its types: no counter ever goes negative. *)
THEOREM TypeCorrect == Spec => []TypeOK
<1>1. StockInv => TypeOK
  BY DEF StockInv
<1>2. QED
  BY <1>1, StockIsSafe, PTL

(* The counters of every row are those of its reservations.                *)
THEOREM CountersCorrect == Spec => []CountersMatchReservations
<1>1. StockInv => CountersMatchReservations
  BY DEF StockInv
<1>2. QED
  BY <1>1, StockIsSafe, PTL

(* Available, reserved and sold units always add up to the supply.         *)
THEOREM UnitsCorrect == Spec => []UnitsAccounted
<1>1. StockInv => UnitsAccounted
  BY DEF StockInv
<1>2. QED
  BY <1>1, StockIsSafe, PTL

(* confirmOrderStock and releaseReservations never find a counter short.   *)
THEOREM CoverCorrect == Spec => []CountersCoverReservations
<1>1. StockInv => CountersCoverReservations
  BY MatchCovers DEF StockInv
<1>2. QED
  BY <1>1, StockIsSafe, PTL

(* The ledger of every variant is an unbroken trail to its counters.       *)
THEOREM LedgerCorrect == Spec => []LedgerIsTrail
<1>1. StockInv => LedgerIsTrail
  BY DEF StockInv
<1>2. QED
  BY <1>1, StockIsSafe, PTL

(* An adjustment that passes the version check is of the counters seen.    *)
THEOREM VersionCorrect == Spec => []VersionNamesCounters
<1>1. StockInv => VersionNamesCounters
  BY DEF StockInv
<1>2. QED
  BY <1>1, StockIsSafe, PTL

(* The stock is accounted for by reservations, supply and later releases.  *)
THEOREM StockCorrect == Spec => []StockIsAccounted
<1>1. CountersMatchReservations /\ UnitsAccounted /\ CountersCoverReservations => StockIsAccounted
  BY DEF StockIsAccounted
<1>2. QED
  BY <1>1, CountersCorrect, UnitsCorrect, CoverCorrect, PTL

(* The ledger and the versions can be relied on.                           *)
THEOREM RecordsCorrect == Spec => []RecordsAreTrue
<1>1. LedgerIsTrail /\ VersionNamesCounters => RecordsAreTrue
  BY DEF RecordsAreTrue
<1>2. QED
  BY <1>1, LedgerCorrect, VersionCorrect, PTL

(* No operation touches a reservation that is already settled.             *)
THEOREM SettledStays == Spec => SettledOnce
<1>1. ASSUME TypeOK, [Next]_vars, NEW o \in Orders, NEW v \in Variants,
             reservations[o][v] \in Settled
      PROVE  reservations'[o][v] = reservations[o][v]
  <2>1. /\ reservations \in Table
        /\ reservations[o][v] # "NONE" /\ reservations[o][v] # "ACTIVE"
    BY <1>1 DEF TypeOK, Table, Settled
  <2>2. ASSUME NEW p \in Orders, NEW S, NEW status, SetStatus(p, S, status),
               p = o => v \notin S
        PROVE  reservations'[o][v] = reservations[o][v]
    BY <2>1, <2>2 DEF SetStatus, Table
  <2>3. ASSUME NEW p \in Orders, ~ Placed(p)
        PROVE  p # o
    BY <2>1, <2>3 DEF Placed, ReservedLines
  <2>4. v \notin ActiveLines(o)
    BY <2>1 DEF ActiveLines
  <2>5. ASSUME NEW p \in Orders,
               ReserveOrderStock(p) \/ CreateCodCheckoutFast(p) \/ AuthorizeCodOrderStock(p)
        PROVE  reservations'[o][v] = reservations[o][v]
    BY <2>2, <2>3, <2>5
       DEF ReserveOrderStock, CreateCodCheckoutFast, AuthorizeCodOrderStock, TakeAtOnce
  <2>6. ASSUME NEW p \in Orders, ConfirmOrderStock(p)
        PROVE  reservations'[o][v] = reservations[o][v]
    BY <2>2, <2>4, <2>6 DEF ConfirmOrderStock
  <2>7. ASSUME NEW p \in Orders, NEW reason \in ReleaseReasons, ReleaseOrderStock(p, reason)
        PROVE  reservations'[o][v] = reservations[o][v]
    BY <2>2, <2>4, <2>7 DEF ReleaseOrderStock, Release
  <2>8. ASSUME NEW p \in Orders, NEW w \in Variants, ExpireReservation(p, w)
        PROVE  reservations'[o][v] = reservations[o][v]
    BY <2>2, <2>4, <2>8 DEF ExpireReservation, Release
  <2>9. ASSUME NEW w \in Variants, ArchiveProductVariant(w)
        PROVE  reservations'[o][v] = reservations[o][v]
    BY <2>1, <2>9 DEF ArchiveProductVariant
  <2>10. CASE UNCHANGED reservations
    BY <2>10
  <2>11. CASE UNCHANGED vars
    BY <2>10, <2>11 DEF vars
  <2>12. CASE Next
    BY <2>5, <2>6, <2>7, <2>8, <2>9, <2>10, <2>12
       DEF Next, InitializeCatalogInventory, DeadlinePasses, LoadInventory, ApplyManualAdjustment
  <2>13. QED
    BY <1>1, <2>11, <2>12
<1>2. TypeOK /\ [Next]_vars =>
        [\A o \in Orders, v \in Variants :
           reservations[o][v] \in Settled => reservations'[o][v] = reservations[o][v]]_vars
  BY <1>1
<1>3. QED
  BY <1>2, TypeCorrect, PTL DEF Spec, SettledOnce

-----------------------------------------------------------------------------
(* The engine implements StockPool.  The pool sells an order as a whole,   *)
(* so the step needs that an order has reserved all its lines or none.     *)
LinesReserved == \A o \in Orders : Placed(o) => ReservedLines(o) = LinesOf(o)

PoolInv == StockInv /\ LinesReserved

(* What the reservations claim, in the words of the pool.                  *)
Claims == [o \in Orders |-> [v \in Variants |-> ClaimOf(reservations[o][v])]]

(* The claims of a status are those of its reservations.                   *)
LEMMA ClaimOfStatus ==
  ASSUME NEW status \in ReservationStatus
  PROVE  /\ (ClaimOf(status) = "none") <=> (status = "NONE")
         /\ (ClaimOf(status) = "held") <=> (status = "ACTIVE")
         /\ (ClaimOf(status) = "sold") <=> (status = "CONFIRMED")
         /\ (ClaimOf(status) = "returned") <=> (status \in {"RELEASED", "EXPIRED"})
BY DEF ClaimOf, ReservationStatus

(* The claimed units of the pool are the held units of the reservations.   *)
LEMMA SoldUnits ==
  ASSUME TypeOK, NEW v \in Variants
  PROVE  /\ Pool!ClaimedUnits(v, {"sold"}) = Held(v, "CONFIRMED")
         /\ Pool!ClaimedUnits(v, {"held", "sold"}) = Held(v, "ACTIVE") \cup Held(v, "CONFIRMED")
<1>1. \A o \in Orders :
        /\ (ClaimOf(reservations[o][v]) \in {"sold"}) <=> (reservations[o][v] = "CONFIRMED")
        /\ (ClaimOf(reservations[o][v]) \in {"held", "sold"})
             <=> (reservations[o][v] \in {"ACTIVE", "CONFIRMED"})
  <2> TAKE o \in Orders
  <2>1. reservations[o][v] \in ReservationStatus
    BY DEF TypeOK
  <2>2. QED
    BY <2>1, ClaimOfStatus
<1>2. Pool!ClaimedUnits(v, {"sold"}) = Held(v, "CONFIRMED")
  BY <1>1 DEF Pool!ClaimedUnits, Held, Holders, Units
<1>3. Pool!ClaimedUnits(v, {"held", "sold"}) = Held(v, "ACTIVE") \cup Held(v, "CONFIRMED")
  BY <1>1 DEF Pool!ClaimedUnits, Held, Holders, Units
<1>4. QED
  BY <1>2, <1>3

(* The pool counts its units as the engine does.                           *)
LEMMA PoolCounts == \A S : Pool!Cardinality(S) = Cardinality(S)
BY DEF Pool!Cardinality, Cardinality

(* The units nobody claims are the counter that a checkout tests.          *)
LEMMA FreeIsAvailable ==
  ASSUME StockInv, NEW v \in Variants
  PROVE  Pool!Unclaimed(v) = items[v].availableStock
<1> DEFINE A == Held(v, "ACTIVE")
           C == Held(v, "CONFIRMED")
<1>1. A = HeldIn(reservations, v, "ACTIVE") /\ C = HeldIn(reservations, v, "CONFIRMED")
  BY DEF Held, HeldIn, Holders
<1>2. /\ IsFiniteSet(A) /\ IsFiniteSet(C)
      /\ Cardinality(A) \in Nat /\ Cardinality(C) \in Nat
  BY <1>1, HeldInFinite, FS_CardinalityType
<1>3. A \cap C = {}
  BY DEF Held, Holders, Units
<1>4. Cardinality(A \cap C) = 0
  BY <1>3, FS_EmptySet
<1>5. Cardinality(A \cup C) = Cardinality(A) + Cardinality(C) - Cardinality(A \cap C)
  BY <1>2, FS_Union, Zenon
<1>6. Pool!ClaimedUnits(v, {"held", "sold"}) = A \cup C
  BY SoldUnits DEF StockInv
<1>7. /\ items[v].reservedStock = SeedReserved[v] + Cardinality(A)
      /\ items[v].soldStock = Cardinality(C)
      /\ items[v].availableStock + items[v].reservedStock + items[v].soldStock = supplied[v]
  BY DEF StockInv, CountersMatchReservations, UnitsAccounted
<1>8. items[v].availableStock \in Nat /\ SeedReserved[v] \in Nat /\ supplied[v] \in Int
  BY CountersAreNat, SeedType DEF StockInv, TypeOK
<1> HIDE DEF A, C
<1>9. Pool!Unclaimed(v) = supplied[v] - SeedReserved[v] - Cardinality(A \cup C)
  BY <1>6, PoolCounts DEF Pool!Unclaimed
<1>10. QED
  BY <1>2, <1>4, <1>5, <1>7, <1>8, <1>9

LEMMA CounterIsUnclaimed == StockInv => Pool!Counted
<1> SUFFICES ASSUME StockInv PROVE Pool!Counted
  OBVIOUS
<1>1. \A v \in Variants : Pool!Unclaimed(v) = items[v].availableStock
  BY FreeIsAvailable
<1>2. QED
  BY <1>1 DEF Pool!Counted

(* An update of an order's reservations is a decision of the pool.         *)
LEMMA StatusDecides ==
  ASSUME TypeOK, NEW o \in Orders, NEW S, NEW status, SetStatus(o, S, status)
  PROVE  Pool!Decide(o, S, ClaimOf(status))
<1>1. /\ reservations \in [Orders -> [Variants -> ReservationStatus]]
      /\ reservations' = [reservations EXCEPT ![o] =
           [v \in Variants |-> IF v \in S THEN status ELSE @[v]]]
  BY DEF TypeOK, SetStatus
<1>2. \A p \in Orders, v \in Variants :
        reservations'[p][v] = IF p = o /\ v \in S THEN status ELSE reservations[p][v]
  BY <1>1
<1>3. Claims' = [Claims EXCEPT ![o] =
                   [v \in Variants |-> IF v \in S THEN ClaimOf(status) ELSE @[v]]]
  BY <1>2, ZenonT(40) DEF Claims
<1>4. QED
  BY <1>3 DEF Claims, Pool!Decide

LEMMA LinesInit == Init => LinesReserved
BY DEF Init, LinesReserved, Placed, ReservedLines

(* An order's first reservations are of all its lines, and later updates   *)
(* are of lines it has reserved.                                           *)
LEMMA LinesStay ==
  ASSUME TypeOK, LinesReserved,
         NEW o \in Orders, NEW S \in SUBSET Variants, NEW status, status # "NONE",
         SetStatus(o, S, status),
         S = LinesOf(o) \/ S \subseteq ReservedLines(o)
  PROVE  LinesReserved'
<1>1. \A p \in Orders, v \in Variants :
        reservations'[p][v] = IF p = o /\ v \in S THEN status ELSE reservations[p][v]
  BY DEF TypeOK, SetStatus
<1>2. ASSUME NEW p \in Orders, p # o
      PROVE  ReservedLines(p)' = ReservedLines(p)
  BY <1>1, <1>2 DEF ReservedLines
<1>3. ReservedLines(o)' = ReservedLines(o) \cup S
  BY <1>1 DEF ReservedLines
<1>4. ReservedLines(o) = {} \/ ReservedLines(o) = LinesOf(o)
  BY DEF LinesReserved, Placed
<1>5. ReservedLines(o)' = {} \/ ReservedLines(o)' = LinesOf(o)
  BY <1>3, <1>4
<1>6. \A p \in Orders : LinesOf(p)' = LinesOf(p)
  BY DEF LinesOf
<1>7. QED
  BY <1>2, <1>5, <1>6 DEF LinesReserved, Placed

(* A checkout, with its stock on hold or sold at once, is a claim.         *)
LEMMA TakeIsClaim ==
  ASSUME PoolInv, NEW o \in Orders, NEW status \in {"ACTIVE", "CONFIRMED"},
         ~ Placed(o), InStock(o), SetStatus(o, LinesOf(o), status),
         supplied' = supplied
  PROVE  LinesReserved' /\ Pool!Claim(o, ClaimOf(status))
<1>1. StockInv /\ TypeOK /\ LinesReserved
  BY DEF PoolInv, StockInv
<1>2. LinesReserved'
  BY <1>1, LinesStay DEF LinesOf
<1>3. \A v \in Variants : ClaimOf(reservations[o][v]) = "none"
  BY DEF Placed, ReservedLines, ClaimOf
<1>4. Pool!Wanted(o) = LinesOf(o)
  BY DEF Pool!Wanted, LinesOf
<1>5. \A v \in LinesOf(o) : v \in Variants /\ items[v].availableStock >= Quantity[o][v]
  BY DEF InStock, LinesOf
<1>6. Pool!Decide(o, LinesOf(o), ClaimOf(status))
  BY <1>1, StatusDecides
<1>7. QED
  BY <1>2, <1>3, <1>4, <1>5, <1>6 DEF Pool!Claim

LEMMA ReserveIsClaim ==
  ASSUME PoolInv, NEW o \in Orders, ReserveOrderStock(o)
  PROVE  LinesReserved' /\ Pool!Claim(o, "held")
<1>1. ClaimOf("ACTIVE") = "held"
  BY DEF ClaimOf
<1>2. LinesReserved' /\ Pool!Claim(o, ClaimOf("ACTIVE"))
  BY TakeIsClaim DEF ReserveOrderStock
<1>3. QED
  BY <1>1, <1>2

LEMMA AuthorizeIsClaim ==
  ASSUME PoolInv, NEW o \in Orders, TakeAtOnce(o)
  PROVE  LinesReserved' /\ Pool!Claim(o, "sold")
<1>1. ClaimOf("CONFIRMED") = "sold"
  BY DEF ClaimOf
<1>2. LinesReserved' /\ Pool!Claim(o, ClaimOf("CONFIRMED"))
  BY TakeIsClaim DEF TakeAtOnce
<1>3. QED
  BY <1>1, <1>2

(* A confirmation sells all the lines of the order, or changes no claim.   *)
LEMMA ConfirmIsSale ==
  ASSUME PoolInv, NEW o \in Orders, ConfirmOrderStock(o)
  PROVE  LinesReserved' /\ (Pool!Sell(o) \/ UNCHANGED Pool!poolVars)
<1> DEFINE S == IF ConfirmResponse(o) = "CONFIRMED" THEN ActiveLines(o) ELSE {}
<1>1. StockInv /\ TypeOK /\ LinesReserved
  BY DEF PoolInv, StockInv
<1>2. Placed(o) /\ SetStatus(o, S, "CONFIRMED") /\ supplied' = supplied
  BY DEF ConfirmOrderStock
<1>3. S = {} => \A v \in Variants : items'[v] = items[v]
  BY DEF ConfirmOrderStock, Write
<1>4. S \in SUBSET Variants /\ S \subseteq ReservedLines(o)
  BY DEF ActiveLines, ReservedLines
<1>5. LinesReserved'
  BY <1>1, <1>2, <1>4, LinesStay
<1>6. ClaimOf("CONFIRMED") = "sold"
  BY DEF ClaimOf
<1>7. Pool!Decide(o, S, "sold")
  BY <1>1, <1>2, <1>6, StatusDecides
<1>8. CASE ConfirmResponse(o) = "CONFIRMED"
  <2>1. S = ActiveLines(o) /\ ReservedLines(o) = ActiveLines(o)
    BY <1>8 DEF ConfirmResponse
  <2>2. S = LinesOf(o)
    BY <1>1, <1>2, <2>1 DEF LinesReserved
  <2>3. Pool!Wanted(o) = LinesOf(o)
    BY DEF Pool!Wanted, LinesOf
  <2>4. \A v \in LinesOf(o) : v \in Variants /\ ClaimOf(reservations[o][v]) = "held"
    BY <2>1, <2>2 DEF ActiveLines, ClaimOf
  <2> HIDE DEF S
  <2>5. Pool!Sell(o)
    BY <1>2, <1>7, <2>2, <2>3, <2>4 DEF Pool!Sell
  <2>6. QED
    BY <1>5, <2>5
<1>9. CASE ConfirmResponse(o) # "CONFIRMED"
  <2>1. reservations' = reservations
    BY <1>1, <1>2, <1>9 DEF SetStatus, TypeOK
  <2>2. \A v \in Variants : items'[v] = items[v]
    BY <1>9, <1>3
  <2>3. QED
    BY <1>2, <1>5, <2>1, <2>2 DEF Pool!poolVars
<1>10. QED
  BY <1>8, <1>9

(* A release, of the order or by its deadline, decides lines on hold.      *)
LEMMA ReleaseDecides ==
  ASSUME PoolInv, NEW o \in Orders, NEW S \in SUBSET ActiveLines(o),
         NEW status \in {"RELEASED", "EXPIRED"}, SetStatus(o, S, status)
  PROVE  LinesReserved' /\ Pool!Decide(o, S, "returned")
<1>1. StockInv /\ TypeOK /\ LinesReserved
  BY DEF PoolInv, StockInv
<1>2. S \in SUBSET Variants /\ S \subseteq ReservedLines(o)
  BY DEF ActiveLines, ReservedLines
<1>3. LinesReserved'
  BY <1>1, <1>2, LinesStay
<1>4. ClaimOf(status) = "returned"
  BY DEF ClaimOf
<1>5. Pool!Decide(o, S, "returned")
  BY <1>1, <1>4, StatusDecides
<1>6. QED
  BY <1>3, <1>5

(* Releasing an order gives back every line it holds, no more and no less. *)
LEMMA ReleaseIsReturn ==
  ASSUME PoolInv, NEW o \in Orders, NEW reason \in ReleaseReasons,
         ReleaseOrderStock(o, reason)
  PROVE  LinesReserved' /\ Pool!Return(o)
<1>1. SetStatus(o, ActiveLines(o), "RELEASED") /\ supplied' = supplied
  BY DEF ReleaseOrderStock, Release
<1>2. LinesReserved' /\ Pool!Decide(o, ActiveLines(o), "returned")
  BY <1>1, ReleaseDecides
<1>3. \A v \in Variants :
        (ClaimOf(reservations[o][v]) = "held") <=> (reservations[o][v] = "ACTIVE")
  BY ClaimOfStatus DEF PoolInv, StockInv, TypeOK
<1>4. ActiveLines(o) = {v \in Variants : Claims[o][v] = "held"}
  BY <1>3 DEF ActiveLines, Claims
<1>5. QED
  BY <1>1, <1>2, <1>4 DEF Pool!Return, Claims

(* An expired reservation is one line that lapses.                         *)
LEMMA ExpiryIsLapse ==
  ASSUME PoolInv, NEW o \in Orders, NEW v \in Variants, ExpireReservation(o, v)
  PROVE  LinesReserved' /\ Pool!Lapse(o, v)
<1>1. /\ v \in ActiveLines(o)
      /\ SetStatus(o, {v}, "EXPIRED") /\ supplied' = supplied
  BY DEF ExpireReservation, Release
<1>2. LinesReserved' /\ Pool!Decide(o, {v}, "returned")
  BY <1>1, ReleaseDecides
<1>3. ClaimOf(reservations[o][v]) = "held"
  BY <1>1 DEF ActiveLines, ClaimOf
<1>4. QED
  BY <1>1, <1>2, <1>3 DEF Pool!Lapse

(* A manual adjustment never takes away more than the free units.          *)
LEMMA AdjustIsRestock ==
  ASSUME PoolInv, NEW k \in Adjustments, NEW delta \in Deltas,
         ApplyManualAdjustment(k, delta)
  PROVE  LinesReserved' /\ Pool!Restock(AdjustedVariant[k])
<1> DEFINE v == AdjustedVariant[k]
<1>1. StockInv /\ TypeOK /\ LinesReserved
  BY DEF PoolInv, StockInv
<1>2. v \in Variants /\ delta \in Int
  BY AdjustmentType
<1>3. /\ items[v].availableStock + delta >= 0
      /\ supplied' = [supplied EXCEPT ![v] = supplied[v] + delta]
      /\ reservations' = reservations
  BY DEF ApplyManualAdjustment
<1>4. LinesReserved'
  BY <1>1, <1>3 DEF LinesReserved, Placed, ReservedLines, LinesOf
<1>5. /\ supplied \in [Variants -> Int]
      /\ items[v].availableStock \in Nat
  BY <1>1, <1>2, CountersAreNat DEF TypeOK
<1> HIDE DEF v
<1>6. supplied'[v] = supplied[v] + delta
  BY <1>2, <1>3, <1>5
<1>7. supplied' = [supplied EXCEPT ![v] = supplied'[v]]
  BY <1>3, <1>6
<1>9. items[v].availableStock + supplied'[v] - supplied[v] >= 0
  BY <1>2, <1>3, <1>5, <1>6
<1>10. Pool!Restock(v)
  BY <1>2, <1>3, <1>7, <1>9 DEF Pool!Restock
<1>11. QED
  BY <1>4, <1>10 DEF v

(* An archived variant keeps the units that are sold, or were held before. *)
LEMMA ArchiveIsWriteOff ==
  ASSUME PoolInv, NEW v \in Variants, ArchiveProductVariant(v)
  PROVE  LinesReserved' /\ Pool!WriteOff(v)
<1> DEFINE released == Cardinality(Held(v, "ACTIVE"))
           sold == Cardinality(Held(v, "CONFIRMED"))
<1>1. StockInv /\ TypeOK /\ LinesReserved
  BY DEF PoolInv, StockInv
<1>2. /\ reservations' = [o \in Orders |->
           [w \in Variants |-> IF w = v /\ reservations[o][w] = "ACTIVE"
                               THEN "RELEASED" ELSE reservations[o][w]]]
      /\ supplied' = [supplied EXCEPT ![v] =
           supplied[v] - released - items[v].availableStock]
  BY DEF ArchiveProductVariant
<1>3. \A o \in Orders : ReservedLines(o)' = ReservedLines(o)
  BY <1>2 DEF ReservedLines
<1>4. LinesReserved'
  BY <1>1, <1>3 DEF LinesReserved, Placed, LinesOf
<1>5. Claims' = [o \in Orders |-> [w \in Variants |->
        IF w = v /\ Claims[o][w] = "held" THEN "returned" ELSE Claims[o][w]]]
  <2>1. ASSUME NEW o \in Orders, NEW w \in Variants
        PROVE  Claims'[o][w] = IF w = v /\ Claims[o][w] = "held"
                               THEN "returned" ELSE Claims[o][w]
    <3>1. reservations[o][w] \in ReservationStatus
      BY <1>1 DEF TypeOK
    <3>2. (ClaimOf(reservations[o][w]) = "held") <=> (reservations[o][w] = "ACTIVE")
      BY <3>1, ClaimOfStatus
    <3>3. /\ Claims[o][w] = ClaimOf(reservations[o][w])
          /\ Claims'[o][w] = ClaimOf(reservations'[o][w])
      BY DEF Claims
    <3>4. ClaimOf("RELEASED") = "returned"
      BY DEF ClaimOf
    <3>5. QED
      BY <1>2, <3>2, <3>3, <3>4
  <2>2. QED
    BY <2>1 DEF Claims
<1>6. Pool!Cardinality(Pool!ClaimedUnits(v, {"sold"})) = sold
  BY <1>1, SoldUnits, PoolCounts
<1>7. /\ items[v].reservedStock = SeedReserved[v] + released
      /\ items[v].soldStock = sold
      /\ items[v].availableStock + items[v].reservedStock + items[v].soldStock = supplied[v]
  BY <1>1 DEF StockInv, CountersMatchReservations, UnitsAccounted
<1>8. /\ items[v].availableStock \in Nat /\ items[v].reservedStock \in Nat
      /\ items[v].soldStock \in Nat /\ SeedReserved[v] \in Nat /\ supplied[v] \in Int
  BY <1>1, CountersAreNat, SeedType DEF TypeOK
<1>9. released \in Nat
  <2>1. Held(v, "ACTIVE") = HeldIn(reservations, v, "ACTIVE")
    BY DEF Held, HeldIn, Holders
  <2>2. QED
    BY <2>1, HeldInFinite, FS_CardinalityType
<1> HIDE DEF released, sold
<1>10. supplied[v] - released - items[v].availableStock = SeedReserved[v] + sold
  BY <1>7, <1>8, <1>9
<1>11. supplied' = [supplied EXCEPT ![v] =
          SeedReserved[v] + Pool!Cardinality(Pool!ClaimedUnits(v, {"sold"}))]
  BY <1>2, <1>6, <1>10
<1>12. Pool!WriteOff(v)
  BY <1>5, <1>11 DEF Pool!WriteOff, Claims
<1>13. QED
  BY <1>4, <1>12

LEMMA PoolInit == Init => Pool!Init
<1> SUFFICES ASSUME Init PROVE Pool!Init
  OBVIOUS
<1>1. Claims = [o \in Orders |-> [v \in Variants |-> "none"]]
  BY DEF Init, Claims, ClaimOf
<1>2. /\ supplied = [v \in Variants |-> SeedAvailable[v] + SeedReserved[v]]
      /\ items = [v \in Variants |-> SeedItem(v)]
  BY DEF Init
<1>3. [v \in Variants |-> items[v].availableStock] = SeedAvailable
  BY <1>2, SeedType DEF SeedItem
<1>4. QED
  BY <1>1, <1>2, <1>3 DEF Pool!Init, Claims

(* Every step of the engine is a step of the pool or stutters there.       *)
LEMMA PoolStep == PoolInv /\ [Next]_vars => LinesReserved' /\ [Pool!Step]_(Pool!poolVars)
<1> SUFFICES ASSUME PoolInv, [Next]_vars
             PROVE  LinesReserved' /\ [Pool!Step]_(Pool!poolVars)
  OBVIOUS
<1>1. ASSUME UNCHANGED <<reservations, supplied, items>>
      PROVE  LinesReserved' /\ UNCHANGED Pool!poolVars
  <2>1. LinesReserved'
    BY <1>1 DEF PoolInv, LinesReserved, Placed, ReservedLines, LinesOf
  <2>2. UNCHANGED Pool!poolVars
    BY <1>1 DEF Pool!poolVars
  <2>3. QED
    BY <2>1, <2>2
<1>2. ASSUME NEW v \in Variants, InitializeCatalogInventory(v)
      PROVE  LinesReserved' /\ UNCHANGED Pool!poolVars
  BY <1>1, <1>2 DEF InitializeCatalogInventory
<1>3. ASSUME NEW o \in Orders, ReserveOrderStock(o)
      PROVE  LinesReserved' /\ Pool!Step
  <2>1. LinesReserved' /\ Pool!Claim(o, "held")
    BY <1>3, ReserveIsClaim
  <2>2. QED
    BY <2>1 DEF Pool!Step
<1>4. ASSUME NEW o \in Orders, CreateCodCheckoutFast(o) \/ AuthorizeCodOrderStock(o)
      PROVE  LinesReserved' /\ Pool!Step
  <2>1. LinesReserved' /\ Pool!Claim(o, "sold")
    BY <1>4, AuthorizeIsClaim DEF CreateCodCheckoutFast, AuthorizeCodOrderStock
  <2>2. QED
    BY <2>1 DEF Pool!Step
<1>5. ASSUME NEW o \in Orders, ConfirmOrderStock(o)
      PROVE  LinesReserved' /\ (Pool!Step \/ UNCHANGED Pool!poolVars)
  <2>1. LinesReserved' /\ (Pool!Sell(o) \/ UNCHANGED Pool!poolVars)
    BY <1>5, ConfirmIsSale
  <2>2. QED
    BY <2>1 DEF Pool!Step
<1>6. ASSUME NEW o \in Orders, NEW reason \in ReleaseReasons, ReleaseOrderStock(o, reason)
      PROVE  LinesReserved' /\ Pool!Step
  <2>1. LinesReserved' /\ Pool!Return(o)
    BY <1>6, ReleaseIsReturn
  <2>2. QED
    BY <2>1 DEF Pool!Step
<1>7. ASSUME NEW o \in Orders, DeadlinePasses(o)
      PROVE  LinesReserved' /\ UNCHANGED Pool!poolVars
  BY <1>1, <1>7 DEF DeadlinePasses
<1>8. ASSUME NEW o \in Orders, NEW v \in Variants, ExpireReservation(o, v)
      PROVE  LinesReserved' /\ Pool!Step
  <2>1. LinesReserved' /\ Pool!Lapse(o, v)
    BY <1>8, ExpiryIsLapse
  <2>2. QED
    BY <2>1 DEF Pool!Step
<1>9. ASSUME NEW k \in Adjustments, LoadInventory(k)
      PROVE  LinesReserved' /\ UNCHANGED Pool!poolVars
  BY <1>1, <1>9 DEF LoadInventory
<1>10. ASSUME NEW k \in Adjustments, NEW delta \in Deltas, ApplyManualAdjustment(k, delta)
       PROVE  LinesReserved' /\ Pool!Step
  <2>1. LinesReserved' /\ Pool!Restock(AdjustedVariant[k])
    BY <1>10, AdjustIsRestock
  <2>2. QED
    BY <2>1, AdjustmentType DEF Pool!Step
<1>11. ASSUME NEW v \in Variants, ArchiveProductVariant(v)
       PROVE  LinesReserved' /\ Pool!Step
  <2>1. LinesReserved' /\ Pool!WriteOff(v)
    BY <1>11, ArchiveIsWriteOff
  <2>2. QED
    BY <2>1 DEF Pool!Step
<1>12. CASE UNCHANGED vars
  BY <1>1, <1>12 DEF vars
<1>13. CASE Next
  BY <1>2, <1>3, <1>4, <1>5, <1>6, <1>7, <1>8, <1>9, <1>10, <1>11, <1>13 DEF Next
<1>14. QED
  BY <1>12, <1>13

(* Whatever the checkouts, confirmations, releases, expiries, adjustments  *)
(* and archivings of a store do, in whatever order they commit, its units  *)
(* are claimed and returned as StockPool says: an order claims all its     *)
(* lines or none, sells all of them or none and on release gives back all  *)
(* it holds; single lines lapse or are written off; and availableStock is  *)
(* at every moment what nobody claims.                                     *)
THEOREM EngineIsPool == Spec => PoolSpec
<1>1. Init => PoolInv /\ Pool!Init
  BY InitInv, LinesInit, PoolInit DEF PoolInv
<1>2. PoolInv /\ [Next]_vars => PoolInv' /\ [Pool!Step]_(Pool!poolVars)
  BY NextInv, PoolStep DEF PoolInv
<1>3. PoolInv => Pool!Counted
  BY CounterIsUnclaimed DEF PoolInv
<1>4. PoolInv' => Pool!Counted'
  BY <1>3, PTL
<1>5. PoolInv /\ [Next]_vars => PoolInv' /\ [Pool!Next]_(Pool!poolVars)
  BY <1>2, <1>4 DEF Pool!Next
<1>6. QED
  BY <1>1, <1>5, PTL DEF Spec, PoolSpec, Pool!Spec

-----------------------------------------------------------------------------
(* The counter of the store (PointOfSale): a sum that is added up for a    *)
(* session stays within the session's sales, whatever commits afterwards,  *)
(* since every later sale is also counted as late.                         *)
Tallied(t, sum) ==
  /\ tills[t].added
  /\ sum \in Nat
  /\ sum <= OpeningFloat + taken[t]
  /\ OpeningFloat + taken[t] <= sum + late[t]

ClerkFits(c) ==
  /\ clerks[c].at \in {"sale", "deduct", "close"} => clerks[c].till \in Tills
  /\ clerks[c].at \in {"sale", "deduct"} => clerks[c].intime
  /\ clerks[c].at = "close" => Tallied(clerks[c].till, clerks[c].sum)

CounterInv ==
  /\ POS!TypeOK
  /\ POS!ColumnShowsCounterSales
  /\ \A c \in Clerks : ClerkFits(c)
  /\ \A t \in Tills : tills[t].status = "CLOSED" => Tallied(t, tills[t].expected)

Clerk == [at : {"idle", "open", "sale", "deduct", "close"}, till : Tills \cup {"none"},
          sum : Int, intime : BOOLEAN]

LEMMA CounterInit == POS!Init => CounterInv
<1> SUFFICES ASSUME POS!Init PROVE CounterInv
  OBVIOUS
<1>1. POS!Free \in Clerk
  BY DEF POS!Free, Clerk
<1>2. POS!TypeOK
  BY <1>1, CounterType DEF POS!Init, POS!TypeOK, Clerk
<1>3. POS!ColumnShowsCounterSales
  BY CounterType DEF POS!Init, POS!ColumnShowsCounterSales
<1>4. \A c \in Clerks : ClerkFits(c)
  BY DEF POS!Init, POS!Free, ClerkFits
<1>5. QED
  BY <1>2, <1>3, <1>4 DEF CounterInv, POS!Init

(* A clerk's step that changes neither the sums nor what they are of.      *)
LEMMA ClerkMoves ==
  ASSUME CounterInv, NEW c \in Clerks, NEW call \in Clerk,
         POS!SetClerk(c, call),
         \A t \in Tills : /\ tills'[t].added = tills[t].added
                          /\ tills'[t].status = "CLOSED" => tills'[t] = tills[t],
         taken' = taken, late' = late,
         /\ call.at \in {"sale", "deduct", "close"} => call.till \in Tills
         /\ call.at \in {"sale", "deduct"} => call.intime
         /\ call.at = "close" => Tallied(call.till, call.sum)
  PROVE  /\ clerks' \in [Clerks -> Clerk]
         /\ \A d \in Clerks : ClerkFits(d)'
         /\ \A t \in Tills : tills'[t].status = "CLOSED" => Tallied(t, tills[t].expected)'
<1>1. clerks \in [Clerks -> Clerk]
  BY DEF CounterInv, POS!TypeOK, Clerk
<1>2. clerks' \in [Clerks -> Clerk] /\ \A d \in Clerks : clerks'[d] = IF d = c THEN call ELSE clerks[d]
  BY <1>1 DEF POS!SetClerk
<1>3. \A t \in Tills : \A sum : Tallied(t, sum) => Tallied(t, sum)'
  BY DEF Tallied
<1>4. ASSUME NEW d \in Clerks PROVE ClerkFits(d)'
  <2>1. CASE d = c
    BY <1>2, <1>3, <2>1 DEF ClerkFits
  <2>2. CASE d # c
    <3>1. ClerkFits(d) /\ clerks'[d] = clerks[d]
      BY <1>2, <2>2 DEF CounterInv
    <3>2. QED
      BY <1>3, <3>1 DEF ClerkFits
  <2>3. QED
    BY <2>1, <2>2
<1>5. ASSUME NEW t \in Tills, tills'[t].status = "CLOSED"
      PROVE  Tallied(t, tills[t].expected)'
  <2>1. tills'[t] = tills[t]
    BY <1>5
  <2>2. Tallied(t, tills[t].expected)
    BY <1>5, <2>1 DEF CounterInv
  <2>3. QED
    BY <2>1, <2>2 DEF Tallied
<1>6. QED
  BY <1>2, <1>4, <1>5

(* Requests that look, read or give up.                                    *)
LEMMA ClerkLooks ==
  ASSUME CounterInv, NEW c \in Clerks, NEW call \in Clerk,
         POS!SetClerk(c, call), POS!Counted, tills' = tills,
         /\ call.at \in {"sale", "deduct", "close"} => call.till \in Tills
         /\ call.at \in {"sale", "deduct"} => call.intime
         /\ call.at = "close" => Tallied(call.till, call.sum)
  PROVE  CounterInv'
<1>1. /\ clerks' \in [Clerks -> Clerk]
      /\ \A d \in Clerks : ClerkFits(d)'
      /\ \A t \in Tills : tills'[t].status = "CLOSED" => Tallied(t, tills[t].expected)'
  BY ClerkMoves DEF POS!Counted
<1>2. POS!TypeOK' /\ POS!ColumnShowsCounterSales'
  BY <1>1 DEF CounterInv, POS!TypeOK, POS!ColumnShowsCounterSales, POS!Counted, Clerk
<1>3. QED
  BY <1>1, <1>2 DEF CounterInv

LEMMA OpenSessionKeeps ==
  ASSUME CounterInv, NEW c \in Clerks, POS!OpenSession(c)
  PROVE  CounterInv'
<1>1. PICK t \in Tills : tills[t].status = "NONE" /\ tills' = [tills EXCEPT ![t].status = "OPEN"]
  BY DEF POS!OpenSession
<1>2. POS!SetClerk(c, POS!Free) /\ POS!Counted
  BY DEF POS!OpenSession
<1>3. POS!TypeOK
  BY DEF CounterInv
<1>4. /\ tills' \in [Tills -> [status : {"NONE", "OPEN", "CLOSED"}, expected : Nat, added : BOOLEAN]]
      /\ \A u \in Tills : /\ tills'[u].added = tills[u].added
                          /\ tills'[u].status = "CLOSED" => tills'[u] = tills[u]
  BY <1>1, <1>3 DEF POS!TypeOK
<1>5. POS!Free \in Clerk
  BY DEF POS!Free, Clerk
<1>6. /\ clerks' \in [Clerks -> Clerk]
      /\ \A d \in Clerks : ClerkFits(d)'
      /\ \A u \in Tills : tills'[u].status = "CLOSED" => Tallied(u, tills[u].expected)'
  <2>1. POS!Free.at = "idle"
    BY DEF POS!Free
  <2>2. QED
    BY <1>2, <1>4, <1>5, <2>1, ClerkMoves DEF POS!Counted
<1>7. POS!TypeOK' /\ POS!ColumnShowsCounterSales'
  BY <1>2, <1>3, <1>4, <1>6 DEF CounterInv, POS!TypeOK, POS!ColumnShowsCounterSales, POS!Counted, Clerk
<1>8. QED
  BY <1>6, <1>7 DEF CounterInv

(* A sale adds its cash to the session's, and when the session has been    *)
(* added up already, to what came late.                                    *)
LEMMA CommitSaleKeeps ==
  ASSUME CounterInv, NEW c \in Clerks, POS!CommitSale(c)
  PROVE  CounterInv'
<1> DEFINE t == clerks[c].till
           missed == IF tills[t].added /\ clerks[c].intime THEN 1 ELSE 0
<1>1. POS!TypeOK /\ POS!SetClerk(c, POS!Free) /\ tills' = tills
  BY DEF CounterInv, POS!CommitSale
<1>2. POS!Free \in Clerk /\ POS!Free.at = "idle"
  BY DEF POS!Free, Clerk
<1>3. t \in Tills /\ clerks[c].intime
  BY DEF CounterInv, ClerkFits, POS!CommitSale, POS!Busy
<1>4. CASE POS!Counted
  BY <1>1, <1>2, <1>4, ClerkLooks
<1>5. CASE ~ POS!Counted
  <2>1. PICK receipt \in Receipts, cash \in {0, 1} :
          /\ column # 0
          /\ receipts' = receipts \cup {receipt}
          /\ taken' = [taken EXCEPT ![t] = taken[t] + cash]
          /\ late' = [late EXCEPT ![t] = late[t] + cash * missed]
          /\ POS!Deduct(c) /\ counter' = counter + 1 /\ shelf' = shelf
    BY <1>5 DEF POS!CommitSale
  <2>2. /\ \A u \in Tills : tills[u].added \in BOOLEAN
        /\ taken \in [Tills -> Nat] /\ late \in [Tills -> Nat]
        /\ column \in Nat /\ counter \in Nat /\ shelf \in 0..ShelfUnits
        /\ clerks \in [Clerks -> Clerk]
    BY <1>1 DEF POS!TypeOK, Clerk
  <2>3. cash * missed = IF tills[t].added THEN cash ELSE 0
    BY <1>3
  <2> HIDE DEF missed, t
  <2>4. \A u \in Tills : /\ taken'[u] = IF u = t THEN taken[u] + cash ELSE taken[u]
                         /\ late'[u] = IF u = t /\ tills[u].added THEN late[u] + cash ELSE late[u]
    BY <1>3, <2>1, <2>2, <2>3
  <2>5. taken' \in [Tills -> Nat] /\ late' \in [Tills -> Nat]
    BY <1>3, <2>1, <2>2, <2>3
  <2>6. column' \in Nat /\ counter' \in Nat /\ POS!ColumnShowsCounterSales'
    BY <2>1, <2>2, CounterType DEF CounterInv, POS!ColumnShowsCounterSales, POS!Deduct
  <2>7. clerks' \in [Clerks -> Clerk] /\ \A d \in Clerks : clerks'[d] = IF d = c THEN POS!Free ELSE clerks[d]
    BY <1>1, <1>2, <2>2 DEF POS!SetClerk
  <2>8. POS!TypeOK'
    BY <1>1, <2>1, <2>5, <2>6, <2>7 DEF POS!TypeOK, Clerk
  <2>9. \A u \in Tills : \A sum : Tallied(u, sum) => Tallied(u, sum)'
    BY <1>1, <2>2, <2>4, <2>5, CounterType DEF Tallied
  <2>10. \A d \in Clerks : ClerkFits(d)'
    <3> TAKE d \in Clerks
    <3>1. ClerkFits(d)
      BY DEF CounterInv
    <3>2. CASE d = c
      BY <1>2, <2>7, <3>2 DEF ClerkFits
    <3>3. CASE d # c
      <4>1. clerks'[d] = clerks[d]
        BY <2>7, <3>3
      <4>2. QED
        BY <2>9, <3>1, <4>1 DEF ClerkFits
    <3>4. QED
      BY <3>2, <3>3
  <2>11. \A u \in Tills : tills'[u].status = "CLOSED" => Tallied(u, tills[u].expected)'
    BY <1>1, <2>9 DEF CounterInv
  <2>12. QED
    BY <2>6, <2>8, <2>10, <2>11 DEF CounterInv
<1>6. QED
  BY <1>4, <1>5

(* What is added up is the float and the sales of that moment.             *)
LEMMA AddUpKeeps ==
  ASSUME CounterInv, NEW c \in Clerks, NEW t \in Tills, POS!AddUp(c, t)
  PROVE  CounterInv'
<1>1. POS!TypeOK
  BY DEF CounterInv
<1>2. /\ tills[t].status = "OPEN" /\ POS!Counted
      /\ tills' = [tills EXCEPT ![t].added = TRUE]
  BY DEF POS!AddUp
<1>3. taken[t] \in Nat /\ late[t] \in Nat
  BY <1>1 DEF POS!TypeOK
<1>4. PICK call \in Clerk : /\ POS!SetClerk(c, call)
                           /\ call.at = "close" /\ call.till = t
                           /\ call.sum = OpeningFloat + taken[t]
  <2>1. PICK call : /\ call = [POS!Free EXCEPT !.at = "close", !.till = t, !.sum = OpeningFloat + taken[t]]
                    /\ POS!SetClerk(c, call)
    BY DEF POS!AddUp, POS!CashSales
  <2>2. POS!Free \in Clerk
    BY DEF POS!Free, Clerk
  <2>3. OpeningFloat + taken[t] \in Int
    BY <1>3, CounterType
  <2>4. /\ call \in Clerk
        /\ call.at = "close" /\ call.till = t /\ call.sum = OpeningFloat + taken[t]
    BY <2>1, <2>2, <2>3 DEF Clerk
  <2>5. QED
    BY <2>1, <2>4
<1>5. /\ tills' \in [Tills -> [status : {"NONE", "OPEN", "CLOSED"}, expected : Nat, added : BOOLEAN]]
      /\ \A u \in Tills : /\ tills[u].added => tills'[u].added
                          /\ tills'[u].status = tills[u].status
                          /\ tills'[u].expected = tills[u].expected
      /\ tills'[t].added
  BY <1>1, <1>2 DEF POS!TypeOK
<1>6. /\ clerks' \in [Clerks -> Clerk]
      /\ \A d \in Clerks : clerks'[d] = IF d = c THEN call ELSE clerks[d]
  BY <1>1, <1>4 DEF POS!TypeOK, POS!SetClerk, Clerk
<1>7. \A u \in Tills : \A sum : Tallied(u, sum) => Tallied(u, sum)'
  BY <1>2, <1>5 DEF Tallied, POS!Counted
<1>8. Tallied(t, call.sum)'
  BY <1>2, <1>3, <1>4, <1>5, CounterType DEF Tallied, POS!Counted
<1>9. \A d \in Clerks : ClerkFits(d)'
  <2> TAKE d \in Clerks
  <2>1. CASE d = c
    BY <1>4, <1>6, <1>8, <2>1 DEF ClerkFits
  <2>2. CASE d # c
    <3>1. ClerkFits(d) /\ clerks'[d] = clerks[d]
      BY <1>6, <2>2 DEF CounterInv
    <3>2. QED
      BY <1>7, <3>1 DEF ClerkFits
  <2>3. QED
    BY <2>1, <2>2
<1>10. \A u \in Tills : tills'[u].status = "CLOSED" => Tallied(u, tills[u].expected)'
  BY <1>5, <1>7 DEF CounterInv
<1>11. POS!TypeOK' /\ POS!ColumnShowsCounterSales'
  BY <1>1, <1>2, <1>5, <1>6
     DEF CounterInv, POS!TypeOK, POS!ColumnShowsCounterSales, POS!Counted, Clerk
<1>12. QED
  BY <1>9, <1>10, <1>11 DEF CounterInv

LEMMA CloseKeeps ==
  ASSUME CounterInv, NEW c \in Clerks, POS!CloseSession(c)
  PROVE  CounterInv'
<1> DEFINE t == clerks[c].till
<1>1. POS!TypeOK
  BY DEF CounterInv
<1>2. t \in Tills /\ Tallied(t, clerks[c].sum)
  BY DEF CounterInv, ClerkFits, POS!CloseSession, POS!Busy
<1>3. /\ tills' = [tills EXCEPT ![t] = [tills[t] EXCEPT !.status = "CLOSED", !.expected = clerks[c].sum]]
      /\ clerks' = [clerks EXCEPT ![c] = POS!Free] /\ POS!Counted
  BY DEF POS!CloseSession, POS!SetClerk
<1>4. POS!Free \in Clerk /\ POS!Free.at = "idle"
  BY DEF POS!Free, Clerk
<1>5. clerks[c].sum \in Nat
  BY <1>2 DEF Tallied
<1> HIDE DEF t
<1>6. /\ tills' \in [Tills -> [status : {"NONE", "OPEN", "CLOSED"}, expected : Nat, added : BOOLEAN]]
      /\ \A u \in Tills : tills'[u].added = tills[u].added
      /\ tills'[t].expected = clerks[c].sum
      /\ \A u \in Tills : u # t => tills'[u] = tills[u]
  BY <1>1, <1>2, <1>3, <1>5 DEF POS!TypeOK
<1>7. /\ clerks' \in [Clerks -> Clerk]
      /\ \A d \in Clerks : clerks'[d] = IF d = c THEN POS!Free ELSE clerks[d]
  BY <1>1, <1>3, <1>4 DEF POS!TypeOK, Clerk
<1>8. \A u \in Tills : \A sum : Tallied(u, sum) => Tallied(u, sum)'
  BY <1>3, <1>6 DEF Tallied, POS!Counted
<1>9. \A d \in Clerks : ClerkFits(d)'
  <2> TAKE d \in Clerks
  <2>1. CASE d = c
    BY <1>4, <1>7, <2>1 DEF ClerkFits
  <2>2. CASE d # c
    <3>1. ClerkFits(d) /\ clerks'[d] = clerks[d]
      BY <1>7, <2>2 DEF CounterInv
    <3>2. QED
      BY <1>8, <3>1 DEF ClerkFits
  <2>3. QED
    BY <2>1, <2>2
<1>10. \A u \in Tills : tills'[u].status = "CLOSED" => Tallied(u, tills[u].expected)'
  <2> TAKE u \in Tills
  <2>1. CASE u = t
    BY <1>2, <1>6, <1>8, <2>1
  <2>2. CASE u # t
    BY <1>6, <1>8, <2>2 DEF CounterInv
  <2>3. QED
    BY <2>1, <2>2
<1>11. POS!TypeOK' /\ POS!ColumnShowsCounterSales'
  BY <1>1, <1>3, <1>6, <1>7
     DEF CounterInv, POS!TypeOK, POS!ColumnShowsCounterSales, POS!Counted, Clerk
<1>12. QED
  BY <1>9, <1>10, <1>11 DEF CounterInv

LEMMA EngineWritesKeep ==
  ASSUME CounterInv, POS!EngineWrites
  PROVE  CounterInv'
<1>1. /\ shelf' \in 0..ShelfUnits /\ column' = shelf' /\ counter' = 0
      /\ UNCHANGED <<tills, taken, late, receipts, clerks>>
  BY DEF POS!EngineWrites
<1>2. shelf' \in Nat
  BY <1>1, CounterType
<1>3. POS!TypeOK'
  BY <1>1, <1>2 DEF CounterInv, POS!TypeOK
<1>4. POS!ColumnShowsCounterSales'
  <2>1. \A n \in Nat : n = n - 0
    OBVIOUS
  <2>2. shelf' = shelf' - 0
    BY <1>2, <2>1
  <2>3. QED
    BY <1>1, <2>2 DEF POS!ColumnShowsCounterSales
<1>5. QED
  BY <1>1, <1>3, <1>4 DEF CounterInv, ClerkFits, Tallied

LEMMA CounterStep == CounterInv /\ [POS!Next]_posVars => CounterInv'
<1> SUFFICES ASSUME CounterInv, [POS!Next]_posVars PROVE CounterInv'
  OBVIOUS
<1>1. clerks \in [Clerks -> Clerk]
  BY DEF CounterInv, POS!TypeOK, Clerk
<1>2. POS!Free \in Clerk /\ POS!Free.at = "idle"
  BY DEF POS!Free, Clerk
<1>3. ASSUME NEW c \in Clerks, POS!CheckOpen(c) PROVE CounterInv'
  <2>1. PICK call : /\ call = [POS!Free EXCEPT !.at = "open"]
                    /\ POS!SetClerk(c, call)
    BY <1>3 DEF POS!CheckOpen
  <2>2. call \in Clerk /\ call.at = "open"
    BY <1>2, <2>1 DEF Clerk
  <2>3. QED
    BY <1>3, <2>1, <2>2, ClerkLooks DEF POS!CheckOpen
<1>4. ASSUME NEW c \in Clerks, NEW t \in Tills, POS!CheckSale(c, t) PROVE CounterInv'
  <2>1. PICK call : /\ call = [POS!Free EXCEPT !.at = "sale", !.till = t, !.intime = TRUE]
                    /\ POS!SetClerk(c, call)
    BY <1>4 DEF POS!CheckSale
  <2>2. call \in Clerk /\ call.at = "sale" /\ call.till = t /\ call.intime
    BY <1>2, <2>1 DEF Clerk
  <2>3. QED
    BY <1>4, <2>1, <2>2, ClerkLooks DEF POS!CheckSale
<1>5. ASSUME NEW c \in Clerks, POS!ReadVariant(c) PROVE CounterInv'
  <2>1. PICK call : /\ call = [clerks[c] EXCEPT !.at = "deduct", !.sum = column]
                    /\ POS!SetClerk(c, call)
    BY <1>5 DEF POS!ReadVariant
  <2>2. column \in Int
    BY DEF CounterInv, POS!TypeOK
  <2>3. /\ call \in Clerk /\ call.at = "deduct"
        /\ call.till = clerks[c].till /\ call.intime = clerks[c].intime
    BY <1>1, <2>1, <2>2 DEF Clerk
  <2>4. clerks[c].till \in Tills /\ clerks[c].intime
    BY <1>5 DEF CounterInv, ClerkFits, POS!ReadVariant, POS!Busy
  <2>5. QED
    BY <1>5, <2>1, <2>3, <2>4, ClerkLooks DEF POS!ReadVariant
<1>6. ASSUME NEW c \in Clerks, POS!GiveUp(c) PROVE CounterInv'
  BY <1>2, <1>6, ClerkLooks DEF POS!GiveUp
<1>7. CASE UNCHANGED posVars
  BY <1>7 DEF posVars, CounterInv, POS!TypeOK, POS!ColumnShowsCounterSales, ClerkFits, Tallied
<1>8. CASE POS!Next
  BY <1>3, <1>4, <1>5, <1>6, <1>8, OpenSessionKeeps, CommitSaleKeeps, AddUpKeeps,
     CloseKeeps, EngineWritesKeep DEF POS!Next
<1>9. QED
  BY <1>7, <1>8

(* The closing of a session and the stock columns, for any sessions,       *)
(* clerks, receipts and float: what a closed session expects is its float  *)
(* and its sales but for those that crossed its closing, and the columns   *)
(* differ from the engine's row by the counter's own sales.                *)
THEOREM CounterCorrect == StockSpec => []CounterIsAccounted
<1>1. StockInit => CounterInv
  BY CounterInit DEF StockInit
<1>2. CounterInv /\ [StockNext]_<<part, vars, posVars, quoteVars>> => CounterInv'
  <2>1. StockNext \/ UNCHANGED posVars => [POS!Next]_posVars
    BY DEF StockNext
  <2>2. QED
    BY <2>1, CounterStep
<1>3. CounterInv => CounterIsAccounted
  <2> SUFFICES ASSUME CounterInv PROVE CounterIsAccounted
    OBVIOUS
  <2>1. POS!TillCountsItsSales
    BY DEF CounterInv, Tallied, POS!TillCountsItsSales
  <2>2. QED
    BY <2>1 DEF CounterInv, CounterIsAccounted
<1>4. QED
  BY <1>1, <1>2, <1>3, PTL DEF StockSpec

-----------------------------------------------------------------------------
(* Quotes. The shares of a discount, rounded down, leave out as many paise *)
(* as the remainders add up to; those with the largest remainders are      *)
(* rounded up instead, and enough of them have one.                        *)

(* A total of the model is a sum.                                          *)
LEMMA TotalIsSum == ASSUME NEW f PROVE Quotes!Total(f) = Sum(f, DOMAIN f)
  BY Zenon DEF Quotes!Total, Quotes!FoldSeq, Quotes!FoldFunction, Quotes!FoldFunctionOnSet, Quotes!MapThenFoldSet,
     Sum, AreSums, Sums, First

(* The share of each line rounded down, and what that leaves of it.        *)
Base(t, w, c) == [i \in DOMAIN w |-> (t * w[i]) \div c]

Rest(t, w, c) == [i \in DOMAIN w |-> (t * w[i]) % c]

(* Division with a remainder, and why a share fits its line: rounded up    *)
(* too, when there is a remainder.                                         *)
LEMMA Division ==
  ASSUME NEW a \in Nat, NEW c \in Nat \ {0}
  PROVE  /\ a \div c \in Nat /\ a % c \in 0 .. c - 1
         /\ a = c * (a \div c) + (a % c)
  OBVIOUS

LEMMA ShareFits ==
  ASSUME NEW t \in Nat, NEW x \in Nat, NEW c \in Nat \ {0}, t <= c, NEW b \in Nat, NEW r \in 0 .. c - 1,
         t * x = c * b + r
  PROVE  b <= x /\ (r > 0 => b + 1 <= x)
  OBVIOUS

(* The operators of the instance are those of the library, and Allocate in *)
(* the terms of this section: the lines of the first ranks are rounded up. *)
LEMMA CardinalityIs == \A T : Quotes!Cardinality(T) = Cardinality(T)
  BY DEF Quotes!Cardinality, Cardinality

LEMMA AllocationIs ==
  ASSUME NEW t, NEW w, Sum(w, DOMAIN w) # 0
  PROVE  Quotes!Allocate(t, w) =
           [i \in DOMAIN w |->
              IF Rank(Rest(t, w, Sum(w, DOMAIN w)), DOMAIN w)[i] < t - Sum(Base(t, w, Sum(w, DOMAIN w)), DOMAIN w)
              THEN Base(t, w, Sum(w, DOMAIN w))[i] + 1 ELSE Base(t, w, Sum(w, DOMAIN w))[i]]
<1> DEFINE c == Quotes!Total(w)
           b == [i \in DOMAIN w |-> IF c = 0 THEN 0 ELSE (t * w[i]) \div c]
           r == [i \in DOMAIN w |-> IF c = 0 THEN 0 ELSE (t * w[i]) % c]
           before(i) == {j \in DOMAIN w : r[j] > r[i] \/ (r[j] = r[i] /\ j < i)}
           left == IF c = 0 THEN 0 ELSE t - Quotes!Total(b)
<1>1. Quotes!Allocate(t, w) = [i \in DOMAIN w |-> IF Quotes!Cardinality(before(i)) < left THEN b[i] + 1 ELSE b[i]]
  BY Zenon DEF Quotes!Allocate
<1>2. c = Sum(w, DOMAIN w) /\ c # 0
  BY TotalIsSum
<1>3. b = Base(t, w, c) /\ r = Rest(t, w, c) /\ DOMAIN b = DOMAIN w
  BY <1>2 DEF Base, Rest
<1>4. left = t - Sum(b, DOMAIN w)
  BY <1>2, <1>3, TotalIsSum
<1>5. \A i \in DOMAIN w : Quotes!Cardinality(before(i)) = Rank(r, DOMAIN w)[i]
  BY CardinalityIs DEF Rank, Before
<1> HIDE DEF c, b, r, before, left
<1> QED
  BY <1>1, <1>2, <1>3, <1>4, <1>5

(* What rounding down leaves over, c times, is the sum of the remainders.  *)
Divided(t, w, c, b, r, D) ==
  /\ t \in Int /\ c \in Int /\ w \in [D -> Int] /\ b \in [D -> Int] /\ r \in [D -> Int]
  /\ \A i \in D : t * w[i] = c * b[i] + r[i]

LEMMA LeftOver ==
  ASSUME NEW D, IsFiniteSet(D), NEW w, NEW b, NEW r, NEW t, NEW c, Divided(t, w, c, b, r, D)
  PROVE  t * Sum(w, D) = c * Sum(b, D) + Sum(r, D)
<1>1. PICK tw \in [D -> Int] : \A i \in D : tw[i] = t * w[i]
  <2> DEFINE tw == [i \in D |-> t * w[i]]
  <2>1. tw \in [D -> Int] /\ \A i \in D : tw[i] = t * w[i]
    BY DEF Divided
  <2> QED
    BY <2>1
<1>2. PICK cb \in [D -> Int] : \A i \in D : cb[i] = c * b[i]
  <2> DEFINE cb == [i \in D |-> c * b[i]]
  <2>1. cb \in [D -> Int] /\ \A i \in D : cb[i] = c * b[i]
    BY DEF Divided
  <2> QED
    BY <2>1
<1>3. \A i \in D : tw[i] = cb[i] + r[i]
  BY <1>1, <1>2 DEF Divided
<1>4. Adds(tw, cb, r, D) /\ Scales(tw, t, w, D) /\ Scales(cb, c, b, D)
  BY <1>1, <1>2, <1>3 DEF Divided, Adds, Scales
<1>5. Sum(tw, D) = Sum(cb, D) + Sum(r, D)
  BY <1>4, SumAdds, Zenon
<1>6. Sum(tw, D) = t * Sum(w, D) /\ Sum(cb, D) = c * Sum(b, D)
  BY <1>4, SumScales, Zenon
<1> QED
  BY <1>5, <1>6, Zenon

(* It is at most c for each element that has a remainder.                  *)
LEMMA LeftOverIsBounded ==
  ASSUME NEW D, IsFiniteSet(D), NEW r \in [D -> Int], NEW c \in Nat, \A i \in D : r[i] <= c
  PROVE  Sum(r, D) <= c * Cardinality({i \in D : r[i] > 0})
<1>1. PICK K \in SUBSET D : K = {i \in D : r[i] > 0}
  OBVIOUS
<1>2. PICK k \in [D -> Int] : \A i \in D : k[i] = IF i \in K THEN 1 ELSE 0
  <2> DEFINE k == [i \in D |-> IF i \in K THEN 1 ELSE 0]
  <2>1. k \in [D -> Int] /\ \A i \in D : k[i] = IF i \in K THEN 1 ELSE 0
    OBVIOUS
  <2> QED
    BY <2>1
<1>3. PICK ck \in [D -> Int] : \A i \in D : ck[i] = c * k[i]
  <2> DEFINE ck == [i \in D |-> c * k[i]]
  <2>1. ck \in [D -> Int] /\ \A i \in D : ck[i] = c * k[i]
    OBVIOUS
  <2> QED
    BY <2>1
<1>4. \A i \in D : r[i] <= ck[i]
  BY <1>1, <1>2, <1>3
<1>5. Sum(r, D) <= Sum(ck, D)
  BY <1>4, SumLeq, Zenon
<1>6. Sum(ck, D) = c * Sum(k, D)
  <2>1. Scales(ck, c, k, D)
    BY <1>3 DEF Scales
  <2> QED
    BY <2>1, SumScales, Zenon
<1>7. Sum(k, D) = Cardinality(K)
  BY <1>2, SumCounts, Zenon
<1> QED
  BY <1>1, <1>5, <1>6, <1>7, Zenon

(* What is left over is at most one paisa for each that has a remainder.   *)
LEMMA LeftOverFits ==
  ASSUME NEW t \in Nat, NEW c \in Nat \ {0}, NEW b \in Nat, NEW r \in Nat, NEW k \in Nat,
         t * c = c * b + r, r <= c * k
  PROVE  t - b \in Nat /\ t - b <= k
  OBVIOUS

(* Rounding up the first m gives out m more; while there are no more of    *)
(* them than have a remainder, none without one is rounded up.             *)
LEMMA RoundedUp ==
  ASSUME NEW D \in SUBSET Int, IsFiniteSet(D), NEW r \in [D -> Int], NEW b \in [D -> Int], NEW m \in Nat,
         \A i \in D : r[i] >= 0, m <= Cardinality({i \in D : r[i] > 0}),
         NEW d \in [D -> Int], \A i \in D : d[i] = IF Rank(r, D)[i] < m THEN b[i] + 1 ELSE b[i]
  PROVE  Sum(d, D) = Sum(b, D) + m /\ \A i \in D : d[i] = b[i] \/ (d[i] = b[i] + 1 /\ r[i] > 0)
<1>1. PICK K \in SUBSET D : K = {i \in D : r[i] > 0}
  OBVIOUS
<1>2. PICK W \in SUBSET D : W = {i \in D : Rank(r, D)[i] < m}
  OBVIOUS
<1>3. IsFiniteSet(K) /\ Cardinality(K) \in Nat /\ Cardinality(K) <= Cardinality(D) /\ Cardinality(D) \in Nat
  BY FS_Subset, FS_CardinalityType
<1>4. Cardinality(W) = m
  BY <1>1, <1>2, <1>3, FirstRanks
<1>5. PICK u \in [D -> Int] : \A i \in D : u[i] = IF i \in W THEN 1 ELSE 0
  <2> DEFINE u == [i \in D |-> IF i \in W THEN 1 ELSE 0]
  <2>1. u \in [D -> Int] /\ \A i \in D : u[i] = IF i \in W THEN 1 ELSE 0
    OBVIOUS
  <2> QED
    BY <2>1
<1>6. Sum(u, D) = m
  BY <1>4, <1>5, SumCounts, Zenon
<1>7. \A i \in D : d[i] = b[i] + u[i]
  BY <1>2, <1>5
<1>8. Sum(d, D) = Sum(b, D) + m
  <2>1. Adds(d, b, u, D)
    BY <1>7 DEF Adds
  <2>2. Sum(d, D) = Sum(b, D) + Sum(u, D)
    BY ONLY IsFiniteSet(D), <2>1, SumAdds
  <2> QED
    BY <1>6, <2>2
<1>9. ASSUME NEW i \in W PROVE r[i] > 0
  <2>1. SUFFICES ASSUME ~ (r[i] > 0) PROVE FALSE
    OBVIOUS
  <2>2. r[i] = 0
    BY <2>1
  <2>3. K \in SUBSET Before(r, D, i) /\ Before(r, D, i) \in SUBSET D
    BY <1>1, <2>2 DEF Before
  <2>4. IsFiniteSet(Before(r, D, i)) /\ Cardinality(Before(r, D, i)) \in Nat
    BY <2>3, FS_Subset, FS_CardinalityType
  <2>5. Cardinality(K) <= Cardinality(Before(r, D, i))
    BY <2>3, <2>4, FS_Subset
  <2>6. Cardinality(Before(r, D, i)) < m
    BY <1>2 DEF Rank
  <2> QED
    BY <1>1, <1>3, <2>4, <2>5, <2>6
<1> QED
  BY <1>2, <1>8, <1>9

(* What is given out is the total, and each share is rounded up or down.   *)
LEMMA SharesAreExact ==
  ASSUME NEW D \in SUBSET Int, IsFiniteSet(D), NEW w \in [D -> Nat], NEW c, c = Sum(w, D),
         NEW t \in Nat, t <= c, NEW d, d = Quotes!Allocate(t, w)
  PROVE  /\ d \in [D -> Nat] /\ Sum(d, D) = t
         /\ \A i \in D : /\ d[i] <= w[i]
                         /\ c > 0 => -c < d[i] * c - t * w[i] /\ d[i] * c - t * w[i] < c
<1>1. DOMAIN w = D /\ w \in [D -> Int]
  OBVIOUS
<1>2. c \in Nat
  BY <1>1, SumIsNat
<1>3. CASE c = 0
  <2>1. t = 0
    BY <1>2, <1>3
  <2>2. d = [i \in D |-> 0]
    <3>1. Quotes!Total(w) = 0
      BY <1>1, <1>3, TotalIsSum
    <3> DEFINE b == [i \in DOMAIN w |-> 0]
    <3>2. d = [i \in DOMAIN w |->
                IF Quotes!Cardinality({j \in DOMAIN w : b[j] > b[i] \/ (b[j] = b[i] /\ j < i)}) < 0
                THEN b[i] + 1 ELSE b[i]]
      BY <3>1 DEF Quotes!Allocate
    <3>3. ASSUME NEW i \in D
          PROVE  ~ (Quotes!Cardinality({j \in DOMAIN w : b[j] > b[i] \/ (b[j] = b[i] /\ j < i)}) < 0)
      <4> DEFINE T == {j \in DOMAIN w : b[j] > b[i] \/ (b[j] = b[i] /\ j < i)}
      <4>1. T \in SUBSET D
        BY <1>1
      <4> HIDE DEF T
      <4>2. Cardinality(T) \in Nat
        BY <4>1, FS_Subset, FS_CardinalityType
      <4>3. ~ (Quotes!Cardinality(T) < 0)
        BY <4>2, CardinalityIs
      <4> QED
        BY <4>3 DEF T
    <3> QED
      BY <1>1, <3>2, <3>3
  <2>3. d \in [D -> Nat] /\ d \in [D -> Int] /\ \A i \in D : d[i] = 0 /\ d[i] = 0 * w[i]
    BY <1>1, <2>2
  <2>4. Sum(d, D) = 0 * c
    <3>1. Scales(d, 0, w, D)
      BY <1>1, <2>3 DEF Scales
    <3> QED
      BY <3>1, SumScales, Zenon
  <2>5. Sum(d, D) = t
    BY <1>2, <2>1, <2>4
  <2>6. \A i \in D : d[i] <= w[i]
    BY <1>1, <2>3
  <2> QED
    BY <1>3, <2>3, <2>5, <2>6
<1>4. CASE c # 0
  <2>1. c \in Nat \ {0} /\ c \in Int /\ t \in Int
    BY <1>2, <1>4
  <2>2. PICK b, r : b = Base(t, w, c) /\ r = Rest(t, w, c)
    OBVIOUS
  <2>3. d = [i \in D |-> IF Rank(r, D)[i] < t - Sum(b, D) THEN b[i] + 1 ELSE b[i]]
    <3>1. Sum(w, DOMAIN w) # 0
      BY <1>1, <1>4
    <3>2. d = [i \in DOMAIN w |-> IF Rank(r, DOMAIN w)[i] < t - Sum(b, DOMAIN w) THEN b[i] + 1 ELSE b[i]]
      BY <1>1, <2>2, <3>1, AllocationIs
    <3> QED
      BY <1>1, <3>2
  <2>4. ASSUME NEW i \in D
        PROVE  /\ b[i] \in Nat /\ r[i] \in 0 .. c - 1 /\ t * w[i] = c * b[i] + r[i]
               /\ b[i] <= w[i] /\ (r[i] > 0 => b[i] + 1 <= w[i])
    <3>1. b[i] = (t * w[i]) \div c /\ r[i] = (t * w[i]) % c
      BY <1>1, <2>2 DEF Base, Rest
    <3>2. w[i] \in Nat /\ t * w[i] \in Nat
      BY <1>1
    <3>3. PICK a \in Nat : a = t * w[i]
      BY <3>2
    <3>4. a \div c \in Nat /\ a % c \in 0 .. c - 1 /\ a = c * (a \div c) + (a % c)
      BY <2>1, Division, Zenon
    <3>5. b[i] \in Nat /\ r[i] \in 0 .. c - 1 /\ t * w[i] = c * b[i] + r[i]
      BY <3>1, <3>3, <3>4, Zenon
    <3> QED
      BY <2>1, <3>2, <3>5, ShareFits
  <2>5. b \in [D -> Nat] /\ b \in [D -> Int] /\ r \in [D -> Nat] /\ r \in [D -> Int]
    <3>1. b = [i \in D |-> b[i]] /\ r = [i \in D |-> r[i]]
      BY <1>1, <2>2 DEF Base, Rest
    <3>2. \A i \in D : b[i] \in Nat /\ r[i] \in Nat /\ b[i] \in Int /\ r[i] \in Int
      BY <1>2, <2>4
    <3> QED
      BY <3>1, <3>2
  <2>6. PICK m, q : m = t - Sum(b, D) /\ q = Cardinality({i \in D : r[i] > 0})
    OBVIOUS
  <2>7. m \in Nat /\ m <= q
    <3>1. Sum(b, D) \in Nat /\ Sum(r, D) \in Nat /\ q \in Nat
      BY <2>5, <2>6, SumIsNat, FS_Subset, FS_CardinalityType
    <3>2. t * c = c * Sum(b, D) + Sum(r, D)
      <4>1. Divided(t, w, c, b, r, D)
        BY <1>1, <2>1, <2>4, <2>5 DEF Divided
      <4>2. t * Sum(w, D) = c * Sum(b, D) + Sum(r, D)
        BY ONLY IsFiniteSet(D), <4>1, LeftOver
      <4> QED
        BY <4>2
    <3>3. Sum(r, D) <= c * q
      <4>1. \A i \in D : r[i] <= c
        BY <1>2, <2>4
      <4> QED
        BY <1>2, <2>5, <2>6, <4>1, LeftOverIsBounded
    <3> QED
      BY <2>1, <2>6, <3>1, <3>2, <3>3, LeftOverFits
  <2>8. d \in [D -> Int] /\ \A i \in D : d[i] = IF Rank(r, D)[i] < m THEN b[i] + 1 ELSE b[i]
    BY <2>3, <2>5, <2>6
  <2>9. Sum(d, D) = Sum(b, D) + m /\ \A i \in D : d[i] = b[i] \/ (d[i] = b[i] + 1 /\ r[i] > 0)
    <3>1. \A i \in D : r[i] >= 0
      BY <2>5
    <3> QED
      BY <2>5, <2>6, <2>7, <2>8, <3>1, RoundedUp
  <2>10. Sum(d, D) = t
    <3>1. Sum(b, D) \in Nat
      BY <2>5, SumIsNat
    <3> QED
      BY <2>6, <2>9, <3>1
  <2>11. ASSUME NEW i \in D
         PROVE  d[i] \in Nat /\ d[i] <= w[i] /\ -c < d[i] * c - t * w[i] /\ d[i] * c - t * w[i] < c
    <3>1. /\ b[i] \in Nat /\ r[i] \in 0 .. c - 1 /\ t * w[i] = c * b[i] + r[i] /\ w[i] \in Nat
          /\ b[i] <= w[i] /\ (r[i] > 0 => b[i] + 1 <= w[i])
          /\ d[i] = b[i] \/ (d[i] = b[i] + 1 /\ r[i] > 0)
      BY <2>4, <2>9
    <3>2. PICK p, x, y, z : p = t * w[i] /\ x = b[i] /\ y = r[i] /\ z = d[i]
      OBVIOUS
    <3>3. x \in Nat /\ y \in 0 .. c - 1 /\ p = c * x + y /\ (z = x \/ (z = x + 1 /\ y > 0))
      BY <3>1, <3>2, Zenon
    <3>4. z * c - p = - y \/ (z * c - p = c - y /\ y > 0)
      <4>1. (x + 1) * c = c * x + c /\ x * c = c * x /\ c * x \in Int
        BY <2>1, <3>3
      <4> QED
        BY <2>1, <3>3, <4>1
    <3>5. -c < z * c - p /\ z * c - p < c
      <4>1. PICK e : e = z * c - p
        OBVIOUS
      <4>2. (e = -y \/ (e = c - y /\ y > 0)) /\ y \in 0 .. c - 1 /\ c \in Nat
        BY <2>1, <3>3, <3>4, <4>1
      <4>3. -c < e /\ e < c
        BY <4>2
      <4> QED
        BY <4>1, <4>3
    <3>6. d[i] \in Nat /\ d[i] <= w[i]
      BY <3>1
    <3> QED
      BY <3>2, <3>5, <3>6, Zenon
  <2> QED
    BY <2>8, <2>10, <2>11
<1> QED
  BY <1>3, <1>4

(* A percentage is in whole paise, and that of a coupon within its amount. *)
LEMMA PercentIsNat ==
  ASSUME NEW a \in Nat, NEW p \in Nat
  PROVE  Quotes!Percent(a, p) \in Nat
<1>1. a * p \in Nat
  OBVIOUS
<1>2. PICK x \in Nat : x = a * p
  BY <1>1
<1>3. 10000 \div 2 = 5000
  OBVIOUS
<1>4. (x + 5000) \div 10000 \in Nat
  OBVIOUS
<1> QED
  BY <1>2, <1>3, <1>4 DEF Quotes!Percent, Quotes!RoundHalfUp

LEMMA DiscountFits ==
  ASSUME NEW coupon, NEW a \in Nat
  PROVE  Quotes!Discount(coupon, a) \in Nat /\ Quotes!Discount(coupon, a) <= a
<1>1. PICK p \in {0, 500, 1000} : Quotes!Discount(coupon, a) = Quotes!Percent(a, p)
  BY DEF Quotes!Discount
<1>2. Quotes!Percent(a, p) = (a * p + 5000) \div 10000
  <2>1. 10000 \div 2 = 5000
    OBVIOUS
  <2> QED
    BY <2>1 DEF Quotes!Percent, Quotes!RoundHalfUp
<1>3. (a * p + 5000) \div 10000 \in Nat /\ (a * p + 5000) \div 10000 <= a
  OBVIOUS
<1> QED
  BY <1>1, <1>2, <1>3

(* The lines of a request: one for each variant that is asked for.         *)
LEMMA LinesAreApart ==
  ASSUME NEW n \in Nat, NEW cart \in [1 .. n -> [variant : Priced, quantity : Quantities]]
  PROVE  \E m \in Nat : /\ Quotes!Lines(cart) \in [1 .. m -> [variant : Priced, quantity : Nat]]
                        /\ \A i, j \in 1 .. m : i # j =>
                             Quotes!Lines(cart)[i].variant # Quotes!Lines(cart)[j].variant
<1> DEFINE asked == {cart[i].variant : i \in DOMAIN cart}
           quantity(v) == Quotes!Total([i \in DOMAIN cart |-> IF cart[i].variant = v THEN cart[i].quantity ELSE 0])
           sorted == CHOOSE s \in [1 .. Quotes!Cardinality(asked) -> asked] : \A i, j \in DOMAIN s : i < j => s[i] < s[j]
<1>1. Quotes!Lines(cart) = [i \in DOMAIN sorted |-> [variant |-> sorted[i], quantity |-> quantity(sorted[i])]]
  BY Zenon DEF Quotes!Lines
<1>2. IsFiniteSet(asked) /\ asked \in SUBSET Priced /\ asked \in SUBSET Int
  <2> DEFINE f == [i \in 1 .. n |-> cart[i].variant]
  <2>1. IsFiniteSet(1 .. n) /\ DOMAIN cart = 1 .. n
    BY FS_Interval
  <2>2. f \in Surjection(1 .. n, asked)
    BY <2>1 DEF Surjection
  <2>3. IsFiniteSet(asked)
    <3> HIDE DEF f, asked
    <3> QED
      BY <2>1, <2>2, FS_Surjection
  <2>4. asked \in SUBSET Priced
    OBVIOUS
  <2> QED
    BY <2>3, <2>4, QuoteInputs
<1>3. \A v : quantity(v) \in Nat
  <2> SUFFICES ASSUME NEW v PROVE quantity(v) \in Nat
    OBVIOUS
  <2> DEFINE f == [i \in DOMAIN cart |-> IF cart[i].variant = v THEN cart[i].quantity ELSE 0]
  <2>1. f \in [1 .. n -> Nat] /\ DOMAIN f = 1 .. n
    BY QuoteInputs
  <2>2. Sum(f, 1 .. n) \in Nat
    <3> HIDE DEF f
    <3> QED
      BY <2>1, FS_Interval, SumIsNat
  <2>3. quantity(v) = Sum(f, 1 .. n)
    BY <2>1, TotalIsSum
  <2> QED
    BY <2>2, <2>3
<1> HIDE DEF quantity, asked
<1>4. PICK m \in Nat : m = Cardinality(asked)
  BY <1>2, FS_CardinalityType
<1>5. sorted \in [1 .. m -> asked] /\ \A i, j \in 1 .. m : i < j => sorted[i] < sorted[j]
  <2>1. PICK s \in [1 .. m -> asked] : \A i, j \in 1 .. m : i < j => s[i] < s[j]
    BY <1>2, <1>4, OrderExists
  <2>2. Quotes!Cardinality(asked) = m
    BY <1>4, CardinalityIs
  <2>3. sorted = CHOOSE v \in [1 .. m -> asked] : \A i, j \in DOMAIN v : i < j => v[i] < v[j]
    BY <2>2
  <2>4. \E v \in [1 .. m -> asked] : \A i, j \in DOMAIN v : i < j => v[i] < v[j]
    BY <2>1
  <2>5. sorted \in [1 .. m -> asked] /\ \A i, j \in DOMAIN sorted : i < j => sorted[i] < sorted[j]
    <3> HIDE DEF sorted
    <3> QED
      BY <2>3, <2>4
  <2> HIDE DEF sorted
  <2> QED
    BY <2>5
<1> HIDE DEF sorted
<1>6. DOMAIN sorted = 1 .. m
  BY <1>5
<1>7. Quotes!Lines(cart) \in [1 .. m -> [variant : Priced, quantity : Nat]]
  <2>1. \A i \in 1 .. m : sorted[i] \in Priced /\ quantity(sorted[i]) \in Nat
    BY <1>2, <1>3, <1>5
  <2> QED
    BY <1>1, <1>6, <2>1
<1>8. ASSUME NEW i \in 1 .. m, NEW j \in 1 .. m, i # j
      PROVE  Quotes!Lines(cart)[i].variant # Quotes!Lines(cart)[j].variant
  <2>1. Quotes!Lines(cart)[i].variant = sorted[i] /\ Quotes!Lines(cart)[j].variant = sorted[j]
    BY <1>1, <1>6
  <2>2. i < j \/ j < i
    BY <1>8
  <2>3. sorted[i] \in Int /\ sorted[j] \in Int /\ (sorted[i] < sorted[j] \/ sorted[j] < sorted[i])
    BY <1>2, <1>5, <2>2
  <2> QED
    BY <2>1, <2>3
<1> QED
  BY <1>7, <1>8

(* What QuoteIsExact says of a quote.                                      *)
IsExact(q) ==
  /\ Quotes!Total(q.discounts) = q.discount
  /\ q.total = Quotes!Total(q.totals) + q.fee
  /\ \A i \in DOMAIN q.lines :
       /\ 0 <= q.discounts[i] /\ q.discounts[i] <= q.amounts[i] /\ 0 <= q.totals[i]
       /\ q.subtotal > 0 =>
            /\ -q.subtotal < q.discounts[i] * q.subtotal - q.discount * q.amounts[i]
            /\ q.discounts[i] * q.subtotal - q.discount * q.amounts[i] < q.subtotal
  /\ \A i, j \in DOMAIN q.lines : i # j => q.lines[i].variant # q.lines[j].variant

(* It is that property, and of a refused quote it says nothing.            *)
LEMMA ExactIs == Quotes!QuoteIsExact <=> IsExact(quote)
  BY DEF Quotes!QuoteIsExact, IsExact

LEMMA RefusedIsExact == IsExact(Quotes!Refused)
<1>1. /\ Quotes!Refused.discounts = <<>> /\ Quotes!Refused.totals = <<>> /\ Quotes!Refused.lines = <<>>
      /\ Quotes!Refused.discount = 0 /\ Quotes!Refused.total = 0 /\ Quotes!Refused.fee = 0
  BY DEF Quotes!Refused
<1>2. DOMAIN <<>> = {}
  OBVIOUS
<1>3. Quotes!Total(<<>>) = 0
  BY <1>2, TotalIsSum, SumEmpty
<1> QED
  BY <1>1, <1>2, <1>3 DEF IsExact

(* The items' totals are what is left of the amounts, with the taxes.      *)
AddUp(y, a, d, x, D) ==
  /\ a \in [D -> Int] /\ d \in [D -> Int] /\ x \in [D -> Int] /\ y \in [D -> Int]
  /\ \A i \in D : y[i] = a[i] - d[i] + x[i]

LEMMA TotalsAddUp ==
  ASSUME NEW D, IsFiniteSet(D), NEW y, NEW a, NEW d, NEW x, AddUp(y, a, d, x, D)
  PROVE  Sum(y, D) = Sum(a, D) - Sum(d, D) + Sum(x, D)
<1>1. PICK z \in [D -> Int] : \A i \in D : z[i] = a[i] - d[i]
  <2> DEFINE z == [i \in D |-> a[i] - d[i]]
  <2>1. z \in [D -> Int] /\ \A i \in D : z[i] = a[i] - d[i]
    BY DEF AddUp
  <2> QED
    BY <2>1
<1>2. Adds(a, d, z, D) /\ Adds(y, z, x, D)
  BY <1>1 DEF Adds, AddUp
<1>3. Sum(a, D) = Sum(d, D) + Sum(z, D) /\ Sum(y, D) = Sum(z, D) + Sum(x, D)
  BY ONLY IsFiniteSet(D), <1>2, SumAdds
<1>4. Sum(d, D) \in Int /\ Sum(z, D) \in Int /\ Sum(x, D) \in Int
  BY <1>2, SumIsInt DEF Adds
<1> QED
  BY <1>3, <1>4

(* Whatever a request asks for, its quote is exact.                        *)
LEMMA QuoteFits ==
  ASSUME price \in [Priced -> Nat], NEW n \in Nat, NEW cart \in [1 .. n -> [variant : Priced, quantity : Quantities]],
         NEW coupon, NEW priority
  PROVE  IsExact(Quotes!Quote(cart, coupon, priority))
<1> DEFINE lines == Quotes!Lines(cart)
           amounts == [i \in DOMAIN lines |-> price[lines[i].variant] * lines[i].quantity]
           subtotal == Quotes!Total(amounts)
           discount == Quotes!Discount(coupon, subtotal)
           discounts == Quotes!Allocate(discount, amounts)
           taxes == [i \in DOMAIN lines |-> Quotes!ItemTax(amounts[i], discounts[i])]
           fee == IF priority THEN 4900 ELSE 0
           total == subtotal - discount + Quotes!Total(taxes) + fee
           totals == [i \in DOMAIN lines |-> amounts[i] - discounts[i] + taxes[i]]
<1> DEFINE refused == Len(lines) > MaxLines \/ total <= 0
           answer == [accepted |-> TRUE, lines |-> lines, amounts |-> amounts, discounts |-> discounts,
                      totals |-> totals, subtotal |-> subtotal, discount |-> discount,
                      tax |-> Quotes!Total(taxes), fee |-> fee, total |-> total]
<1>q. Quotes!Quote(cart, coupon, priority) = IF refused THEN Quotes!Refused ELSE answer
  BY DEF Quotes!Quote
<1>r. Quotes!Quote(cart, coupon, priority) \in {Quotes!Refused, answer}
  <2> HIDE DEF refused, answer
  <2> QED
    BY <1>q
<1> HIDE DEF lines, amounts, subtotal, discount, discounts, taxes, fee, total, totals
<1>1. PICK m \in Nat : /\ lines \in [1 .. m -> [variant : Priced, quantity : Nat]]
                      /\ \A i, j \in 1 .. m : i # j => lines[i].variant # lines[j].variant
  BY LinesAreApart DEF lines
<1>2. PICK D : D = 1 .. m
  OBVIOUS
<1>3. D \in SUBSET Int /\ IsFiniteSet(D) /\ DOMAIN lines = D
  <2>1. IsFiniteSet(1 .. m) /\ DOMAIN lines = 1 .. m
    BY <1>1, FS_Interval
  <2> QED
    BY <1>2, <2>1
<1>4. amounts = [i \in DOMAIN lines |-> price[lines[i].variant] * lines[i].quantity]
  BY DEF amounts
<1>5. amounts \in [D -> Nat] /\ amounts \in [D -> Int] /\ DOMAIN amounts = D
  <2>1. ASSUME NEW i \in D PROVE price[lines[i].variant] * lines[i].quantity \in Nat
    <3>1. price[lines[i].variant] \in Nat /\ lines[i].quantity \in Nat
      BY <1>1, <1>2
    <3> QED
      BY <3>1
  <2> QED
    BY <1>3, <1>4, <2>1
<1>6. subtotal = Quotes!Total(amounts)
  BY DEF subtotal
<1>7. subtotal = Sum(amounts, D) /\ subtotal \in Nat
  BY <1>3, <1>5, <1>6, TotalIsSum, SumIsNat
<1>8. discount = Quotes!Discount(coupon, subtotal)
  BY DEF discount
<1>9. discount \in Nat /\ discount <= subtotal
  BY <1>7, <1>8, DiscountFits
<1>10. discounts = Quotes!Allocate(discount, amounts)
  BY DEF discounts
<1>11. /\ discounts \in [D -> Nat] /\ Sum(discounts, D) = discount
       /\ \A i \in D : /\ discounts[i] <= amounts[i]
                       /\ subtotal > 0 => /\ -subtotal < discounts[i] * subtotal - discount * amounts[i]
                                          /\ discounts[i] * subtotal - discount * amounts[i] < subtotal
  BY <1>3, <1>5, <1>7, <1>9, <1>10, SharesAreExact
<1>12. taxes = [i \in DOMAIN lines |-> Quotes!ItemTax(amounts[i], discounts[i])]
  BY DEF taxes
<1>13. taxes \in [D -> Nat] /\ DOMAIN taxes = D
  <2>1. ASSUME NEW i \in D PROVE Quotes!ItemTax(amounts[i], discounts[i]) \in Nat
    <3>1. amounts[i] - discounts[i] \in Nat /\ Gst \in Nat
      BY <1>5, <1>11, QuoteInputs
    <3> QED
      BY <3>1, PercentIsNat DEF Quotes!ItemTax
  <2> QED
    BY <1>3, <1>12, <2>1
<1>14. totals = [i \in DOMAIN lines |-> amounts[i] - discounts[i] + taxes[i]]
  BY DEF totals
<1>15. totals \in [D -> Nat] /\ DOMAIN totals = D /\ \A i \in D : totals[i] = amounts[i] - discounts[i] + taxes[i]
  BY <1>3, <1>5, <1>11, <1>13, <1>14
<1>16. fee \in Nat /\ total = subtotal - discount + Quotes!Total(taxes) + fee
  BY DEF fee, total
<1>17. total = Quotes!Total(totals) + fee
  <2>1. Sum(totals, D) = Sum(amounts, D) - Sum(discounts, D) + Sum(taxes, D)
    <3>1. AddUp(totals, amounts, discounts, taxes, D)
      BY <1>5, <1>11, <1>13, <1>15 DEF AddUp
    <3> QED
      BY ONLY <1>3, <3>1, TotalsAddUp
  <2>2. Quotes!Total(totals) = Sum(totals, D) /\ Quotes!Total(taxes) = Sum(taxes, D)
    BY <1>13, <1>15, TotalIsSum
  <2> QED
    BY <1>7, <1>11, <1>16, <2>1, <2>2
<1>18. Quotes!Quote(cart, coupon, priority) \in
         {Quotes!Refused,
          [accepted |-> TRUE, lines |-> lines, amounts |-> amounts, discounts |-> discounts, totals |-> totals,
           subtotal |-> subtotal, discount |-> discount, tax |-> Quotes!Total(taxes), fee |-> fee, total |-> total]}
  BY <1>r DEF answer
<1>19. Quotes!Total(discounts) = discount
  BY <1>11, TotalIsSum
<1>20. ASSUME NEW q, q = [accepted |-> TRUE, lines |-> lines, amounts |-> amounts, discounts |-> discounts,
                          totals |-> totals, subtotal |-> subtotal, discount |-> discount,
                          tax |-> Quotes!Total(taxes), fee |-> fee, total |-> total]
       PROVE  IsExact(q)
  <2>1. /\ q.lines = lines /\ q.amounts = amounts /\ q.discounts = discounts /\ q.totals = totals
        /\ q.subtotal = subtotal /\ q.discount = discount /\ q.fee = fee /\ q.total = total
    BY <1>20
  <2>2. \A i \in D : 0 <= discounts[i] /\ 0 <= totals[i]
    BY <1>11, <1>15
  <2> QED
    BY <1>1, <1>2, <1>3, <1>11, <1>17, <1>19, <2>1, <2>2 DEF IsExact
<1> QED
  BY <1>18, <1>20, RefusedIsExact

(* What a checkout costs, in the run.                                      *)
QuotesInv == price \in [Priced -> Nat] /\ IsExact(quote)

LEMMA QuotesInit == StockInit => QuotesInv
<1> SUFFICES ASSUME StockInit PROVE QuotesInv
  OBVIOUS
<1>1. price \in [Priced -> Nat] /\ quote = Quotes!Refused
  <2>1. CASE part = "quotes"
    <3>1. price \in [Priced -> Prices] /\ quote = Quotes!Refused
      BY <2>1 DEF StockInit, Quotes!Init
    <3> QED
      BY <3>1, QuoteInputs
  <2>2. CASE part # "quotes"
    <3>1. price = [v \in Priced |-> 0] /\ quote = Quotes!Refused
      BY <2>2 DEF StockInit
    <3> QED
      BY <3>1
  <2> QED
    BY <2>1, <2>2
<1> QED
  BY <1>1, RefusedIsExact DEF QuotesInv

LEMMA QuotesStep ==
  ASSUME QuotesInv, Quotes!Next \/ UNCHANGED quoteVars
  PROVE  QuotesInv'
<1>1. CASE UNCHANGED quoteVars
  BY <1>1 DEF quoteVars, QuotesInv, IsExact, Quotes!Total, Quotes!FoldSeq, Quotes!FoldFunction,
     Quotes!FoldFunctionOnSet, Quotes!MapThenFoldSet
<1>2. CASE Quotes!Next
  <2>1. PICK cart \in Quotes!BoundedSeq([variant : Priced, quantity : Quantities], MaxRequested),
             coupon \in Quotes!Coupons, priority \in BOOLEAN : quote' = Quotes!Quote(cart, coupon, priority)
    BY <1>2 DEF Quotes!Next, Quotes!CreateCheckoutSession
  <2>2. PICK n \in 0 .. MaxRequested : cart \in [1 .. n -> [variant : Priced, quantity : Quantities]]
    BY DEF Quotes!BoundedSeq, Quotes!SeqOf
  <2>3. price' = price /\ price \in [Priced -> Nat] /\ n \in Nat
    BY <1>2 DEF Quotes!Next, Quotes!CreateCheckoutSession, QuotesInv
  <2>4. IsExact(Quotes!Quote(cart, coupon, priority))
    BY <2>2, <2>3, QuoteFits
  <2> QED
    BY <2>1, <2>3, <2>4 DEF QuotesInv, IsExact
<1> QED
  BY <1>1, <1>2

(* Every quote of a checkout, for any prices, quantities, variants, length *)
(* of the cart and rate of tax: the lines' discounts make up the coupon's, *)
(* each within a paisa of its share and within its line, the items and the *)
(* fee add up to the charge, and no variant has two lines.                 *)
THEOREM QuotesCorrect == StockSpec => []QuoteIsExact
<1>1. StockInit => QuotesInv
  BY QuotesInit
<1>2. QuotesInv /\ [StockNext]_<<part, vars, posVars, quoteVars>> => QuotesInv'
  <2>1. StockNext \/ UNCHANGED quoteVars => Quotes!Next \/ UNCHANGED quoteVars
    BY DEF StockNext
  <2>2. QED
    BY <2>1, QuotesStep
<1>3. QuotesInv => QuoteIsExact
  BY ExactIs DEF QuotesInv, QuoteIsExact
<1>4. QED
  BY <1>1, <1>2, <1>3, PTL DEF StockSpec
=============================================================================
