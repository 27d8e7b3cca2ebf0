------------------------- MODULE OrderPaymentsProofs -------------------------
(***************************************************************************)
(* Proofs about OrderPayments, for any orders, lines, calls and number of  *)
(* attempts.  A call acts on rows it has read before: the invariant says   *)
(* what may have changed since, and what cannot have.                      *)
(***************************************************************************)
EXTENDS OrderPayments, TLAPS

StockTypes ==
  /\ reservations \in [Orders -> [Variants -> Stock!ReservationStatus]]
  /\ operations \in [Stock!OperationKey -> Stock!Response]

Placed(o) == Stock!Placed(o)

NothingHeld(o) == Stock!ActiveLines(o) = {}

Bought(o, v) == reservations[o][v] = "CONFIRMED"

(* The stored answers of the stock engine stay true: the lines of an order *)
(* are reserved together; what was confirmed is sold, what was released    *)
(* holds nothing, and nothing of an online order is sold without the       *)
(* confirmation.                                                           *)
StockFits(o) ==
  /\ Placed(o) => Stock!ReservedLines(o) = Stock!LinesOf(o)
  /\ operations[<<"confirm", o>>] \in {"CONFIRMED", "ALREADY_CONFIRMED"} => Placed(o) /\ Sold(o)
  /\ \A reason \in ReleaseReasons :
       operations[<<"release", o, reason>>] # "NONE" => Placed(o) /\ NothingHeld(o)
  /\ Online(o) /\ operations[<<"confirm", o>>] \notin {"CONFIRMED", "ALREADY_CONFIRMED"}
       => \A v \in Variants : ~ Bought(o, v)
  /\ ~ Online(o) /\ Placed(o) => Sold(o)

Opens(call) == call.at \in {"create_payment", "retry_payment"}

ForAttempt == {"create_payment", "retry_payment", "session_read", "session_commit",
               "session_reply", "retry_session", "check_status", "confirm_read",
               "confirm_tx_read", "confirm_commit", "late_tx_read", "late_commit"}

HasPaid == {"confirm_tx_read", "confirm_commit", "late_tx_read", "late_commit"}

(* What a call can rely on at the point it has come to.                    *)
CallFits(o, call) ==
  /\ call.at # "idle" => Placed(o)
  /\ call.at \in HasPaid \cup {"check_status", "confirm_read"} => Online(o)
  /\ call.at \in ForAttempt => call.attempt \in 1 .. Len(attempts[o])
  /\ Opens(call) => gateway[o][call.attempt] = "NONE"
  /\ call.at = "confirm_read" =>
       call.answer \in {"PAID", "MISPAID"} /\ gateway[o][call.attempt] = call.answer
  /\ call.at \in HasPaid => gateway[o][call.attempt] = "PAID"
  /\ call.at = "late_commit" => NothingHeld(o)
  /\ call.at \in {"failure_read", "failure_tx_read", "failure_commit"} =>
       call.answer \in {"FAILED", "EXPIRED", "USER_DROPPED"}
  /\ call.at \in {"pack_commit", "refund_review_commit"} => Sold(o)

(* A payment page is asked for once per attempt.                           *)
OneOpens(o) ==
  \A c, d \in Calls :
    Opens(calls[o][c]) /\ Opens(calls[o][d]) /\ calls[o][c].attempt = calls[o][d].attempt => c = d

CallsFit(o) == OneOpens(o) /\ \A c \in Calls : CallFits(o, calls[o][c])

Started(o) ==
  /\ payments[o].status # "NONE" \/ attempts[o] # <<>> => Placed(o)
  /\ \A n \in 1 .. MaxAttempts : n > Len(attempts[o]) => gateway[o][n] = "NONE"

(* The statuses with which goods are, or have been, the customer's.        *)
Delivering == {"PAYMENT_CONFIRMED", "FULFILLMENT_READY", "ACCEPTED", "PACKING",
               "OUT_FOR_DELIVERY", "DELIVERED", "RETURN_REQUESTED", "REFUND_PENDING"}

Owns(o) ==
  \/ payments[o].status = "PAID"
  \/ orders[o].status \in Delivering
  \/ orders[o].paymentStatus = "PAID"
  => Sold(o)

Closed(o) ==
  \/ payments[o].status \in {"FAILED", "EXPIRED", "DUPLICATE_SUCCESS_REQUIRES_REFUND"}
  \/ orders[o].status \in {"CANCELLED", "EXPIRED", "PAYMENT_FAILED"}
  => NothingHeld(o)

Money(o) ==
  Online(o) /\ (\E v \in Variants : Bought(o, v))
    => \E n \in 1 .. MaxAttempts : gateway[o][n] = "PAID"

Review(o) ==
  payments[o].status = "INVENTORY_CONFIRMATION_REQUIRES_REVIEW"
    => Online(o) /\ operations[<<"confirm", o>>] = "REQUIRES_REVIEW"

Owed(o) ==
  payments[o].status = "DUPLICATE_SUCCESS_REQUIRES_REFUND"
    => /\ "LATE_SUCCESS_AFTER_RELEASED_TERMINAL_STATE" \in runs[o]
       /\ payments[o].gatewayId # 0
       /\ gateway[o][payments[o].gatewayId] = "PAID"

OrderFits(o) ==
  Started(o) /\ Owns(o) /\ Closed(o) /\ Money(o) /\ Review(o) /\ Owed(o) /\ CallsFit(o)

OrdersInv ==
  /\ TypeOK
  /\ StockTypes
  /\ \A o \in Orders : StockFits(o) /\ OrderFits(o)

-----------------------------------------------------------------------------
(* What a step of the stock does for an order that it does not sell: the   *)
(* order stays placed or not, sold or not, and only loses holds.           *)
StockKept(o) ==
  /\ Placed(o)' <=> Placed(o)
  /\ \A v \in Variants : Bought(o, v)' <=> Bought(o, v)
  /\ NothingHeld(o) => NothingHeld(o)'
  /\ operations'[<<"confirm", o>>] = operations[<<"confirm", o>>]

LEMMA KeptMeans ==
  ASSUME NEW o \in Orders, StockKept(o)
  PROVE  Sold(o)' <=> Sold(o)
BY DEF StockKept, Sold, Bought, Stock!LinesOf

LEMMA StockUnchanged ==
  ASSUME OrdersInv, UNCHANGED stock
  PROVE  StockTypes' /\ \A o \in Orders : StockFits(o)' /\ StockKept(o)
<1>1. reservations' = reservations /\ operations' = operations
  BY DEF stock
<1>2. StockTypes'
  BY <1>1 DEF OrdersInv, StockTypes
<1>3. ASSUME NEW o \in Orders PROVE StockFits(o)' /\ StockKept(o)
  BY <1>1 DEF OrdersInv, StockFits, StockKept, Placed, Sold, Bought, NothingHeld,
              Stock!Placed, Stock!ReservedLines, Stock!ActiveLines, Stock!LinesOf
<1> QED
  BY <1>2, <1>3

(* Reservations that are settled, or held on, of the orders that have any. *)
Settles ==
  /\ reservations' \in [Orders -> [Variants -> Stock!ReservationStatus]]
  /\ \A o \in Orders, v \in Variants :
       \/ reservations'[o][v] = reservations[o][v]
       \/ reservations[o][v] = "ACTIVE" /\ reservations'[o][v] \in {"RELEASED", "EXPIRED"}

LEMMA SettlingKeeps ==
  ASSUME OrdersInv, Settles, NEW o \in Orders,
         operations'[<<"confirm", o>>] = operations[<<"confirm", o>>],
         \A reason \in ReleaseReasons :
           operations'[<<"release", o, reason>>] # "NONE" =>
             operations[<<"release", o, reason>>] # "NONE" \/ (Placed(o) /\ NothingHeld(o)')
  PROVE  StockFits(o)' /\ StockKept(o)
<1>1. StockFits(o) /\ reservations \in [Orders -> [Variants -> Stock!ReservationStatus]]
  BY DEF OrdersInv, StockTypes
<1>2. \A v \in Variants :
        /\ reservations'[o][v] = "NONE" <=> reservations[o][v] = "NONE"
        /\ Bought(o, v)' <=> Bought(o, v)
        /\ reservations'[o][v] = "ACTIVE" => reservations[o][v] = "ACTIVE"
  BY DEF Settles, Bought
<1>3. Stock!ReservedLines(o)' = Stock!ReservedLines(o)
  BY <1>2 DEF Stock!ReservedLines
<1>4. (Placed(o)' <=> Placed(o)) /\ (NothingHeld(o) => NothingHeld(o)')
  BY <1>2, <1>3 DEF Placed, NothingHeld, Stock!Placed, Stock!ActiveLines
<1>5. StockKept(o)
  BY <1>2, <1>4 DEF StockKept
<1>6. Sold(o)' <=> Sold(o)
  BY <1>5, KeptMeans
<1>7. Stock!LinesOf(o)' = Stock!LinesOf(o)
  BY DEF Stock!LinesOf
<1> QED
  BY <1>1, <1>2, <1>3, <1>4, <1>5, <1>6, <1>7 DEF StockFits, Online

LEMMA KeyTypes ==
  ASSUME NEW o \in Orders
  PROVE  /\ <<"reserve", o>> \in Stock!OperationKey /\ <<"confirm", o>> \in Stock!OperationKey
         /\ <<"cod_authorize", o>> \in Stock!OperationKey
         /\ \A reason \in ReleaseReasons : <<"release", o, reason>> \in Stock!OperationKey
BY DEF Stock!OperationKey

(* After releaseOrderStock, or its replay, nothing of the order is held.   *)
LEMMA ReleaseFits ==
  ASSUME OrdersInv, NEW o \in Orders, NEW reason \in ReleaseReasons, ReleaseStock(o, reason)
  PROVE  /\ StockTypes' /\ \A p \in Orders : StockFits(p)' /\ StockKept(p)
         /\ NothingHeld(o)'
<1>1. CASE operations[<<"release", o, reason>>] # "NONE" /\ UNCHANGED stock
  <2>1. NothingHeld(o)
    BY <1>1 DEF OrdersInv, StockFits
  <2> QED
    BY <1>1, <2>1, StockUnchanged DEF StockKept
<1>2. CASE Stock!ReleaseOrderStock(o, reason)
  <2> DEFINE S == Stock!ActiveLines(o)
             response == IF S = {} THEN "NO_ACTIVE_RESERVATIONS" ELSE "RELEASED"
  <2>1. /\ Placed(o)
        /\ reservations' = [reservations EXCEPT ![o] =
                              [v \in Variants |-> IF v \in S THEN "RELEASED" ELSE @[v]]]
        /\ operations' = [operations EXCEPT ![<<"release", o, reason>>] = response]
    BY <1>2 DEF Stock!ReleaseOrderStock, Stock!Release, Stock!SetStatus, Stock!Complete, Placed
  <2>2. StockTypes
    BY DEF OrdersInv
  <2>3. Settles
    BY <2>1, <2>2 DEF Settles, StockTypes, Stock!ReservationStatus, Stock!ActiveLines
  <2>4. NothingHeld(o)'
    BY <2>1, <2>2 DEF StockTypes, NothingHeld, Stock!ActiveLines
  <2>5. operations' \in [Stock!OperationKey -> Stock!Response]
    BY <2>1, <2>2 DEF StockTypes, Stock!Response
  <2>6. ASSUME NEW p \in Orders
        PROVE  /\ operations'[<<"confirm", p>>] = operations[<<"confirm", p>>]
               /\ \A r \in ReleaseReasons :
                    <<"release", p, r>> # <<"release", o, reason>> =>
                      operations'[<<"release", p, r>>] = operations[<<"release", p, r>>]
    <3>1. <<"confirm", p>> # <<"release", o, reason>>
      OBVIOUS
    <3> QED
      BY <2>1, <2>2, <3>1, KeyTypes DEF StockTypes
  <2>7. \A p \in Orders : StockFits(p)' /\ StockKept(p)
    BY <2>1, <2>3, <2>4, <2>6, SettlingKeeps
  <2> QED
    BY <2>3, <2>4, <2>5, <2>7 DEF StockTypes, Settles
<1> QED
  BY <1>1, <1>2 DEF ReleaseStock

(* The steps of the stock that no call takes.                              *)
LEMMA AloneFits ==
  ASSUME OrdersInv, StockAlone
  PROVE  StockTypes' /\ \A p \in Orders : StockFits(p)' /\ StockKept(p)
<1>0. StockTypes
  BY DEF OrdersInv
<1>1. operations' = operations /\ Settles
  <2>1. ASSUME NEW v \in Variants, Stock!InitializeCatalogInventory(v)
        PROVE  operations' = operations /\ Settles
    BY <1>0, <2>1 DEF Stock!InitializeCatalogInventory, Settles, StockTypes
  <2>2. ASSUME NEW v \in Variants, Stock!ArchiveProductVariant(v)
        PROVE  operations' = operations /\ Settles
    BY <1>0, <2>2 DEF Stock!ArchiveProductVariant, Settles, StockTypes, Stock!ReservationStatus
  <2>3. ASSUME NEW o \in Orders, Stock!DeadlinePasses(o)
        PROVE  operations' = operations /\ Settles
    BY <1>0, <2>3 DEF Stock!DeadlinePasses, Settles, StockTypes
  <2>4. ASSUME NEW o \in Orders, NEW v \in Variants, Stock!ExpireReservation(o, v)
        PROVE  operations' = operations /\ Settles
    BY <1>0, <2>4
       DEF Stock!ExpireReservation, Stock!Release, Stock!SetStatus, Stock!ActiveLines,
           Settles, StockTypes, Stock!ReservationStatus
  <2> QED
    BY <2>1, <2>2, <2>3, <2>4 DEF StockAlone
<1>2. \A p \in Orders : StockFits(p)' /\ StockKept(p)
  BY <1>1, SettlingKeeps
<1> QED
  BY <1>0, <1>1, <1>2 DEF StockTypes, Settles

(* The orders that a step of the stock is not about.                       *)
OthersSame(o) ==
  \A p \in Orders \ {o} :
    /\ reservations'[p] = reservations[p]
    /\ operations'[<<"confirm", p>>] = operations[<<"confirm", p>>]
    /\ \A reason \in ReleaseReasons :
         operations'[<<"release", p, reason>>] = operations[<<"release", p, reason>>]

LEMMA OthersKept ==
  ASSUME OrdersInv, NEW o \in Orders, OthersSame(o), NEW p \in Orders \ {o}
  PROVE  StockFits(p)' /\ StockKept(p)
<1>1. StockFits(p) /\ reservations'[p] = reservations[p]
  BY DEF OrdersInv, OthersSame
<1>2. /\ Stock!ReservedLines(p)' = Stock!ReservedLines(p)
      /\ Stock!ActiveLines(p)' = Stock!ActiveLines(p)
      /\ Stock!LinesOf(p)' = Stock!LinesOf(p)
  BY <1>1 DEF Stock!ReservedLines, Stock!ActiveLines, Stock!LinesOf
<1>3. /\ Placed(p)' <=> Placed(p)
      /\ NothingHeld(p)' <=> NothingHeld(p)
      /\ \A v \in Variants : Bought(p, v)' <=> Bought(p, v)
  BY <1>1, <1>2 DEF Placed, NothingHeld, Bought, Stock!Placed
<1>4. StockKept(p)
  BY <1>3 DEF StockKept, OthersSame
<1>5. Sold(p)' <=> Sold(p)
  BY <1>4, KeptMeans
<1> QED
  BY <1>1, <1>2, <1>3, <1>4, <1>5 DEF StockFits, Online, OthersSame

LEMMA ReserveFits ==
  ASSUME OrdersInv, NEW o \in Orders, Online(o), Stock!ReserveOrderStock(o)
  PROVE  /\ StockTypes' /\ \A p \in Orders : StockFits(p)'
         /\ \A p \in Orders \ {o} : StockKept(p)
         /\ ~ Placed(o) /\ Placed(o)'
         /\ \A v \in Variants : ~ Bought(o, v)'
<1> DEFINE S == Stock!LinesOf(o)
<1>1. /\ ~ Placed(o) /\ S # {} /\ S \subseteq Variants
      /\ reservations' = [reservations EXCEPT ![o] =
                            [v \in Variants |-> IF v \in S THEN "ACTIVE" ELSE @[v]]]
      /\ operations' = [operations EXCEPT ![<<"reserve", o>>] = "RESERVED"]
  BY DEF Stock!ReserveOrderStock, Stock!SetStatus, Stock!Complete, Stock!LinesOf, Placed
<1>2. StockTypes /\ StockFits(o)
  BY DEF OrdersInv
<1>3. StockTypes'
  BY <1>1, <1>2 DEF StockTypes, Stock!ReservationStatus, Stock!Response
<1>4. ASSUME NEW p \in Orders
      PROVE  /\ operations'[<<"confirm", p>>] = operations[<<"confirm", p>>]
             /\ \A r \in ReleaseReasons :
                  operations'[<<"release", p, r>>] = operations[<<"release", p, r>>]
  BY <1>1, <1>2, KeyTypes DEF StockTypes
<1>5. OthersSame(o)
  BY <1>1, <1>2, <1>4 DEF OthersSame, StockTypes
<1>6. \A v \in Variants : /\ reservations[o][v] = "NONE"
                          /\ reservations'[o][v] = IF v \in S THEN "ACTIVE" ELSE "NONE"
  BY <1>1, <1>2 DEF StockTypes, Placed, Stock!Placed, Stock!ReservedLines
<1>7. Stock!ReservedLines(o)' = S /\ Stock!LinesOf(o)' = S /\ Placed(o)'
  BY <1>1, <1>6 DEF Stock!ReservedLines, Stock!LinesOf, Placed, Stock!Placed
<1>8. \A v \in Variants : ~ Bought(o, v)'
  BY <1>6 DEF Bought
<1>9. StockFits(o)'
  BY <1>1, <1>2, <1>4, <1>7, <1>8 DEF StockFits, Online
<1> QED
  BY <1>1, <1>3, <1>5, <1>7, <1>8, <1>9, OthersKept

LEMMA CodFits ==
  ASSUME OrdersInv, NEW o \in Orders, ~ Online(o),
         Stock!CreateCodCheckoutFast(o) \/ Stock!AuthorizeCodOrderStock(o)
  PROVE  /\ StockTypes' /\ \A p \in Orders : StockFits(p)'
         /\ \A p \in Orders \ {o} : StockKept(p)
         /\ ~ Placed(o) /\ Placed(o)' /\ Sold(o)' /\ NothingHeld(o)'
<1> DEFINE S == Stock!LinesOf(o)
<1>1. /\ ~ Placed(o) /\ S # {} /\ S \subseteq Variants
      /\ reservations' = [reservations EXCEPT ![o] =
                            [v \in Variants |-> IF v \in S THEN "CONFIRMED" ELSE @[v]]]
      /\ \/ operations' = operations
         \/ operations' = [operations EXCEPT ![<<"cod_authorize", o>>] = "CONFIRMED"]
  BY DEF Stock!CreateCodCheckoutFast, Stock!AuthorizeCodOrderStock, Stock!TakeAtOnce,
         Stock!SetStatus, Stock!Complete, Stock!LinesOf, Placed
<1>2. StockTypes /\ StockFits(o)
  BY DEF OrdersInv
<1>3. StockTypes'
  BY <1>1, <1>2 DEF StockTypes, Stock!ReservationStatus, Stock!Response
<1>4. ASSUME NEW p \in Orders
      PROVE  /\ operations'[<<"confirm", p>>] = operations[<<"confirm", p>>]
             /\ \A r \in ReleaseReasons :
                  operations'[<<"release", p, r>>] = operations[<<"release", p, r>>]
  BY <1>1, <1>2, KeyTypes DEF StockTypes
<1>5. OthersSame(o)
  BY <1>1, <1>2, <1>4 DEF OthersSame, StockTypes
<1>6. \A v \in Variants : reservations'[o][v] = IF v \in S THEN "CONFIRMED" ELSE "NONE"
  BY <1>1, <1>2 DEF StockTypes, Placed, Stock!Placed, Stock!ReservedLines
<1>7. Stock!ReservedLines(o)' = S /\ Stock!LinesOf(o)' = S /\ Placed(o)'
  BY <1>1, <1>6 DEF Stock!ReservedLines, Stock!LinesOf, Placed, Stock!Placed
<1>8. Sold(o)' /\ NothingHeld(o)'
  BY <1>1, <1>6, <1>7 DEF Sold, NothingHeld, Stock!ActiveLines
<1>9. StockFits(o)'
  BY <1>1, <1>2, <1>4, <1>7, <1>8 DEF StockFits, Online
<1> QED
  BY <1>1, <1>3, <1>5, <1>7, <1>8, <1>9, OthersKept

(* What confirmOrderStock answers, now or when it is asked again, is true: *)
(* the lines are sold, or none of them is.                                 *)
LEMMA ConfirmFits ==
  ASSUME OrdersInv, NEW o \in Orders, Online(o), NEW answers, "NONE" \notin answers,
         StockConfirms(o, answers)
  PROVE  /\ StockTypes' /\ \A p \in Orders : StockFits(p)'
         /\ \A p \in Orders \ {o} : StockKept(p)
         /\ Placed(o)' <=> Placed(o)
         /\ Sold(o) => Sold(o)'
         /\ NothingHeld(o) => NothingHeld(o)'
         /\ operations'[<<"confirm", o>>] \in answers
<1>1. CASE operations[<<"confirm", o>>] \in answers /\ UNCHANGED stock
  <2>1. operations' = operations
    BY <1>1 DEF stock
  <2> QED
    BY <1>1, <2>1, StockUnchanged, KeptMeans DEF StockKept
<1>2. CASE Stock!ConfirmOrderStock(o) /\ Stock!ConfirmResponse(o) \in answers
  <2> DEFINE response == Stock!ConfirmResponse(o)
             S == IF response = "CONFIRMED" THEN Stock!ActiveLines(o) ELSE {}
  <2>1. /\ Placed(o) /\ operations[<<"confirm", o>>] = "NONE"
        /\ reservations' = [reservations EXCEPT ![o] =
                              [v \in Variants |-> IF v \in S THEN "CONFIRMED" ELSE @[v]]]
        /\ operations' = [operations EXCEPT ![<<"confirm", o>>] = response]
    BY <1>2 DEF Stock!ConfirmOrderStock, Stock!SetStatus, Stock!Complete, Stock!Unclaimed, Placed
  <2>2. StockTypes /\ StockFits(o)
    BY DEF OrdersInv
  <2>3. response = "CONFIRMED" \/ response = "REQUIRES_REVIEW"
    <3>1. \E v \in Stock!ReservedLines(o) : ~ Bought(o, v)
      BY <2>1, <2>2 DEF StockFits, Placed, Stock!Placed, Stock!ReservedLines
    <3> QED
      BY <3>1 DEF Stock!ConfirmResponse, Bought
  <2>4. StockTypes'
    BY <2>1, <2>2, <2>3 DEF StockTypes, Stock!ReservationStatus, Stock!Response
  <2>5. ASSUME NEW p \in Orders
        PROVE  /\ p # o => operations'[<<"confirm", p>>] = operations[<<"confirm", p>>]
               /\ \A r \in ReleaseReasons :
                    operations'[<<"release", p, r>>] = operations[<<"release", p, r>>]
    BY <2>1, <2>2, KeyTypes DEF StockTypes
  <2>6. OthersSame(o)
    BY <2>1, <2>2, <2>5 DEF OthersSame, StockTypes
  <2>7. operations'[<<"confirm", o>>] = response
    BY <2>1, <2>2, KeyTypes DEF StockTypes
  <2>8. \A v \in Variants :
          reservations'[o][v] = IF v \in S THEN "CONFIRMED" ELSE reservations[o][v]
    BY <2>1, <2>2 DEF StockTypes
  <2>9. S \subseteq Stock!ActiveLines(o) /\ S \subseteq Stock!ReservedLines(o)
    BY DEF Stock!ActiveLines, Stock!ReservedLines
  <2>10. Stock!ReservedLines(o)' = Stock!ReservedLines(o) /\ Stock!LinesOf(o)' = Stock!LinesOf(o)
    BY <2>8, <2>9 DEF Stock!ReservedLines, Stock!LinesOf
  <2>11. Placed(o)'
    BY <2>1, <2>10 DEF Placed, Stock!Placed
  <2>12. NothingHeld(o) => NothingHeld(o)'
    BY <2>8 DEF NothingHeld, Stock!ActiveLines
  <2>13. CASE response = "CONFIRMED"
    <3>1. Stock!ReservedLines(o) = Stock!ActiveLines(o)
      BY <2>13, <2>1 DEF Stock!ConfirmResponse, Placed, Stock!Placed
    <3>2. Stock!LinesOf(o) = S
      BY <2>1, <2>2, <2>13, <3>1 DEF StockFits
    <3>3. Sold(o)'
      BY <2>8, <2>10, <3>2 DEF Sold, Stock!LinesOf
    <3>4. NothingHeld(o)'
      BY <2>8, <2>13 DEF NothingHeld, Stock!ActiveLines
    <3>5. StockFits(o)'
      BY <2>1, <2>2, <2>5, <2>7, <2>10, <2>11, <2>13, <3>3, <3>4 DEF StockFits, Online
    <3> QED
      BY <1>2, <2>1, <2>4, <2>6, <2>7, <2>11, <3>3, <3>4, <3>5, OthersKept
  <2>14. CASE response = "REQUIRES_REVIEW"
    <3>1. \A v \in Variants : Bought(o, v)' <=> Bought(o, v)
      BY <2>8, <2>14 DEF Bought
    <3>2. Sold(o)' <=> Sold(o)
      BY <3>1, <2>10 DEF Sold, Bought, Stock!LinesOf
    <3>3. NothingHeld(o)' <=> NothingHeld(o)
      BY <2>8, <2>14 DEF NothingHeld, Stock!ActiveLines
    <3>4. StockFits(o)'
      BY <2>1, <2>2, <2>5, <2>7, <2>10, <2>11, <2>14, <3>1, <3>2, <3>3 DEF StockFits, Online
    <3> QED
      BY <1>2, <2>1, <2>4, <2>6, <2>7, <2>11, <3>2, <3>3, <3>4, OthersKept
  <2> QED
    BY <2>3, <2>13, <2>14
<1> QED
  BY <1>1, <1>2 DEF StockConfirms

-----------------------------------------------------------------------------
PaymentRow == [status : PaymentStatus \cup {"NONE"}, gatewayId : 0 .. MaxAttempts]

OrderRow == [status : OrderStatus \cup {"NONE"}, paymentStatus : PaymentStatus \cup {"NONE"}]

(* What the commit of a call writes in the rows of its order.              *)
PaymentWritten(o) ==
  /\ payments' \in [Orders -> PaymentRow]
  /\ \A p \in Orders \ {o} : payments'[p] = payments[p]

OrderWritten(o) ==
  /\ orders' \in [Orders -> OrderRow]
  /\ \A p \in Orders \ {o} : orders'[p] = orders[p]

(* What a move leaves behind: the new status, or what was stored when the  *)
(* caller's status already was the new one.                                *)
LEMMA PaymentMovesTo ==
  ASSUME TypeOK, NEW o \in Orders, NEW from, NEW to \in PaymentStatus, NEW id \in 0 .. MaxAttempts,
         PaymentMoves(o, from, to, id)
  PROVE  /\ PaymentWritten(o)
         /\ payments'[o].gatewayId = id
         /\ payments'[o].status \in {payments[o].status, to}
         /\ from # to => payments'[o].status = to
BY DEF TypeOK, PaymentMoves, Moving, PaymentRow, PaymentWritten

LEMMA OrderMovesTo ==
  ASSUME TypeOK, NEW o \in Orders, NEW from, NEW to \in OrderStatus,
         NEW paymentStatus \in PaymentStatus \cup {"NONE"},
         OrderMoves(o, from, to, paymentStatus)
  PROVE  /\ OrderWritten(o)
         /\ orders'[o].paymentStatus = paymentStatus
         /\ orders'[o].status \in {orders[o].status, to}
BY DEF TypeOK, OrderMoves, Moving, OrderRow, OrderWritten

LEMMA AttemptsInKeeps ==
  ASSUME TypeOK, NEW o \in Orders, NEW S, NEW status \in AttemptStatus
  PROVE  /\ AttemptsIn(o, S, status) \in Seq(AttemptStatus)
         /\ Len(AttemptsIn(o, S, status)) = Len(attempts[o])
<1> DEFINE L == Len(attempts[o])
<1>1. attempts[o] \in Seq(AttemptStatus) /\ L \in Nat /\ \A n \in 1 .. L : attempts[o][n] \in AttemptStatus
  BY DEF TypeOK
<1>2. AttemptsIn(o, S, status) \in [1 .. L -> AttemptStatus]
  BY <1>1 DEF AttemptsIn
<1> QED
  BY <1>1, <1>2

(* Only the rows of o are written, they keep their types, and no attempt   *)
(* is lost.                                                                *)
WritesOnly(o) ==
  /\ payments' \in [Orders -> PaymentRow]
  /\ orders' \in [Orders -> OrderRow]
  /\ attempts' \in [Orders -> Seq(AttemptStatus)]
  /\ transactions' \in [Orders -> SUBSET (1 .. MaxAttempts)]
  /\ runs' \in [Orders -> SUBSET DriftCode]
  /\ Len(attempts[o]) <= Len(attempts'[o]) /\ Len(attempts'[o]) <= MaxAttempts
  /\ transactions'[o] \subseteq 1 .. Len(attempts'[o])
  /\ \A p \in Orders \ {o} :
       /\ payments'[p] = payments[p] /\ orders'[p] = orders[p]
       /\ attempts'[p] = attempts[p] /\ transactions'[p] = transactions[p]
       /\ runs'[p] = runs[p]

(* What PhonePe may have done to the pages of o: a page that was paid      *)
(* stays so, and only call c may have opened a new one.                    *)
PagesKept(o, c) ==
  /\ gateway' \in [Orders -> [1 .. MaxAttempts -> GatewayState]]
  /\ \A p \in Orders \ {o} : gateway'[p] = gateway[p]
  /\ \A n \in 1 .. MaxAttempts :
       /\ gateway[o][n] \in {"PAID", "MISPAID"} => gateway'[o][n] = gateway[o][n]
       /\ gateway[o][n] = "NONE" /\ gateway'[o][n] # "NONE" =>
            Opens(calls[o][c]) /\ calls[o][c].attempt = n

(* What the stock may have done for o.                                     *)
StockGoesOn(o) ==
  /\ StockTypes'
  /\ \A p \in Orders : StockFits(p)'
  /\ \A p \in Orders \ {o} : StockKept(p)
  /\ Placed(o) => /\ Placed(o)'
                  /\ Sold(o) => Sold(o)'
                  /\ NothingHeld(o) => NothingHeld(o)'

LEMMA WhatHolds ==
  ASSUME OrdersInv, NEW o \in Orders, NEW c \in Calls
  PROVE  /\ TypeOK /\ StockFits(o) /\ OrderFits(o)
         /\ calls[o][c] \in Call /\ CallFits(o, calls[o][c])
         /\ payments[o] \in PaymentRow /\ orders[o] \in OrderRow
         /\ payments \in [Orders -> PaymentRow] /\ orders \in [Orders -> OrderRow]
         /\ Len(attempts[o]) \in 0 .. MaxAttempts
         /\ attempts \in [Orders -> Seq(AttemptStatus)]
         /\ transactions[o] \subseteq 1 .. Len(attempts[o])
         /\ \A n \in 1 .. MaxAttempts : gateway[o][n] \in GatewayState
<1>1. Len(attempts[o]) \in 0 .. MaxAttempts
  BY AttemptBound DEF OrdersInv, TypeOK
<1> QED
  BY <1>1 DEF OrdersInv, TypeOK, OrderFits, CallsFit, PaymentRow, OrderRow

(* Nothing changes for an order that a step is not about.                  *)
LEMMA OtherOrderFits ==
  ASSUME OrdersInv, NEW p \in Orders, StockKept(p),
         payments'[p] = payments[p], orders'[p] = orders[p], attempts'[p] = attempts[p],
         runs'[p] = runs[p], gateway'[p] = gateway[p], calls'[p] = calls[p]
  PROVE  OrderFits(p)'
<1>1. Sold(p)' <=> Sold(p)
  BY KeptMeans
<1>2. OrderFits(p)
  BY DEF OrdersInv
<1>3. ASSUME NEW c \in Calls PROVE CallFits(p, calls[p][c])'
  BY <1>1, <1>2 DEF OrderFits, CallsFit, CallFits, StockKept, Opens, Online
<1>4. CallsFit(p)'
  BY <1>2, <1>3 DEF OrderFits, CallsFit, OneOpens
<1>5. Started(p)' /\ Owns(p)' /\ Closed(p)'
  BY <1>1, <1>2 DEF OrderFits, Started, Owns, Closed, StockKept
<1>6. Money(p)' /\ Review(p)' /\ Owed(p)'
  BY <1>2 DEF OrderFits, Money, Review, Owed, StockKept, Online
<1> QED
  BY <1>4, <1>5, <1>6 DEF OrderFits

(* The calls on o other than c rely on nothing that such a step changes.   *)
LEMMA CallsKeepFitting ==
  ASSUME OrdersInv, NEW o \in Orders, NEW c \in Calls, NEW call \in Call, Goto(o, c, call),
         PagesKept(o, c), StockGoesOn(o), Len(attempts[o]) <= Len(attempts'[o]),
         Len(attempts'[o]) \in Nat, CallFits(o, call)',
         Opens(call) => \A d \in Calls \ {c} : Opens(calls[o][d]) => calls[o][d].attempt # call.attempt
  PROVE  /\ calls' \in [Orders -> [Calls -> Call]]
         /\ \A p \in Orders \ {o} : calls'[p] = calls[p]
         /\ CallsFit(o)'
<1>1. /\ calls' \in [Orders -> [Calls -> Call]]
      /\ \A p \in Orders \ {o} : calls'[p] = calls[p]
      /\ calls'[o][c] = call /\ \A d \in Calls \ {c} : calls'[o][d] = calls[o][d]
  BY DEF OrdersInv, TypeOK, Goto
<1>2. ASSUME NEW d \in Calls \ {c} PROVE CallFits(o, calls[o][d])'
  <2> DEFINE other == calls[o][d]
  <2>1. /\ calls'[o][d] = other /\ CallFits(o, other) /\ other \in Call
        /\ Len(attempts[o]) \in 0 .. MaxAttempts
    BY <1>1, WhatHolds
  <2>2. other.at # "idle" => Placed(o)' /\ (Sold(o) => Sold(o)') /\ (NothingHeld(o) => NothingHeld(o)')
    BY <2>1 DEF CallFits, StockGoesOn
  <2>3. other.at \in ForAttempt => /\ other.attempt \in 1 .. Len(attempts'[o])
                                   /\ other.attempt \in 1 .. MaxAttempts
    BY <2>1, AttemptBound DEF CallFits
  <2>4. Opens(other) => gateway'[o][other.attempt] = "NONE"
    BY <2>1, <2>3 DEF CallFits, PagesKept, OrdersInv, OrderFits, CallsFit, OneOpens, Opens, ForAttempt
  <2>5. /\ other.at = "confirm_read" =>
             other.answer \in {"PAID", "MISPAID"} /\ gateway'[o][other.attempt] = other.answer
        /\ other.at \in HasPaid => gateway'[o][other.attempt] = "PAID"
    BY <2>1, <2>3 DEF CallFits, PagesKept, HasPaid, ForAttempt
  <2> QED
    BY <2>1, <2>2, <2>3, <2>4, <2>5 DEF CallFits, Online
<1>3. \A d \in Calls : CallFits(o, calls[o][d])'
  BY <1>1, <1>2
<1>4. OneOpens(o)'
  BY <1>1 DEF OrdersInv, OrderFits, CallsFit, OneOpens
<1> QED
  BY <1>1, <1>3, <1>4 DEF CallsFit

(* A step of call c on order o preserves the invariant when it writes and  *)
(* leaves what the order's rows say of each other true.                    *)
LEMMA StepKeeps ==
  ASSUME OrdersInv, NEW o \in Orders, NEW c \in Calls, NEW call \in Call, Goto(o, c, call),
         WritesOnly(o), PagesKept(o, c), StockGoesOn(o), Placed(o)', CallFits(o, call)',
         Opens(call) => \A d \in Calls \ {c} : Opens(calls[o][d]) => calls[o][d].attempt # call.attempt,
         Owns(o)', Closed(o)', Money(o)', Review(o)', Owed(o)'
  PROVE  OrdersInv'
<1>1. Len(attempts'[o]) \in Nat /\ Len(attempts[o]) \in 0 .. MaxAttempts
  BY WhatHolds DEF WritesOnly
<1>2. /\ calls' \in [Orders -> [Calls -> Call]]
      /\ \A p \in Orders \ {o} : calls'[p] = calls[p]
      /\ CallsFit(o)'
  BY <1>1, CallsKeepFitting DEF WritesOnly
<1>3. TypeOK'
  BY <1>2 DEF OrdersInv, TypeOK, WritesOnly, PagesKept, PaymentRow, OrderRow
<1>4. Started(o)'
  <2>1. ASSUME NEW n \in 1 .. MaxAttempts, n > Len(attempts'[o]) PROVE gateway'[o][n] = "NONE"
    <3>1. n > Len(attempts[o]) /\ gateway[o][n] = "NONE"
      BY <1>1, <2>1, AttemptBound DEF WritesOnly, OrdersInv, OrderFits, Started
    <3>2. Opens(calls[o][c]) => calls[o][c].attempt # n
      BY <1>1, <3>1, WhatHolds, AttemptBound DEF CallFits, Opens, ForAttempt
    <3> QED
      BY <3>1, <3>2 DEF PagesKept
  <2> QED
    BY <2>1 DEF Started
<1>5. OrderFits(o)'
  BY <1>2, <1>4 DEF OrderFits
<1>6. \A p \in Orders \ {o} : OrderFits(p)'
  BY <1>2, OtherOrderFits DEF WritesOnly, PagesKept, StockGoesOn
<1> QED
  BY <1>3, <1>5, <1>6 DEF OrdersInv, StockGoesOn

(* Reconciliation runs are only added.                                     *)
RunsGrow(o) ==
  /\ runs' \in [Orders -> SUBSET DriftCode]
  /\ runs[o] \subseteq runs'[o]
  /\ \A p \in Orders \ {o} : runs'[p] = runs[p]

(* A step that writes neither the stock nor the order's rows.              *)
LEMMA BooksKept ==
  ASSUME OrdersInv, NEW o \in Orders, NEW c \in Calls, NEW call \in Call, Goto(o, c, call),
         UNCHANGED <<stock, payments, orders, attempts, transactions>>,
         RunsGrow(o), PagesKept(o, c), Placed(o), CallFits(o, call)', ~ Opens(call)
  PROVE  OrdersInv'
<1>1. StockTypes' /\ (\A p \in Orders : StockFits(p)' /\ StockKept(p)) /\ (Sold(o)' <=> Sold(o))
  BY StockUnchanged, KeptMeans
<1>2. StockGoesOn(o) /\ Placed(o)' /\ (NothingHeld(o) => NothingHeld(o)')
  BY <1>1 DEF StockGoesOn, StockKept
<1>3. WritesOnly(o)
  BY WhatHolds DEF WritesOnly, RunsGrow, OrdersInv, TypeOK
<1>4. OrderFits(o)
  BY DEF OrdersInv
<1>5. Owns(o)' /\ Closed(o)'
  BY <1>1, <1>2, <1>4 DEF OrderFits, Owns, Closed
<1>6. Money(o)' /\ Review(o)'
  BY <1>1, <1>4 DEF OrderFits, Money, Review, StockKept, PagesKept, Online
<1>7. Owed(o)'
  <2>1. payments[o].gatewayId \in 0 .. MaxAttempts
    BY WhatHolds DEF PaymentRow
  <2>2. payments[o].gatewayId # 0 => payments[o].gatewayId \in 1 .. MaxAttempts
    BY <2>1, AttemptBound
  <2> QED
    BY <1>4, <2>2 DEF OrderFits, Owed, PagesKept, RunsGrow
<1> QED
  BY <1>2, <1>3, <1>5, <1>6, <1>7, StepKeeps

(* A step that only reads: the call goes on with what it can rely on.      *)
Reads(o, c) ==
  /\ UNCHANGED <<stock, payments, orders, attempts, transactions, gateway>>
  /\ RunsGrow(o)
  /\ Placed(o)
  /\ \E call \in Call : Goto(o, c, call) /\ CallFits(o, call) /\ ~ Opens(call)

LEMMA ReadsKeep ==
  ASSUME OrdersInv, NEW o \in Orders, NEW c \in Calls, Reads(o, c)
  PROVE  OrdersInv'
<1>1. PICK call \in Call : Goto(o, c, call) /\ CallFits(o, call) /\ ~ Opens(call)
  BY DEF Reads
<1>2. StockKept(o) /\ (Sold(o)' <=> Sold(o))
  BY StockUnchanged, KeptMeans DEF Reads
<1>3. CallFits(o, call)'
  BY <1>1, <1>2 DEF Reads, CallFits, StockKept, Opens, Online
<1>4. PagesKept(o, c)
  BY DEF Reads, PagesKept, OrdersInv, TypeOK
<1> QED
  BY <1>1, <1>3, <1>4, BooksKept DEF Reads

LEMMA SameRuns ==
  ASSUME OrdersInv, NEW o \in Orders, UNCHANGED <<stock, books, gateway>>
  PROVE  /\ UNCHANGED <<stock, payments, orders, attempts, transactions, gateway>>
         /\ RunsGrow(o)
BY DEF books, RunsGrow, OrdersInv, TypeOK

LEMMA IdleFits ==
  ASSUME NEW o \in Orders
  PROVE  Idle \in Call /\ CallFits(o, Idle) /\ ~ Opens(Idle)
BY AttemptBound DEF Idle, Call, Point, GatewayState, CallFits, Opens, HasPaid, ForAttempt

LEMMA EndsRead ==
  ASSUME OrdersInv, NEW o \in Orders, NEW c \in Calls, Placed(o), Done(o, c),
         UNCHANGED <<stock, books, gateway>>
  PROVE  Reads(o, c)
BY IdleFits, SameRuns DEF Done, Reads

(* The call goes on to another point.                                      *)
LEMMA GoesOnRead ==
  ASSUME OrdersInv, NEW o \in Orders, NEW c \in Calls, Placed(o),
         NEW call \in Call, Goto(o, c, call), UNCHANGED <<stock, books, gateway>>,
         CallFits(o, call), ~ Opens(call)
  PROVE  Reads(o, c)
BY SameRuns DEF Reads

(* The points to which a call comes by reading.                            *)
ReadPoints == Point \ {"create_payment", "retry_payment"}

(* It can do so with what it knows, and whatever it reads of the statuses  *)
(* of the order.                                                           *)
MayBeAt(o, c, point, answer) ==
  \A call \in Call :
    call.at = point /\ call.attempt = calls[o][c].attempt /\ call.answer = answer
      => CallFits(o, call)

LEMMA AnswerReads ==
  ASSUME OrdersInv, NEW o \in Orders, NEW c \in Calls, Placed(o), NEW point \in ReadPoints,
         NEW answer \in GatewayState \cup {"UNKNOWN", "REJECTED"},
         Goto(o, c, [calls[o][c] EXCEPT !.at = point, !.answer = answer]),
         UNCHANGED <<stock, books, gateway>>, MayBeAt(o, c, point, answer)
  PROVE  Reads(o, c)
<1> DEFINE call == [calls[o][c] EXCEPT !.at = point, !.answer = answer]
<1>1. call \in Call /\ call.at = point /\ call.attempt = calls[o][c].attempt /\ call.answer = answer
  BY WhatHolds DEF Call, ReadPoints
<1>2. CallFits(o, call) /\ ~ Opens(call)
  BY <1>1 DEF MayBeAt, Opens, ReadPoints
<1> QED
  BY <1>1, <1>2, GoesOnRead

LEMMA StepReads ==
  ASSUME OrdersInv, NEW o \in Orders, NEW c \in Calls, Placed(o), NEW point \in ReadPoints,
         Step(o, c, point), UNCHANGED <<stock, books, gateway>>,
         MayBeAt(o, c, point, calls[o][c].answer)
  PROVE  Reads(o, c)
<1> DEFINE call == [calls[o][c] EXCEPT !.at = point]
<1>1. call \in Call /\ call.at = point /\ call.attempt = calls[o][c].attempt /\ call.answer = calls[o][c].answer
  BY WhatHolds DEF Call, ReadPoints
<1>2. CallFits(o, call) /\ ~ Opens(call)
  BY <1>1 DEF MayBeAt, Opens, ReadPoints
<1> QED
  BY <1>1, <1>2, GoesOnRead DEF Step

LEMMA StatusReads ==
  ASSUME OrdersInv, NEW o \in Orders, NEW c \in Calls, Placed(o), NEW point \in ReadPoints,
         ReadTo(o, c, point), UNCHANGED <<stock, books, gateway>>,
         MayBeAt(o, c, point, calls[o][c].answer)
  PROVE  Reads(o, c)
<1> DEFINE call == [calls[o][c] EXCEPT !.at = point, !.payment = payments[o].status,
                                       !.order = orders[o].status]
<1>1. call \in Call /\ call.at = point /\ call.attempt = calls[o][c].attempt /\ call.answer = calls[o][c].answer
  <2>1. /\ calls[o][c] \in Call
        /\ payments[o].status \in PaymentStatus \cup {"NONE"}
        /\ orders[o].status \in OrderStatus \cup {"NONE"}
    BY WhatHolds DEF PaymentRow, OrderRow
  <2> QED
    BY <2>1 DEF Call, ReadPoints
<1>2. CallFits(o, call) /\ ~ Opens(call)
  BY <1>1 DEF MayBeAt, Opens, ReadPoints
<1> QED
  BY <1>1, <1>2, GoesOnRead DEF ReadTo

LEMMA CheckoutReads ==
  ASSUME OrdersInv, NEW o \in Orders, NEW c \in Calls,
         \/ SessionRead(o, c)
         \/ SessionFails(o, c)
         \/ CreateAgain(o, c)
         \/ ErrorRead(o, c)
  PROVE  Reads(o, c)
<1> DEFINE old == calls[o][c]
<1>0. /\ CallFits(o, old) /\ old \in Call
      /\ ~ At(o, c, "idle") => Placed(o)
  BY WhatHolds DEF At, CallFits
<1>1. CASE SessionRead(o, c)
  <2>1. MayBeAt(o, c, "session_commit", old.answer) /\ Placed(o) /\ "session_commit" \in ReadPoints
    BY <1>0, <1>1 DEF SessionRead, At, ReadPoints, Point, MayBeAt, CallFits, ForAttempt, HasPaid, Opens
  <2> QED
    BY <1>1, <2>1, StatusReads DEF SessionRead
<1>2. CASE SessionFails(o, c)
  <2>1. MayBeAt(o, c, "error_read", "REJECTED") /\ Placed(o) /\ "error_read" \in ReadPoints
    BY <1>0, <1>2 DEF SessionFails, At, ReadPoints, Point, MayBeAt, CallFits, ForAttempt, HasPaid, Opens
  <2> QED
    BY <1>2, <2>1, AnswerReads DEF SessionFails
<1>3. CASE CreateAgain(o, c)
  <2> DEFINE call == [Idle EXCEPT !.at = "error_read", !.attempt = 1, !.answer = "REJECTED"]
  <2>1. Placed(o)
    BY <1>3, WhatHolds DEF CreateAgain, Starts, OrderFits, Started
  <2>2. call \in Call /\ call.at = "error_read"
    <3>1. Idle \in Call /\ 1 \in 0 .. MaxAttempts /\ "error_read" \in Point
      BY IdleFits, AttemptBound DEF Point
    <3> QED
      BY <3>1 DEF Call
  <2>3. CallFits(o, call) /\ ~ Opens(call)
    BY <2>1, <2>2 DEF CallFits, ForAttempt, HasPaid, Opens
  <2> QED
    BY <1>3, <2>1, <2>2, <2>3, GoesOnRead DEF CreateAgain
<1>4. CASE ErrorRead(o, c)
  <2>1. MayBeAt(o, c, "error_commit", old.answer) /\ Placed(o) /\ "error_commit" \in ReadPoints
    BY <1>0, <1>4 DEF ErrorRead, At, ReadPoints, Point, MayBeAt, CallFits, ForAttempt, HasPaid, Opens
  <2> QED
    BY <1>4, <2>1, StatusReads DEF ErrorRead
<1> QED
  BY <1>1, <1>2, <1>3, <1>4

LEMMA VerifyReads ==
  ASSUME OrdersInv, NEW o \in Orders, NEW c \in Calls,
         \/ VerifyRead(o, c)
         \/ CheckStatus(o, c)
         \/ ConfirmRead(o, c)
         \/ ConfirmTxRead(o, c)
         \/ LateTxRead(o, c)
         \/ FailureRead(o, c)
         \/ FailureTxRead(o, c)
  PROVE  Reads(o, c)
<1> DEFINE old == calls[o][c]
<1>0. /\ CallFits(o, old) /\ old \in Call
      /\ ~ At(o, c, "idle") => Placed(o)
  BY WhatHolds DEF At, CallFits
<1>1. CASE VerifyRead(o, c)
  <2>1. PICK n \in transactions[o] : Goto(o, c, [Idle EXCEPT !.at = "check_status", !.attempt = n])
    BY <1>1 DEF VerifyRead, LatestTransactions
  <2> DEFINE call == [Idle EXCEPT !.at = "check_status", !.attempt = n]
  <2>2. Placed(o) /\ n \in 1 .. Len(attempts[o]) /\ n \in 0 .. MaxAttempts
    <3>1. /\ transactions[o] \subseteq 1 .. Len(attempts[o])
          /\ Len(attempts[o]) \in 0 .. MaxAttempts
      BY WhatHolds
    <3>2. n \in 0 .. MaxAttempts
      BY <3>1, AttemptBound
    <3> QED
      BY <1>1, <3>1, <3>2, WhatHolds DEF VerifyRead, Starts, OrderFits, Started
  <2>3. call \in Call /\ call.at = "check_status" /\ call.attempt = n
    <3>1. Idle \in Call /\ "check_status" \in Point
      BY IdleFits DEF Point
    <3> QED
      BY <2>2, <3>1 DEF Call
  <2>4. CallFits(o, call) /\ ~ Opens(call)
    BY <1>1, <2>2, <2>3 DEF VerifyRead, CallFits, ForAttempt, HasPaid, Opens
  <2> QED
    BY <1>1, <2>1, <2>2, <2>3, <2>4, GoesOnRead DEF VerifyRead
<1>2. CASE CheckStatus(o, c)
  <2> DEFINE answer == gateway[o][old.attempt]
  <2>1. old.attempt \in 1 .. Len(attempts[o]) /\ Online(o) /\ Placed(o)
    BY <1>0, <1>2 DEF CheckStatus, At, CallFits, ForAttempt
  <2>2. answer \in GatewayState
    <3>1. old.attempt \in 1 .. MaxAttempts
      BY <2>1, WhatHolds, AttemptBound
    <3> QED
      BY <3>1, WhatHolds
  <2>3. "confirm_read" \in ReadPoints /\ "failure_read" \in ReadPoints
    BY DEF ReadPoints, Point
  <2>4. CASE answer \in {"PAID", "MISPAID"} /\ Goto(o, c, [old EXCEPT !.at = "confirm_read", !.answer = answer])
    <3>1. MayBeAt(o, c, "confirm_read", answer)
      BY <2>1, <2>4 DEF MayBeAt, CallFits, ForAttempt, HasPaid, Opens
    <3> QED
      BY <1>2, <2>1, <2>2, <2>3, <2>4, <3>1, AnswerReads DEF CheckStatus
  <2>5. CASE /\ answer \in {"FAILED", "EXPIRED", "USER_DROPPED"}
             /\ Goto(o, c, [old EXCEPT !.at = "failure_read", !.answer = answer])
    <3>1. MayBeAt(o, c, "failure_read", answer)
      BY <2>1, <2>5 DEF MayBeAt, CallFits, ForAttempt, HasPaid, Opens
    <3> QED
      BY <1>2, <2>1, <2>2, <2>3, <2>5, <3>1, AnswerReads DEF CheckStatus
  <2>6. CASE Done(o, c)
    BY <1>2, <2>1, <2>6, EndsRead DEF CheckStatus
  <2> QED
    BY <1>2, <2>4, <2>5, <2>6 DEF CheckStatus
<1>3. CASE ConfirmRead(o, c)
  <2>1. /\ Placed(o) /\ Online(o) /\ old.attempt \in 1 .. Len(attempts[o])
        /\ UNCHANGED <<stock, payments, orders, attempts, transactions, gateway>>
        /\ old.answer \in {"PAID", "MISPAID"} /\ gateway[o][old.attempt] = old.answer
    BY <1>0, <1>3 DEF ConfirmRead, At, CallFits, ForAttempt
  <2>2. ASSUME NEW codes \in SUBSET DriftCode, Done(o, c), runs' = [runs EXCEPT ![o] = @ \cup codes]
        PROVE  Reads(o, c)
    <3>1. RunsGrow(o)
      BY <2>2 DEF RunsGrow, OrdersInv, TypeOK
    <3> QED
      BY <2>1, <2>2, <3>1, IdleFits DEF Reads, Done
  <2>3. ASSUME NEW point \in {"late_tx_read", "confirm_tx_read"}, Step(o, c, point),
               UNCHANGED runs, old.answer # "MISPAID"
        PROVE  Reads(o, c)
    <3>1. UNCHANGED <<stock, books, gateway>>
      BY <2>1, <2>3 DEF books
    <3>2. MayBeAt(o, c, point, old.answer) /\ point \in ReadPoints
      BY <2>1, <2>3 DEF MayBeAt, ReadPoints, Point, CallFits, ForAttempt, HasPaid, Opens
    <3> QED
      BY <2>1, <2>3, <3>1, <3>2, StepReads
  <2>4. \/ /\ Done(o, c)
           /\ \E codes \in SUBSET DriftCode : runs' = [runs EXCEPT ![o] = @ \cup codes]
        \/ /\ Step(o, c, "late_tx_read") \/ Step(o, c, "confirm_tx_read")
           /\ UNCHANGED runs /\ old.answer # "MISPAID"
    <3> DEFINE Ends(codes) == Done(o, c) /\ runs' = [runs EXCEPT ![o] = @ \cup codes]
    <3>1. \/ Ends({"DUPLICATE_SUCCESS"}) \/ Ends({}) \/ Ends({"AMOUNT_MISMATCH"})
          \/ /\ Step(o, c, "late_tx_read") \/ Step(o, c, "confirm_tx_read")
             /\ UNCHANGED runs /\ old.answer # "MISPAID"
      BY <1>3 DEF ConfirmRead
    <3>2. {"DUPLICATE_SUCCESS"} \subseteq DriftCode /\ {"AMOUNT_MISMATCH"} \subseteq DriftCode
      BY DEF DriftCode
    <3> QED
      BY <3>1, <3>2
  <2> QED
    BY <2>2, <2>3, <2>4
<1>4. CASE ConfirmTxRead(o, c)
  <2>1. MayBeAt(o, c, "confirm_commit", old.answer) /\ Placed(o) /\ "confirm_commit" \in ReadPoints
    BY <1>0, <1>4 DEF ConfirmTxRead, At, MayBeAt, ReadPoints, Point, CallFits, ForAttempt, HasPaid, Opens
  <2> QED
    BY <1>4, <2>1, StatusReads, EndsRead DEF ConfirmTxRead
<1>5. CASE LateTxRead(o, c)
  <2>1. CASE payments[o].status \in {"FAILED", "EXPIRED"}
    <3>1. NothingHeld(o)
      BY <2>1 DEF OrdersInv, OrderFits, Closed
    <3>2. MayBeAt(o, c, "late_commit", old.answer) /\ Placed(o) /\ "late_commit" \in ReadPoints
      BY <1>0, <1>5, <3>1
         DEF LateTxRead, At, MayBeAt, ReadPoints, Point, CallFits, ForAttempt, HasPaid, Opens
    <3> QED
      BY <1>5, <2>1, <3>2, StatusReads DEF LateTxRead
  <2> QED
    BY <1>0, <1>5, <2>1, EndsRead DEF LateTxRead, At
<1>6. CASE FailureRead(o, c)
  <2>1. MayBeAt(o, c, "failure_tx_read", old.answer) /\ Placed(o) /\ "failure_tx_read" \in ReadPoints
    BY <1>0, <1>6 DEF FailureRead, At, MayBeAt, ReadPoints, Point, CallFits, ForAttempt, HasPaid, Opens
  <2> QED
    BY <1>6, <2>1, StepReads, EndsRead DEF FailureRead
<1>7. CASE FailureTxRead(o, c)
  <2>1. MayBeAt(o, c, "failure_commit", old.answer) /\ Placed(o) /\ "failure_commit" \in ReadPoints
    BY <1>0, <1>7 DEF FailureTxRead, At, MayBeAt, ReadPoints, Point, CallFits, ForAttempt, HasPaid, Opens
  <2> QED
    BY <1>7, <2>1, StatusReads, EndsRead DEF FailureTxRead
<1> QED
  BY <1>1, <1>2, <1>3, <1>4, <1>5, <1>6, <1>7

LEMMA OrderReads ==
  ASSUME OrdersInv, NEW o \in Orders, NEW c \in Calls,
         \/ RetryRead(o, c)
         \/ RetryCount(o, c)
         \/ CancelRead(o, c)
         \/ PackRead(o, c)
         \/ RefundReviewRead(o, c)
         \/ ReadSecondRow(o, c)
         \/ Abandon(o, c)
  PROVE  Reads(o, c)
<1> DEFINE old == calls[o][c]
<1>0. /\ CallFits(o, old) /\ old \in Call /\ OrderFits(o)
      /\ ~ At(o, c, "idle") => Placed(o)
      /\ Starts(o, c) => Placed(o)
  <2>1. CallFits(o, old) /\ old \in Call /\ OrderFits(o)
    BY WhatHolds
  <2> QED
    BY <2>1 DEF At, CallFits, Starts, OrderFits, Started
<1>1. CASE RetryRead(o, c)
  <2>1. MayBeAt(o, c, "retry_count", old.answer) /\ Placed(o) /\ "retry_count" \in ReadPoints
    BY <1>0, <1>1 DEF RetryRead, MayBeAt, ReadPoints, Point, CallFits, ForAttempt, HasPaid, Opens
  <2> QED
    BY <1>1, <2>1, StatusReads DEF RetryRead
<1>2. CASE RetryCount(o, c)
  <2> DEFINE call == [old EXCEPT !.at = "retry_commit", !.attempt = Len(attempts[o]) + 1]
  <2>1. Placed(o) /\ Len(attempts[o]) + 1 \in 0 .. MaxAttempts
    <3>1. Len(attempts[o]) \in 0 .. MaxAttempts
      BY WhatHolds
    <3> QED
      BY <1>0, <1>2, <3>1, AttemptBound DEF RetryCount, At
  <2>2. call \in Call /\ call.at = "retry_commit"
    BY <1>0, <2>1 DEF Call, Point
  <2>3. CallFits(o, call) /\ ~ Opens(call)
    BY <2>1, <2>2 DEF CallFits, ForAttempt, HasPaid, Opens
  <2> QED
    BY <1>2, <2>1, <2>2, <2>3, GoesOnRead DEF RetryCount
<1>3. CASE CancelRead(o, c)
  <2>1. MayBeAt(o, c, "cancel_commit", old.answer) /\ Placed(o) /\ "cancel_commit" \in ReadPoints
    BY <1>0, <1>3 DEF CancelRead, MayBeAt, ReadPoints, Point, CallFits, ForAttempt, HasPaid, Opens
  <2> QED
    BY <1>3, <2>1, StatusReads DEF CancelRead
<1>4. CASE PackRead(o, c)
  <2>1. Sold(o)
    BY <1>0, <1>4 DEF PackRead, OrderFits, Owns, Delivering
  <2>2. MayBeAt(o, c, "pack_commit", old.answer) /\ Placed(o) /\ "pack_commit" \in ReadPoints
    BY <1>0, <1>4, <2>1 DEF PackRead, MayBeAt, ReadPoints, Point, CallFits, ForAttempt, HasPaid, Opens
  <2> QED
    BY <1>4, <2>2, StatusReads DEF PackRead
<1>5. CASE RefundReviewRead(o, c)
  <2>1. Sold(o)
    BY <1>0, <1>5 DEF RefundReviewRead, OrderFits, Owns, Delivering
  <2>2. MayBeAt(o, c, "refund_review_commit", old.answer) /\ Placed(o) /\ "refund_review_commit" \in ReadPoints
    BY <1>0, <1>5, <2>1
       DEF RefundReviewRead, MayBeAt, ReadPoints, Point, CallFits, ForAttempt, HasPaid, Opens
  <2> QED
    BY <1>5, <2>2, StatusReads DEF RefundReviewRead
<1>6. CASE ReadSecondRow(o, c)
  <2> DEFINE later == IF At(o, c, "cancel_commit") THEN [old EXCEPT !.payment = payments[o].status]
                      ELSE [old EXCEPT !.order = orders[o].status]
  <2>1. Placed(o) /\ Goto(o, c, later) /\ UNCHANGED <<stock, books, gateway>> /\ ~ Opens(old)
    BY <1>0, <1>6 DEF ReadSecondRow, At, Opens
  <2>2. /\ payments[o].status \in PaymentStatus \cup {"NONE"}
        /\ orders[o].status \in OrderStatus \cup {"NONE"}
    BY WhatHolds DEF PaymentRow, OrderRow
  <2>3. later \in Call /\ later.at = old.at /\ later.attempt = old.attempt /\ later.answer = old.answer
    BY <1>0, <2>2 DEF Call
  <2>4. CallFits(o, later) /\ ~ Opens(later)
    BY <1>0, <2>1, <2>3 DEF CallFits, Opens
  <2> QED
    BY <2>1, <2>3, <2>4, GoesOnRead
<1>7. CASE Abandon(o, c)
  BY <1>0, <1>7, EndsRead DEF Abandon
<1> QED
  BY <1>1, <1>2, <1>3, <1>4, <1>5, <1>6, <1>7

(* The gateway's answers to a call that opens a page, and the reply to the *)
(* customer, who then has it.                                              *)
LEMMA PageSteps ==
  ASSUME OrdersInv, NEW o \in Orders, NEW c \in Calls,
         GatewayCreates(o, c) \/ GatewayErrs(o, c) \/ SessionReply(o, c)
  PROVE  OrdersInv'
<1> DEFINE old == calls[o][c]
           n == old.attempt
<1>1. /\ CallFits(o, old) /\ old \in Call /\ gateway \in [Orders -> [1 .. MaxAttempts -> GatewayState]]
      /\ Len(attempts[o]) \in 0 .. MaxAttempts
  BY WhatHolds DEF OrdersInv, TypeOK
<1>2. old.at \in {"create_payment", "retry_payment", "session_reply"}
  BY DEF GatewayCreates, GatewayErrs, SessionReply, At
<1>3. Placed(o) /\ n \in 1 .. Len(attempts[o]) /\ n \in 1 .. MaxAttempts
  <2>1. Placed(o) /\ n \in 1 .. Len(attempts[o])
    BY <1>1, <1>2 DEF CallFits, ForAttempt
  <2> QED
    BY <1>1, <2>1, AttemptBound
<1>4. UNCHANGED <<stock, payments, orders, attempts, transactions>> /\ RunsGrow(o)
  BY DEF GatewayCreates, GatewayErrs, SessionReply, books, RunsGrow, OrdersInv, TypeOK
<1>5. PagesKept(o, c)
  <2>1. CASE GatewayCreates(o, c)
    <3>1. gateway[o][n] = "NONE" /\ Opens(old)
      BY <1>1, <2>1 DEF GatewayCreates, CallFits, Opens
    <3> QED
      BY <1>1, <1>3, <2>1, <3>1 DEF GatewayCreates, PagesKept, GatewayState
  <2>2. CASE GatewayErrs(o, c)
    <3>1. gateway[o][n] = "NONE" /\ Opens(old)
      BY <1>1, <2>2 DEF GatewayErrs, CallFits, Opens
    <3>2. gateway' = gateway \/ gateway' = [gateway EXCEPT ![o][n] = "CREATED"]
      BY <2>2 DEF GatewayErrs
    <3>3. CASE gateway' = gateway
      BY <1>1, <3>3 DEF PagesKept
    <3>4. CASE gateway' = [gateway EXCEPT ![o][n] = "CREATED"]
      BY <1>1, <1>3, <3>1, <3>4 DEF PagesKept, GatewayState
    <3> QED
      BY <3>2, <3>3, <3>4
  <2>3. CASE SessionReply(o, c)
    BY <1>1, <1>3, <2>3 DEF SessionReply, PagesKept, GatewayState
  <2> QED
    BY <2>1, <2>2, <2>3
<1>6. \E call \in Call : /\ Goto(o, c, call)
                         /\ call.at \in {"session_read", "retry_session", "error_read", "idle"}
                         /\ call.attempt = n \/ call.at = "idle"
  <2>1. CASE GatewayCreates(o, c)
    <3>1. ASSUME NEW point \in {"session_read", "retry_session"}
          PROVE  LET call == [old EXCEPT !.at = point]
                 IN  call \in Call /\ call.at = point /\ call.attempt = n
      BY <1>1 DEF Call, Point
    <3> QED
      BY <2>1, <3>1 DEF GatewayCreates, Step
  <2>2. CASE GatewayErrs(o, c)
    <3>1. ASSUME NEW answer \in {"REJECTED", "UNKNOWN"}
          PROVE  LET call == [old EXCEPT !.at = "error_read", !.answer = answer]
                 IN  call \in Call /\ call.at = "error_read" /\ call.attempt = n
      <4>1. "error_read" \in Point /\ answer \in GatewayState \cup {"UNKNOWN", "REJECTED"}
        BY DEF Point
      <4> QED
        BY <1>1, <4>1 DEF Call
    <3>2. \/ Goto(o, c, Idle)
          \/ \E answer \in {"REJECTED", "UNKNOWN"} :
               Goto(o, c, [old EXCEPT !.at = "error_read", !.answer = answer])
      BY <2>2 DEF GatewayErrs, Done
    <3> QED
      BY <3>1, <3>2, IdleFits DEF Idle
  <2>3. CASE SessionReply(o, c)
    BY <2>3, IdleFits DEF SessionReply, Done, Idle
  <2> QED
    BY <2>1, <2>2, <2>3
<1>7. PICK call \in Call : /\ Goto(o, c, call)
                           /\ call.at \in {"session_read", "retry_session", "error_read", "idle"}
                           /\ call.attempt = n \/ call.at = "idle"
  BY <1>6
<1>8. StockKept(o)
  BY <1>4, StockUnchanged
<1>9. CallFits(o, call)' /\ ~ Opens(call)
  BY <1>3, <1>4, <1>7, <1>8 DEF CallFits, StockKept, ForAttempt, HasPaid, Opens
<1> QED
  BY <1>3, <1>4, <1>5, <1>7, <1>9, BooksKept

-----------------------------------------------------------------------------
AttemptsSettled(o) ==
  /\ attempts' \in [Orders -> Seq(AttemptStatus)]
  /\ Len(attempts'[o]) = Len(attempts[o])
  /\ \A p \in Orders \ {o} : attempts'[p] = attempts[p]

LEMMA UnwrittenRows ==
  ASSUME OrdersInv, NEW o \in Orders
  PROVE  /\ UNCHANGED payments => PaymentWritten(o)
         /\ UNCHANGED orders => OrderWritten(o)
         /\ UNCHANGED attempts => AttemptsSettled(o)
         /\ UNCHANGED runs => RunsGrow(o)
         /\ \A code \in DriftCode : runs' = [runs EXCEPT ![o] = @ \cup {code}] =>
              RunsGrow(o) /\ code \in runs'[o]
BY DEF OrdersInv, TypeOK, PaymentRow, OrderRow, PaymentWritten, OrderWritten, AttemptsSettled, RunsGrow

LEMMA SettledAttempts ==
  ASSUME OrdersInv, NEW o \in Orders, NEW S, NEW status \in AttemptStatus,
         attempts' = [attempts EXCEPT ![o] = AttemptsIn(o, S, status)]
  PROVE  AttemptsSettled(o)
BY AttemptsInKeeps DEF OrdersInv, TypeOK, AttemptsSettled

(* A commit that ends its call, adds no attempt and leaves the gateway to  *)
(* itself preserves the invariant when the rows agree afterwards.          *)
LEMMA CommitKeeps ==
  ASSUME OrdersInv, NEW o \in Orders, NEW c \in Calls, ~ At(o, c, "idle"), Done(o, c),
         UNCHANGED <<transactions, gateway>>, StockGoesOn(o),
         PaymentWritten(o), OrderWritten(o), AttemptsSettled(o), RunsGrow(o),
         Owns(o)', Closed(o)', Money(o)', Review(o)', Owed(o)'
  PROVE  OrdersInv'
<1>1. Placed(o)'
  BY WhatHolds DEF At, CallFits, StockGoesOn
<1>2. WritesOnly(o)
  <2>1. Len(attempts[o]) \in 0 .. MaxAttempts /\ transactions[o] \subseteq 1 .. Len(attempts[o])
        /\ transactions \in [Orders -> SUBSET (1 .. MaxAttempts)]
    BY WhatHolds DEF OrdersInv, TypeOK
  <2> QED
    BY <2>1, AttemptBound
       DEF WritesOnly, PaymentWritten, OrderWritten, AttemptsSettled, RunsGrow
<1>3. PagesKept(o, c)
  BY DEF PagesKept, OrdersInv, TypeOK
<1>4. Idle \in Call /\ ~ Opens(Idle)
  BY IdleFits
<1>5. CallFits(o, Idle)'
  BY DEF Idle, CallFits, Opens, HasPaid, ForAttempt
<1> QED
  BY <1>1, <1>2, <1>3, <1>4, <1>5, StepKeeps DEF Done

LEMMA SameStockGoesOn ==
  ASSUME OrdersInv, UNCHANGED stock, NEW o \in Orders
  PROVE  /\ StockGoesOn(o) /\ StockKept(o)
         /\ (Placed(o)' <=> Placed(o)) /\ (Sold(o)' <=> Sold(o))
         /\ NothingHeld(o) => NothingHeld(o)'
BY StockUnchanged, KeptMeans DEF StockGoesOn, StockKept

LEMMA ReleaseGoesOn ==
  ASSUME OrdersInv, NEW o \in Orders, NEW reason \in ReleaseReasons, ReleaseStock(o, reason)
  PROVE  /\ StockGoesOn(o) /\ StockKept(o) /\ NothingHeld(o)'
         /\ (Sold(o)' <=> Sold(o))
BY ReleaseFits, KeptMeans DEF StockGoesOn, StockKept

LEMMA ConfirmGoesOn ==
  ASSUME OrdersInv, NEW o \in Orders, Online(o), NEW answers, "NONE" \notin answers,
         StockConfirms(o, answers)
  PROVE  /\ StockGoesOn(o) /\ StockFits(o)'
         /\ operations'[<<"confirm", o>>] \in answers
         /\ operations[<<"confirm", o>>] \in answers \cup {"NONE"}
         /\ (Sold(o) => Sold(o)') /\ (NothingHeld(o) => NothingHeld(o)')
<1>1. operations[<<"confirm", o>>] \in answers \cup {"NONE"}
  BY DEF StockConfirms, Stock!ConfirmOrderStock, Stock!Unclaimed
<1> QED
  BY <1>1, ConfirmFits DEF StockGoesOn

LEMMA CreateFailedKeeps ==
  ASSUME OrdersInv, NEW o \in Orders, NEW c \in Calls, CreateFailed(o, c)
  PROVE  OrdersInv'
<1>1. /\ TypeOK /\ OrderFits(o) /\ payments[o].gatewayId \in 0 .. MaxAttempts
      /\ orders[o].paymentStatus \in PaymentStatus \cup {"NONE"}
  BY WhatHolds DEF PaymentRow, OrderRow
<1>2. StockGoesOn(o) /\ StockKept(o) /\ NothingHeld(o)' /\ (Sold(o)' <=> Sold(o))
  BY ReleaseGoesOn DEF CreateFailed, ReleaseReasons
<1>3. /\ PaymentWritten(o) /\ payments'[o].gatewayId = payments[o].gatewayId
      /\ payments'[o].status \in {payments[o].status, "FAILED"}
  <2>1. PaymentMoves(o, calls[o][c].payment, "FAILED", payments[o].gatewayId)
    BY DEF CreateFailed
  <2>2. "FAILED" \in PaymentStatus /\ payments[o].gatewayId \in 0 .. MaxAttempts
    BY <1>1, AttemptBound DEF PaymentStatus
  <2> QED
    BY <1>1, <2>1, <2>2, PaymentMovesTo
<1>4. /\ OrderWritten(o) /\ orders'[o].paymentStatus = orders[o].paymentStatus
      /\ orders'[o].status \in {orders[o].status, "PAYMENT_FAILED"}
  <2>1. OrderMoves(o, calls[o][c].order, "PAYMENT_FAILED", orders[o].paymentStatus)
    BY DEF CreateFailed
  <2>2. "PAYMENT_FAILED" \in OrderStatus /\ orders[o].paymentStatus \in PaymentStatus \cup {"NONE"}
    BY <1>1 DEF OrderStatus, PaymentStatus
  <2> QED
    BY <1>1, <2>1, <2>2, OrderMovesTo
<1>5. AttemptsSettled(o) /\ RunsGrow(o)
  BY SettledAttempts, UnwrittenRows DEF CreateFailed, AttemptStatus
<1>6. Owns(o)' /\ Closed(o)'
  BY <1>1, <1>2, <1>3, <1>4 DEF OrderFits, Owns, Closed, Delivering
<1>7. Money(o)' /\ Review(o)' /\ Owed(o)'
  BY <1>1, <1>2, <1>3 DEF OrderFits, Money, Review, Owed, StockKept, Online, CreateFailed
<1> QED
  BY <1>2, <1>3, <1>4, <1>5, <1>6, <1>7, CommitKeeps DEF CreateFailed, At

LEMMA CreateUnknownKeeps ==
  ASSUME OrdersInv, NEW o \in Orders, NEW c \in Calls, CreateUnknown(o, c)
  PROVE  OrdersInv'
<1>1. TypeOK /\ OrderFits(o) /\ payments[o].gatewayId \in 0 .. MaxAttempts
  BY WhatHolds DEF PaymentRow
<1>2. StockGoesOn(o) /\ StockKept(o) /\ (Sold(o)' <=> Sold(o)) /\ (NothingHeld(o) => NothingHeld(o)')
  BY SameStockGoesOn DEF CreateUnknown
<1>3. /\ PaymentWritten(o) /\ payments'[o].gatewayId = payments[o].gatewayId
      /\ payments'[o].status \in {payments[o].status, "UNKNOWN_GATEWAY"}
  <2>1. PaymentMoves(o, calls[o][c].payment, "UNKNOWN_GATEWAY", payments[o].gatewayId)
    BY DEF CreateUnknown
  <2>2. "UNKNOWN_GATEWAY" \in PaymentStatus /\ payments[o].gatewayId \in 0 .. MaxAttempts
    BY <1>1, AttemptBound DEF PaymentStatus
  <2> QED
    BY <1>1, <2>1, <2>2, PaymentMovesTo
<1>4. AttemptsSettled(o) /\ RunsGrow(o) /\ OrderWritten(o)
  BY SettledAttempts, UnwrittenRows DEF CreateUnknown, AttemptStatus, DriftCode
<1>5. Owns(o)' /\ Closed(o)'
  BY <1>1, <1>2, <1>3 DEF OrderFits, Owns, Closed, CreateUnknown
<1>6. Money(o)' /\ Review(o)' /\ Owed(o)'
  BY <1>1, <1>2, <1>3, <1>4
     DEF OrderFits, Money, Review, Owed, StockKept, Online, CreateUnknown, RunsGrow
<1> QED
  BY <1>2, <1>3, <1>4, <1>5, <1>6, CommitKeeps DEF CreateUnknown, At

(* What was sold is confirmed: the payment that becomes PAID owns it.      *)
LEMMA ConfirmPaidKeeps ==
  ASSUME OrdersInv, NEW o \in Orders, NEW c \in Calls, ConfirmPaid(o, c)
  PROVE  OrdersInv'
<1> DEFINE call == calls[o][c]
           answers == {"CONFIRMED", "ALREADY_CONFIRMED"}
<1>1. /\ TypeOK /\ OrderFits(o) /\ orders[o] \in OrderRow /\ Online(o)
      /\ call.attempt \in 1 .. MaxAttempts /\ gateway[o][call.attempt] = "PAID"
  <2>1. CallFits(o, call) /\ Len(attempts[o]) \in 0 .. MaxAttempts
    BY WhatHolds
  <2>2. Online(o) /\ call.attempt \in 1 .. Len(attempts[o]) /\ gateway[o][call.attempt] = "PAID"
    BY <2>1 DEF ConfirmPaid, At, CallFits, ForAttempt, HasPaid
  <2>3. call.attempt \in 1 .. MaxAttempts
    BY <2>1, <2>2, AttemptBound
  <2> QED
    BY <2>2, <2>3, WhatHolds
<1>2. /\ StockGoesOn(o) /\ StockFits(o)' /\ (NothingHeld(o) => NothingHeld(o)')
      /\ operations'[<<"confirm", o>>] \in answers
      /\ operations[<<"confirm", o>>] \in answers \cup {"NONE"}
  BY <1>1, ConfirmGoesOn DEF ConfirmPaid
<1>3. Sold(o)'
  BY <1>2 DEF StockFits
<1>4. /\ PaymentWritten(o) /\ payments'[o].gatewayId = call.attempt
      /\ payments'[o].status \in {payments[o].status, "PAID"}
  <2>1. PaymentMoves(o, call.payment, "PAID", call.attempt)
    BY DEF ConfirmPaid
  <2>2. "PAID" \in PaymentStatus /\ call.attempt \in 0 .. MaxAttempts
    BY <1>1, AttemptBound DEF PaymentStatus
  <2> QED
    BY <1>1, <2>1, <2>2, PaymentMovesTo
<1>5. OrderWritten(o) /\ orders'[o].status \in {orders[o].status, "FULFILLMENT_READY"}
  <2>1. orders[o].status \in OrderStatus \cup {"NONE"}
    BY <1>1 DEF OrderRow
  <2>2. /\ OrderWritten(o)
        /\ orders'[o].status = IF call.order = "PENDING_PAYMENT" THEN "FULFILLMENT_READY"
                               ELSE orders[o].status
    BY <1>1, <2>1 DEF ConfirmPaid, OrderWritten, OrderRow, TypeOK, OrderStatus, PaymentStatus
  <2> QED
    BY <2>2
<1>6. AttemptsSettled(o) /\ RunsGrow(o)
  BY SettledAttempts, UnwrittenRows DEF ConfirmPaid, AttemptStatus
<1>7. Owns(o)' /\ Closed(o)'
  BY <1>1, <1>2, <1>3, <1>4, <1>5 DEF OrderFits, Owns, Closed
<1>8. Money(o)' /\ Review(o)'
  BY <1>1, <1>2, <1>4 DEF OrderFits, Money, Review, Online, ConfirmPaid
<1>9. Owed(o)'
  BY <1>1, <1>4 DEF OrderFits, Owed, ConfirmPaid
<1> QED
  BY <1>2, <1>4, <1>5, <1>6, <1>7, <1>8, <1>9, CommitKeeps DEF ConfirmPaid, At

LEMMA ConfirmNeedsReviewKeeps ==
  ASSUME OrdersInv, NEW o \in Orders, NEW c \in Calls, ConfirmNeedsReview(o, c)
  PROVE  OrdersInv'
<1> DEFINE call == calls[o][c]
           review == "INVENTORY_CONFIRMATION_REQUIRES_REVIEW"
<1>1. /\ TypeOK /\ OrderFits(o) /\ Online(o)
      /\ call.attempt \in 1 .. MaxAttempts /\ gateway[o][call.attempt] = "PAID"
  <2>1. CallFits(o, call) /\ Len(attempts[o]) \in 0 .. MaxAttempts
    BY WhatHolds
  <2>2. Online(o) /\ call.attempt \in 1 .. Len(attempts[o]) /\ gateway[o][call.attempt] = "PAID"
    BY <2>1 DEF ConfirmNeedsReview, At, CallFits, ForAttempt, HasPaid
  <2>3. call.attempt \in 1 .. MaxAttempts
    BY <2>1, <2>2, AttemptBound
  <2> QED
    BY <2>2, <2>3, WhatHolds
<1>2. /\ StockGoesOn(o) /\ (Sold(o) => Sold(o)') /\ (NothingHeld(o) => NothingHeld(o)')
      /\ operations'[<<"confirm", o>>] = "REQUIRES_REVIEW"
  BY <1>1, ConfirmGoesOn DEF ConfirmNeedsReview
<1>3. /\ PaymentWritten(o) /\ payments'[o].gatewayId = call.attempt
      /\ payments'[o].status \in {payments[o].status, review}
  <2>1. PaymentMoves(o, call.payment, review, call.attempt)
    BY DEF ConfirmNeedsReview
  <2>2. review \in PaymentStatus /\ call.attempt \in 0 .. MaxAttempts
    BY <1>1, AttemptBound DEF PaymentStatus
  <2> QED
    BY <1>1, <2>1, <2>2, PaymentMovesTo
<1>4. /\ OrderWritten(o) /\ orders'[o].paymentStatus = review
      /\ orders'[o].status \in {orders[o].status, review}
  <2>1. OrderMoves(o, call.order, review, review)
    BY DEF ConfirmNeedsReview
  <2>2. review \in OrderStatus /\ review \in PaymentStatus \cup {"NONE"}
    BY <1>1 DEF OrderStatus, PaymentStatus
  <2> QED
    BY <1>1, <2>1, <2>2, OrderMovesTo
<1>5. AttemptsSettled(o) /\ RunsGrow(o)
  BY SettledAttempts, UnwrittenRows DEF ConfirmNeedsReview, AttemptStatus, DriftCode
<1>6. Owns(o)' /\ Closed(o)'
  BY <1>1, <1>2, <1>3, <1>4 DEF OrderFits, Owns, Closed, Delivering
<1>7. Money(o)' /\ Review(o)'
  BY <1>1, <1>2, <1>3 DEF OrderFits, Money, Review, Online, ConfirmNeedsReview
<1>8. Owed(o)'
  BY <1>1, <1>3, <1>5 DEF OrderFits, Owed, RunsGrow, ConfirmNeedsReview
<1> QED
  BY <1>2, <1>3, <1>4, <1>5, <1>6, <1>7, <1>8, CommitKeeps DEF ConfirmNeedsReview, At

(* A payment that comes too late is owed back, and its units are free.     *)
LEMMA LateCommitKeeps ==
  ASSUME OrdersInv, NEW o \in Orders, NEW c \in Calls, LateCommit(o, c)
  PROVE  OrdersInv'
<1> DEFINE call == calls[o][c]
           owed == "DUPLICATE_SUCCESS_REQUIRES_REFUND"
<1>1. /\ TypeOK /\ OrderFits(o) /\ orders[o] \in OrderRow /\ NothingHeld(o)
      /\ call.attempt \in 1 .. MaxAttempts /\ gateway[o][call.attempt] = "PAID"
  <2>1. CallFits(o, call) /\ Len(attempts[o]) \in 0 .. MaxAttempts
    BY WhatHolds
  <2>2. NothingHeld(o) /\ call.attempt \in 1 .. Len(attempts[o]) /\ gateway[o][call.attempt] = "PAID"
    BY <2>1 DEF LateCommit, At, CallFits, ForAttempt, HasPaid
  <2>3. call.attempt \in 1 .. MaxAttempts
    BY <2>1, <2>2, AttemptBound
  <2> QED
    BY <2>2, <2>3, WhatHolds
<1>2. StockGoesOn(o) /\ StockKept(o) /\ (Sold(o)' <=> Sold(o)) /\ NothingHeld(o)'
  BY <1>1, SameStockGoesOn DEF LateCommit
<1>3. /\ PaymentWritten(o) /\ payments'[o].gatewayId = call.attempt
      /\ payments'[o].status \in {payments[o].status, owed}
  <2>1. PaymentMoves(o, call.payment, owed, call.attempt)
    BY DEF LateCommit
  <2>2. owed \in PaymentStatus /\ call.attempt \in 0 .. MaxAttempts
    BY <1>1, AttemptBound DEF PaymentStatus
  <2> QED
    BY <1>1, <2>1, <2>2, PaymentMovesTo
<1>4. OrderWritten(o) /\ orders'[o].status = orders[o].status /\ orders'[o].paymentStatus = owed
  BY <1>1 DEF LateCommit, OrderWritten, OrderRow, TypeOK, PaymentStatus
<1>5. /\ AttemptsSettled(o) /\ RunsGrow(o)
      /\ "LATE_SUCCESS_AFTER_RELEASED_TERMINAL_STATE" \in runs'[o]
  BY SettledAttempts, UnwrittenRows DEF LateCommit, AttemptStatus, DriftCode
<1>6. Owns(o)' /\ Closed(o)'
  BY <1>1, <1>2, <1>3, <1>4 DEF OrderFits, Owns, Closed
<1>7. Money(o)' /\ Review(o)'
  BY <1>1, <1>2, <1>3 DEF OrderFits, Money, Review, StockKept, Online, LateCommit
<1>8. Owed(o)'
  BY <1>1, <1>3, <1>5 DEF Owed, LateCommit
<1> QED
  BY <1>2, <1>3, <1>4, <1>5, <1>6, <1>7, <1>8, CommitKeeps DEF LateCommit, At

(* A payment that failed or expired gives its units back; a user who has   *)
(* only left keeps them.                                                   *)
LEMMA FailureCommitKeeps ==
  ASSUME OrdersInv, NEW o \in Orders, NEW c \in Calls, FailureCommit(o, c)
  PROVE  OrdersInv'
<1> DEFINE call == calls[o][c]
<1>1. /\ TypeOK /\ OrderFits(o) /\ orders[o] \in OrderRow
      /\ payments[o].gatewayId \in 0 .. MaxAttempts
      /\ call.answer \in {"FAILED", "EXPIRED", "USER_DROPPED"}
  BY WhatHolds DEF FailureCommit, At, CallFits, PaymentRow
<1>2. /\ PaymentWritten(o) /\ payments'[o].gatewayId = payments[o].gatewayId
      /\ payments'[o].status \in {payments[o].status, call.answer}
  <2>1. PaymentMoves(o, call.payment, call.answer, payments[o].gatewayId)
    BY DEF FailureCommit
  <2>2. call.answer \in PaymentStatus
    BY <1>1 DEF PaymentStatus
  <2> QED
    BY <1>1, <2>1, <2>2, PaymentMovesTo
<1>3. AttemptsSettled(o) /\ RunsGrow(o) /\ UNCHANGED <<transactions, gateway>>
  <2>1. call.answer \in AttemptStatus
    BY <1>1 DEF AttemptStatus
  <2> QED
    BY <2>1, SettledAttempts, UnwrittenRows DEF FailureCommit
<1>4. ASSUME NEW to \in {"FAILED", "EXPIRED"}, NEW status \in {"PAYMENT_FAILED", "EXPIRED"},
             NEW reason \in {"payment_failed", "payment_expired"},
             ReleaseStock(o, reason), OrderMoves(o, call.order, status, to)
      PROVE  OrdersInv'
  <2>1. StockGoesOn(o) /\ StockKept(o) /\ NothingHeld(o)' /\ (Sold(o)' <=> Sold(o))
    BY <1>4, ReleaseGoesOn DEF ReleaseReasons
  <2>2. OrderWritten(o) /\ orders'[o].paymentStatus = to /\ orders'[o].status \in {orders[o].status, status}
    <3>1. status \in OrderStatus /\ to \in PaymentStatus \cup {"NONE"}
      BY DEF OrderStatus, PaymentStatus
    <3> QED
      BY <1>1, <1>4, <3>1, OrderMovesTo
  <2>3. Owns(o)' /\ Closed(o)'
    BY <1>1, <1>2, <2>1, <2>2 DEF OrderFits, Owns, Closed, Delivering
  <2>4. Money(o)' /\ Review(o)' /\ Owed(o)'
    BY <1>1, <1>2, <1>3, <2>1 DEF OrderFits, Money, Review, Owed, StockKept, Online, RunsGrow
  <2> QED
    BY <1>2, <1>3, <2>1, <2>2, <2>3, <2>4, CommitKeeps DEF FailureCommit, At
<1>5. CASE call.answer = "USER_DROPPED" /\ UNCHANGED <<stock, orders>>
  <2>1. StockGoesOn(o) /\ StockKept(o) /\ (Sold(o)' <=> Sold(o)) /\ (NothingHeld(o) => NothingHeld(o)')
    BY <1>5, SameStockGoesOn
  <2>2. OrderWritten(o)
    BY <1>5, UnwrittenRows
  <2>3. Owns(o)' /\ Closed(o)'
    BY <1>1, <1>2, <1>5, <2>1 DEF OrderFits, Owns, Closed
  <2>4. Money(o)' /\ Review(o)' /\ Owed(o)'
    BY <1>1, <1>2, <1>3, <1>5, <2>1 DEF OrderFits, Money, Review, Owed, StockKept, Online, RunsGrow
  <2> QED
    BY <1>2, <1>3, <2>1, <2>2, <2>3, <2>4, CommitKeeps DEF FailureCommit, At
<1> QED
  BY <1>4, <1>5 DEF FailureCommit

LEMMA CancelCommitKeeps ==
  ASSUME OrdersInv, NEW o \in Orders, NEW c \in Calls, CancelCommit(o, c)
  PROVE  OrdersInv'
<1> DEFINE call == calls[o][c]
<1>1. TypeOK /\ OrderFits(o) /\ payments[o].gatewayId \in 0 .. MaxAttempts
  BY WhatHolds DEF PaymentRow
<1>2. StockGoesOn(o) /\ StockKept(o) /\ NothingHeld(o)' /\ (Sold(o)' <=> Sold(o))
  BY ReleaseGoesOn DEF CancelCommit, ReleaseReasons
<1>3. /\ PaymentWritten(o) /\ payments'[o].gatewayId = payments[o].gatewayId
      /\ payments'[o].status \in {payments[o].status, "EXPIRED"}
  <2>1. UNCHANGED payments \/ PaymentMoves(o, call.payment, "EXPIRED", payments[o].gatewayId)
    BY DEF CancelCommit
  <2>2. "EXPIRED" \in PaymentStatus
    BY DEF PaymentStatus
  <2> QED
    BY <1>1, <2>1, <2>2, PaymentMovesTo, UnwrittenRows
<1>4. /\ OrderWritten(o) /\ orders'[o].paymentStatus = "EXPIRED"
      /\ orders'[o].status \in {orders[o].status, "CANCELLED"}
  <2>1. OrderMoves(o, call.order, "CANCELLED", "EXPIRED")
    BY DEF CancelCommit
  <2>2. "CANCELLED" \in OrderStatus /\ "EXPIRED" \in PaymentStatus \cup {"NONE"}
    BY DEF OrderStatus, PaymentStatus
  <2> QED
    BY <1>1, <2>1, <2>2, OrderMovesTo
<1>5. AttemptsSettled(o) /\ RunsGrow(o)
  BY UnwrittenRows DEF CancelCommit
<1>6. Owns(o)' /\ Closed(o)'
  BY <1>1, <1>2, <1>3, <1>4 DEF OrderFits, Owns, Closed, Delivering
<1>7. Money(o)' /\ Review(o)' /\ Owed(o)'
  BY <1>1, <1>2, <1>3 DEF OrderFits, Money, Review, Owed, StockKept, Online, CancelCommit
<1> QED
  BY <1>2, <1>3, <1>4, <1>5, <1>6, <1>7, CommitKeeps DEF CancelCommit, At

(* The merchant's moves rely on the order having been sold when they read. *)
LEMMA MerchantKeeps ==
  ASSUME OrdersInv, NEW o \in Orders, NEW c \in Calls, PackCommit(o, c) \/ RefundReviewCommit(o, c)
  PROVE  OrdersInv'
<1>1. /\ TypeOK /\ OrderFits(o) /\ orders[o] \in OrderRow /\ Sold(o)
      /\ UNCHANGED <<stock, payments, attempts, transactions, runs, gateway>>
      /\ ~ At(o, c, "idle") /\ Done(o, c)
  BY WhatHolds DEF PackCommit, RefundReviewCommit, At, CallFits
<1>2. StockGoesOn(o) /\ StockKept(o) /\ Sold(o)' /\ (NothingHeld(o) => NothingHeld(o)')
  BY <1>1, SameStockGoesOn
<1>3. OrderWritten(o) /\ orders'[o].status \in {orders[o].status, "PACKING", "REFUND_PENDING"}
  <2>1. CASE PackCommit(o, c)
    BY <1>1, <2>1 DEF PackCommit, OrderWritten, OrderRow, TypeOK, OrderStatus
  <2>2. CASE RefundReviewCommit(o, c)
    <3>1. OrderMoves(o, calls[o][c].order, "REFUND_PENDING", orders[o].paymentStatus)
      BY <2>2 DEF RefundReviewCommit
    <3>2. "REFUND_PENDING" \in OrderStatus /\ orders[o].paymentStatus \in PaymentStatus \cup {"NONE"}
      BY <1>1 DEF OrderStatus, OrderRow
    <3> QED
      BY <1>1, <3>1, <3>2, OrderMovesTo
  <2> QED
    BY <2>1, <2>2
<1>4. PaymentWritten(o) /\ AttemptsSettled(o) /\ RunsGrow(o)
  BY <1>1, UnwrittenRows
<1>5. Owns(o)' /\ Closed(o)'
  BY <1>1, <1>2, <1>3 DEF OrderFits, Owns, Closed
<1>6. Money(o)' /\ Review(o)' /\ Owed(o)'
  BY <1>1, <1>2 DEF OrderFits, Money, Review, Owed, StockKept, Online
<1> QED
  BY <1>1, <1>2, <1>3, <1>4, <1>5, <1>6, CommitKeeps

(* markPhonepeSessionCreated writes PENDING_GATEWAY whatever is stored.    *)
LEMMA SessionCommitKeeps ==
  ASSUME OrdersInv, NEW o \in Orders, NEW c \in Calls,
         SessionCommit(o, c) \/ RetrySession(o, c)
  PROVE  OrdersInv'
<1> DEFINE old == calls[o][c]
           n == old.attempt
           call == [old EXCEPT !.at = "session_reply"]
<1>1. /\ TypeOK /\ OrderFits(o) /\ old \in Call /\ Placed(o) /\ n \in 1 .. Len(attempts[o])
      /\ Len(attempts[o]) \in 0 .. MaxAttempts /\ attempts \in [Orders -> Seq(AttemptStatus)]
      /\ transactions \in [Orders -> SUBSET (1 .. MaxAttempts)]
      /\ transactions[o] \subseteq 1 .. Len(attempts[o])
      /\ payments[o].gatewayId \in 0 .. MaxAttempts
  <2>1. CallFits(o, old) /\ payments[o] \in PaymentRow /\ transactions \in [Orders -> SUBSET (1 .. MaxAttempts)]
    BY WhatHolds DEF OrdersInv, TypeOK
  <2>2. Placed(o) /\ n \in 1 .. Len(attempts[o])
    BY <2>1 DEF SessionCommit, RetrySession, At, CallFits, ForAttempt
  <2> QED
    BY <2>1, <2>2, WhatHolds DEF PaymentRow
<1>2. /\ UNCHANGED <<stock, orders, runs, gateway>>
      /\ Goto(o, c, call) /\ ~ At(o, c, "idle")
      /\ attempts' = [attempts EXCEPT ![o] = [attempts[o] EXCEPT ![n] = "PENDING_GATEWAY"]]
      /\ transactions' \in {transactions, [transactions EXCEPT ![o] = @ \cup {n}]}
      /\ \/ UNCHANGED payments
         \/ PaymentMoves(o, "SESSION_CREATED", "PENDING_GATEWAY", payments[o].gatewayId)
  BY DEF SessionCommit, RetrySession, Step, At
<1>3. /\ PaymentWritten(o) /\ payments'[o].gatewayId = payments[o].gatewayId
      /\ payments'[o].status \in {payments[o].status, "PENDING_GATEWAY"}
  <2>1. "PENDING_GATEWAY" \in PaymentStatus
    BY DEF PaymentStatus
  <2> QED
    BY <1>1, <1>2, <2>1, PaymentMovesTo, UnwrittenRows
<1>4. OrderWritten(o) /\ RunsGrow(o) /\ PagesKept(o, c)
  BY <1>2, UnwrittenRows DEF PagesKept, OrdersInv, TypeOK
<1>5. AttemptsSettled(o)
  <2>1. [attempts[o] EXCEPT ![n] = "PENDING_GATEWAY"] \in Seq(AttemptStatus)
    BY <1>1 DEF AttemptStatus
  <2>2. Len([attempts[o] EXCEPT ![n] = "PENDING_GATEWAY"]) = Len(attempts[o])
    BY <1>1
  <2> QED
    BY <1>1, <1>2, <2>1, <2>2 DEF AttemptsSettled
<1>6. /\ transactions' \in [Orders -> SUBSET (1 .. MaxAttempts)]
      /\ transactions'[o] \subseteq 1 .. Len(attempts'[o])
      /\ \A p \in Orders \ {o} : transactions'[p] = transactions[p]
  <2>1. n \in 1 .. MaxAttempts
    BY <1>1, AttemptBound
  <2> QED
    BY <1>1, <1>2, <1>5, <2>1 DEF AttemptsSettled
<1>7. WritesOnly(o)
  BY <1>1, <1>3, <1>4, <1>5, <1>6, AttemptBound
     DEF WritesOnly, PaymentWritten, OrderWritten, RunsGrow, AttemptsSettled
<1>8. /\ StockGoesOn(o) /\ StockKept(o) /\ Placed(o)' /\ (Sold(o)' <=> Sold(o))
      /\ NothingHeld(o) => NothingHeld(o)'
  BY <1>1, <1>2, SameStockGoesOn
<1>9. call \in Call /\ call.at = "session_reply" /\ call.attempt = n
  BY <1>1 DEF Call, Point
<1>10. ASSUME NEW next \in Call, next.at = "session_reply", next.attempt = n
       PROVE  CallFits(o, next)' /\ ~ Opens(next)
  BY <1>1, <1>5, <1>8, <1>10 DEF CallFits, AttemptsSettled, Opens, ForAttempt, HasPaid
<1>11. Owns(o)' /\ Closed(o)'
  BY <1>1, <1>2, <1>3, <1>8 DEF OrderFits, Owns, Closed
<1>12. Money(o)' /\ Review(o)' /\ Owed(o)'
  BY <1>1, <1>2, <1>3, <1>8 DEF OrderFits, Money, Review, Owed, StockKept, Online
<1>13. PICK next \in Call : next.at = "session_reply" /\ next.attempt = n /\ Goto(o, c, next)
  BY <1>2, <1>9
<1> QED
  BY <1>4, <1>7, <1>8, <1>10, <1>11, <1>12, <1>13, StepKeeps

(* The new attempt has the next number: no other call works for it.        *)
LEMMA RetryCommitKeeps ==
  ASSUME OrdersInv, NEW o \in Orders, NEW c \in Calls, RetryCommit(o, c)
  PROVE  OrdersInv'
<1> DEFINE old == calls[o][c]
           n == Len(attempts[o]) + 1
           call == [old EXCEPT !.at = "retry_payment"]
           settled == AttemptsIn(o, ActiveAttempt, "USER_DROPPED")
<1>1. /\ TypeOK /\ OrderFits(o) /\ old \in Call /\ Placed(o)
      /\ old.attempt = n /\ n \in 1 .. MaxAttempts
      /\ Len(attempts[o]) \in 0 .. MaxAttempts /\ attempts \in [Orders -> Seq(AttemptStatus)]
      /\ transactions \in [Orders -> SUBSET (1 .. MaxAttempts)]
      /\ transactions[o] \subseteq 1 .. Len(attempts[o])
      /\ payments[o].gatewayId \in 0 .. MaxAttempts
  <2>1. /\ CallFits(o, old) /\ payments[o] \in PaymentRow /\ old \in Call
        /\ transactions \in [Orders -> SUBSET (1 .. MaxAttempts)]
        /\ Len(attempts[o]) \in 0 .. MaxAttempts
    BY WhatHolds DEF OrdersInv, TypeOK
  <2>2. Placed(o) /\ old.attempt = n
    BY <2>1 DEF RetryCommit, At, CallFits
  <2>3. n \in 1 .. MaxAttempts
    BY <2>1, <2>2, AttemptBound DEF Call
  <2> QED
    BY <2>1, <2>2, <2>3, WhatHolds DEF PaymentRow
<1>2. /\ UNCHANGED <<stock, orders, runs, gateway>>
      /\ Goto(o, c, call) /\ ~ At(o, c, "idle")
      /\ attempts' = [attempts EXCEPT ![o] = Append(settled, "INITIATED")]
      /\ transactions' = [transactions EXCEPT ![o] = @ \cup {n}]
      /\ PaymentMoves(o, old.payment, "PENDING_GATEWAY", payments[o].gatewayId)
  BY <1>1 DEF RetryCommit, Step, At
<1>3. /\ PaymentWritten(o) /\ payments'[o].gatewayId = payments[o].gatewayId
      /\ payments'[o].status \in {payments[o].status, "PENDING_GATEWAY"}
  <2>1. "PENDING_GATEWAY" \in PaymentStatus
    BY DEF PaymentStatus
  <2> QED
    BY <1>1, <1>2, <2>1, PaymentMovesTo
<1>4. OrderWritten(o) /\ RunsGrow(o) /\ PagesKept(o, c)
  BY <1>2, UnwrittenRows DEF PagesKept, OrdersInv, TypeOK
<1>5. /\ attempts' \in [Orders -> Seq(AttemptStatus)] /\ Len(attempts'[o]) = n
      /\ \A p \in Orders \ {o} : attempts'[p] = attempts[p]
  <2>1. settled \in Seq(AttemptStatus) /\ Len(settled) = Len(attempts[o])
    BY <1>1, AttemptsInKeeps DEF AttemptStatus
  <2>2. "INITIATED" \in AttemptStatus
    BY DEF AttemptStatus
  <2> HIDE DEF settled
  <2>3. Append(settled, "INITIATED") \in Seq(AttemptStatus) /\ Len(Append(settled, "INITIATED")) = n
    BY <2>1, <2>2
  <2> QED
    BY <1>1, <1>2, <2>3
<1>6. /\ transactions' \in [Orders -> SUBSET (1 .. MaxAttempts)]
      /\ transactions'[o] \subseteq 1 .. n
      /\ \A p \in Orders \ {o} : transactions'[p] = transactions[p]
  BY <1>1, <1>2
<1>7. WritesOnly(o)
  BY <1>1, <1>3, <1>4, <1>5, <1>6, AttemptBound
     DEF WritesOnly, PaymentWritten, OrderWritten, RunsGrow
<1>8. /\ StockGoesOn(o) /\ StockKept(o) /\ Placed(o)' /\ (Sold(o)' <=> Sold(o))
      /\ NothingHeld(o) => NothingHeld(o)'
  BY <1>1, <1>2, SameStockGoesOn
<1>9. call \in Call /\ call.at = "retry_payment" /\ call.attempt = n
  BY <1>1 DEF Call, Point
<1>10. gateway[o][n] = "NONE"
  BY <1>1 DEF OrderFits, Started
<1>11. ASSUME NEW next \in Call, next.at = "retry_payment", next.attempt = n
       PROVE  /\ CallFits(o, next)'
              /\ \A d \in Calls \ {c} : Opens(calls[o][d]) => calls[o][d].attempt # next.attempt
  <2>1. CallFits(o, next)'
    BY <1>1, <1>2, <1>5, <1>8, <1>10, <1>11 DEF CallFits, Opens, ForAttempt, HasPaid
  <2>2. ASSUME NEW d \in Calls, Opens(calls[o][d]) PROVE calls[o][d].attempt # n
    <3>1. calls[o][d].attempt \in 1 .. Len(attempts[o])
      BY <2>2, WhatHolds DEF CallFits, Opens, ForAttempt
    <3> QED
      BY <1>1, <3>1
  <2> QED
    BY <1>11, <2>1, <2>2
<1>12. Owns(o)' /\ Closed(o)'
  BY <1>1, <1>2, <1>3, <1>8 DEF OrderFits, Owns, Closed
<1>13. Money(o)' /\ Review(o)' /\ Owed(o)'
  BY <1>1, <1>2, <1>3, <1>8 DEF OrderFits, Money, Review, Owed, StockKept, Online
<1>14. PICK next \in Call : next.at = "retry_payment" /\ next.attempt = n /\ Goto(o, c, next)
  BY <1>2, <1>9
<1> QED
  BY <1>4, <1>7, <1>8, <1>11, <1>12, <1>13, <1>14, StepKeeps

(* An order that is not placed yet has no payment, attempt, page or call.  *)
LEMMA NothingYet ==
  ASSUME OrdersInv, NEW o \in Orders, ~ Placed(o)
  PROVE  /\ attempts[o] = <<>> /\ payments[o].status = "NONE"
         /\ \A n \in 1 .. MaxAttempts : gateway[o][n] = "NONE"
         /\ \A c \in Calls : calls[o][c].at = "idle"
<1>1. OrderFits(o)
  BY DEF OrdersInv
<1>2. attempts[o] = <<>> /\ payments[o].status = "NONE"
  BY <1>1 DEF OrderFits, Started
<1>3. \A n \in 1 .. MaxAttempts : gateway[o][n] = "NONE"
  BY <1>1, <1>2 DEF OrderFits, Started
<1>4. \A c \in Calls : calls[o][c].at = "idle"
  BY <1>1 DEF OrderFits, CallsFit, CallFits
<1> QED
  BY <1>2, <1>3, <1>4

LEMMA PrepareKeeps ==
  ASSUME OrdersInv, NEW o \in Orders, NEW c \in Calls, PrepareLocalCheckout(o, c)
  PROVE  OrdersInv'
<1> DEFINE call == [Idle EXCEPT !.at = "create_payment", !.attempt = 1]
<1>1. /\ StockTypes' /\ \A p \in Orders : StockFits(p)'
      /\ \A p \in Orders \ {o} : StockKept(p)
      /\ ~ Placed(o) /\ Placed(o)'
      /\ \A v \in Variants : ~ Bought(o, v)'
  BY ReserveFits DEF PrepareLocalCheckout
<1>2. StockGoesOn(o)
  BY <1>1 DEF StockGoesOn
<1>3. /\ TypeOK /\ payments[o].gatewayId \in 0 .. MaxAttempts
      /\ gateway[o][1] = "NONE" /\ attempts[o] = <<>> /\ 1 \in 1 .. MaxAttempts
      /\ \A d \in Calls : ~ Opens(calls[o][d])
  <2>1. 1 \in 1 .. MaxAttempts
    BY AttemptBound
  <2>2. TypeOK /\ payments[o].gatewayId \in 0 .. MaxAttempts
    BY DEF OrdersInv, TypeOK
  <2>3. /\ attempts[o] = <<>> /\ \A n \in 1 .. MaxAttempts : gateway[o][n] = "NONE"
        /\ \A d \in Calls : calls[o][d].at = "idle"
    BY <1>1, NothingYet, Zenon
  <2>4. gateway[o][1] = "NONE"
    BY <2>1, <2>3
  <2>5. \A d \in Calls : ~ Opens(calls[o][d])
    BY <2>3 DEF Opens
  <2> QED
    BY <2>1, <2>2, <2>3, <2>4, <2>5
<1>4. PaymentWritten(o) /\ payments'[o].status = "INITIATED"
  BY <1>3, ZenonT(40) DEF PrepareLocalCheckout, TypeOK, PaymentWritten, PaymentRow, PaymentStatus
<1>5. OrderWritten(o) /\ orders'[o] = [status |-> "PENDING_PAYMENT", paymentStatus |-> "INITIATED"]
  BY <1>3 DEF PrepareLocalCheckout, TypeOK, OrderWritten, OrderRow, PaymentStatus, OrderStatus
<1>6. /\ attempts' \in [Orders -> Seq(AttemptStatus)] /\ attempts'[o] = <<"INITIATED">>
      /\ \A p \in Orders \ {o} : attempts'[p] = attempts[p]
  <2>1. "INITIATED" \in AttemptStatus
    BY DEF AttemptStatus
  <2>2. <<"INITIATED">> \in Seq(AttemptStatus)
    BY <2>1
  <2> QED
    BY <1>3, <2>2 DEF PrepareLocalCheckout, TypeOK
<1>7. Len(attempts'[o]) = 1 /\ Len(attempts[o]) = 0 /\ 1 <= MaxAttempts
  BY <1>3, <1>6, AttemptBound
<1>8. RunsGrow(o) /\ PagesKept(o, c) /\ UNCHANGED <<transactions, gateway>>
  BY UnwrittenRows DEF PrepareLocalCheckout, PagesKept, OrdersInv, TypeOK
<1>9. transactions \in [Orders -> SUBSET (1 .. MaxAttempts)] /\ transactions[o] \subseteq 1 .. 1
  BY <1>3, <1>7 DEF TypeOK
<1>10. WritesOnly(o)
  BY <1>4, <1>5, <1>6, <1>7, <1>8, <1>9
     DEF WritesOnly, PaymentWritten, OrderWritten, RunsGrow
<1>11. call \in Call /\ call.at = "create_payment" /\ call.attempt = 1
  <2>1. Idle \in Call /\ "create_payment" \in Point /\ 1 \in 0 .. MaxAttempts
    BY IdleFits, AttemptBound DEF Point
  <2> QED
    BY <2>1 DEF Call
<1>12. ASSUME NEW next \in Call, next.at = "create_payment", next.attempt = 1
       PROVE  CallFits(o, next)'
  BY <1>1, <1>3, <1>7, <1>8, <1>12 DEF CallFits, Opens, ForAttempt, HasPaid
<1>13. Owns(o)' /\ Closed(o)' /\ Money(o)' /\ Review(o)' /\ Owed(o)'
  BY <1>1, <1>4, <1>5 DEF Owns, Closed, Money, Review, Owed, Delivering
<1>14. PICK next \in Call : next.at = "create_payment" /\ next.attempt = 1 /\ Goto(o, c, next)
  BY <1>11 DEF PrepareLocalCheckout
<1> QED
  BY <1>1, <1>2, <1>3, <1>8, <1>10, <1>12, <1>13, <1>14, StepKeeps

LEMMA CreateCodKeeps ==
  ASSUME OrdersInv, NEW o \in Orders, CreateCodOrder(o)
  PROVE  OrdersInv'
<1>1. /\ StockTypes' /\ \A p \in Orders : StockFits(p)'
      /\ \A p \in Orders \ {o} : StockKept(p)
      /\ ~ Placed(o) /\ Placed(o)' /\ Sold(o)' /\ NothingHeld(o)'
      /\ ~ Online(o) /\ UNCHANGED <<transactions, runs, gateway, calls>>
  BY CodFits DEF CreateCodOrder
<1>2. TypeOK
  BY DEF OrdersInv
<1>3. /\ attempts[o] = <<>> /\ payments[o].gatewayId \in 0 .. MaxAttempts
      /\ \A n \in 1 .. MaxAttempts : gateway[o][n] = "NONE"
      /\ \A c \in Calls : calls[o][c].at = "idle"
  BY <1>1, <1>2, NothingYet DEF TypeOK
<1>4. PaymentWritten(o) /\ payments'[o].status = "AUTHORIZED"
  BY <1>2, <1>3 DEF CreateCodOrder, TypeOK, PaymentWritten, PaymentRow, PaymentStatus
<1>5. OrderWritten(o) /\ orders'[o] = [status |-> "FULFILLMENT_READY", paymentStatus |-> "AUTHORIZED"]
  BY <1>2 DEF CreateCodOrder, TypeOK, OrderWritten, OrderRow, PaymentStatus, OrderStatus
<1>6. /\ attempts' \in [Orders -> Seq(AttemptStatus)] /\ attempts'[o] = <<"AUTHORIZED">>
      /\ \A p \in Orders \ {o} : attempts'[p] = attempts[p]
  <2>1. "AUTHORIZED" \in AttemptStatus
    BY DEF AttemptStatus
  <2>2. <<"AUTHORIZED">> \in Seq(AttemptStatus)
    BY <2>1
  <2> QED
    BY <1>2, <2>2 DEF CreateCodOrder, TypeOK
<1>7. Len(attempts'[o]) = 1 /\ Len(attempts[o]) = 0 /\ 1 <= MaxAttempts
  BY <1>3, <1>6, AttemptBound
<1>8. TypeOK'
  <2>1. transactions[o] \subseteq 1 .. Len(attempts'[o])
    BY <1>2, <1>7 DEF TypeOK
  <2>2. \A p \in Orders : Len(attempts'[p]) <= MaxAttempts /\ transactions'[p] \subseteq 1 .. Len(attempts'[p])
    BY <1>1, <1>2, <1>6, <1>7, <2>1 DEF TypeOK
  <2> QED
    BY <1>1, <1>2, <1>4, <1>5, <1>6, <2>2
       DEF TypeOK, PaymentWritten, OrderWritten, PaymentRow, OrderRow
<1>9. CallsFit(o)'
  BY <1>1, <1>3 DEF CallsFit, OneOpens, CallFits, Opens, HasPaid, ForAttempt
<1>10. Started(o)' /\ Owns(o)' /\ Closed(o)'
  BY <1>1, <1>3, <1>4, <1>5 DEF Started, Owns, Closed
<1>11. Money(o)' /\ Review(o)' /\ Owed(o)'
  BY <1>1, <1>4 DEF Money, Review, Owed, Online
<1>12. ASSUME NEW p \in Orders \ {o} PROVE OrderFits(p)'
  BY <1>1, <1>4, <1>5, <1>6, OtherOrderFits DEF PaymentWritten, OrderWritten
<1> QED
  BY <1>1, <1>8, <1>9, <1>10, <1>11, <1>12 DEF OrdersInv, OrderFits

(* PhonePe moves only pages that exist and are not settled; no call relies *)
(* on one of those.                                                        *)
LEMMA GatewayMovesKeeps ==
  ASSUME OrdersInv, NEW o \in Orders, NEW n \in 1 .. MaxAttempts, GatewayMoves(o, n)
  PROVE  OrdersInv'
<1>1. /\ UNCHANGED <<payments, orders, attempts, transactions, runs, calls>>
      /\ UNCHANGED stock /\ TypeOK
  BY DEF GatewayMoves, books, OrdersInv
<1>2. StockTypes' /\ \A p \in Orders : StockFits(p)' /\ StockKept(p)
  BY <1>1, StockUnchanged
<1>3. PICK state \in PageMoves(gateway[o][n]) : gateway' = [gateway EXCEPT ![o][n] = state]
  BY DEF GatewayMoves
<1>4. state \in GatewayState /\ gateway[o][n] \in {"CREATED", "OPEN", "USER_DROPPED"}
  BY <1>3 DEF PageMoves, GatewayState
<1>5. /\ gateway' \in [Orders -> [1 .. MaxAttempts -> GatewayState]]
      /\ \A p \in Orders \ {o} : gateway'[p] = gateway[p]
      /\ \A m \in 1 .. MaxAttempts :
           gateway[o][m] \in {"NONE", "PAID", "MISPAID"} => gateway'[o][m] = gateway[o][m]
  BY <1>1, <1>3, <1>4 DEF TypeOK
<1>6. TypeOK'
  BY <1>1, <1>5 DEF TypeOK
<1>7. OrderFits(o) /\ StockKept(o) /\ (Sold(o)' <=> Sold(o))
  BY <1>2, KeptMeans DEF OrdersInv
<1>8. ASSUME NEW c \in Calls PROVE CallFits(o, calls[o][c])'
  <2>1. CallFits(o, calls[o][c]) /\ Len(attempts[o]) \in 0 .. MaxAttempts
    BY WhatHolds
  <2>2. calls[o][c].at \in ForAttempt => calls[o][c].attempt \in 1 .. MaxAttempts
    BY <2>1, AttemptBound DEF CallFits
  <2> QED
    BY <1>1, <1>5, <1>7, <2>1, <2>2
       DEF CallFits, StockKept, Opens, ForAttempt, HasPaid, Online
<1>9. CallsFit(o)'
  BY <1>1, <1>7, <1>8 DEF OrderFits, CallsFit, OneOpens
<1>10. Started(o)' /\ Owns(o)' /\ Closed(o)'
  BY <1>1, <1>5, <1>7 DEF OrderFits, Started, Owns, Closed, StockKept
<1>11. Money(o)' /\ Review(o)'
  BY <1>1, <1>5, <1>7 DEF OrderFits, Money, Review, StockKept, Online
<1>12. Owed(o)'
  <2>1. payments[o].gatewayId \in 0 .. MaxAttempts
    BY <1>1 DEF TypeOK
  <2>2. payments[o].gatewayId # 0 => payments[o].gatewayId \in 1 .. MaxAttempts
    BY <2>1, AttemptBound
  <2> QED
    BY <1>1, <1>5, <1>7, <2>2 DEF OrderFits, Owed
<1>13. ASSUME NEW p \in Orders \ {o} PROVE OrderFits(p)'
  BY <1>1, <1>2, <1>5, OtherOrderFits
<1> QED
  BY <1>2, <1>6, <1>7, <1>9, <1>10, <1>11, <1>12, <1>13 DEF OrdersInv, OrderFits

LEMMA StockAloneKeeps ==
  ASSUME OrdersInv, StockAlone
  PROVE  OrdersInv'
<1>1. StockTypes' /\ \A p \in Orders : StockFits(p)' /\ StockKept(p)
  BY AloneFits
<1>2. UNCHANGED <<payments, orders, attempts, transactions, runs, gateway, calls>>
  BY DEF StockAlone, books
<1>3. TypeOK'
  BY <1>2 DEF OrdersInv, TypeOK
<1>4. \A p \in Orders : OrderFits(p)'
  BY <1>1, <1>2, OtherOrderFits
<1> QED
  BY <1>1, <1>3, <1>4 DEF OrdersInv

LEMMA InitOrdersInv == Init => OrdersInv
<1> SUFFICES ASSUME Init PROVE OrdersInv
  OBVIOUS
<1>1. /\ reservations = [o \in Orders |-> [v \in Variants |-> "NONE"]]
      /\ operations = [key \in Stock!OperationKey |-> "NONE"]
  BY DEF Init, Stock!Init
<1>2. StockTypes
  BY <1>1 DEF StockTypes, Stock!ReservationStatus, Stock!Response
<1>3. TypeOK
  <2>1. /\ 0 \in 0 .. MaxAttempts /\ <<>> \in Seq(AttemptStatus)
        /\ Idle \in Call /\ "NONE" \in GatewayState
    BY AttemptBound DEF Idle, Call, Point, GatewayState
  <2>2. \A o \in Orders : Len(attempts[o]) <= MaxAttempts /\ transactions[o] \subseteq 1 .. Len(attempts[o])
    BY AttemptBound DEF Init
  <2> QED
    BY <2>1, <2>2 DEF Init, TypeOK
<1>4. ASSUME NEW o \in Orders PROVE StockFits(o) /\ OrderFits(o)
  <2>1. ~ Placed(o) /\ (\A v \in Variants : ~ Bought(o, v)) /\ NothingHeld(o)
    BY <1>1 DEF Placed, Stock!Placed, Stock!ReservedLines, Bought, NothingHeld, Stock!ActiveLines
  <2>2. /\ operations[<<"confirm", o>>] = "NONE"
        /\ \A reason \in ReleaseReasons : operations[<<"release", o, reason>>] = "NONE"
    BY <1>1, KeyTypes
  <2>3. StockFits(o)
    BY <2>1, <2>2 DEF StockFits
  <2>4. CallsFit(o)
    BY DEF Init, Idle, CallsFit, OneOpens, CallFits, Opens, HasPaid, ForAttempt
  <2>5. Started(o)
    BY DEF Init, Started
  <2>6. Owns(o) /\ Closed(o) /\ Money(o) /\ Review(o) /\ Owed(o)
    BY <2>1 DEF Init, Owns, Closed, Money, Review, Owed, Delivering
  <2> QED
    BY <2>3, <2>4, <2>5, <2>6 DEF OrderFits
<1> QED
  BY <1>2, <1>3, <1>4 DEF OrdersInv

LEMMA CallKeeps ==
  ASSUME OrdersInv, NEW o \in Orders, NEW c \in Calls,
         \/ CheckoutStep(o, c)
         \/ VerifyStep(o, c)
         \/ RetryStep(o, c)
         \/ OrderStep(o, c)
         \/ ReadSecondRow(o, c)
         \/ Abandon(o, c)
  PROVE  OrdersInv'
<1>1. CASE CheckoutStep(o, c)
  BY <1>1, CheckoutReads, ReadsKeep, PageSteps, PrepareKeeps, SessionCommitKeeps,
     CreateFailedKeeps, CreateUnknownKeeps DEF CheckoutStep
<1>2. CASE VerifyStep(o, c)
  BY <1>2, VerifyReads, ReadsKeep, ConfirmPaidKeeps, ConfirmNeedsReviewKeeps, LateCommitKeeps,
     FailureCommitKeeps DEF VerifyStep
<1>3. CASE RetryStep(o, c)
  BY <1>3, OrderReads, ReadsKeep, RetryCommitKeeps, SessionCommitKeeps DEF RetryStep
<1>4. CASE OrderStep(o, c)
  BY <1>4, OrderReads, ReadsKeep, CancelCommitKeeps, MerchantKeeps DEF OrderStep
<1>5. CASE ReadSecondRow(o, c) \/ Abandon(o, c)
  BY <1>5, OrderReads, ReadsKeep
<1> QED
  BY <1>1, <1>2, <1>3, <1>4, <1>5

LEMMA NextOrdersInv == OrdersInv /\ [Next]_vars => OrdersInv'
<1> SUFFICES ASSUME OrdersInv, [Next]_vars PROVE OrdersInv'
  OBVIOUS
<1>1. CASE UNCHANGED vars
  <2>1. UNCHANGED <<stock, payments, orders, attempts, transactions, runs, gateway, calls>>
    BY <1>1 DEF vars, books
  <2>2. StockTypes' /\ \A p \in Orders : StockFits(p)' /\ StockKept(p)
    BY <2>1, StockUnchanged
  <2>3. TypeOK'
    BY <2>1 DEF OrdersInv, TypeOK
  <2>4. \A p \in Orders : OrderFits(p)'
    BY <2>1, <2>2, OtherOrderFits
  <2> QED
    BY <2>2, <2>3, <2>4 DEF OrdersInv
<1>2. ASSUME NEW o \in Orders, CreateCodOrder(o) PROVE OrdersInv'
  BY <1>2, CreateCodKeeps
<1>3. ASSUME NEW o \in Orders, NEW n \in 1 .. MaxAttempts, GatewayMoves(o, n) PROVE OrdersInv'
  BY <1>3, GatewayMovesKeeps
<1>4. CASE StockAlone
  BY <1>4, StockAloneKeeps
<1> QED
  BY <1>1, <1>2, <1>3, <1>4, CallKeeps DEF Next

(* Whatever calls cross, every order of the shop fits: rows, units, money  *)
(* and what its calls have read agree as OrdersInv says.                   *)
THEOREM OrdersInvariant == Spec => []OrdersInv
BY InitOrdersInv, NextOrdersInv, PTL DEF Spec

(* Rows and calls keep their types, no order gets more attempts than the   *)
(* bound, and every PhonePe transaction belongs to an attempt that exists  *)
(* (payments.service.ts, preparePhonepeRetryAttempt).                      *)
THEOREM OrderTypes == Spec => []TypeOK
<1>1. OrdersInv => TypeOK
  BY DEF OrdersInv
<1> QED
  BY <1>1, OrdersInvariant, PTL

(* Goods follow the money, for any number of orders, lines, attempts and   *)
(* calls at once: a payment becomes PAID, and the store prepares an order, *)
(* only when confirmPaid or the cash-on-delivery checkout has sold every   *)
(* line to it; what has failed, expired or been cancelled holds nothing;   *)
(* and units of an online order are sold only after PhonePe was paid for a *)
(* page of this order.                                                     *)
THEOREM GoodsAreAccounted == Spec => []GoodsFollowMoney
<1>1. OrdersInv => GoodsFollowMoney
  <2> SUFFICES ASSUME OrdersInv PROVE GoodsFollowMoney
    OBVIOUS
  <2>1. PaidOrderOwnsItsUnits
    BY DEF PaidOrderOwnsItsUnits, OrdersInv, OrderFits, Owns, Delivering
  <2>2. ClosedOrderHoldsNothing
    BY DEF ClosedOrderHoldsNothing, OrdersInv, OrderFits, Closed, NothingHeld
  <2>3. NoGoodsWithoutMoney
    BY DEF NoGoodsWithoutMoney, OrdersInv, OrderFits, Money, Bought
  <2> QED
    BY <2>1, <2>2, <2>3 DEF GoodsFollowMoney
<1> QED
  BY <1>1, OrdersInvariant, PTL

(* An open case is what it says: a payment sent to review by               *)
(* ConfirmNeedsReview has no unit sold to it, and one that                 *)
(* markLateSuccessRequiresRefund owes back carries the id of a page that   *)
(* PhonePe was paid for and a run for reconciliation.                      *)
THEOREM OpenCasesHold == Spec => []OpenCasesAreTrue
<1>1. OrdersInv => OpenCasesAreTrue
  <2> SUFFICES ASSUME OrdersInv PROVE OpenCasesAreTrue
    OBVIOUS
  <2>1. ReviewMeansShort
    BY DEF ReviewMeansShort, OrdersInv, OrderFits, StockFits, Review, Bought
  <2>2. RefundOwedIsOnRecord
    BY DEF RefundOwedIsOnRecord, OrdersInv, OrderFits, Owed
  <2> QED
    BY <2>1, <2>2 DEF OpenCasesAreTrue
<1> QED
  BY <1>1, OrdersInvariant, PTL
=============================================================================
