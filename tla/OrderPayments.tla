---------------------------- MODULE OrderPayments ----------------------------
(***************************************************************************)
(* The life of an order and of its PhonePe or COD payment                  *)
(* (checkout.service.ts, payments.service.ts, orders.service.ts and the    *)
(* order actions of merchant-dashboard.service.ts), on top of Inventory.   *)
(*                                                                         *)
(* Requests, webhooks and the worker run as concurrent calls.  A call      *)
(* reads rows without locks, before its transaction and again inside it,   *)
(* and its transaction then writes by primary key: every read is a step,   *)
(* and the writes of a transaction are one step, at its commit.  The       *)
(* inventory part of a transaction locks the reservations first, so it     *)
(* belongs to the commit.  A call may end at any point with nothing more   *)
(* done: an error, a timeout, a transaction rolled back, a crash.          *)
(***************************************************************************)
EXTENDS Integers, Sequences, FiniteSets, PaymentStates

CONSTANTS Orders, Variants, Quantity, SeedAvailable, SeedReserved, Backfilled,
          Adjustments, AdjustedVariant, Deltas,
          CodOrders,    \* the orders placed with cash on delivery
          RunAgain,     \* the orders whose checkout may run twice under its key
          Calls,        \* calls that may be at work on an order at once ...
          CodCalls,     \* ... and those of them, if it is cash on delivery
          MaxAttempts   \* bound on the payment attempts of an order

ASSUME AttemptBound == MaxAttempts \in Nat \ {0}

ReleaseReasons == {"create_failed", "payment_failed", "payment_expired", "customer_cancelled"}

VARIABLES rows, items, reservations, operations, ledger, due, archived, seen, supplied

stock == <<rows, items, reservations, operations, ledger, due, archived, seen, supplied>>

Stock == INSTANCE Inventory

VARIABLES
  payments,      \* the order's payments row: status, and the attempt whose
                 \* gateway transaction is in phonepe_transaction_id (0: null)
  orders,        \* the orders row: status and payment_status
  attempts,      \* statuses of the payment_attempts rows, by attempt_number
  transactions,  \* attempts that have a phonepe_transactions row
  gateway,       \* PhonePe's own state of the payment page of each attempt
  runs,          \* why the payment has reconciliation_runs rows (drift code, or
                 \* UNKNOWN_GATEWAY for a session whose outcome is unknown)
  calls          \* what each call is doing and what it has read

books == <<payments, orders, attempts, transactions, runs>>

vars == <<stock, books, gateway, calls>>

GatewayState == {"NONE", "CREATED", "OPEN", "USER_DROPPED", "PAID", "MISPAID",
                 "FAILED", "EXPIRED"}

DriftCode == {"DUPLICATE_SUCCESS", "AMOUNT_MISMATCH", "UNKNOWN_GATEWAY",
              "LATE_SUCCESS_AFTER_RELEASED_TERMINAL_STATE",
              "INVENTORY_CONFIRMATION_REQUIRES_REVIEW"}

Point == {"idle", "create_payment", "session_read", "session_commit", "session_reply",
          "error_read", "error_commit", "check_status", "confirm_read",
          "confirm_tx_read", "confirm_commit", "late_tx_read", "late_commit",
          "failure_read", "failure_tx_read", "failure_commit", "retry_count",
          "retry_commit", "retry_payment", "retry_session", "cancel_commit",
          "pack_commit", "refund_review_commit"}

(* payment and order: the statuses the call has read.  attempt: the one it *)
(* works for.  answer: what the gateway has told it.                       *)
Call == [at : Point, attempt : 0 .. MaxAttempts,
         payment : PaymentStatus \cup {"NONE"}, order : OrderStatus \cup {"NONE"},
         answer : GatewayState \cup {"UNKNOWN", "REJECTED"}]

Idle == [at |-> "idle", attempt |-> 0, payment |-> "NONE", order |-> "NONE",
         answer |-> "NONE"]

Init ==
  /\ Stock!Init
  /\ payments = [o \in Orders |-> [status |-> "NONE", gatewayId |-> 0]]
  /\ orders = [o \in Orders |-> [status |-> "NONE", paymentStatus |-> "NONE"]]
  /\ attempts = [o \in Orders |-> <<>>]
  /\ transactions = [o \in Orders |-> {}]
  /\ gateway = [o \in Orders |-> [n \in 1 .. MaxAttempts |-> "NONE"]]
  /\ runs = [o \in Orders |-> {}]
  /\ calls = [o \in Orders |-> [c \in Calls |-> Idle]]

-----------------------------------------------------------------------------
At(o, c, point) == calls[o][c].at = point

Goto(o, c, call) == calls' = [calls EXCEPT ![o][c] = call]

Done(o, c) == Goto(o, c, Idle)

Step(o, c, point) == Goto(o, c, [calls[o][c] EXCEPT !.at = point])

(* transitionPayment and transitionOrder: the move is checked against the  *)
(* status the caller has read, and written over whatever is stored now,    *)
(* unless the caller's status already is the new one.                      *)
Moving(from, to, stored) == IF from = to THEN stored ELSE to

PaymentMoves(o, from, to, gatewayId) ==
  /\ PaymentMay(from, to)
  /\ payments' = [payments EXCEPT ![o] =
       [status |-> Moving(from, to, payments[o].status), gatewayId |-> gatewayId]]

OrderMoves(o, from, to, paymentStatus) ==
  /\ OrderMay(from, to)
  /\ orders' = [orders EXCEPT ![o] =
       [status |-> Moving(from, to, orders[o].status), paymentStatus |-> paymentStatus]]

(* updateMany over the attempts that are in one of the given statuses.     *)
AttemptsIn(o, S, status) ==
  [n \in 1 .. Len(attempts[o]) |-> IF attempts[o][n] \in S THEN status ELSE attempts[o][n]]

(* payment_attempts_one_active_per_order_idx *)
OneActive(rowsOfOrder) ==
  \A m, n \in 1 .. Len(rowsOfOrder) :
    rowsOfOrder[m] \in ActiveAttempt /\ rowsOfOrder[n] \in ActiveAttempt => m = n

(* confirmPaid and markLateSuccessRequiresRefund write the gateway's id    *)
(* into every phonepe_transactions row of the payment; the column is       *)
(* unique, so with two rows the transaction fails.                         *)
OneTransaction(o) == Cardinality(transactions[o]) = 1

LatestTransactions(o) == {n \in transactions[o] : \A m \in transactions[o] : m <= n}

(* Mutant: the release is forgotten.                                       *)
ReleaseStock_Forgotten(o, reason) == UNCHANGED stock

(* releaseOrderStock under its key.  When the key is taken, claimOperation *)
(* answers with the stored response and the caller goes on (or the failed  *)
(* insert has aborted the transaction, and the call ends).                 *)
ReleaseStock(o, reason) ==
  \/ Stock!ReleaseOrderStock(o, reason)
  \/ operations[<<"release", o, reason>>] # "NONE" /\ UNCHANGED stock

(* Mutant: an inactive reservation is confirmed all the same.              *)
StockConfirms_Always(o, answers) ==
  \/ /\ Stock!ConfirmOrderStock(o)
     /\ "CONFIRMED" \in answers
  \/ /\ operations[<<"confirm", o>>] \in answers
     /\ UNCHANGED stock

(* Mutant: a key that has been used is taken for a failure.                *)
StockConfirms_ReplayIsReview(o, answers) ==
  \/ /\ Stock!ConfirmOrderStock(o)
     /\ Stock!ConfirmResponse(o) \in answers
  \/ /\ operations[<<"confirm", o>>] # "NONE"
     /\ "REQUIRES_REVIEW" \in answers
     /\ UNCHANGED stock

(* confirmOrderStock answers with one of the given responses.              *)
StockConfirms(o, answers) ==
  \/ /\ Stock!ConfirmOrderStock(o)
     /\ Stock!ConfirmResponse(o) \in answers
  \/ /\ operations[<<"confirm", o>>] \in answers
     /\ UNCHANGED stock

(* A call reads the payment with its order and goes on to a point.         *)
ReadTo(o, c, point) ==
  Goto(o, c, [calls[o][c] EXCEPT !.at = point, !.payment = payments[o].status,
                                 !.order = orders[o].status])

Online(o) == o \notin CodOrders

Starts(o, c) ==
  /\ At(o, c, "idle")
  /\ payments[o].status # "NONE"
  /\ Online(o) \/ c \in CodCalls

-----------------------------------------------------------------------------
(* prepareLocalCheckout: one transaction for the order, its reservations,  *)
(* the payment and the first attempt.                                      *)
PrepareLocalCheckout(o, c) ==
  /\ Online(o)
  /\ At(o, c, "idle")
  /\ Stock!ReserveOrderStock(o)
  /\ payments' = [payments EXCEPT ![o].status = "INITIATED"]
  /\ orders' = [orders EXCEPT ![o] =
       [status |-> "PENDING_PAYMENT", paymentStatus |-> "INITIATED"]]
  /\ attempts' = [attempts EXCEPT ![o] = <<"INITIATED">>]
  /\ Goto(o, c, [Idle EXCEPT !.at = "create_payment", !.attempt = 1])
  /\ UNCHANGED <<transactions, runs, gateway>>

(* createCodOrder: the whole order in one transaction.                     *)
CreateCodOrder(o) ==
  /\ ~ Online(o)
  /\ Stock!CreateCodCheckoutFast(o) \/ Stock!AuthorizeCodOrderStock(o)
  /\ payments' = [payments EXCEPT ![o].status = "AUTHORIZED"]
  /\ orders' = [orders EXCEPT ![o] =
       [status |-> "FULFILLMENT_READY", paymentStatus |-> "AUTHORIZED"]]
  /\ attempts' = [attempts EXCEPT ![o] = <<"AUTHORIZED">>]
  /\ UNCHANGED <<transactions, runs, gateway, calls>>

(* phonepe.createPayment answers with a page; for a retry, or a checkout.  *)
GatewayCreates(o, c) ==
  /\ calls[o][c].at \in {"create_payment", "retry_payment"}
  /\ gateway' = [gateway EXCEPT ![o][calls[o][c].attempt] = "CREATED"]
  /\ Step(o, c, IF At(o, c, "create_payment") THEN "session_read" ELSE "retry_session")
  /\ UNCHANGED <<stock, books>>

(* It rejects the request, or (UNKNOWN) times out, fails or sends no page, *)
(* whether PhonePe has created one or not.  A retry gives up.              *)
GatewayErrs(o, c) ==
  /\ calls[o][c].at \in {"create_payment", "retry_payment"}
  /\ \E answer \in {"REJECTED", "UNKNOWN"} :
       /\ \/ UNCHANGED gateway
          \/ /\ answer = "UNKNOWN"
             /\ gateway' = [gateway EXCEPT ![o][calls[o][c].attempt] = "CREATED"]
       /\ IF At(o, c, "create_payment")
          THEN Goto(o, c, [calls[o][c] EXCEPT !.at = "error_read", !.answer = answer])
          ELSE Done(o, c)
  /\ UNCHANGED <<stock, books>>

(* markPhonepeSessionCreated: its transaction reads the payment ...        *)
SessionRead(o, c) ==
  /\ At(o, c, "session_read")
  /\ ReadTo(o, c, "session_commit")
  /\ UNCHANGED <<stock, books, gateway>>

(* ... and takes it through SESSION_CREATED to PENDING_GATEWAY.            *)
SessionCommit(o, c) ==
  LET n == calls[o][c].attempt
      after == [attempts[o] EXCEPT ![n] = "PENDING_GATEWAY"]
  IN /\ At(o, c, "session_commit")
     /\ OneActive(after)
     /\ attempts' = [attempts EXCEPT ![o] = after]
     /\ transactions' = [transactions EXCEPT ![o] = @ \cup {n}]
     /\ PaymentMay(calls[o][c].payment, "SESSION_CREATED")
     /\ PaymentMoves(o, "SESSION_CREATED", "PENDING_GATEWAY", payments[o].gatewayId)
     /\ Step(o, c, "session_reply")
     /\ UNCHANGED <<stock, orders, runs, gateway>>

(* idempotency.complete, then the reply: the customer has the page.        *)
SessionReply(o, c) ==
  LET n == calls[o][c].attempt
  IN /\ At(o, c, "session_reply")
     /\ gateway' = [gateway EXCEPT ![o][n] = IF @ = "CREATED" THEN "OPEN" ELSE @]
     /\ Done(o, c)
     /\ UNCHANGED <<stock, books>>

(* A failure of the last three steps of a checkout (not of a retry) is     *)
(* handled as a rejection.                                                 *)
SessionFails(o, c) ==
  /\ calls[o][c].at \in {"session_read", "session_commit", "session_reply"}
  /\ calls[o][c].attempt = 1
  /\ Goto(o, c, [calls[o][c] EXCEPT !.at = "error_read", !.answer = "REJECTED"])
  /\ UNCHANGED <<stock, books, gateway>>

(* The checkout runs again under its key: the entry was lost in a Redis    *)
(* outage, or the first run has failed.  Its payment cannot be inserted,   *)
(* the key is unique there, and the failure is handled as one of the       *)
(* payment that the key finds.                                             *)
CreateAgain(o, c) ==
  /\ o \in RunAgain
  /\ Starts(o, c)
  /\ Goto(o, c, [Idle EXCEPT !.at = "error_read", !.attempt = 1, !.answer = "REJECTED"])
  /\ UNCHANGED <<stock, books, gateway>>

(* handleCheckoutCreationError *)
ErrorRead(o, c) ==
  /\ At(o, c, "error_read")
  /\ ReadTo(o, c, "error_commit")
  /\ UNCHANGED <<stock, books, gateway>>

CreateFailed(o, c) ==
  /\ At(o, c, "error_commit")
  /\ calls[o][c].answer = "REJECTED"
  /\ ReleaseStock(o, "create_failed")
  /\ attempts' = [attempts EXCEPT ![o] =
       AttemptsIn(o, {"INITIATED", "SESSION_CREATED"}, "FAILED")]
  /\ PaymentMoves(o, calls[o][c].payment, "FAILED", payments[o].gatewayId)
  /\ OrderMoves(o, calls[o][c].order, "PAYMENT_FAILED", orders[o].paymentStatus)
  /\ Done(o, c)
  /\ UNCHANGED <<transactions, runs, gateway>>

CreateUnknown(o, c) ==
  /\ At(o, c, "error_commit")
  /\ calls[o][c].answer = "UNKNOWN"
  /\ attempts' = [attempts EXCEPT ![o] =
       AttemptsIn(o, {"INITIATED", "SESSION_CREATED"}, "UNKNOWN_GATEWAY")]
  /\ PaymentMoves(o, calls[o][c].payment, "UNKNOWN_GATEWAY", payments[o].gatewayId)
  /\ runs' = [runs EXCEPT ![o] = @ \cup {"UNKNOWN_GATEWAY"}]
  /\ Done(o, c)
  /\ UNCHANGED <<stock, orders, transactions, gateway>>

-----------------------------------------------------------------------------
(* verifyPhonepePayment, for a user, a webhook or an admin: it asks for    *)
(* the newest transaction of the payment ...                               *)
VerifyRead(o, c) ==
  /\ Online(o)
  /\ Starts(o, c)
  /\ \E n \in LatestTransactions(o) :
       Goto(o, c, [Idle EXCEPT !.at = "check_status", !.attempt = n])
  /\ UNCHANGED <<stock, books, gateway>>

(* Mutant: a page that is still open counts as paid.                       *)
CheckStatus_OpenIsPaid(o, c) ==
  LET answer == gateway[o][calls[o][c].attempt]
      next(point) == Goto(o, c, [calls[o][c] EXCEPT !.at = point, !.answer = answer])
  IN /\ At(o, c, "check_status")
     /\ \/ answer \in {"OPEN", "PAID", "MISPAID"} /\ next("confirm_read")
        \/ answer \in {"FAILED", "EXPIRED", "USER_DROPPED"} /\ next("failure_read")
        \/ answer \in {"NONE", "CREATED"} /\ Done(o, c)
     /\ UNCHANGED <<stock, books, gateway>>

(* ... and goes where PhonePe's answer says.                               *)
CheckStatus(o, c) ==
  LET answer == gateway[o][calls[o][c].attempt]
      next(point) == Goto(o, c, [calls[o][c] EXCEPT !.at = point, !.answer = answer])
  IN /\ At(o, c, "check_status")
     /\ \/ answer \in {"PAID", "MISPAID"} /\ next("confirm_read")
        \/ answer \in {"FAILED", "EXPIRED", "USER_DROPPED"} /\ next("failure_read")
        \/ answer \in {"NONE", "CREATED", "OPEN"} /\ Done(o, c)
     /\ UNCHANGED <<stock, books, gateway>>

(* confirmPaid: what it finds before its transaction decides ...           *)
ConfirmRead(o, c) ==
  LET status == payments[o].status
      n == calls[o][c].attempt
      ends(codes) == Done(o, c) /\ runs' = [runs EXCEPT ![o] = @ \cup codes]
  IN /\ At(o, c, "confirm_read")
     /\ CASE status = "PAID" ->
               ends(IF payments[o].gatewayId \notin {0, n} THEN {"DUPLICATE_SUCCESS"} ELSE {})
          [] status # "PAID" /\ calls[o][c].answer = "MISPAID" ->
               ends({"AMOUNT_MISMATCH"})
          [] /\ calls[o][c].answer # "MISPAID"
             /\ status \in {"DUPLICATE_SUCCESS_REQUIRES_REFUND",
                            "INVENTORY_CONFIRMATION_REQUIRES_REVIEW"} -> ends({})
          [] calls[o][c].answer # "MISPAID" /\ status \in {"FAILED", "EXPIRED"} ->
               Step(o, c, "late_tx_read") /\ UNCHANGED runs
          [] OTHER -> Step(o, c, "confirm_tx_read") /\ UNCHANGED runs
     /\ UNCHANGED <<stock, payments, orders, attempts, transactions, gateway>>

(* ... whether it looks again inside of one ...                            *)
ConfirmTxRead(o, c) ==
  /\ At(o, c, "confirm_tx_read")
  /\ IF payments[o].status = "PAID" THEN Done(o, c) ELSE ReadTo(o, c, "confirm_commit")
  /\ UNCHANGED <<stock, books, gateway>>

(* ... that sells the units and settles attempt, payment and order ...     *)
ConfirmPaid(o, c) ==
  LET call == calls[o][c]
      status == IF call.order = "PENDING_PAYMENT" THEN "FULFILLMENT_READY"
                ELSE orders[o].status
  IN /\ At(o, c, "confirm_commit")
     /\ OneTransaction(o)
     /\ StockConfirms(o, {"CONFIRMED", "ALREADY_CONFIRMED"})
     /\ attempts' = [attempts EXCEPT ![o] = AttemptsIn(o, ActiveAttempt, "PAID")]
     /\ PaymentMoves(o, call.payment, "PAID", call.attempt)
     /\ orders' = [orders EXCEPT ![o] = [status |-> status, paymentStatus |-> "PAID"]]
     /\ Done(o, c)
     /\ UNCHANGED <<transactions, runs, gateway>>

(* ... or, when the units are gone, has somebody look at it.               *)
ConfirmNeedsReview(o, c) ==
  LET call == calls[o][c]
      review == "INVENTORY_CONFIRMATION_REQUIRES_REVIEW"
  IN /\ At(o, c, "confirm_commit")
     /\ OneTransaction(o)
     /\ StockConfirms(o, {"REQUIRES_REVIEW"})
     /\ attempts' = [attempts EXCEPT ![o] = AttemptsIn(o, ActiveAttempt, review)]
     /\ PaymentMoves(o, call.payment, review, call.attempt)
     /\ OrderMoves(o, call.order, review, review)
     /\ runs' = [runs EXCEPT ![o] = @ \cup {review}]
     /\ Done(o, c)
     /\ UNCHANGED <<transactions, gateway>>

(* Mutant: only a failed payment counts as released.                       *)
LateTxRead_OnlyFailed(o, c) ==
  /\ At(o, c, "late_tx_read")
  /\ IF payments[o].status = "FAILED" THEN ReadTo(o, c, "late_commit") ELSE Done(o, c)
  /\ UNCHANGED <<stock, books, gateway>>

(* markLateSuccessRequiresRefund *)
LateTxRead(o, c) ==
  /\ At(o, c, "late_tx_read")
  /\ IF payments[o].status \in {"FAILED", "EXPIRED"} THEN ReadTo(o, c, "late_commit")
     ELSE Done(o, c)
  /\ UNCHANGED <<stock, books, gateway>>

(* Mutant: the id of the payment is not stored.                            *)
LateCommit_KeepsId(o, c) ==
  LET call == calls[o][c]
      owed == "DUPLICATE_SUCCESS_REQUIRES_REFUND"
  IN /\ At(o, c, "late_commit")
     /\ OneTransaction(o)
     /\ attempts' = [attempts EXCEPT ![o] = AttemptsIn(o, AttemptStatus, owed)]
     /\ PaymentMoves(o, call.payment, owed, payments[o].gatewayId)
     /\ orders' = [orders EXCEPT ![o].paymentStatus = owed]
     /\ runs' = [runs EXCEPT ![o] = @ \cup {"LATE_SUCCESS_AFTER_RELEASED_TERMINAL_STATE"}]
     /\ Done(o, c)
     /\ UNCHANGED <<stock, transactions, gateway>>

LateCommit(o, c) ==
  LET call == calls[o][c]
      owed == "DUPLICATE_SUCCESS_REQUIRES_REFUND"
  IN /\ At(o, c, "late_commit")
     /\ OneTransaction(o)
     /\ attempts' = [attempts EXCEPT ![o] = AttemptsIn(o, AttemptStatus, owed)]
     /\ PaymentMoves(o, call.payment, owed, call.attempt)
     /\ orders' = [orders EXCEPT ![o].paymentStatus = owed]
     /\ runs' = [runs EXCEPT ![o] = @ \cup {"LATE_SUCCESS_AFTER_RELEASED_TERMINAL_STATE"}]
     /\ Done(o, c)
     /\ UNCHANGED <<stock, transactions, gateway>>

(* markGatewayFailure looks twice, too, ...                                *)
FailureRead(o, c) ==
  /\ At(o, c, "failure_read")
  /\ IF payments[o].status = "PAID" THEN Done(o, c) ELSE Step(o, c, "failure_tx_read")
  /\ UNCHANGED <<stock, books, gateway>>

FailureTxRead(o, c) ==
  /\ At(o, c, "failure_tx_read")
  /\ IF payments[o].status = "PAID" THEN Done(o, c) ELSE ReadTo(o, c, "failure_commit")
  /\ UNCHANGED <<stock, books, gateway>>

(* ... and gives the units back, but not when the user has only left.      *)
FailureCommit(o, c) ==
  LET call == calls[o][c]
  IN /\ At(o, c, "failure_commit")
     /\ attempts' = [attempts EXCEPT ![o] = AttemptsIn(o, ActiveAttempt, call.answer)]
     /\ PaymentMoves(o, call.payment, call.answer, payments[o].gatewayId)
     /\ \/ /\ call.answer = "FAILED"
           /\ ReleaseStock(o, "payment_failed")
           /\ OrderMoves(o, call.order, "PAYMENT_FAILED", "FAILED")
        \/ /\ call.answer = "EXPIRED"
           /\ ReleaseStock(o, "payment_expired")
           /\ OrderMoves(o, call.order, "EXPIRED", "EXPIRED")
        \/ /\ call.answer = "USER_DROPPED"
           /\ UNCHANGED <<stock, orders>>
     /\ Done(o, c)
     /\ UNCHANGED <<transactions, runs, gateway>>

-----------------------------------------------------------------------------
(* retry: the customer asks for another attempt; what it reads here is     *)
(* what its transaction goes by ...                                        *)
RetryRead(o, c) ==
  /\ Starts(o, c)
  /\ Online(o)
  /\ payments[o].status \in {"PENDING_GATEWAY", "USER_DROPPED", "UNKNOWN_GATEWAY"}
  /\ o \notin due
  /\ ReadTo(o, c, "retry_count")
  /\ UNCHANGED <<stock, books, gateway>>

(* ... with the attempts counted in between.                               *)
RetryCount(o, c) ==
  /\ At(o, c, "retry_count")
  /\ Len(attempts[o]) < MaxAttempts
  /\ Goto(o, c, [calls[o][c] EXCEPT !.at = "retry_commit", !.attempt = Len(attempts[o]) + 1])
  /\ UNCHANGED <<stock, books, gateway>>

(* Mutant: attempt numbers are not unique.                                 *)
RetryCommit_StaleNumber(o, c) ==
  LET call == calls[o][c]
  IN /\ At(o, c, "retry_commit")
     /\ attempts' = [attempts EXCEPT ![o] =
          Append(AttemptsIn(o, ActiveAttempt, "USER_DROPPED"), "INITIATED")]
     /\ transactions' = [transactions EXCEPT ![o] = @ \cup {call.attempt}]
     /\ PaymentMoves(o, call.payment, "PENDING_GATEWAY", payments[o].gatewayId)
     /\ Step(o, c, "retry_payment")
     /\ UNCHANGED <<stock, orders, runs, gateway>>

(* preparePhonepeRetryAttempt; the attempt number is unique.               *)
RetryCommit(o, c) ==
  LET call == calls[o][c]
  IN /\ At(o, c, "retry_commit")
     /\ call.attempt = Len(attempts[o]) + 1
     /\ attempts' = [attempts EXCEPT ![o] =
          Append(AttemptsIn(o, ActiveAttempt, "USER_DROPPED"), "INITIATED")]
     /\ transactions' = [transactions EXCEPT ![o] = @ \cup {call.attempt}]
     /\ PaymentMoves(o, call.payment, "PENDING_GATEWAY", payments[o].gatewayId)
     /\ Step(o, c, "retry_payment")
     /\ UNCHANGED <<stock, orders, runs, gateway>>

(* markPhonepeRetrySessionCreated *)
RetrySession(o, c) ==
  LET after == [attempts[o] EXCEPT ![calls[o][c].attempt] = "PENDING_GATEWAY"]
  IN /\ At(o, c, "retry_session")
     /\ OneActive(after)
     /\ attempts' = [attempts EXCEPT ![o] = after]
     /\ Step(o, c, "session_reply")
     /\ UNCHANGED <<stock, payments, orders, transactions, runs, gateway>>

(* cancel, by the customer: it reads the order, then its payment ...       *)
CancelRead(o, c) ==
  /\ Starts(o, c)
  /\ orders[o].paymentStatus # "PAID"
  /\ orders[o].status \in {"PENDING_PAYMENT", "FULFILLMENT_READY", "ACCEPTED", "PACKING"}
  /\ ReadTo(o, c, "cancel_commit")
  /\ UNCHANGED <<stock, books, gateway>>

(* ... and does not look again.                                            *)
CancelCommit(o, c) ==
  LET call == calls[o][c]
  IN /\ At(o, c, "cancel_commit")
     /\ ReleaseStock(o, "customer_cancelled")
     /\ OrderMoves(o, call.order, "CANCELLED", "EXPIRED")
     /\ IF call.payment \in {"EXPIRED", "FAILED"} THEN UNCHANGED payments
        ELSE PaymentMoves(o, call.payment, "EXPIRED", payments[o].gatewayId)
     /\ Done(o, c)
     /\ UNCHANGED <<attempts, transactions, runs, gateway>>

(* moveOrderToPacking, by the merchant.                                    *)
PackRead(o, c) ==
  /\ Starts(o, c)
  /\ \/ orders[o].paymentStatus = "PAID"
     \/ ~ Online(o) /\ orders[o].paymentStatus = "AUTHORIZED"
  /\ orders[o].status \in {"PAYMENT_CONFIRMED", "FULFILLMENT_READY", "ACCEPTED"}
  /\ ReadTo(o, c, "pack_commit")
  /\ UNCHANGED <<stock, books, gateway>>

PackCommit(o, c) ==
  /\ At(o, c, "pack_commit")
  /\ orders' = [orders EXCEPT ![o].status = "PACKING"]
  /\ Done(o, c)
  /\ UNCHANGED <<stock, payments, attempts, transactions, runs, gateway>>

(* moveOrderToRefundReview, by the merchant.                               *)
RefundReviewRead(o, c) ==
  /\ Starts(o, c)
  /\ orders[o].status \in
       {"PAYMENT_CONFIRMED", "FULFILLMENT_READY", "DELIVERED", "RETURN_REQUESTED"}
  /\ ReadTo(o, c, "refund_review_commit")
  /\ UNCHANGED <<stock, books, gateway>>

RefundReviewCommit(o, c) ==
  /\ At(o, c, "refund_review_commit")
  /\ OrderMoves(o, calls[o][c].order, "REFUND_PENDING", orders[o].paymentStatus)
  /\ Done(o, c)
  /\ UNCHANGED <<stock, payments, attempts, transactions, runs, gateway>>

(* The two rows of a read come from two SELECTs: the second one is later.  *)
ReadSecondRow(o, c) ==
  LET call == calls[o][c]
      later == IF At(o, c, "cancel_commit")
               THEN [call EXCEPT !.payment = payments[o].status]
               ELSE [call EXCEPT !.order = orders[o].status]
  IN /\ call.at \in {"error_commit", "confirm_commit", "failure_commit", "cancel_commit"}
     /\ later # call
     /\ Goto(o, c, later)
     /\ UNCHANGED <<stock, books, gateway>>

(* A call ends early.                                                      *)
Abandon(o, c) ==
  /\ ~ At(o, c, "idle")
  /\ Done(o, c)
  /\ UNCHANGED <<stock, books, gateway>>

(* PhonePe: the customer pays (perhaps another amount), leaves, comes      *)
(* back, or the page fails or expires.  A page nobody was sent can only    *)
(* expire.                                                                 *)
PageMoves(state) ==
  CASE state = "CREATED" -> {"EXPIRED"}
    [] state = "OPEN" -> {"PAID", "MISPAID", "FAILED", "EXPIRED", "USER_DROPPED"}
    [] state = "USER_DROPPED" -> {"PAID", "FAILED", "EXPIRED"}
    [] OTHER -> {}

GatewayMoves(o, n) ==
  /\ \E state \in PageMoves(gateway[o][n]) : gateway' = [gateway EXCEPT ![o][n] = state]
  /\ UNCHANGED <<stock, books, calls>>

(* The steps of the stock that no call of an order takes.                  *)
StockAlone ==
  /\ \/ \E v \in Variants : Stock!InitializeCatalogInventory(v) \/ Stock!ArchiveProductVariant(v)
     \/ \E o \in Orders : Stock!DeadlinePasses(o)
     \/ \E o \in Orders, v \in Variants : Stock!ExpireReservation(o, v)
  /\ UNCHANGED <<books, gateway, calls>>

CheckoutStep(o, c) ==
  \/ PrepareLocalCheckout(o, c)
  \/ GatewayCreates(o, c)
  \/ GatewayErrs(o, c)
  \/ SessionRead(o, c)
  \/ SessionCommit(o, c)
  \/ SessionReply(o, c)
  \/ SessionFails(o, c)
  \/ CreateAgain(o, c)
  \/ ErrorRead(o, c)
  \/ CreateFailed(o, c)
  \/ CreateUnknown(o, c)

VerifyStep(o, c) ==
  \/ VerifyRead(o, c)
  \/ CheckStatus(o, c)
  \/ ConfirmRead(o, c)
  \/ ConfirmTxRead(o, c)
  \/ ConfirmPaid(o, c)
  \/ ConfirmNeedsReview(o, c)
  \/ LateTxRead(o, c)
  \/ LateCommit(o, c)
  \/ FailureRead(o, c)
  \/ FailureTxRead(o, c)
  \/ FailureCommit(o, c)

RetryStep(o, c) ==
  \/ RetryRead(o, c)
  \/ RetryCount(o, c)
  \/ RetryCommit(o, c)
  \/ RetrySession(o, c)

OrderStep(o, c) ==
  \/ CancelRead(o, c)
  \/ CancelCommit(o, c)
  \/ PackRead(o, c)
  \/ PackCommit(o, c)
  \/ RefundReviewRead(o, c)
  \/ RefundReviewCommit(o, c)

Next ==
  \/ \E o \in Orders : CreateCodOrder(o)
  \/ \E o \in Orders, c \in Calls :
       \/ CheckoutStep(o, c)
       \/ VerifyStep(o, c)
       \/ RetryStep(o, c)
       \/ OrderStep(o, c)
       \/ ReadSecondRow(o, c)
       \/ Abandon(o, c)
  \/ \E o \in Orders, n \in 1 .. MaxAttempts : GatewayMoves(o, n)
  \/ StockAlone

Spec == Init /\ [][Next]_vars

(* Every call ends: a request has a timeout.  Nothing is assumed of the    *)
(* customer, of PhonePe, or of who asks about a payment.                   *)
LiveSpec == Spec /\ \A o \in Orders, c \in Calls : WF_vars(Abandon(o, c))

(* The case in which a payment is asked about again and again, and not     *)
(* every try is cut off at the same step.  The code does not bring it      *)
(* about: the status page asks ten times at a visit, a webhook once, and   *)
(* the worker never asks PhonePe.                                          *)
KeepsAsking(o) ==
  /\ SF_vars(\E c \in Calls : VerifyRead(o, c))
  /\ SF_vars(\E c \in Calls : CheckStatus(o, c))
  /\ SF_vars(\E c \in Calls : ConfirmRead(o, c))
  /\ SF_vars(\E c \in Calls : ConfirmTxRead(o, c) \/ LateTxRead(o, c))
  /\ SF_vars(\E c \in Calls :
       ConfirmPaid(o, c) \/ ConfirmNeedsReview(o, c) \/ LateCommit(o, c))

-----------------------------------------------------------------------------
TypeOK ==
  /\ payments \in [Orders -> [status : PaymentStatus \cup {"NONE"}, gatewayId : 0 .. MaxAttempts]]
  /\ orders \in [Orders -> [status : OrderStatus \cup {"NONE"},
                            paymentStatus : PaymentStatus \cup {"NONE"}]]
  /\ attempts \in [Orders -> Seq(AttemptStatus)]
  /\ transactions \in [Orders -> SUBSET (1 .. MaxAttempts)]
  /\ \A o \in Orders : Len(attempts[o]) <= MaxAttempts /\ transactions[o] \subseteq 1 .. Len(attempts[o])
  /\ gateway \in [Orders -> [1 .. MaxAttempts -> GatewayState]]
  /\ runs \in [Orders -> SUBSET DriftCode]
  /\ calls \in [Orders -> [Calls -> Call]]

(* Every line of the order is sold to it.                                  *)
Sold(o) == \A v \in Stock!LinesOf(o) : reservations[o][v] = "CONFIRMED"

(* A payment that is PAID, or an order that the store prepares, owns its   *)
(* units, whatever expired, was cancelled or archived meanwhile: nobody    *)
(* pays for goods that went to another customer.                           *)
PaidOrderOwnsItsUnits ==
  \A o \in Orders :
    \/ payments[o].status = "PAID"
    \/ orders[o].status \in {"FULFILLMENT_READY", "ACCEPTED", "PACKING", "REFUND_PENDING"}
    => Sold(o)

(* What has failed, expired or been cancelled keeps no units on hold.      *)
ClosedOrderHoldsNothing ==
  \A o \in Orders :
    \/ payments[o].status \in {"FAILED", "EXPIRED", "DUPLICATE_SUCCESS_REQUIRES_REFUND"}
    \/ orders[o].status \in {"CANCELLED", "EXPIRED", "PAYMENT_FAILED"}
    => Stock!ActiveLines(o) = {}

(* Units leave for an online order only when PhonePe has been paid for it, *)
(* in full, with a payment page of this order.                             *)
NoGoodsWithoutMoney ==
  \A o \in Orders :
    Online(o) /\ (\E v \in Variants : reservations[o][v] = "CONFIRMED")
      => \E n \in 1 .. MaxAttempts : gateway[o][n] = "PAID"

(* Goods follow the money, and free goods the lack of it, for every order  *)
(* in every crossing of calls.                                             *)
GoodsFollowMoney == PaidOrderOwnsItsUnits /\ ClosedOrderHoldsNothing /\ NoGoodsWithoutMoney

(* Somebody is asked to look at an order only when its units are gone.     *)
ReviewMeansShort ==
  \A o \in Orders :
    payments[o].status = "INVENTORY_CONFIRMATION_REQUIRES_REVIEW"
      => \A v \in Variants : reservations[o][v] # "CONFIRMED"

(* Money that is owed back is on record: with a run for reconciliation, a  *)
(* page PhonePe was paid for, and the id of that payment.                  *)
RefundOwedIsOnRecord ==
  \A o \in Orders :
    payments[o].status = "DUPLICATE_SUCCESS_REQUIRES_REFUND"
      => /\ "LATE_SUCCESS_AFTER_RELEASED_TERMINAL_STATE" \in runs[o]
         /\ payments[o].gatewayId # 0
         /\ gateway[o][payments[o].gatewayId] = "PAID"

(* What is left to people is what it is said to be: a review of goods that *)
(* are gone, a refund of money that was taken.                             *)
OpenCasesAreTrue == ReviewMeansShort /\ RefundOwedIsOnRecord

Answered(o) ==
  payments[o].status \in {"PAID", "DUPLICATE_SUCCESS_REQUIRES_REFUND",
                          "INVENTORY_CONFIRMATION_REQUIRES_REVIEW"}

(* The order was cancelled while a call that had read its payment before   *)
(* took it on (to the page just created, or to one the customer has left). *)
Stranded(o) ==
  orders[o].status = "CANCELLED" /\ payments[o].status \in {"PENDING_GATEWAY", "USER_DROPPED"}

(* Asking is enough: whatever has crossed what before, money that PhonePe  *)
(* has taken is answered (the payment becomes PAID, goes to review or is   *)
(* to be refunded) if somebody goes on asking, unless the cancellation of  *)
(* the order crossed a call that takes the payment on.                     *)
AskedIsAnswered ==
  \A o \in Orders \ CodOrders :
    KeepsAsking(o) =>
      ((\E n \in 1 .. MaxAttempts : gateway[o][n] = "PAID") ~> (Answered(o) \/ Stranded(o)))

(* The second attempt of a payment can be paid: the money is answered, if  *)
(* somebody goes on asking and the order is not cancelled.                 *)
RetriedIsAnswered ==
  \A o \in Orders \ CodOrders :
    KeepsAsking(o) =>
      ((transactions[o] = {1, 2} /\ gateway[o][2] = "PAID")
         ~> (Answered(o) \/ orders[o].status = "CANCELLED"))

(* An order whose payment is PAID is not cancelled: that takes a refund.   *)
PaidIsNotCancelled ==
  [][\A o \in Orders :
       orders[o].paymentStatus = "PAID" /\ orders'[o].status = "CANCELLED"
         => orders[o].status = "CANCELLED"]_vars

(* A payment that has failed or expired, and whose units are back on the   *)
(* shelf, can only become one to be refunded.                              *)
ReleasedIsTerminal ==
  [][\A o \in Orders :
       payments[o].status \in {"FAILED", "EXPIRED"}
         => payments'[o].status \in {payments[o].status, "DUPLICATE_SUCCESS_REQUIRES_REFUND"}]_vars

(* To cancel an order releases its stock.                                  *)
CancelledReleasesStock ==
  \A o \in Orders :
    orders[o].status = "CANCELLED"
      => \A v \in Stock!LinesOf(o) : reservations[o][v] \in {"RELEASED", "EXPIRED"}

=============================================================================
