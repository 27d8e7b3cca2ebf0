------------------------------ MODULE Refunds ------------------------------
(***************************************************************************)
(* Refunds of one paid payment (PaymentsService.refund and refundPhonepe). *)
(*                                                                         *)
(* A request reads the payment, reserves its idempotency key, inserts a    *)
(* refunds row, asks the gateway and then books the refund on the payment  *)
(* it read at the start.  Each of these is a step, and any number of       *)
(* requests are between them at the same time.  The idempotency service is *)
(* taken at its promise here (a key is free, in progress or completed,     *)
(* and reserving it is atomic); Idempotency models the service itself.     *)
(***************************************************************************)
EXTENDS Integers, FiniteSets, FiniteSetsExt

CONSTANTS Requests,   \* refund requests, each made once
          Keys,       \* idempotency keys the clients send
          Amounts,    \* amounts they ask for, in paise
          Paid,       \* amountPaise of the payment
          MayCrash    \* whether a process may stop within a request

ASSUME RequestsFinite == IsFiniteSet(Requests)

ASSUME RefundInputs == Amounts \subseteq Int /\ Paid \in Nat \ {0} /\ MayCrash \in BOOLEAN

VARIABLES
  payment,    \* payments: status and refunded_paise
  refunds,    \* refunds, by their unique idempotency_key
  keys,       \* the idempotency reservation of each key, and the amount hashed in it
  gateway,    \* amount the gateway has paid back for each request (external)
  requests    \* what each request is doing, what it asked for and has read

vars == <<payment, refunds, keys, gateway, requests>>

Refundable == {"PAID", "PARTIALLY_REFUNDED"}

Point == {"start", "reserve", "create", "ask", "book", "complete", "fail",
          "done", "replayed", "refused"}

Payment == [status : Refundable \cup {"REFUNDED"}, refunded : Nat]

(* by: the request whose refundId the row holds *)
Refund == [status : {"NONE", "INITIATED", "SUCCESS", "FAILED"}, by : Requests \cup {"none"}]

Reservation == [status : {"FREE", "IN_PROGRESS", "COMPLETED"}, amount : Int]

(* payment: what the request has read of it *)
Request == [at : Point, key : Keys, amount : Amounts, payment : Payment]

NoRefund == [status |-> "NONE", by |-> "none"]

Init ==
  /\ payment = [status |-> "PAID", refunded |-> 0]
  /\ refunds = [k \in Keys |-> NoRefund]
  /\ keys = [k \in Keys |-> [status |-> "FREE", amount |-> 0]]
  /\ gateway = [r \in Requests |-> 0]
  /\ requests \in [Requests -> [at : {"start"}, key : Keys, amount : Amounts,
                                payment : {payment}]]

At(r, point) == requests[r].at = point

Goto(r, point) == requests' = [requests EXCEPT ![r].at = point]

Key(r) == requests[r].key

Amount(r) == requests[r].amount

-----------------------------------------------------------------------------
(* Mutant: the amount is compared with the payment, not with its balance.  *)
Read_Whole(r) ==
  /\ At(r, "start")
  /\ requests' = [requests EXCEPT ![r].payment = payment,
       ![r].at = IF payment.status \in Refundable /\ Amount(r) \in 1 .. Paid
                 THEN "reserve" ELSE "refused"]
  /\ UNCHANGED <<payment, refunds, keys, gateway>>

(* ownedPayment and the checks on it.                                      *)
Read(r) ==
  /\ At(r, "start")
  /\ requests' = [requests EXCEPT ![r].payment = payment,
       ![r].at = IF /\ payment.status \in Refundable
                    /\ Amount(r) > 0
                    /\ Amount(r) <= Paid - payment.refunded
                 THEN "reserve" ELSE "refused"]
  /\ UNCHANGED <<payment, refunds, keys, gateway>>

(* Mutant: a key in progress is handed out again.                          *)
Reserve_Shared(r) ==
  /\ At(r, "reserve")
  /\ \/ /\ keys[Key(r)].status # "COMPLETED"
        /\ keys' = [keys EXCEPT ![Key(r)] = [status |-> "IN_PROGRESS", amount |-> Amount(r)]]
        /\ Goto(r, "create")
     \/ /\ keys[Key(r)].status = "COMPLETED"
        /\ Goto(r, "replayed")
        /\ UNCHANGED keys
  /\ UNCHANGED <<payment, refunds, gateway>>

(* idempotency.reserve: a free key is taken, a completed one answers the   *)
(* same request again, and anything else is a conflict.                    *)
Reserve(r) ==
  /\ At(r, "reserve")
  /\ \/ /\ keys[Key(r)].status = "FREE"
        /\ keys' = [keys EXCEPT ![Key(r)] = [status |-> "IN_PROGRESS", amount |-> Amount(r)]]
        /\ Goto(r, "create")
     \/ /\ keys[Key(r)] = [status |-> "COMPLETED", amount |-> Amount(r)]
        /\ Goto(r, "replayed")
        /\ UNCHANGED keys
     \/ /\ \/ keys[Key(r)].status = "IN_PROGRESS"
           \/ keys[Key(r)].status = "COMPLETED" /\ keys[Key(r)].amount # Amount(r)
        /\ Goto(r, "refused")
        /\ UNCHANGED keys
  /\ UNCHANGED <<payment, refunds, gateway>>

(* Mutant: the row of an earlier refund under the key is used again.       *)
CreateRefund_Again(r) ==
  /\ At(r, "create")
  /\ refunds' = [refunds EXCEPT ![Key(r)] = [status |-> "INITIATED", by |-> r]]
  /\ Goto(r, "ask")
  /\ UNCHANGED <<payment, keys, gateway>>

(* refund.create stands before the try block: a row of the key that is     *)
(* there already ends the request, and nothing gives the key back.         *)
CreateRefund(r) ==
  /\ At(r, "create")
  /\ IF refunds[Key(r)] = NoRefund
     THEN /\ refunds' = [refunds EXCEPT ![Key(r)] = [status |-> "INITIATED", by |-> r]]
          /\ Goto(r, "ask")
     ELSE /\ Goto(r, "refused")
          /\ UNCHANGED refunds
  /\ UNCHANGED <<payment, keys, gateway>>

(* phonepe.refund: the gateway pays back or does not, and its answer       *)
(* arrives or is lost (external).                                          *)
AskGateway(r) ==
  /\ At(r, "ask")
  /\ \/ gateway' = [gateway EXCEPT ![r] = Amount(r)] /\ Goto(r, "book")
     \/ gateway' \in {gateway, [gateway EXCEPT ![r] = Amount(r)]} /\ Goto(r, "fail")
  /\ UNCHANGED <<payment, refunds, keys>>

(* Mutant: the payment is taken as refunded in full.                       *)
Booked_Whole(r) == [refunded |-> Paid, status |-> "REFUNDED"]

(* newRefunded: the payment read at the start plus this refund.            *)
Booked(r) ==
  LET refunded == requests[r].payment.refunded + Amount(r)
  IN [refunded |-> refunded,
      status |-> IF refunded >= Paid THEN "REFUNDED" ELSE "PARTIALLY_REFUNDED"]

(* The transaction books the refund, or fails and is rolled back.          *)
BookRefund(r) ==
  /\ At(r, "book")
  /\ \/ /\ refunds' = [refunds EXCEPT ![Key(r)].status = "SUCCESS"]
        /\ payment' = Booked(r)
        /\ Goto(r, "complete")
     \/ /\ Goto(r, "fail")
        /\ UNCHANGED <<payment, refunds>>
  /\ UNCHANGED <<keys, gateway>>

(* idempotency.complete, which stands in the try block as well: when it    *)
(* fails, the refund that was booked is marked as failed.                  *)
CompleteKey(r) ==
  /\ At(r, "complete")
  /\ \/ /\ keys' = [keys EXCEPT ![Key(r)].status = "COMPLETED"]
        /\ Goto(r, "done")
     \/ /\ Goto(r, "fail")
        /\ UNCHANGED keys
  /\ UNCHANGED <<payment, refunds, gateway>>

(* The catch block: the refund is FAILED (or stays as it is, when that     *)
(* write fails too) and the key is given back, unless the process stops    *)
(* between the two writes.                                                 *)
FailRefund(r) ==
  /\ At(r, "fail")
  /\ \/ refunds' = [refunds EXCEPT ![Key(r)].status = "FAILED"]
     \/ UNCHANGED refunds
  /\ \/ keys' = [keys EXCEPT ![Key(r)].status = "FREE"]
     \/ MayCrash /\ UNCHANGED keys
  /\ Goto(r, "done")
  /\ UNCHANGED <<payment, gateway>>

(* The process stops.                                                      *)
Crash(r) ==
  /\ MayCrash
  /\ requests[r].at \notin {"start", "done", "replayed", "refused"}
  /\ Goto(r, "done")
  /\ UNCHANGED <<payment, refunds, keys, gateway>>

Next ==
  \E r \in Requests :
    \/ Read(r)
    \/ Reserve(r)
    \/ CreateRefund(r)
    \/ AskGateway(r)
    \/ BookRefund(r)
    \/ CompleteKey(r)
    \/ FailRefund(r)
    \/ Crash(r)

Spec == Init /\ [][Next]_vars

-----------------------------------------------------------------------------
(* Every variable holds what the schema and the requests can hold, and     *)
(* never more than the payment is booked as refunded.                      *)
TypeOK ==
  /\ payment \in Payment
  /\ payment.refunded <= Paid
  /\ refunds \in [Keys -> Refund]
  /\ keys \in [Keys -> Reservation]
  /\ gateway \in [Requests -> Int]
  /\ requests \in [Requests -> Request]

PaidBack(S) == MapThenSumSet(LAMBDA r : gateway[r], S)

(* However often a client retries with a key, after failures, lost answers *)
(* and crashes, the gateway pays back at most one refund for it: the       *)
(* unique row of the key holds even where the reservation was given back.  *)
KeyPaysOnce ==
  \A r, s \in Requests : Key(r) = Key(s) /\ gateway[r] # 0 /\ gateway[s] # 0 => r = s

(* What is booked as refunded has been paid back by the gateway: a refund  *)
(* is never booked before, without or beyond the gateway's own.            *)
BookedIsPaidBack == payment.refunded <= PaidBack(Requests)

(* A replayed request is told of a refund of the amount it asks for, that  *)
(* the gateway has made under its key.                                     *)
ReplayIsPaidBack ==
  \A r \in Requests : At(r, "replayed") =>
    \E s \in Requests : Key(s) = Key(r) /\ gateway[s] = Amount(r)

(* The refunds recorded as SUCCESS are all in refunded_paise, the balance  *)
(* that the next request is checked against.                               *)
RefundsAreBooked ==
  PaidBack({refunds[k].by : k \in {j \in Keys : refunds[j].status = "SUCCESS"}})
    <= payment.refunded

(* A key that is answered with IDEMPOTENCY_IN_PROGRESS belongs to a        *)
(* request that is in progress.                                            *)
InProgressIsAtWork ==
  \A k \in Keys : keys[k].status = "IN_PROGRESS" =>
    \E r \in Requests : Key(r) = k /\
      requests[r].at \in {"create", "ask", "book", "complete", "fail"}

=============================================================================
