---------------------------- MODULE PaymentStates ----------------------------
(***************************************************************************)
(* The statuses of payments, payment attempts and orders, and the tables   *)
(* of their legal moves (backend/src/modules/payments/                     *)
(* payment-state.machine.ts).                                              *)
(***************************************************************************)

PaymentStatus ==
  {"PENDING", "INITIATED", "SESSION_CREATED", "PENDING_GATEWAY", "AUTHORIZED",
   "PAID", "FAILED", "USER_DROPPED", "EXPIRED", "UNKNOWN_GATEWAY",
   "REFUND_PENDING", "PARTIALLY_REFUNDED", "REFUNDED", "CHARGEBACK_OPENED",
   "DUPLICATE_SUCCESS_REQUIRES_REFUND", "INVENTORY_CONFIRMATION_REQUIRES_REVIEW"}

OrderStatus ==
  {"PENDING", "PENDING_PAYMENT", "PAYMENT_CONFIRMED", "PAYMENT_FAILED",
   "INVENTORY_CONFIRMATION_REQUIRES_REVIEW", "FULFILLMENT_READY", "ACCEPTED",
   "REJECTED", "PACKING", "OUT_FOR_DELIVERY", "DELIVERED", "CANCELLED",
   "EXPIRED", "REFUND_PENDING", "RETURN_REQUESTED"}

AttemptStatus ==
  {"INITIATED", "SESSION_CREATED", "PENDING_GATEWAY", "AUTHORIZED", "PAID",
   "FAILED", "USER_DROPPED", "EXPIRED", "UNKNOWN_GATEWAY",
   "DUPLICATE_SUCCESS_REQUIRES_REFUND", "INVENTORY_CONFIRMATION_REQUIRES_REVIEW"}

(* activeAttemptStatuses, and the condition of the unique index that       *)
(* admits one such attempt per order.                                      *)
ActiveAttempt ==
  {"INITIATED", "SESSION_CREATED", "PENDING_GATEWAY", "AUTHORIZED", "UNKNOWN_GATEWAY"}

PaymentTransitions ==
  LET review == "INVENTORY_CONFIRMATION_REQUIRES_REVIEW"
      refundOwed == "DUPLICATE_SUCCESS_REQUIRES_REFUND"
  IN [PENDING |-> {"INITIATED", "SESSION_CREATED", "PENDING_GATEWAY", "FAILED", review},
      INITIATED |-> {"SESSION_CREATED", "AUTHORIZED", "FAILED", "EXPIRED",
                     "UNKNOWN_GATEWAY", review},
      SESSION_CREATED |-> {"PENDING_GATEWAY", "FAILED", "EXPIRED",
                           "UNKNOWN_GATEWAY", review},
      PENDING_GATEWAY |-> {"AUTHORIZED", "PAID", "FAILED", "USER_DROPPED",
                           "EXPIRED", "UNKNOWN_GATEWAY", review},
      AUTHORIZED |-> {"PAID", "FAILED", "EXPIRED", review},
      PAID |-> {"REFUND_PENDING", "PARTIALLY_REFUNDED", "REFUNDED",
                "CHARGEBACK_OPENED", refundOwed},
      FAILED |-> {refundOwed},
      USER_DROPPED |-> {"INITIATED", "SESSION_CREATED", "PENDING_GATEWAY", "PAID",
                        review, "EXPIRED"},
      EXPIRED |-> {refundOwed},
      UNKNOWN_GATEWAY |-> {"PENDING_GATEWAY", "PAID", "FAILED", "EXPIRED", review},
      REFUND_PENDING |-> {"PARTIALLY_REFUNDED", "REFUNDED", "PAID", "FAILED"},
      PARTIALLY_REFUNDED |-> {"REFUND_PENDING", "REFUNDED"},
      REFUNDED |-> {},
      CHARGEBACK_OPENED |-> {"REFUND_PENDING", "REFUNDED"},
      DUPLICATE_SUCCESS_REQUIRES_REFUND |-> {"REFUND_PENDING", "REFUNDED"},
      INVENTORY_CONFIRMATION_REQUIRES_REVIEW |->
        {refundOwed, "REFUND_PENDING", "REFUNDED"}]

OrderTransitions ==
  LET review == "INVENTORY_CONFIRMATION_REQUIRES_REVIEW"
  IN [PENDING |-> {"PENDING_PAYMENT", "PAYMENT_CONFIRMED", "PAYMENT_FAILED", "CANCELLED"},
      PENDING_PAYMENT |-> {"PAYMENT_CONFIRMED", "PAYMENT_FAILED", review,
                           "EXPIRED", "CANCELLED"},
      PAYMENT_CONFIRMED |-> {"FULFILLMENT_READY", review, "REFUND_PENDING"},
      PAYMENT_FAILED |-> {},
      INVENTORY_CONFIRMATION_REQUIRES_REVIEW |-> {"REFUND_PENDING", "CANCELLED"},
      FULFILLMENT_READY |-> {"ACCEPTED", "CANCELLED", "REFUND_PENDING"},
      ACCEPTED |-> {"PACKING", "CANCELLED"},
      REJECTED |-> {},
      PACKING |-> {"OUT_FOR_DELIVERY", "CANCELLED"},
      OUT_FOR_DELIVERY |-> {"DELIVERED", "RETURN_REQUESTED"},
      DELIVERED |-> {"RETURN_REQUESTED", "REFUND_PENDING"},
      CANCELLED |-> {},
      EXPIRED |-> {},
      REFUND_PENDING |-> {"CANCELLED"},
      RETURN_REQUESTED |-> {"REFUND_PENDING"}]

(* assertPaymentTransition and assertOrderTransition: a move to the status *)
(* one is in is always accepted.                                           *)
PaymentMay(from, to) == from = to \/ to \in PaymentTransitions[from]

OrderMay(from, to) == from = to \/ to \in OrderTransitions[from]
=============================================================================
