--------------------------- MODULE MCOrderPayments ---------------------------
(* Values for the constants of OrderPayments: every order is for one unit  *)
(* of each variant, and there is one unit of each.                         *)
EXTENDS OrderPayments, TLC

CONSTANTS o1, o2, v1, c1, c2

MCQuantity == [o \in Orders |-> [v \in Variants |-> 1]]
MCSeedAvailable == [v \in Variants |-> 1]
MCSeedReserved == [v \in Variants |-> 0]
MCAdjustedVariant == [k \in Adjustments |-> v1]
Symmetry == Permutations(Calls)
=============================================================================
