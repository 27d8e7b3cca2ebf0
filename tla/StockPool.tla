------------------------------ MODULE StockPool ------------------------------
(***************************************************************************)
(* What the inventory engine promises its callers, with no ledger,         *)
(* operation keys or deadlines: units of a variant are free or claimed by  *)
(* an order; an order claims all the lines it wants or none, sells all of  *)
(* them or none, and gives back all it still holds at once; single lines   *)
(* come back only by lapsing, or with the writing off of a variant; a      *)
(* claim is decided once; and the counter of free units, which a checkout  *)
(* tests, is at every moment the units supplied that nobody claims.        *)
(***************************************************************************)
EXTENDS Integers, FiniteSets

CONSTANTS Orders, Variants, Quantity,
          Shelf,   \* units of each variant free at the start
          Legacy   \* units of each variant held for good by the old engine

VARIABLES claims,  \* claims[o][v]: "none", "held", "sold" or "returned"
          supply,  \* units of each variant supplied so far, less write-offs
          free     \* the counter of free units of each variant

poolVars == <<claims, supply, free>>

Wanted(o) == {v \in Variants : Quantity[o][v] > 0}

ClaimedUnits(v, kinds) ==
  UNION {{o} \X (1 .. Quantity[o][v]) : o \in {p \in Orders : claims[p][v] \in kinds}}

Unclaimed(v) ==
  supply[v] - Legacy[v] - Cardinality(ClaimedUnits(v, {"held", "sold"}))

(* The counter is what nobody claims.                                      *)
Counted == free = [v \in Variants |-> Unclaimed(v)]

Init ==
  /\ claims = [o \in Orders |-> [v \in Variants |-> "none"]]
  /\ supply = [v \in Variants |-> Shelf[v] + Legacy[v]]
  /\ free = Shelf

Decide(o, S, claim) ==
  claims' = [claims EXCEPT ![o] = [v \in Variants |-> IF v \in S THEN claim ELSE @[v]]]

(* An order takes all the units it wants, on hold or for good, once.       *)
Claim(o, claim) ==
  /\ \A v \in Variants : claims[o][v] = "none"
  /\ \A v \in Wanted(o) : free[v] >= Quantity[o][v]
  /\ Decide(o, Wanted(o), claim)
  /\ UNCHANGED supply

(* All the units the order wanted are still on hold, and become sold.      *)
Sell(o) ==
  /\ \A v \in Wanted(o) : claims[o][v] = "held"
  /\ Decide(o, Wanted(o), "sold")
  /\ UNCHANGED supply

(* An order is given up: every line it still holds is free again.          *)
Return(o) ==
  /\ Decide(o, {v \in Variants : claims[o][v] = "held"}, "returned")
  /\ UNCHANGED supply

(* One line of an order has been held for too long.                        *)
Lapse(o, v) ==
  /\ claims[o][v] = "held"
  /\ Decide(o, {v}, "returned")
  /\ UNCHANGED supply

(* The merchant adds units, or takes away free ones.                       *)
Restock(v) ==
  /\ supply' = [supply EXCEPT ![v] = supply'[v]]
  /\ free[v] + supply'[v] - supply[v] >= 0
  /\ UNCHANGED claims

(* Every unit of the variant that is not sold leaves the pool.             *)
WriteOff(v) ==
  /\ claims' = [o \in Orders |-> [w \in Variants |->
       IF w = v /\ claims[o][w] = "held" THEN "returned" ELSE claims[o][w]]]
  /\ supply' = [supply EXCEPT ![v] =
       Legacy[v] + Cardinality(ClaimedUnits(v, {"sold"}))]

Step ==
  \/ \E o \in Orders, claim \in {"held", "sold"} : Claim(o, claim)
  \/ \E o \in Orders : Sell(o)
  \/ \E o \in Orders : Return(o)
  \/ \E o \in Orders, v \in Variants : Lapse(o, v)
  \/ \E v \in Variants : Restock(v)
  \/ \E v \in Variants : WriteOff(v)

Next == Step /\ Counted'

Spec == Init /\ [][Next]_poolVars
=============================================================================
