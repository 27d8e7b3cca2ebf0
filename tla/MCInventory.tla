----------------------------- MODULE MCInventory -----------------------------
(* Values for the constants of Inventory: orders o1 and o2 want the same   *)
(* variant v1, which has units for either of them but not for both; o1 has *)
(* a second line.  v1 has a hold left by the old engine, v2 no row yet.    *)
(* A behaviour is one of the engine, or one of the counter of the store    *)
(* (PointOfSale), where the engine is a writer of one row, or one checkout *)
(* that is priced (Quotes).                                                *)
EXTENDS Inventory

CONSTANTS o1, o2, v1, v2, Tills, Clerks, Receipts, OpeningFloat, ShelfUnits

CONSTANTS Prices, Quantities, Priced, MaxLines, MaxRequested, Gst

ASSUME CounterType == ShelfUnits \in Nat /\ OpeningFloat \in Nat

ASSUME QuoteInputs == Prices \subseteq Nat /\ Quantities \subseteq Nat /\ Priced \subseteq Int /\ Gst \in Nat

VARIABLES part, tills, taken, late, receipts, shelf, column, counter, clerks, price, quote

POS == INSTANCE PointOfSale

Quotes == INSTANCE Quotes

posVars == <<tills, taken, late, receipts, shelf, column, counter, clerks>>

quoteVars == <<price, quote>>

MCQuantity == [o \in Orders |->
  [v \in Variants |-> IF o = o1 THEN IF v = v1 THEN 2 ELSE 1
                      ELSE IF v = v1 THEN 1 ELSE 0]]
MCSeedAvailable == [v \in Variants |-> IF v = v1 THEN 2 ELSE 1]
MCSeedReserved == [v \in Variants |-> IF v = v1 THEN 1 ELSE 0]
MCBackfilled == {v1}
MCAdjustedVariant == [k \in Adjustments |-> v1]
MCDeltas == {-1, 1}

StockInit ==
  /\ part \in {"engine", "counter", "quotes"}
  /\ Init /\ POS!Init
  /\ IF part = "quotes" THEN Quotes!Init ELSE price = [v \in Priced |-> 0] /\ quote = Quotes!Refused

StockNext ==
  /\ UNCHANGED part
  /\ IF part = "engine" THEN Next ELSE UNCHANGED vars
  /\ IF part = "counter" THEN POS!Next ELSE UNCHANGED posVars
  /\ IF part = "quotes" THEN Quotes!Next ELSE UNCHANGED quoteVars

StockSpec ==
  /\ StockInit
  /\ [][StockNext]_<<part, vars, posVars, quoteVars>>
  /\ WF_vars(\E o \in Orders, v \in Variants : ExpireReservation(o, v))
-----------------------------------------------------------------------------
(* PointOfSale: what a closed session expects is its float and its sales,  *)
(* but for those that crossed its closing, and the columns lag behind the  *)
(* engine's row by the counter's sales since the engine last wrote it, and *)
(* by nothing else.                                                        *)
CounterIsAccounted == POS!TypeOK /\ POS!TillCountsItsSales /\ POS!ColumnShowsCounterSales

(* Quotes: discounts, taxes and totals agree to the paisa.                 *)
QuoteIsExact == Quotes!QuoteIsExact
=============================================================================
