---------------------------- MODULE PointOfSale -----------------------------
(***************************************************************************)
(* The counter of a store (modules/pos): a register's sessions are opened  *)
(* and closed (pos-session.service.ts), and sales take units straight from *)
(* the stock columns of product_variants (pos-checkout.service.ts), into   *)
(* which the inventory engine copies its own row whenever it writes that.  *)
(* Every sale is of one unit of one variant, for 1 in cash or by card.     *)
(***************************************************************************)
EXTENDS Integers, FiniteSets

CONSTANTS
  Tills,          \* sessions of the register
  Clerks,         \* requests that may be under way at once
  Receipts,       \* the last six digits of the clock
  OpeningFloat,
  ShelfUnits      \* units that the engine knows of at the start

VARIABLES
  tills,     \* pos_sessions
  taken,     \* cash of the committed sales of each session
  late,      \* that part of it which sales took that had begun in time
             \* and committed after the session was added up or closed
  receipts,  \* receipt numbers in use
  shelf,     \* available_stock of the engine's row
  column,    \* stock of the variant's columns
  counter,   \* history: units the counter sold since the engine last wrote
  clerks

posVars == <<tills, taken, late, receipts, shelf, column, counter, clerks>>

Free == [at |-> "idle", till |-> "none", sum |-> 0, intime |-> TRUE]

Init ==
  /\ tills = [t \in Tills |-> [status |-> "NONE", expected |-> 0, added |-> FALSE]]
  /\ taken = [t \in Tills |-> 0] /\ late = [t \in Tills |-> 0]
  /\ receipts = {}
  /\ shelf = ShelfUnits /\ column = ShelfUnits /\ counter = 0
  /\ clerks = [c \in Clerks |-> Free]

Busy(c, at) == clerks[c].at = at

SetClerk(c, call) == clerks' = [clerks EXCEPT ![c] = call]

Counted == UNCHANGED <<taken, late, receipts, shelf, column, counter>>

-----------------------------------------------------------------------------
(* openSession looks for an open session, then creates one: two that look  *)
(* at once both do.                                                        *)
CheckOpen(c) ==
  /\ Busy(c, "idle") /\ \A t \in Tills : tills[t].status # "OPEN"
  /\ SetClerk(c, [Free EXCEPT !.at = "open"])
  /\ Counted /\ UNCHANGED tills

OpenSession(c) ==
  /\ Busy(c, "open")
  /\ \E t \in Tills :
       /\ tills[t].status = "NONE"
       /\ tills' = [tills EXCEPT ![t].status = "OPEN"]
  /\ SetClerk(c, Free)
  /\ Counted

(* Mutant: closed sessions sell as well.                                   *)
CheckSale_Closed(c, t) ==
  /\ Busy(c, "idle") /\ tills[t].status \in {"OPEN", "CLOSED"}
  /\ SetClerk(c, [Free EXCEPT !.at = "sale", !.till = t, !.intime = tills[t].status = "OPEN"])
  /\ Counted /\ UNCHANGED tills

(* processCheckout looks at the session before its transaction begins.     *)
CheckSale(c, t) ==
  /\ Busy(c, "idle") /\ tills[t].status = "OPEN"
  /\ SetClerk(c, [Free EXCEPT !.at = "sale", !.till = t, !.intime = TRUE])
  /\ Counted /\ UNCHANGED tills

(* The transaction has read the variant, and no lock keeps others away.    *)
ReadVariant(c) ==
  /\ Busy(c, "sale")
  /\ SetClerk(c, [clerks[c] EXCEPT !.at = "deduct", !.sum = column])
  /\ Counted /\ UNCHANGED tills

(* Mutant: the units left are worked out from what was read.               *)
Deduct_FromRead(c) == column' = clerks[c].sum - 1

(* The decrement is the database's.                                        *)
Deduct(c) == column' = column - 1

(* The transaction commits the sale, its payment and the deduction, unless *)
(* the receipt number is in use or the columns would become negative: then *)
(* none of them.  The engine's row and ledger are not touched.             *)
CommitSale(c) ==
  LET t == clerks[c].till
      missed == IF tills[t].added /\ clerks[c].intime THEN 1 ELSE 0
  IN /\ Busy(c, "deduct")
     /\ SetClerk(c, Free)
     /\ \E receipt \in Receipts, cash \in {0, 1} :
          IF receipt \in receipts \/ column = 0
          THEN Counted
          ELSE /\ receipts' = receipts \cup {receipt}
               /\ taken' = [taken EXCEPT ![t] = @ + cash]
               /\ late' = [late EXCEPT ![t] = @ + cash * missed]
               /\ Deduct(c) /\ counter' = counter + 1
               /\ UNCHANGED shelf
     /\ UNCHANGED tills

(* Mutant: the cash of the whole register is added up.                     *)
CashSales_OfRegister(t) ==
  LET Sum[S \in SUBSET Tills] ==
        IF S = {} THEN 0 ELSE LET u == CHOOSE u \in S : TRUE IN taken[u] + Sum[S \ {u}]
  IN Sum[Tills]

CashSales(t) == taken[t]

(* closeSession reads the session with its sales and adds them up ...      *)
AddUp(c, t) ==
  /\ Busy(c, "idle") /\ tills[t].status = "OPEN"
  /\ SetClerk(c, [Free EXCEPT !.at = "close", !.till = t, !.sum = OpeningFloat + CashSales(t)])
  /\ tills' = [tills EXCEPT ![t].added = TRUE]
  /\ Counted

(* ... and closes it, also when another request has closed it meanwhile.   *)
CloseSession(c) ==
  /\ Busy(c, "close")
  /\ tills' = [tills EXCEPT ![clerks[c].till] = [@ EXCEPT !.status = "CLOSED", !.expected = clerks[c].sum]]
  /\ SetClerk(c, Free)
  /\ Counted

(* A request fails or the process stops.                                   *)
GiveUp(c) ==
  /\ ~Busy(c, "idle")
  /\ SetClerk(c, Free)
  /\ Counted /\ UNCHANGED tills

(* updateInventoryItem: an order moves units, and the columns become what  *)
(* the row is.                                                             *)
EngineWrites ==
  /\ shelf' \in {shelf - 1, shelf + 1} /\ shelf' \in 0..ShelfUnits
  /\ column' = shelf' /\ counter' = 0
  /\ UNCHANGED <<tills, taken, late, receipts, clerks>>

Next ==
  \/ \E c \in Clerks :
       \/ CheckOpen(c) \/ OpenSession(c) \/ ReadVariant(c) \/ CommitSale(c) \/ CloseSession(c) \/ GiveUp(c)
       \/ \E t \in Tills : CheckSale(c, t) \/ AddUp(c, t)
  \/ EngineWrites

Spec == Init /\ [][Next]_posVars

-----------------------------------------------------------------------------
(* Every variable has its type.                                            *)
TypeOK ==
  /\ tills \in [Tills -> [status : {"NONE", "OPEN", "CLOSED"}, expected : Nat, added : BOOLEAN]]
  /\ taken \in [Tills -> Nat] /\ late \in [Tills -> Nat]
  /\ receipts \subseteq Receipts
  /\ shelf \in 0..ShelfUnits /\ column \in Nat /\ counter \in Nat
  /\ clerks \in [Clerks -> [at : {"idle", "open", "sale", "deduct", "close"}, till : Tills \cup {"none"},
                            sum : Int, intime : BOOLEAN]]

(* The cash that a closed session expects is never more than its float and *)
(* its sales, and what it leaves out was taken by sales that had begun     *)
(* before it was closed, though two sessions may be open at once, sales    *)
(* commit after the adding up, and a session may be closed twice.          *)
TillCountsItsSales ==
  \A t \in Tills :
    tills[t].status = "CLOSED" =>
      /\ tills[t].expected <= OpeningFloat + taken[t]
      /\ OpeningFloat + taken[t] <= tills[t].expected + late[t]

(* However sales and the engine's writes cross, the columns differ from    *)
(* the engine's row by the units sold at the counter since the engine last *)
(* wrote, and by nothing else: no sale takes back another's.               *)
ColumnShowsCounterSales == column = shelf - counter
=============================================================================
