--------------------------- MODULE RefundsProofs ---------------------------
(***************************************************************************)
(* Proofs about Refunds, for any requests, keys, amounts and payment.      *)
(***************************************************************************)
EXTENDS Refunds, FiniteSums, FiniteSetTheorems, TLAPS

(* A request that has passed the checks of Read asks for no more than the  *)
(* balance it has read.                                                    *)
WithinBalanceRead ==
  \A r \in Requests :
    requests[r].at \in {"reserve", "create", "ask", "book"} =>
      Amount(r) > 0 /\ Amount(r) <= Paid - requests[r].payment.refunded

(* From its insertion on, the refunds row of a key names the request that  *)
(* has asked the gateway under the key.                                    *)
RowNamesItsRequest ==
  \A r \in Requests :
    requests[r].at = "ask" \/ gateway[r] # 0 =>
      refunds[Key(r)].status # "NONE" /\ refunds[Key(r)].by = r

RefundInv == TypeOK /\ WithinBalanceRead /\ RowNamesItsRequest

-----------------------------------------------------------------------------
(* Goto moves one request and leaves what it has asked for and read.       *)
LEMMA GotoMoves ==
  ASSUME TypeOK, NEW r \in Requests, NEW point \in Point, Goto(r, point)
  PROVE  /\ requests' \in [Requests -> Request]
         /\ \A s \in Requests : /\ requests'[s].key = requests[s].key
                                /\ requests'[s].amount = requests[s].amount
                                /\ requests'[s].payment = requests[s].payment
                                /\ requests'[s].at = IF s = r THEN point ELSE requests[s].at
BY DEF TypeOK, Goto, Request

(* A step that only moves a request to a point where it has asked for      *)
(* nothing yet, or no longer will, preserves the bound on what it asks.    *)
LEMMA BoundKept ==
  ASSUME RefundInv, NEW r \in Requests, NEW point \in Point, Goto(r, point),
         point \in {"reserve", "create", "ask", "book"} =>
           requests[r].at \in {"reserve", "create", "ask", "book"}
  PROVE  WithinBalanceRead'
<1>1. \A s \in Requests : /\ requests'[s].amount = requests[s].amount
                          /\ requests'[s].payment = requests[s].payment
                          /\ requests'[s].at = IF s = r THEN point ELSE requests[s].at
  BY GotoMoves DEF RefundInv
<1> QED
  BY <1>1 DEF RefundInv, WithinBalanceRead, Amount

(* A step that moves a request, pays nothing back and changes at most the  *)
(* status of a row that is there preserves the rows' names.                *)
LEMMA NamesKept ==
  ASSUME RefundInv, NEW r \in Requests, NEW point \in Point, Goto(r, point),
         point # "ask", gateway' = gateway,
         \A k \in Keys : /\ refunds'[k].by = refunds[k].by
                         /\ refunds[k].status # "NONE" => refunds'[k].status # "NONE"
  PROVE  RowNamesItsRequest'
<1>1. \A s \in Requests : /\ requests'[s].key = requests[s].key
                          /\ requests'[s].at = IF s = r THEN point ELSE requests[s].at
  BY GotoMoves DEF RefundInv
<1>2. \A s \in Requests : requests[s].key \in Keys
  BY DEF RefundInv, TypeOK, Request
<1> QED
  BY <1>1, <1>2 DEF RefundInv, RowNamesItsRequest, Key

(* The invariant holds at the start: no request has read anything.         *)
LEMMA RefundInvInit == Init => RefundInv
<1> SUFFICES ASSUME Init PROVE RefundInv
  OBVIOUS
<1> USE RefundInputs DEF Init
<1>1. TypeOK
  BY DEF TypeOK, Payment, Refund, Reservation, Request, NoRefund, Point, Refundable
<1>2. WithinBalanceRead /\ RowNamesItsRequest
  BY DEF WithinBalanceRead, RowNamesItsRequest
<1> QED
  BY <1>1, <1>2 DEF RefundInv

(* Every step of every request preserves it.                               *)
LEMMA RefundInvStep == RefundInv /\ [Next]_vars => RefundInv'
<1> SUFFICES ASSUME RefundInv, [Next]_vars PROVE RefundInv'
  OBVIOUS
<1>t. TypeOK
  BY DEF RefundInv
<1>p. "refused" \in Point /\ "replayed" \in Point /\ "create" \in Point /\ "ask" \in Point
      /\ "book" \in Point /\ "fail" \in Point /\ "complete" \in Point /\ "done" \in Point
  BY DEF Point
<1>1. ASSUME NEW r \in Requests, Read(r) PROVE RefundInv'
  <2>1. PICK next \in {"reserve", "refused"} :
          requests' = [requests EXCEPT ![r].payment = payment, ![r].at = next]
    BY <1>1 DEF Read
  <2>2. next = "reserve" => Amount(r) > 0 /\ Amount(r) <= Paid - payment.refunded
    BY <1>1, <2>1, <1>t DEF Read, TypeOK, Request
  <2>3. requests' \in [Requests -> Request]
    BY <2>1, <1>t DEF TypeOK, Request, Point
  <2>4. \A s \in Requests : /\ requests'[s].key = requests[s].key
                            /\ requests'[s].amount = requests[s].amount
                            /\ s # r => requests'[s] = requests[s]
    BY <2>1, <1>t DEF TypeOK, Request
  <2>5. requests'[r].payment = payment /\ requests'[r].at = next
    BY <2>1, <1>t DEF TypeOK, Request
  <2>6. TypeOK'
    BY <1>1, <2>3, <1>t DEF Read, TypeOK
  <2>7. WithinBalanceRead'
    BY <2>2, <2>4, <2>5 DEF RefundInv, WithinBalanceRead, Amount
  <2>8. RowNamesItsRequest'
    BY <1>1, <2>4, <2>5 DEF Read, RefundInv, RowNamesItsRequest, Key
  <2> QED
    BY <2>6, <2>7, <2>8 DEF RefundInv
<1>2. ASSUME NEW r \in Requests, Reserve(r) PROVE RefundInv'
  <2>1. PICK next \in {"create", "replayed", "refused"} : Goto(r, next)
    BY <1>2 DEF Reserve
  <2>2. requests[r].at = "reserve" /\ UNCHANGED <<payment, refunds, gateway>>
    BY <1>2 DEF Reserve, At
  <2>3. keys' \in [Keys -> Reservation]
    <3>1. [status |-> "IN_PROGRESS", amount |-> Amount(r)] \in Reservation
      BY <1>t, RefundInputs DEF TypeOK, Request, Reservation, Amount
    <3>2. keys' \in {keys, [keys EXCEPT ![Key(r)] = [status |-> "IN_PROGRESS", amount |-> Amount(r)]]}
      BY <1>2 DEF Reserve
    <3> QED
      BY <3>1, <3>2, <1>t DEF TypeOK
  <2>4. TypeOK'
    BY <2>1, <2>2, <2>3, <1>t, <1>p, GotoMoves DEF TypeOK
  <2>5. WithinBalanceRead'
    BY <2>1, <2>2, <1>p, BoundKept
  <2>6. RowNamesItsRequest'
    BY <2>1, <2>2, <1>p, NamesKept
  <2> QED
    BY <2>4, <2>5, <2>6 DEF RefundInv
<1>3. ASSUME NEW r \in Requests, CreateRefund(r) PROVE RefundInv'
  <2>1. requests[r].at = "create" /\ UNCHANGED <<payment, keys, gateway>>
    BY <1>3 DEF CreateRefund, At
  <2>2. PICK next \in {"ask", "refused"} : Goto(r, next)
    BY <1>3 DEF CreateRefund
  <2>3. refunds' \in [Keys -> Refund]
    BY <1>3, <1>t DEF CreateRefund, TypeOK, Refund
  <2>4. TypeOK'
    BY <2>1, <2>2, <2>3, <1>t, <1>p, GotoMoves DEF TypeOK
  <2>5. WithinBalanceRead'
    BY <2>1, <2>2, <1>p, BoundKept
  <2>6. RowNamesItsRequest'
    <3>1. CASE refunds[Key(r)] = NoRefund
      <4>1. \A s \in Requests : Key(s) = Key(r) => requests[s].at # "ask" /\ gateway[s] = 0
        BY <3>1 DEF RefundInv, RowNamesItsRequest, NoRefund
      <4>2. /\ Goto(r, "ask")
            /\ refunds' = [refunds EXCEPT ![Key(r)] = [status |-> "INITIATED", by |-> r]]
        BY <1>3, <3>1 DEF CreateRefund
      <4>3. \A s \in Requests : /\ requests'[s].key = requests[s].key
                                /\ requests'[s].at = IF s = r THEN "ask" ELSE requests[s].at
        BY <4>2, <1>t, <1>p, GotoMoves
      <4>4. Key(r) \in Keys /\ refunds \in [Keys -> Refund]
        BY <1>t DEF TypeOK, Request, Key
      <4> QED
        BY <2>1, <4>1, <4>2, <4>3, <4>4 DEF RefundInv, RowNamesItsRequest, Key
    <3>2. CASE refunds[Key(r)] # NoRefund
      <4>1. Goto(r, "refused") /\ refunds' = refunds
        BY <1>3, <3>2 DEF CreateRefund
      <4> QED
        BY <2>1, <4>1, <1>p, NamesKept
    <3> QED
      BY <3>1, <3>2
  <2> QED
    BY <2>4, <2>5, <2>6 DEF RefundInv
<1>4. ASSUME NEW r \in Requests, AskGateway(r) PROVE RefundInv'
  <2>1. requests[r].at = "ask" /\ UNCHANGED <<payment, refunds, keys>>
    BY <1>4 DEF AskGateway, At
  <2>2. PICK next \in {"book", "fail"} : Goto(r, next)
    BY <1>4 DEF AskGateway
  <2>3. gateway' \in {gateway, [gateway EXCEPT ![r] = Amount(r)]}
    BY <1>4 DEF AskGateway
  <2>4. Amount(r) \in Int
    BY <1>t, RefundInputs DEF TypeOK, Request, Amount
  <2>5. TypeOK'
    <3>1. gateway' \in [Requests -> Int]
      BY <2>3, <2>4, <1>t DEF TypeOK
    <3> QED
      BY <2>1, <2>2, <3>1, <1>t, <1>p, GotoMoves DEF TypeOK
  <2>6. WithinBalanceRead'
    BY <2>1, <2>2, <1>p, BoundKept
  <2>7. RowNamesItsRequest'
    <3>1. \A s \in Requests : /\ requests'[s].key = requests[s].key
                              /\ requests'[s].at = IF s = r THEN next ELSE requests[s].at
      BY <2>2, <1>t, <1>p, GotoMoves
    <3>2. \A s \in Requests : gateway'[s] # gateway[s] => s = r
      BY <2>3, <1>t DEF TypeOK
    <3> QED
      BY <2>1, <3>1, <3>2 DEF RefundInv, RowNamesItsRequest, Key
  <2> QED
    BY <2>5, <2>6, <2>7 DEF RefundInv
<1>5. ASSUME NEW r \in Requests, BookRefund(r) PROVE RefundInv'
  <2>1. requests[r].at = "book" /\ UNCHANGED <<keys, gateway>>
    BY <1>5 DEF BookRefund, At
  <2>2. PICK next \in {"complete", "fail"} : Goto(r, next)
    BY <1>5 DEF BookRefund
  <2>3. Booked(r) \in Payment /\ Booked(r).refunded <= Paid
    <3>1. requests[r].payment \in Payment /\ Amount(r) \in Int
      BY <1>t, RefundInputs DEF TypeOK, Request, Amount
    <3>2. Amount(r) > 0 /\ Amount(r) <= Paid - requests[r].payment.refunded
      BY <2>1 DEF RefundInv, WithinBalanceRead
    <3> QED
      BY <3>1, <3>2, RefundInputs DEF Booked, Payment, Refundable
  <2>4. payment' \in {payment, Booked(r)}
    BY <1>5 DEF BookRefund
  <2>5. /\ refunds' \in [Keys -> Refund]
        /\ \A k \in Keys : /\ refunds'[k].by = refunds[k].by
                           /\ refunds[k].status # "NONE" => refunds'[k].status # "NONE"
    BY <1>5, <1>t DEF BookRefund, TypeOK, Refund
  <2>6. TypeOK'
    BY <2>1, <2>2, <2>3, <2>4, <2>5, <1>t, <1>p, GotoMoves DEF TypeOK
  <2>7. WithinBalanceRead'
    BY <2>1, <2>2, <1>p, BoundKept
  <2>8. RowNamesItsRequest'
    BY <2>1, <2>2, <2>5, <1>p, NamesKept
  <2> QED
    BY <2>6, <2>7, <2>8 DEF RefundInv
<1>6. ASSUME NEW r \in Requests, CompleteKey(r) PROVE RefundInv'
  <2>1. PICK next \in {"done", "fail"} : Goto(r, next)
    BY <1>6 DEF CompleteKey
  <2>2. UNCHANGED <<payment, refunds, gateway>>
    BY <1>6 DEF CompleteKey
  <2>3. keys' \in [Keys -> Reservation]
    BY <1>6, <1>t DEF CompleteKey, TypeOK, Reservation
  <2>4. TypeOK'
    BY <2>1, <2>2, <2>3, <1>t, <1>p, GotoMoves DEF TypeOK
  <2>5. WithinBalanceRead'
    BY <2>1, <1>p, BoundKept
  <2>6. RowNamesItsRequest'
    BY <2>1, <2>2, <1>p, NamesKept
  <2> QED
    BY <2>4, <2>5, <2>6 DEF RefundInv
<1>7. ASSUME NEW r \in Requests, FailRefund(r) PROVE RefundInv'
  <2>1. Goto(r, "done") /\ UNCHANGED <<payment, gateway>>
    BY <1>7 DEF FailRefund
  <2>2. keys' \in [Keys -> Reservation]
    BY <1>7, <1>t DEF FailRefund, TypeOK, Reservation
  <2>3. /\ refunds' \in [Keys -> Refund]
        /\ \A k \in Keys : /\ refunds'[k].by = refunds[k].by
                           /\ refunds[k].status # "NONE" => refunds'[k].status # "NONE"
    BY <1>7, <1>t DEF FailRefund, TypeOK, Refund
  <2>4. TypeOK'
    BY <2>1, <2>2, <2>3, <1>t, <1>p, GotoMoves DEF TypeOK
  <2>5. WithinBalanceRead'
    BY <2>1, <1>p, BoundKept
  <2>6. RowNamesItsRequest'
    BY <2>1, <2>3, <1>p, NamesKept
  <2> QED
    BY <2>4, <2>5, <2>6 DEF RefundInv
<1>8. ASSUME NEW r \in Requests, Crash(r) PROVE RefundInv'
  <2>1. Goto(r, "done") /\ UNCHANGED <<payment, refunds, keys, gateway>>
    BY <1>8 DEF Crash
  <2>2. TypeOK'
    BY <2>1, <1>t, <1>p, GotoMoves DEF TypeOK
  <2>3. WithinBalanceRead'
    BY <2>1, <1>p, BoundKept
  <2>4. RowNamesItsRequest'
    BY <2>1, <1>p, NamesKept
  <2> QED
    BY <2>2, <2>3, <2>4 DEF RefundInv
<1>9. CASE UNCHANGED vars
  BY <1>9 DEF vars, RefundInv, TypeOK, WithinBalanceRead, RowNamesItsRequest, Amount, Key
<1> QED
  BY <1>1, <1>2, <1>3, <1>4, <1>5, <1>6, <1>7, <1>8, <1>9 DEF Next

(* Types, and the bound on what is booked: no interleaving of refunds      *)
(* books more than the payment, although each of them books over a balance *)
(* read earlier.                                                           *)
THEOREM RefundTypeCorrect == Spec => []TypeOK
<1>1. RefundInv => TypeOK
  BY DEF RefundInv
<1> QED
  BY RefundInvInit, RefundInvStep, <1>1, PTL DEF Spec

(* A key pays once: two requests of a key that the gateway has paid back   *)
(* for are both named by the key's one row, so they are the same.          *)
THEOREM RefundKeyPaysOnce == Spec => []KeyPaysOnce
<1>1. RefundInv => KeyPaysOnce
  BY DEF RefundInv, RowNamesItsRequest, KeyPaysOnce, Key
<1> QED
  BY RefundInvInit, RefundInvStep, <1>1, PTL DEF Spec

-----------------------------------------------------------------------------
(* What the gateway has paid back is such a sum, before a step and after.  *)
LEMMA PaidBackIsSum == PaidBack(Requests) = Sum(gateway, Requests)
  BY Zenon DEF PaidBack, MapThenSumSet, MapThenFoldSet, Sum, AreSums, Sums, First

LEMMA PaidBackNext == PaidBack(Requests)' = Sum(gateway', Requests)
  BY Zenon DEF PaidBack, MapThenSumSet, MapThenFoldSet, Sum, AreSums, Sums, First

-----------------------------------------------------------------------------
(* What has been paid back.  A request knows a balance that has been paid  *)
(* back without it; the request that holds a key is the only one at work   *)
(* under it.                                                               *)
Working == {"create", "ask", "book", "complete", "fail"}

Balance(r) ==
  /\ gateway[r] \in {0, Amount(r)} /\ gateway[r] >= 0
  /\ requests[r].at \in {"start", "reserve", "create", "ask"} => gateway[r] = 0
  /\ requests[r].at \in {"book", "complete"} => gateway[r] = Amount(r) /\ Amount(r) > 0
  /\ requests[r].at \in {"reserve", "create", "ask", "book"} =>
       requests[r].payment.refunded + gateway[r] <= PaidBack(Requests)

Holds(r) ==
  requests[r].at \in Working =>
    /\ keys[Key(r)] = [status |-> "IN_PROGRESS", amount |-> Amount(r)]
    /\ \A s \in Requests : requests[s].at \in Working /\ Key(s) = Key(r) => s = r

Made(k, amount) == \E s \in Requests : Key(s) = k /\ gateway[s] = amount /\ amount # 0

AnswersTrue(r) == requests[r].at = "replayed" => Made(Key(r), Amount(r))

CompletedTrue == \A k \in Keys : keys[k].status = "COMPLETED" => Made(k, keys[k].amount)

PaidInv ==
  /\ BookedIsPaidBack /\ CompletedTrue
  /\ \A r \in Requests : Balance(r) /\ Holds(r) /\ AnswersTrue(r)

(* The gateway pays back, it does not collect.                             *)
LEMMA GatewayIsNat == RefundInv /\ PaidInv => gateway \in [Requests -> Nat]
<1> SUFFICES ASSUME RefundInv, PaidInv PROVE gateway \in [Requests -> Nat]
  OBVIOUS
<1>1. \A r \in Requests : gateway[r] >= 0
  BY DEF PaidInv, Balance
<1> QED
  BY <1>1 DEF RefundInv, TypeOK

(* What a request moves while nothing is paid back.                        *)
LEMMA SamePaidBack == gateway' = gateway => PaidBack(Requests)' = PaidBack(Requests)
  BY PaidBackIsSum, PaidBackNext

(* A request that only goes on keeps its balance, and so do the others.    *)
LEMMA BalanceKept ==
  ASSUME RefundInv, PaidInv, NEW r \in Requests, NEW point \in Point, Goto(r, point), gateway' = gateway,
         point \in {"start", "reserve", "create", "ask"} => requests[r].at \in {"start", "reserve", "create", "ask"},
         point \in {"book", "complete"} => requests[r].at \in {"book", "complete"},
         point \in {"reserve", "create", "ask", "book"} =>
           requests[r].at \in {"reserve", "create", "ask", "book"}
  PROVE  \A s \in Requests : Balance(s)'
<1> SUFFICES ASSUME NEW s \in Requests PROVE Balance(s)'
  OBVIOUS
<1>1. /\ requests'[s].amount = requests[s].amount /\ requests'[s].payment = requests[s].payment
      /\ requests'[s].at = IF s = r THEN point ELSE requests[s].at
  BY GotoMoves DEF RefundInv
<1>2. PaidBack(Requests)' = PaidBack(Requests)
  BY SamePaidBack
<1>3. Balance(s)
  BY DEF PaidInv
<1> QED
  BY <1>1, <1>2, <1>3 DEF Balance, Amount

(* The keys of the others at work stay as they are.                        *)
LEMMA HoldsKept ==
  ASSUME RefundInv, PaidInv, NEW r \in Requests, NEW point \in Point, Goto(r, point),
         point \in Working => requests[r].at \in Working,
         \A k \in Keys : keys'[k] # keys[k] =>
           k = Key(r) /\ point \notin Working /\ requests[r].at \in Working
  PROVE  \A s \in Requests : Holds(s)'
<1> SUFFICES ASSUME NEW s \in Requests, requests'[s].at \in Working
             PROVE  /\ keys'[Key(s)'] = [status |-> "IN_PROGRESS", amount |-> Amount(s)']
                    /\ \A q \in Requests : requests'[q].at \in Working /\ Key(q)' = Key(s)' => q = s
  BY DEF Holds
<1>1. \A q \in Requests : /\ requests'[q].key = requests[q].key /\ requests'[q].amount = requests[q].amount
                          /\ requests'[q].at = IF q = r THEN point ELSE requests[q].at
  BY GotoMoves DEF RefundInv
<1>2. \A q \in Requests : Key(q)' = Key(q) /\ Amount(q)' = Amount(q)
  BY <1>1 DEF Key, Amount
<1>3. \A q \in Requests : requests'[q].at \in Working => requests[q].at \in Working
  BY <1>1
<1>4. requests[s].at \in Working /\ Holds(s)
  BY <1>3 DEF PaidInv
<1>5. Key(s) \in Keys
  BY DEF RefundInv, TypeOK, Request, Key
<1>6. keys'[Key(s)] = keys[Key(s)]
  <2>1. s = r => point \in Working
    BY <1>1
  <2>2. s # r /\ requests[r].at \in Working => Key(r) # Key(s)
    BY <1>4 DEF Holds
  <2> QED
    BY <1>5, <2>1, <2>2
<1> QED
  BY <1>2, <1>3, <1>4, <1>6 DEF Holds

(* What has been made stays so, since no request is paid back for twice.   *)
LEMMA AnswersKept ==
  ASSUME RefundInv, PaidInv, NEW r \in Requests, NEW point \in Point, Goto(r, point),
         point # "replayed",
         \A s \in Requests : gateway[s] # 0 => gateway'[s] = gateway[s],
         \A k \in Keys : keys'[k] # keys[k] => keys'[k].status # "COMPLETED"
  PROVE  CompletedTrue' /\ \A s \in Requests : AnswersTrue(s)'
<1>1. \A q \in Requests : /\ requests'[q].key = requests[q].key /\ requests'[q].amount = requests[q].amount
                          /\ requests'[q].at = IF q = r THEN point ELSE requests[q].at
  BY GotoMoves DEF RefundInv
<1>2. ASSUME NEW s \in Requests, requests'[s].at = "replayed" PROVE Made(Key(s), Amount(s))'
  <2>1. Made(Key(s), Amount(s))
    BY <1>1, <1>2 DEF PaidInv, AnswersTrue
  <2> QED
    BY <1>1, <2>1 DEF Made, Key, Amount
<1>3. ASSUME NEW k \in Keys, keys'[k].status = "COMPLETED" PROVE Made(k, keys[k].amount)'
  <2>1. keys'[k] = keys[k]
    BY <1>3
  <2>2. Made(k, keys[k].amount)
    BY <1>3, <2>1 DEF PaidInv, CompletedTrue
  <2> QED
    BY <1>1, <2>1, <2>2 DEF Made, Key
<1> QED
  BY <1>2, <1>3 DEF CompletedTrue, AnswersTrue

(* A step that moves one request, and nothing else that counts.            *)
LEMMA PaidKept ==
  ASSUME RefundInv, PaidInv, NEW r \in Requests, NEW point \in Point, Goto(r, point), point # "replayed",
         UNCHANGED <<payment, gateway>>,
         point \in Working => requests[r].at \in Working,
         point \in {"start", "reserve", "create", "ask"} => requests[r].at \in {"start", "reserve", "create", "ask"},
         point \in {"book", "complete"} => requests[r].at \in {"book", "complete"},
         point \in {"reserve", "create", "ask", "book"} =>
           requests[r].at \in {"reserve", "create", "ask", "book"},
         \A k \in Keys : keys'[k] # keys[k] =>
           k = Key(r) /\ point \notin Working /\ requests[r].at \in Working /\ keys'[k].status # "COMPLETED"
  PROVE  PaidInv'
<1>1. BookedIsPaidBack'
  BY SamePaidBack DEF PaidInv, BookedIsPaidBack
<1>2. \A s \in Requests : Balance(s)'
  BY BalanceKept
<1>3. \A s \in Requests : Holds(s)'
  BY HoldsKept
<1>4. CompletedTrue' /\ \A s \in Requests : AnswersTrue(s)'
  BY AnswersKept
<1> QED
  BY <1>1, <1>2, <1>3, <1>4 DEF PaidInv

(* Reading: what is booked has been paid back, without the reader's own.   *)
LEMMA ReadPays ==
  ASSUME RefundInv, PaidInv, NEW r \in Requests, Read(r)
  PROVE  PaidInv'
<1>1. PICK next \in {"reserve", "refused"} :
        requests' = [requests EXCEPT ![r].payment = payment, ![r].at = next]
  BY DEF Read
<1>2. requests[r].at = "start" /\ UNCHANGED <<payment, refunds, keys, gateway>>
  BY DEF Read, At
<1>3. \A s \in Requests : /\ requests'[s].key = requests[s].key /\ requests'[s].amount = requests[s].amount
                          /\ s # r => requests'[s] = requests[s]
  BY <1>1 DEF RefundInv, TypeOK, Request
<1>4. requests'[r].payment = payment /\ requests'[r].at = next
  BY <1>1 DEF RefundInv, TypeOK, Request
<1>5. PaidBack(Requests)' = PaidBack(Requests)
  BY <1>2, SamePaidBack
<1>6. BookedIsPaidBack'
  BY <1>2, <1>5 DEF PaidInv, BookedIsPaidBack
<1>7. ASSUME NEW s \in Requests PROVE Balance(s)'
  <2>1. Balance(s)
    BY DEF PaidInv
  <2>2. CASE s # r
    BY <1>2, <1>3, <1>5, <2>1, <2>2 DEF Balance, Amount
  <2>3. CASE s = r
    <3>1. gateway[r] = 0
      BY <1>2, <2>1, <2>3 DEF Balance
    <3>2. payment.refunded + 0 <= PaidBack(Requests)
      BY DEF PaidInv, BookedIsPaidBack, RefundInv, TypeOK, Payment
    <3> QED
      BY <1>2, <1>3, <1>4, <1>5, <2>3, <3>1, <3>2 DEF Balance, Amount
  <2> QED
    BY <2>2, <2>3
<1>8. ASSUME NEW s \in Requests PROVE Holds(s)' /\ AnswersTrue(s)'
  <2>1. \A q \in Requests : /\ requests'[q].at \in Working => requests[q].at \in Working
                            /\ requests'[q].at = "replayed" => requests[q].at = "replayed"
                            /\ Key(q)' = Key(q) /\ Amount(q)' = Amount(q)
    BY <1>3, <1>4 DEF Working, Key, Amount
  <2>2. Holds(s)'
    BY <1>2, <2>1 DEF PaidInv, Holds
  <2>3. AnswersTrue(s)'
    BY <1>2, <2>1 DEF PaidInv, AnswersTrue, Made
  <2> QED
    BY <2>2, <2>3
<1>9. CompletedTrue'
  BY <1>2, <1>3 DEF PaidInv, CompletedTrue, Made, Key
<1> QED
  BY <1>6, <1>7, <1>8, <1>9 DEF PaidInv

(* Reserving: only a free key is taken, which nobody at work holds, and    *)
(* only a completed one is replayed.                                       *)
LEMMA ReservePays ==
  ASSUME RefundInv, PaidInv, NEW r \in Requests, Reserve(r)
  PROVE  PaidInv'
<1>1. requests[r].at = "reserve" /\ UNCHANGED <<payment, refunds, gateway>>
  BY DEF Reserve, At
<1>2. Key(r) \in Keys /\ Balance(r) /\ requests[r].at \notin Working
  BY <1>1 DEF RefundInv, TypeOK, Request, Key, PaidInv, Working
<1>3. BookedIsPaidBack'
  BY <1>1, SamePaidBack DEF PaidInv, BookedIsPaidBack
<1>4. CASE Goto(r, "create") /\ keys[Key(r)].status = "FREE"
           /\ keys' = [keys EXCEPT ![Key(r)] = [status |-> "IN_PROGRESS", amount |-> Amount(r)]]
  <2>1. /\ \A s \in Requests : /\ requests'[s].key = requests[s].key /\ requests'[s].amount = requests[s].amount
                               /\ requests'[s].at = IF s = r THEN "create" ELSE requests[s].at
        /\ "create" \in Point
    BY <1>4, GotoMoves DEF RefundInv, Point
  <2>2. \A s \in Requests : Balance(s)'
    BY <1>1, <1>4, <2>1, BalanceKept
  <2>3. keys'[Key(r)] = [status |-> "IN_PROGRESS", amount |-> Amount(r)]
        /\ \A k \in Keys \ {Key(r)} : keys'[k] = keys[k]
    BY <1>2, <1>4 DEF RefundInv, TypeOK
  <2>4. ASSUME NEW s \in Requests, requests[s].at \in Working
        PROVE  Key(s) # Key(r) /\ Key(s) \in Keys
    <3>1. keys[Key(s)] = [status |-> "IN_PROGRESS", amount |-> Amount(s)]
      BY <2>4 DEF PaidInv, Holds
    <3>2. keys[Key(s)].status # "FREE"
      BY <3>1
    <3> QED
      BY <1>4, <3>2 DEF RefundInv, TypeOK, Request, Key
  <2>5. ASSUME NEW s \in Requests PROVE Holds(s)'
    <3>1. \A q \in Requests : Key(q)' = Key(q) /\ Amount(q)' = Amount(q)
      BY <2>1 DEF Key, Amount
    <3>2. Holds(s)
      BY DEF PaidInv
    <3>3. CASE s = r
      BY <2>1, <2>3, <2>4, <3>1, <3>3 DEF Holds
    <3>4. CASE s # r
      BY <2>1, <2>3, <2>4, <3>1, <3>2, <3>4 DEF Holds
    <3> QED
      BY <3>3, <3>4
  <2>6. \A k \in Keys : keys'[k] # keys[k] => keys'[k].status # "COMPLETED"
    BY <2>3
  <2>7. CompletedTrue' /\ \A s \in Requests : AnswersTrue(s)'
    BY <1>1, <1>4, <2>1, <2>6, AnswersKept
  <2> QED
    BY <1>3, <2>2, <2>5, <2>7 DEF PaidInv
<1>5. CASE Goto(r, "replayed") /\ keys' = keys /\ keys[Key(r)] = [status |-> "COMPLETED", amount |-> Amount(r)]
  <2>1. /\ \A s \in Requests : /\ requests'[s].key = requests[s].key /\ requests'[s].amount = requests[s].amount
                               /\ requests'[s].at = IF s = r THEN "replayed" ELSE requests[s].at
        /\ "replayed" \in Point /\ "replayed" \notin Working
    BY <1>5, GotoMoves DEF RefundInv, Point, Working
  <2>2. \A s \in Requests : Balance(s)'
    BY <1>1, <1>5, <2>1, BalanceKept
  <2>3. \A s \in Requests : Holds(s)'
    BY <1>1, <1>5, <2>1, HoldsKept
  <2>4. ASSUME NEW s \in Requests PROVE AnswersTrue(s)'
    <3>1. Made(Key(r), Amount(r))
      BY <1>2, <1>5 DEF PaidInv, CompletedTrue
    <3>2. requests'[s].at = "replayed" => Made(Key(s), Amount(s))
      BY <2>1, <3>1 DEF PaidInv, AnswersTrue
    <3> QED
      BY <1>1, <2>1, <3>2 DEF AnswersTrue, Made, Key, Amount
  <2>5. CompletedTrue'
    BY <1>1, <1>5, <2>1 DEF PaidInv, CompletedTrue, Made, Key
  <2> QED
    BY <1>3, <2>2, <2>3, <2>4, <2>5 DEF PaidInv
<1>6. CASE Goto(r, "refused") /\ keys' = keys
  BY <1>1, <1>6, PaidKept DEF Point, Working
<1> QED
  BY <1>4, <1>5, <1>6 DEF Reserve

(* Asking: what is paid back grows by the amount, for this request only.   *)
LEMMA AskPays ==
  ASSUME RefundInv, PaidInv, NEW r \in Requests, AskGateway(r)
  PROVE  PaidInv'
<1>1. requests[r].at = "ask" /\ UNCHANGED <<payment, refunds, keys>>
  BY DEF AskGateway, At
<1>2. gateway[r] = 0 /\ Amount(r) > 0 /\ Amount(r) \in Nat
  <2>1. gateway[r] = 0
    BY <1>1 DEF PaidInv, Balance
  <2>2. Amount(r) > 0 /\ Amount(r) \in Int
    BY <1>1, RefundInputs DEF RefundInv, TypeOK, Request, WithinBalanceRead, Amount
  <2> QED
    BY <2>1, <2>2
<1>3. PICK next \in {"book", "fail"} : /\ Goto(r, next) /\ gateway' \in {gateway, [gateway EXCEPT ![r] = Amount(r)]}
                                       /\ next = "book" => gateway' = [gateway EXCEPT ![r] = Amount(r)]
  BY DEF AskGateway
<1>4. \A s \in Requests : /\ requests'[s].key = requests[s].key /\ requests'[s].amount = requests[s].amount
                          /\ requests'[s].payment = requests[s].payment
                          /\ requests'[s].at = IF s = r THEN next ELSE requests[s].at
  BY <1>3, GotoMoves DEF RefundInv, Point
<1>5. gateway \in [Requests -> Nat]
  BY GatewayIsNat
<1>6. /\ gateway' \in [Requests -> Nat] /\ \A s \in Requests \ {r} : gateway'[s] = gateway[s]
      /\ gateway'[r] \in {0, Amount(r)} /\ (next = "book" => gateway'[r] = Amount(r))
  BY <1>2, <1>3, <1>5
<1>7. PaidBack(Requests) \in Nat /\ PaidBack(Requests)' = PaidBack(Requests) + gateway'[r]
  <2>1. Sum(gateway, Requests) \in Nat /\ Sum(gateway', Requests) = Sum(gateway, Requests) - gateway[r] + gateway'[r]
    BY <1>5, <1>6, RequestsFinite, SumChanges
  <2>2. gateway'[r] \in Nat
    BY <1>6
  <2> QED
    BY <1>2, <2>1, <2>2, PaidBackIsSum, PaidBackNext
<1>8. BookedIsPaidBack'
  <2>1. payment.refunded \in Nat /\ payment.refunded <= PaidBack(Requests) /\ gateway'[r] \in Nat
    BY <1>6 DEF PaidInv, BookedIsPaidBack, RefundInv, TypeOK, Payment
  <2> QED
    BY <1>1, <1>7, <2>1 DEF BookedIsPaidBack
<1>9. ASSUME NEW s \in Requests PROVE Balance(s)'
  <2>1. Balance(s) /\ gateway'[r] \in Nat /\ gateway[s] \in Nat
    BY <1>5, <1>6 DEF PaidInv
  <2>2. requests[s].payment.refunded \in Nat
    BY DEF RefundInv, TypeOK, Request, Payment
  <2>3. CASE s # r
    BY <1>4, <1>6, <1>7, <2>1, <2>2, <2>3 DEF Balance, Amount
  <2>4. CASE s = r
    BY <1>1, <1>2, <1>4, <1>6, <1>7, <2>1, <2>2, <2>4 DEF Balance, Amount
  <2> QED
    BY <2>3, <2>4
<1>10. \A s \in Requests : Holds(s)'
  BY <1>1, <1>3, HoldsKept DEF Point, Working
<1>11. CompletedTrue' /\ \A s \in Requests : AnswersTrue(s)'
  <2>1. \A s \in Requests : gateway[s] # 0 => gateway'[s] = gateway[s]
    BY <1>2, <1>6
  <2> QED
    BY <1>1, <1>3, <2>1, AnswersKept DEF Point
<1> QED
  BY <1>8, <1>9, <1>10, <1>11 DEF PaidInv

(* Booking: the balance read and the amount, which were both paid back.    *)
LEMMA BookPays ==
  ASSUME RefundInv, PaidInv, NEW r \in Requests, BookRefund(r)
  PROVE  PaidInv'
<1>1. requests[r].at = "book" /\ UNCHANGED <<keys, gateway>>
  BY DEF BookRefund, At
<1>2. PICK next \in {"complete", "fail"} : Goto(r, next)
  BY DEF BookRefund
<1>3. payment' \in {payment, Booked(r)}
  BY DEF BookRefund
<1>4. BookedIsPaidBack'
  <2>1. requests[r].payment.refunded + Amount(r) <= PaidBack(Requests)
    BY <1>1 DEF PaidInv, Balance
  <2> QED
    BY <1>1, <1>3, <2>1, SamePaidBack DEF PaidInv, BookedIsPaidBack, Booked
<1>5. \A s \in Requests : Balance(s)'
  BY <1>1, <1>2, BalanceKept DEF Point
<1>6. \A s \in Requests : Holds(s)'
  BY <1>1, <1>2, HoldsKept DEF Point, Working
<1>7. CompletedTrue' /\ \A s \in Requests : AnswersTrue(s)'
  BY <1>1, <1>2, AnswersKept DEF Point
<1> QED
  BY <1>4, <1>5, <1>6, <1>7 DEF PaidInv

(* Completing: the key holds the amount that was paid back under it.       *)
LEMMA CompletePays ==
  ASSUME RefundInv, PaidInv, NEW r \in Requests, CompleteKey(r)
  PROVE  PaidInv'
<1>1. requests[r].at = "complete" /\ UNCHANGED <<payment, refunds, gateway>>
  BY DEF CompleteKey, At
<1>2. Key(r) \in Keys /\ requests[r].at \in Working
  BY <1>1 DEF RefundInv, TypeOK, Request, Key, Working
<1>3. CASE Goto(r, "fail") /\ keys' = keys
  BY <1>1, <1>3, PaidKept DEF Point, Working
<1>4. CASE Goto(r, "done") /\ keys' = [keys EXCEPT ![Key(r)].status = "COMPLETED"]
  <2>1. \A s \in Requests : /\ requests'[s].key = requests[s].key /\ requests'[s].amount = requests[s].amount
                            /\ requests'[s].at = IF s = r THEN "done" ELSE requests[s].at
    BY <1>4, GotoMoves DEF RefundInv, Point
  <2>2. keys'[Key(r)].amount = Amount(r) /\ \A k \in Keys \ {Key(r)} : keys'[k] = keys[k]
    <3>1. keys[Key(r)] = [status |-> "IN_PROGRESS", amount |-> Amount(r)]
      BY <1>2 DEF PaidInv, Holds
    <3> QED
      BY <1>2, <1>4, <3>1 DEF RefundInv, TypeOK, Reservation
  <2>3. BookedIsPaidBack'
    BY <1>1, SamePaidBack DEF PaidInv, BookedIsPaidBack
  <2>4. \A s \in Requests : Balance(s)'
    BY <1>1, <1>4, BalanceKept DEF Point
  <2>5. \A s \in Requests : Holds(s)'
    BY <1>2, <1>4, <2>2, HoldsKept DEF Point, Working
  <2>6. Made(Key(r), Amount(r))
    BY <1>1 DEF PaidInv, Balance, Made
  <2>7. ASSUME NEW k \in Keys, keys'[k].status = "COMPLETED" PROVE Made(k, keys[k].amount)'
    <3>1. Made(k, keys'[k].amount)
      BY <2>2, <2>6, <2>7 DEF PaidInv, CompletedTrue
    <3> QED
      BY <1>1, <2>1, <3>1 DEF Made, Key
  <2>8. \A s \in Requests : AnswersTrue(s)'
    BY <1>1, <2>1 DEF PaidInv, AnswersTrue, Made, Key, Amount
  <2> QED
    BY <2>3, <2>4, <2>5, <2>7, <2>8 DEF PaidInv, CompletedTrue
<1> QED
  BY <1>3, <1>4 DEF CompleteKey

(* Every step of every request.                                            *)
LEMMA PaidStep == RefundInv /\ PaidInv /\ [Next]_vars => PaidInv'
<1> SUFFICES ASSUME RefundInv, PaidInv, [Next]_vars PROVE PaidInv'
  OBVIOUS
<1>1. ASSUME NEW r \in Requests, CreateRefund(r) PROVE PaidInv'
  <2>1. requests[r].at = "create" /\ UNCHANGED <<payment, keys, gateway>>
    BY <1>1 DEF CreateRefund, At
  <2>2. PICK next \in {"ask", "refused"} : Goto(r, next)
    BY <1>1 DEF CreateRefund
  <2> QED
    BY <2>1, <2>2, PaidKept DEF Point, Working
<1>2. ASSUME NEW r \in Requests, FailRefund(r) PROVE PaidInv'
  <2>1. requests[r].at = "fail" /\ Goto(r, "done") /\ UNCHANGED <<payment, gateway>>
    BY <1>2 DEF FailRefund, At
  <2>2. \A k \in Keys : keys'[k] # keys[k] => k = Key(r) /\ keys'[k].status # "COMPLETED"
    BY <1>2 DEF FailRefund, RefundInv, TypeOK, Reservation
  <2> QED
    BY <2>1, <2>2, PaidKept DEF Point, Working
<1>3. ASSUME NEW r \in Requests, Crash(r) PROVE PaidInv'
  <2>1. Goto(r, "done") /\ UNCHANGED <<payment, keys, gateway>>
    BY <1>3 DEF Crash
  <2> QED
    BY <2>1, PaidKept DEF Point, Working
<1>4. CASE UNCHANGED vars
  <2>1. PaidBack(Requests)' = PaidBack(Requests)
    BY <1>4, SamePaidBack DEF vars
  <2> QED
    BY <1>4, <2>1 DEF vars, PaidInv, BookedIsPaidBack, CompletedTrue, Balance, Holds, AnswersTrue, Made, Key, Amount
<1> QED
  BY <1>1, <1>2, <1>3, <1>4, ReadPays, ReservePays, AskPays, BookPays, CompletePays DEF Next

(* Nothing has been paid back at the start, or booked.                     *)
LEMMA PaidInit == Init => PaidInv
<1> SUFFICES ASSUME Init PROVE PaidInv
  OBVIOUS
<1>1. gateway \in [Requests -> Nat]
  BY DEF Init
<1>2. PaidBack(Requests) \in Nat
  BY <1>1, RequestsFinite, SumIsNat, PaidBackIsSum
<1> QED
  BY <1>2 DEF Init, PaidInv, BookedIsPaidBack, CompletedTrue, Balance, Holds, AnswersTrue, Made, Working, Amount, Key

(* The two properties are parts of the invariant.                          *)
LEMMA PaidIsMade == PaidInv => BookedIsPaidBack /\ ReplayIsPaidBack
  BY DEF PaidInv, AnswersTrue, Made, ReplayIsPaidBack, At

(* However refunds cross, fail, are retried or stop half way: no more is   *)
(* booked as refunded than the gateway has paid back, and a request that   *)
(* is replayed is told of a refund that was made under its key.            *)
THEOREM RefundsPayBack == Spec => [](BookedIsPaidBack /\ ReplayIsPaidBack)
<1>1. Init => RefundInv /\ PaidInv
  BY RefundInvInit, PaidInit
<1>2. RefundInv /\ PaidInv /\ [Next]_vars => (RefundInv /\ PaidInv)'
  BY RefundInvStep, PaidStep
<1> QED
  BY <1>1, <1>2, PaidIsMade, PTL DEF Spec

=============================================================================
