-------------------------------- MODULE Quotes --------------------------------
(***************************************************************************)
(* What a checkout costs (checkout.service.ts, money.ts): the cart is      *)
(* merged into lines, a coupon takes its percentage off the subtotal, the  *)
(* discount is spread over the lines in whole paise, and order and items   *)
(* are written with what comes out.  Amounts are paise; whether products   *)
(* are on offer is decided before and left out.                            *)
(***************************************************************************)
EXTENDS Integers, Sequences, SequencesExt, FiniteSetsExt

CONSTANTS
  Prices,         \* what a variant may cost
  Quantities,     \* what a request may ask for at once
  Priced,         \* variants, numbered in the order of their ids
  MaxLines,       \* CHECKOUT_MAX_LINES
  MaxRequested,   \* bound on the items of a request
  Gst             \* GST_BASIS_POINTS, of 10000

VARIABLES price, quote

quoteVars == <<price, quote>>

Coupons == {"none", "WELCOME10", "LOCAL5"}

Refused == [accepted |-> FALSE, lines |-> <<>>, amounts |-> <<>>, discounts |-> <<>>, totals |-> <<>>,
            subtotal |-> 0, discount |-> 0, tax |-> 0, fee |-> 0, total |-> 0]

Total(amounts) == FoldSeq(+, 0, amounts)

Init == price \in [Priced -> Prices] /\ quote = Refused

-----------------------------------------------------------------------------
(* normalizeCheckout: items of one variant become one line, in the order   *)
(* of the variants.                                                        *)
Lines(items) ==
  LET asked == {items[i].variant : i \in DOMAIN items}
      line(v) == [variant |-> v,
                  quantity |-> Total([i \in DOMAIN items |->
                                        IF items[i].variant = v THEN items[i].quantity ELSE 0])]
      sorted == CHOOSE s \in [1 .. Cardinality(asked) -> asked] : \A i, j \in DOMAIN s : i < j => s[i] < s[j]
  IN [i \in DOMAIN sorted |-> line(sorted[i])]

RoundHalfUp(numerator, denominator) == (numerator + denominator \div 2) \div denominator

Percent(amount, basisPoints) == RoundHalfUp(amount * basisPoints, 10000)

Discount(coupon, subtotal) ==
  Percent(subtotal, CASE coupon = "WELCOME10" -> 1000 [] coupon = "LOCAL5" -> 500 [] OTHER -> 0)

(* Mutant: every line is rounded for itself.                               *)
Allocate_Rounded(total, weights) ==
  LET sum == Total(weights)
  IN [i \in DOMAIN weights |-> IF sum = 0 THEN 0 ELSE RoundHalfUp(total * weights[i], sum)]

(* allocateByLargestRemainder: what is left after rounding down goes, one  *)
(* paisa each, to the largest remainders; the sort is stable.              *)
Allocate(total, weights) ==
  LET sum == Total(weights)
      base == [i \in DOMAIN weights |-> IF sum = 0 THEN 0 ELSE (total * weights[i]) \div sum]
      remainder == [i \in DOMAIN weights |-> IF sum = 0 THEN 0 ELSE (total * weights[i]) % sum]
      before(i) == {j \in DOMAIN weights :
                      remainder[j] > remainder[i] \/ (remainder[j] = remainder[i] /\ j < i)}
      left == IF sum = 0 THEN 0 ELSE total - Total(base)
  IN [i \in DOMAIN weights |-> IF Cardinality(before(i)) < left THEN base[i] + 1 ELSE base[i]]

ItemTax(amount, discount) == Percent(amount - discount, Gst)

(* The quote and the items written with the order.                         *)
Quote(items, coupon, priority) ==
  LET lines == Lines(items)
      amounts == [i \in DOMAIN lines |-> price[lines[i].variant] * lines[i].quantity]
      subtotal == Total(amounts)
      discount == Discount(coupon, subtotal)
      discounts == Allocate(discount, amounts)
      taxes == [i \in DOMAIN lines |-> ItemTax(amounts[i], discounts[i])]
      fee == IF priority THEN 4900 ELSE 0
      total == subtotal - discount + Total(taxes) + fee
  IN IF Len(lines) > MaxLines \/ total <= 0
     THEN Refused
     ELSE [accepted |-> TRUE, lines |-> lines, amounts |-> amounts, discounts |-> discounts,
           totals |-> [i \in DOMAIN lines |-> amounts[i] - discounts[i] + taxes[i]],
           subtotal |-> subtotal, discount |-> discount, tax |-> Total(taxes), fee |-> fee, total |-> total]

CreateCheckoutSession ==
  /\ quote = Refused
  /\ \E items \in BoundedSeq([variant : Priced, quantity : Quantities], MaxRequested),
        coupon \in Coupons, priority \in BOOLEAN :
       items # <<>> /\ quote' = Quote(items, coupon, priority)
  /\ UNCHANGED price

Next == CreateCheckoutSession

-----------------------------------------------------------------------------
(* To the paisa: the lines' discounts make up the coupon's and none is     *)
(* negative or above its line, each line bears its share of it rounded up  *)
(* or down, the items and the delivery fee add up to what the customer is  *)
(* charged, and no variant has two lines.                                  *)
QuoteIsExact ==
  LET q == quote
      lines == DOMAIN q.lines
  IN /\ Total(q.discounts) = q.discount
     /\ q.total = Total(q.totals) + q.fee
     /\ \A i \in lines :
          LET share == q.discounts[i] * q.subtotal - q.discount * q.amounts[i]
          IN /\ 0 <= q.discounts[i] /\ q.discounts[i] <= q.amounts[i] /\ 0 <= q.totals[i]
             /\ q.subtotal > 0 => -q.subtotal < share /\ share < q.subtotal
     /\ \A i, j \in lines : i # j => q.lines[i].variant # q.lines[j].variant
=============================================================================
