----------------------------- MODULE MCRefunds -----------------------------
(* Two concurrent partial refunds and a retry of one of them.              *)
EXTENDS Refunds, TLC

CONSTANTS r1, r2, r3, k1, k2

AnyRequest == Permutations({r1, r2, r3})

AnyKey == Permutations({k1, k2})

Symmetry == AnyRequest \cup AnyKey

=============================================================================
