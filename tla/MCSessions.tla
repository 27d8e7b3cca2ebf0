----------------------------- MODULE MCSessions -----------------------------
(* Two processes, two calls at once, three tokens.                         *)
EXTENDS Sessions, TLC

CONSTANTS p1, p2, c1, c2

HomeOf == c1 :> p1 @@ c2 :> p2
=============================================================================
