---------------------------- MODULE MCBuyerAuth ----------------------------
(* TLC's instance of BuyerAuth: two accounts, one of which may also be an    *)
(* internal user's address.                                                 *)
EXTENDS BuyerAuth, TLC

CONSTANTS b1, b2, c1, c2, t1, t2, e1, e2, p1, p2

MCBuyers == {b1, b2}
MCSellers == {e1}

Interchangeable == Permutations({t1, t2}) \cup Permutations({c1, c2})
=============================================================================
