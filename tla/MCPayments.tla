----------------------------- MODULE MCPayments -----------------------------
(***************************************************************************)
(* Payments on a small instance: a deposit and a withdrawal of one user,   *)
(* a referral withdrawal of another, and two concurrent requests.          *)
(***************************************************************************)
EXTENDS Payments, TLC

CONSTANTS u1, u2, d1, w1, w2, h1, h2

MCOwner == (d1 :> u1) @@ (w1 :> u1) @@ (w2 :> u2)

MCAdjustAmounts == {-1, 0, 1}

HandlerSymmetry == Permutations(Handlers)

=============================================================================
