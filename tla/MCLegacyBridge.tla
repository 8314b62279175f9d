--------------------------- MODULE MCLegacyBridge ---------------------------
EXTENDS LegacyBridge, TLC
CONSTANTS r1, r2, k1, k2, x1, x2, p1, p2
MCStubs == (k1 :> x1) @@ (k2 :> x2)
\* No action tells the rows, the accounts, the limits or the prices apart.
Symmetry == Permutations({r1, r2}) \cup Permutations(Accounts)
              \cup Permutations(Limits) \cup Permutations({p1, p2})
=============================================================================
