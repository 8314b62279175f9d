---------------------------- MODULE OrdersProofs ----------------------------
(***************************************************************************)
(* Orders and ManualOrders, proved for any number of orders, users and     *)
(* requests, and any prices, levels and statuses.                          *)
(*                                                                         *)
(* The books are part of the inductive invariant: the SQL floors under     *)
(* total_spent and under the referrer's columns never cut because a sum of *)
(* natural numbers covers each of its summands, and only then does a step  *)
(* move a column by what it moves the order's row by.                      *)
(*                                                                         *)
(* ManualOrders implements Orders, so what is proved of orders and wallets *)
(* holds in it; its own invariants are about the requests and histories.   *)
(***************************************************************************)
EXTENDS ManualOrders, Sums

OrdersOf(u) == {o \in Orders : Customer[o] = u}
ReferredBy(r) == {o \in Orders : ReferrerOf(o) = r}
HeldOf == [o \in Orders |-> Held(o)]
CommissionOf == [o \in Orders |-> order[o].commission]

\* An order not yet placed is empty, and without a payout there is no commission.
RowsOK ==
    \A o \in Orders :
        /\ order[o].status = "none" =>
              order[o].amount = 0 /\ order[o].refunded = 0 /\ ~order[o].paidOut
        /\ ~order[o].paidOut => order[o].commission = 0

\* OrderBooks and ReferralBooks with Sum for MapThenSumSet.
HeldSums ==
    \A u \in Users : /\ balance[u] = OpeningBalance - Sum(HeldOf, OrdersOf(u))
                     /\ totalSpent[u] = Sum(HeldOf, OrdersOf(u))
CommissionSums ==
    \A r \in Users : /\ referralEarned[r] = OpeningReferral + Sum(CommissionOf, ReferredBy(r))
                     /\ referralBalance[r] = referralEarned[r]

Row == [status: StoredStatuses \cup {"none"}, amount: Nat, refunded: Nat,
        paidOut: BOOLEAN, commission: Nat]

\* What the steps that move money or rows preserve; requests come in OrdersInv.
BooksInv ==
    /\ WalletsTypeOK
    /\ order \in [Orders -> Row]
    /\ RowsOK
    /\ RefundedIsWhole
    /\ HeldSums
    /\ CommissionSums

OrdersInv == BooksInv /\ edit \in [Editors -> Edits \cup {NoEdit}]

\* A step that changes the row of o, not yet refunded, and no other: its customer's balance
\* moves by what o then holds less, and a commission is kept or goes with a full refund.
RowMoves(o) ==
    /\ ~SqlRefunded(o)
    /\ \A p \in Orders \ {o} : order'[p] = order[p]
    /\ balance' = Credited(balance, Customer[o], Held(o) - Held(o)')
    /\ order[o].paidOut => \/ order'[o].paidOut /\ order'[o].commission = order[o].commission
                           \/ Key(order'[o].status) \in RefundedKeys

-----------------------------------------------------------------------------
(* The folds of the two properties are the sums of the proofs. *)

LEMMA FoldOfHeld ==
    ASSUME NEW S \in SUBSET Orders, IsFiniteSet(S)
    PROVE  MapThenSumSet(Held, S) = Sum(HeldOf, S)
<1> DEFINE Fold(t) == t = [s \in SUBSET S |->
                             IF s = {} THEN 0
                             ELSE Held(CHOOSE x \in s : TRUE) + t[s \ {CHOOSE x \in s : TRUE}]]
<1>1. IsTable(HeldOf, S, Table(HeldOf, S))
  BY TableExists
<1>2. \A s \in SUBSET S : s # {} => HeldOf[Pick(s)] = Held(Pick(s))
  BY PickIn DEF HeldOf
<1>3. \A t : IsTable(HeldOf, S, t) <=> Fold(t)
  BY <1>2 DEF IsTable, Pick
<1>4. MapThenSumSet(Held, S) = (CHOOSE t : Fold(t))[S]
  BY DEF MapThenSumSet, MapThenFoldSet
<1> HIDE DEF Fold
<1>5. Fold(CHOOSE t : Fold(t))
  BY <1>1, <1>3
<1>6. QED
  BY <1>1, <1>3, <1>4, <1>5, TablesAgree DEF Sum

LEMMA FoldOfCommissions ==
    ASSUME NEW S \in SUBSET Orders, IsFiniteSet(S)
    PROVE  MapThenSumSet(LAMBDA o : order[o].commission, S) = Sum(CommissionOf, S)
<1> DEFINE Fold(t) == t = [s \in SUBSET S |->
                             IF s = {} THEN 0
                             ELSE order[CHOOSE x \in s : TRUE].commission + t[s \ {CHOOSE x \in s : TRUE}]]
<1>1. IsTable(CommissionOf, S, Table(CommissionOf, S))
  BY TableExists
<1>2. \A s \in SUBSET S : s # {} => CommissionOf[Pick(s)] = order[Pick(s)].commission
  BY PickIn DEF CommissionOf
<1>3. \A t : IsTable(CommissionOf, S, t) <=> Fold(t)
  BY <1>2 DEF IsTable, Pick
<1>4. MapThenSumSet(LAMBDA o : order[o].commission, S) = (CHOOSE t : Fold(t))[S]
  BY DEF MapThenSumSet, MapThenFoldSet
<1> HIDE DEF Fold
<1>5. Fold(CHOOSE t : Fold(t))
  BY <1>1, <1>3
<1>6. QED
  BY <1>1, <1>3, <1>4, <1>5, TablesAgree DEF Sum

LEMMA SumsAreBooks ==
    ASSUME HeldSums, CommissionSums
    PROVE  OrderBooks /\ ReferralBooks
<1>1. \A u \in Users : IsFiniteSet(OrdersOf(u)) /\ IsFiniteSet(ReferredBy(u))
  BY OrdersAssumption, FS_Subset DEF OrdersOf, ReferredBy
<1>2. OrderBooks
  <2>1. \A u \in Users : MapThenSumSet(Held, OrdersOf(u)) = Sum(HeldOf, OrdersOf(u))
    BY <1>1, FoldOfHeld DEF OrdersOf
  <2>2. QED
    BY <2>1 DEF HeldSums, OrderBooks, OrdersOf
<1>3. ReferralBooks
  <2>1. \A r \in Users : MapThenSumSet(LAMBDA o : order[o].commission, ReferredBy(r))
                             = Sum(CommissionOf, ReferredBy(r))
    BY <1>1, FoldOfCommissions DEF ReferredBy
  <2>2. QED
    BY <2>1 DEF CommissionSums, ReferralBooks, ReferredBy
<1>4. QED
  BY <1>2, <1>3

-----------------------------------------------------------------------------
(* What one order's row does to the sums. *)

LEMMA Finite == \A u : IsFiniteSet(OrdersOf(u)) /\ IsFiniteSet(ReferredBy(u))
BY OrdersAssumption, FS_Subset DEF OrdersOf, ReferredBy

\* The customer of an order is a user.
LEMMA CustomerType == \A o \in Orders : Customer[o] \in Users
BY OrdersAssumption

LEMMA HeldMoves ==
    ASSUME order \in [Orders -> Row], order' \in [Orders -> Row], NEW o \in Orders,
           \A p \in Orders \ {o} : order'[p] = order[p], NEW u
    PROVE  /\ Sum(HeldOf, OrdersOf(u)) \in Int
           /\ Sum(HeldOf', OrdersOf(u)) =
                Sum(HeldOf, OrdersOf(u)) + IF Customer[o] = u THEN Held(o)' - Held(o) ELSE 0
<1>1. \A p \in Orders : HeldOf[p] \in Int /\ HeldOf'[p] \in Int
  BY DEF HeldOf, Held, Row
<1>2. \A p \in Orders \ {o} : HeldOf[p] = HeldOf'[p]
  BY DEF HeldOf, Held
<1>3. HeldOf[o] = Held(o) /\ HeldOf'[o] = Held(o)'
  BY DEF HeldOf
<1>4. Sum(HeldOf, OrdersOf(u)) \in Int
  BY <1>1, Finite, SumIsInt DEF OrdersOf
<1>5. CASE Customer[o] = u
  <2>1. o \in OrdersOf(u)
    BY <1>5 DEF OrdersOf
  <2>2. \A p \in OrdersOf(u) : HeldOf[p] \in Int /\ HeldOf'[p] \in Int
    BY <1>1 DEF OrdersOf
  <2>3. \A p \in OrdersOf(u) \ {o} : HeldOf[p] = HeldOf'[p]
    BY <1>2 DEF OrdersOf
  <2>4. Sum(HeldOf', OrdersOf(u)) = Sum(HeldOf, OrdersOf(u)) + (HeldOf'[o] - HeldOf[o])
    BY <2>1, <2>2, <2>3, Finite, SumMoves
  <2>5. QED
    BY <2>4, <1>3, <1>4, <1>5
<1>6. CASE Customer[o] # u
  <2>1. \A p \in OrdersOf(u) : HeldOf[p] = HeldOf'[p]
    BY <1>2, <1>6 DEF OrdersOf
  <2>2. Sum(HeldOf', OrdersOf(u)) = Sum(HeldOf, OrdersOf(u))
    BY <2>1, Finite, SumAgrees
  <2>3. QED
    BY <2>2, <1>4, <1>6
<1>7. QED
  BY <1>4, <1>5, <1>6

LEMMA CommissionMoves ==
    ASSUME order \in [Orders -> Row], order' \in [Orders -> Row], NEW o \in Orders,
           \A p \in Orders \ {o} : order'[p] = order[p], NEW r
    PROVE  /\ Sum(CommissionOf, ReferredBy(r)) \in Int
           /\ Sum(CommissionOf', ReferredBy(r)) =
                Sum(CommissionOf, ReferredBy(r))
                  + IF ReferrerOf(o) = r THEN order'[o].commission - order[o].commission ELSE 0
<1>1. \A p \in Orders : CommissionOf[p] \in Int /\ CommissionOf'[p] \in Int
  BY DEF CommissionOf, Row
<1>2. \A p \in Orders \ {o} : CommissionOf[p] = CommissionOf'[p]
  BY DEF CommissionOf
<1>3. CommissionOf[o] = order[o].commission /\ CommissionOf'[o] = order'[o].commission
  BY DEF CommissionOf
<1>4. Sum(CommissionOf, ReferredBy(r)) \in Int
  BY <1>1, Finite, SumIsInt DEF ReferredBy
<1>5. CASE ReferrerOf(o) = r
  <2>1. o \in ReferredBy(r)
    BY <1>5 DEF ReferredBy
  <2>2. \A p \in ReferredBy(r) : CommissionOf[p] \in Int /\ CommissionOf'[p] \in Int
    BY <1>1 DEF ReferredBy
  <2>3. \A p \in ReferredBy(r) \ {o} : CommissionOf[p] = CommissionOf'[p]
    BY <1>2 DEF ReferredBy
  <2>4. Sum(CommissionOf', ReferredBy(r)) =
          Sum(CommissionOf, ReferredBy(r)) + (CommissionOf'[o] - CommissionOf[o])
    BY <2>1, <2>2, <2>3, Finite, SumMoves
  <2>5. QED
    BY <2>4, <1>3, <1>4, <1>5
<1>6. CASE ReferrerOf(o) # r
  <2>1. \A p \in ReferredBy(r) : CommissionOf[p] = CommissionOf'[p]
    BY <1>2, <1>6 DEF ReferredBy
  <2>2. Sum(CommissionOf', ReferredBy(r)) = Sum(CommissionOf, ReferredBy(r))
    BY <2>1, Finite, SumAgrees
  <2>3. QED
    BY <2>2, <1>4, <1>6
<1>7. QED
  BY <1>4, <1>5, <1>6

\* A customer has spent at least what any one order of theirs holds, so that the floor of
\* _credit_user_order_refund does not cut.
LEMMA HeldIsCovered ==
    ASSUME BooksInv, NEW o \in Orders
    PROVE  Held(o) \in Nat /\ Held(o) <= totalSpent[Customer[o]]
<1>1. \A p \in Orders : HeldOf[p] \in Nat
  BY DEF HeldOf, Held, BooksInv, Row, RefundedIsWhole
<1>2. o \in OrdersOf(Customer[o]) /\ \A p \in OrdersOf(Customer[o]) : HeldOf[p] \in Nat
  BY <1>1 DEF OrdersOf
<1>3. HeldOf[o] <= Sum(HeldOf, OrdersOf(Customer[o]))
  BY <1>2, Finite, SumCovers
<1>4. QED
  BY <1>1, <1>3, CustomerType DEF HeldOf, BooksInv, HeldSums

\* A referrer has earned, and still has, at least the commission of any one order, so that
\* the floors of _reverse_referral_payout_in_tx do not cut.
LEMMA CommissionIsCovered ==
    ASSUME BooksInv, NEW o \in Orders, ReferrerOf(o) \in Users
    PROVE  /\ order[o].commission \in Nat
           /\ order[o].commission <= referralEarned[ReferrerOf(o)]
           /\ order[o].commission <= referralBalance[ReferrerOf(o)]
<1> DEFINE r == ReferrerOf(o)
<1>1. \A p \in Orders : CommissionOf[p] \in Nat
  BY DEF CommissionOf, BooksInv, Row
<1>2. o \in ReferredBy(r) /\ \A p \in ReferredBy(r) : CommissionOf[p] \in Nat
  BY <1>1 DEF ReferredBy
<1>3. CommissionOf[o] <= Sum(CommissionOf, ReferredBy(r)) /\ Sum(CommissionOf, ReferredBy(r)) \in Nat
  BY <1>2, Finite, SumCovers
<1>4. CommissionOf[o] = order[o].commission /\ order[o].commission \in Nat
  BY <1>1 DEF CommissionOf
<1>5. /\ referralEarned[r] = OpeningReferral + Sum(CommissionOf, ReferredBy(r))
      /\ referralBalance[r] = referralEarned[r]
  BY DEF BooksInv, CommissionSums
<1>6. QED
  BY <1>3, <1>4, <1>5, WalletsAssumption

\* When a customer's columns move by what the order's row moves by, they stay the sums.
LEMMA HeldSumsKept ==
    ASSUME BooksInv, NEW o \in Orders, order' \in [Orders -> Row],
           \A p \in Orders \ {o} : order'[p] = order[p],
           balance' = Credited(balance, Customer[o], Held(o) - Held(o)'),
           totalSpent' = Credited(totalSpent, Customer[o], Held(o)' - Held(o))
    PROVE  HeldSums'
<1> SUFFICES ASSUME NEW u \in Users
             PROVE  /\ balance'[u] = OpeningBalance - Sum(HeldOf', OrdersOf(u))
                    /\ totalSpent'[u] = Sum(HeldOf', OrdersOf(u))
  BY DEF HeldSums, OrdersOf
<1> DEFINE old == Sum(HeldOf, OrdersOf(u))
           new == Sum(HeldOf', OrdersOf(u))
<1>1. old \in Int /\ new = old + IF Customer[o] = u THEN Held(o)' - Held(o) ELSE 0
  BY HeldMoves DEF BooksInv
<1>2. balance[u] = OpeningBalance - old /\ totalSpent[u] = old
  BY DEF BooksInv, HeldSums
<1>3. Held(o) \in Int /\ Held(o)' \in Int
  BY DEF BooksInv, Held, Row
<1>4. /\ balance'[u] = balance[u] + IF Customer[o] = u THEN Held(o) - Held(o)' ELSE 0
      /\ totalSpent'[u] = totalSpent[u] + IF Customer[o] = u THEN Held(o)' - Held(o) ELSE 0
  BY <1>3 DEF Credited, BooksInv, WalletsTypeOK
<1>5. OpeningBalance \in Int
  BY WalletsAssumption
<1> HIDE DEF old, new
<1>6. QED
  BY <1>1, <1>2, <1>3, <1>4, <1>5 DEF new

\* The same for a referrer's columns and the commission recorded on the order.
LEMMA CommissionSumsKept ==
    ASSUME BooksInv, NEW o \in Orders, order' \in [Orders -> Row],
           \A p \in Orders \ {o} : order'[p] = order[p],
           NEW delta \in Int, delta = order'[o].commission - order[o].commission,
           IF ReferrerOf(o) \in Users
           THEN /\ referralEarned' = Credited(referralEarned, ReferrerOf(o), delta)
                /\ referralBalance' = Credited(referralBalance, ReferrerOf(o), delta)
           ELSE UNCHANGED <<referralEarned, referralBalance>>
    PROVE  CommissionSums'
<1> SUFFICES ASSUME NEW r \in Users
             PROVE  /\ referralEarned'[r] = OpeningReferral + Sum(CommissionOf', ReferredBy(r))
                    /\ referralBalance'[r] = referralEarned'[r]
  BY DEF CommissionSums, ReferredBy, ReferrerOf
<1> DEFINE old == Sum(CommissionOf, ReferredBy(r))
           new == Sum(CommissionOf', ReferredBy(r))
<1>1. old \in Int /\ new = old + IF ReferrerOf(o) = r THEN delta ELSE 0
  BY CommissionMoves DEF BooksInv
<1>2. referralEarned[r] = OpeningReferral + old /\ referralBalance[r] = referralEarned[r]
  BY DEF BooksInv, CommissionSums
<1>3. /\ referralEarned'[r] = referralEarned[r] + IF ReferrerOf(o) = r THEN delta ELSE 0
      /\ referralBalance'[r] = referralBalance[r] + IF ReferrerOf(o) = r THEN delta ELSE 0
  BY DEF Credited, BooksInv, WalletsTypeOK
<1>4. OpeningReferral \in Int
  BY WalletsAssumption
<1> HIDE DEF old, new
<1>5. QED
  BY <1>1, <1>2, <1>3, <1>4 DEF new

\* A floor that does not cut is a plain debit.
LEMMA FloorDoesNotCut ==
    ASSUME NEW column \in [Users -> Nat], NEW u \in Users, NEW a \in Nat, a <= column[u]
    PROVE  Floored(column, u, a) = Credited(column, u, -a)
<1>1. Floored(column, u, a) = [column EXCEPT ![u] = @ - a]
  BY DEF Floored
<1>2. column[u] - a = column[u] + (-a)
  OBVIOUS
<1>3. QED
  BY <1>1, <1>2 DEF Credited

-----------------------------------------------------------------------------
(* Each transaction keeps the books. *)

\* A commission is a whole, natural number of units.
LEMMA CommissionIsNat ==
    ASSUME NEW net \in Nat, NEW level \in Nat
    PROVE  Commission(net, level) \in Nat
<1> DEFINE n == net * 5 * (level + 1)
<1>1. n \in Nat
  <2>1. net * 5 \in Nat /\ level + 1 \in Nat
    OBVIOUS
  <2>2. \A a, b \in Nat : a * b \in Nat
    OBVIOUS
  <2>3. QED
    BY <2>1, <2>2
<1>2. \A m \in Nat : m \div 100 \in Nat
  OBVIOUS
<1>3. QED
  BY <1>1, <1>2 DEF Commission

\* Rows that differ from the old ones in what no sum counts.
LEMMA StatusKeepsBooks ==
    ASSUME BooksInv, NEW o \in Orders, NEW s \in StoredStatuses, Key(s) \notin RefundedKeys,
           ~SqlRefunded(o), ApplyStatus(o, s)
    PROVE  BooksInv' /\ RowMoves(o)
<1>1. order' = [order EXCEPT ![o].status = s] /\ UNCHANGED wallets
  BY DEF ApplyStatus
<1>2. order' \in [Orders -> Row] /\ \A p \in Orders \ {o} : order'[p] = order[p]
  BY <1>1 DEF BooksInv, Row
<1>3. /\ order'[o].status = s
      /\ order'[o].amount = order[o].amount /\ order'[o].refunded = order[o].refunded
      /\ order'[o].paidOut = order[o].paidOut /\ order'[o].commission = order[o].commission
  BY <1>1 DEF BooksInv, Row
<1>4. WalletsTypeOK'
  BY <1>1 DEF BooksInv, wallets, WalletsTypeOK
<1>5. s # "none"
  BY DEF StoredStatuses, RefundedKeys, ActiveKeys, Delivered
<1>6. RowsOK'
  BY <1>2, <1>3, <1>5 DEF BooksInv, RowsOK
<1>7. RefundedIsWhole'
  BY <1>2, <1>3 DEF BooksInv, RefundedIsWhole
<1>7a. /\ balance' = Credited(balance, Customer[o], Held(o) - Held(o)')
       /\ totalSpent' = Credited(totalSpent, Customer[o], Held(o)' - Held(o))
  <2>1. Held(o)' = Held(o) /\ Held(o) \in Int
    BY <1>3 DEF Held, BooksInv, Row
  <2>2. QED
    BY <1>1, <2>1 DEF Credited, BooksInv, WalletsTypeOK, wallets
<1>8. HeldSums'
  BY <1>2, <1>7a, HeldSumsKept
<1>9. CommissionSums'
  <2>1. order'[o].commission - order[o].commission = 0
    BY <1>3 DEF BooksInv, Row
  <2>2. \A r : /\ Credited(referralEarned, r, 0) = referralEarned
               /\ Credited(referralBalance, r, 0) = referralBalance
    BY DEF Credited, BooksInv, WalletsTypeOK
  <2>3. QED
    BY <1>1, <1>2, <2>1, <2>2, CommissionSumsKept DEF wallets
<1>10. RowMoves(o)
  BY <1>2, <1>3, <1>7a DEF RowMoves
<1>11. QED
  BY <1>2, <1>4, <1>6, <1>7, <1>8, <1>9, <1>10 DEF BooksInv

LEMMA RefundKeepsBooks ==
    ASSUME BooksInv, NEW o \in Orders, NEW s \in RefundedKeys \cup {"cancelled"},
           ~SqlRefunded(o), ApplyRefund(o, s)
    PROVE  BooksInv' /\ RowMoves(o)
<1> DEFINE r == ReferrerOf(o)
           c == order[o].commission
<1>1. /\ order' = [order EXCEPT ![o] = [@ EXCEPT !.status = s, !.refunded = order[o].amount,
                                                  !.paidOut = FALSE,
                                                  !.commission = IF order[o].paidOut THEN 0 ELSE order[o].commission]]
      /\ CreditRefund(o)
      /\ ReverseCommission(o)
  BY DEF ApplyRefund
<1>2. order[o] \in Row /\ order \in [Orders -> Row]
  BY DEF BooksInv
<1>3. s \in StoredStatuses /\ s # "none"
  BY DEF StoredStatuses, RefundedKeys, ActiveKeys, Delivered
<1> DEFINE kept == IF order[o].paidOut THEN 0 ELSE order[o].commission
           row == [order[o] EXCEPT !.status = s, !.refunded = order[o].amount,
                                   !.paidOut = FALSE, !.commission = kept]
<1>3a. kept = 0
  BY DEF BooksInv, RowsOK
<1>3b. order' = [order EXCEPT ![o] = row]
  BY <1>1
<1> HIDE DEF kept
<1>3c. /\ row \in Row
       /\ row.status = s
       /\ row.amount = order[o].amount /\ row.refunded = order[o].amount
       /\ row.paidOut = FALSE /\ row.commission = 0
  BY <1>2, <1>3, <1>3a DEF Row
<1> HIDE DEF row
<1>4. /\ order'[o].status = s
      /\ order'[o].amount = order[o].amount /\ order'[o].refunded = order[o].amount
      /\ order'[o].paidOut = FALSE /\ order'[o].commission = 0
  BY <1>2, <1>3b, <1>3c
<1>5. order' \in [Orders -> Row] /\ \A p \in Orders \ {o} : order'[p] = order[p]
  BY <1>2, <1>3b, <1>3c
<1>6. Held(o)' = 0 /\ RefundDue(o) = Held(o)
  BY <1>2, <1>4 DEF Held, RefundDue, Row
<1>7. Held(o) \in Nat /\ Held(o) <= totalSpent[Customer[o]] /\ Customer[o] \in Users
  BY HeldIsCovered, CustomerType
<1>8. /\ balance' = Credited(balance, Customer[o], Held(o) - Held(o)')
      /\ totalSpent' = Credited(totalSpent, Customer[o], Held(o)' - Held(o))
  <2>1. balance' = Credited(balance, Customer[o], Held(o)) /\ totalSpent' = Floored(totalSpent, Customer[o], Held(o))
    BY <1>1, <1>6 DEF CreditRefund
  <2>2. totalSpent' = Credited(totalSpent, Customer[o], -Held(o))
    BY <1>7, <2>1, FloorDoesNotCut DEF BooksInv, WalletsTypeOK
  <2>3. Held(o) - 0 = Held(o) /\ 0 - Held(o) = -Held(o)
    BY <1>7
  <2>4. QED
    BY <1>6, <2>1, <2>2, <2>3
<1>9. IF r \in Users
      THEN /\ referralEarned' = Credited(referralEarned, r, -c)
           /\ referralBalance' = Credited(referralBalance, r, -c)
      ELSE UNCHANGED <<referralEarned, referralBalance>>
  <2>1. CASE r \in Users /\ order[o].paidOut
    <3>1. c \in Nat /\ c <= referralEarned[r] /\ c <= referralBalance[r]
      BY <2>1, CommissionIsCovered
    <3>2. /\ referralEarned' = Floored(referralEarned, r, c)
          /\ referralBalance' = Floored(referralBalance, r, c)
      BY <1>1, <2>1 DEF ReverseCommission
    <3>3. QED
      BY <2>1, <3>1, <3>2, FloorDoesNotCut DEF BooksInv, WalletsTypeOK
  <2>2. CASE r \in Users /\ ~order[o].paidOut
    <3>1. c = 0
      BY <2>2 DEF BooksInv, RowsOK
    <3>2. UNCHANGED <<referralEarned, referralBalance>>
      BY <1>1, <2>2 DEF ReverseCommission
    <3>3. QED
      BY <2>2, <3>1, <3>2 DEF Credited, BooksInv, WalletsTypeOK
  <2>3. CASE r \notin Users
    BY <1>1, <2>3 DEF ReverseCommission
  <2>4. QED
    BY <2>1, <2>2, <2>3
<1>10. WalletsTypeOK'
  <2>1. balance' \in [Users -> Nat] /\ totalSpent' \in [Users -> Nat]
    BY <1>6, <1>7, <1>8 DEF Credited, BooksInv, WalletsTypeOK
  <2>2. referralEarned' \in [Users -> Nat] /\ referralBalance' \in [Users -> Nat]
    <3>1. CASE r \in Users
      <4>1. c \in Nat /\ c <= referralEarned[r] /\ c <= referralBalance[r]
        BY <3>1, CommissionIsCovered
      <4>2. QED
        BY <1>9, <3>1, <4>1 DEF Credited, BooksInv, WalletsTypeOK
    <3>2. CASE r \notin Users
      BY <1>9, <3>2 DEF BooksInv, WalletsTypeOK
    <3>3. QED
      BY <3>1, <3>2
  <2>3. referralLevel' = referralLevel /\ adjusted' = adjusted
    BY <1>1 DEF CreditRefund
  <2>4. QED
    BY <2>1, <2>2, <2>3 DEF BooksInv, WalletsTypeOK
<1>11. RowsOK'
  BY <1>3, <1>4, <1>5 DEF BooksInv, RowsOK
<1>12. RefundedIsWhole'
  BY <1>2, <1>4, <1>5 DEF BooksInv, RefundedIsWhole, Row
<1>13. HeldSums'
  BY <1>5, <1>8, HeldSumsKept
<1>14. CommissionSums'
  <2>1. -c \in Int /\ -c = order'[o].commission - order[o].commission
    BY <1>2, <1>4 DEF Row
  <2>2. QED
    BY <1>5, <1>9, <2>1, CommissionSumsKept
<1>15. RowMoves(o)
  <2>1. Key(s) \in RefundedKeys
    BY DEF Key, RefundedKeys
  <2>2. QED
    BY <1>4, <1>5, <1>8, <2>1 DEF RowMoves
<1>16. QED
  BY <1>5, <1>10, <1>11, <1>12, <1>13, <1>14, <1>15 DEF BooksInv

LEMMA PayoutKeepsBooks ==
    ASSUME BooksInv, NEW o \in Orders, Payable(o), ApplyPayout(o)
    PROVE  BooksInv' /\ RowMoves(o)
<1> DEFINE r == ReferrerOf(o)
           c == IF r \in Users THEN Commission(Held(o), referralLevel[r]) ELSE 0
<1>1. /\ order' = [order EXCEPT ![o] = [@ EXCEPT !.paidOut = TRUE, !.commission = c]]
      /\ IF r \in Users
         THEN /\ referralBalance' = Credited(referralBalance, r, c)
              /\ referralEarned' = Credited(referralEarned, r, c)
         ELSE UNCHANGED <<referralBalance, referralEarned>>
      /\ UNCHANGED <<balance, totalSpent, referralLevel, adjusted>>
  BY DEF ApplyPayout
<1>2. c \in Nat
  <2>1. CASE r \in Users
    <3>1. Held(o) \in Nat /\ referralLevel[r] \in Nat
      BY <2>1, HeldIsCovered, WalletsAssumption DEF BooksInv, WalletsTypeOK
    <3>2. QED
      BY <2>1, <3>1, CommissionIsNat
  <2>2. QED
    BY <2>1
<1> HIDE DEF c
<1>3. /\ order' \in [Orders -> Row] /\ \A p \in Orders \ {o} : order'[p] = order[p]
      /\ order'[o].status = order[o].status
      /\ order'[o].amount = order[o].amount /\ order'[o].refunded = order[o].refunded
      /\ order'[o].paidOut = TRUE /\ order'[o].commission = c
  BY <1>1, <1>2 DEF BooksInv, Row
<1>4. ~order[o].paidOut /\ order[o].status \in {"completed", "partial"} /\ order[o].commission = 0
  BY DEF Payable, Delivered, BooksInv, RowsOK
<1>5. WalletsTypeOK'
  BY <1>1, <1>2 DEF BooksInv, WalletsTypeOK, Credited
<1>6. RowsOK'
  BY <1>3, <1>4 DEF BooksInv, RowsOK
<1>7. RefundedIsWhole'
  <2>1. Key(order'[o].status) \notin RefundedKeys
    BY <1>3, <1>4 DEF Key, RefundedKeys
  <2>2. QED
    BY <1>3, <2>1 DEF BooksInv, RefundedIsWhole
<1>7a. /\ balance' = Credited(balance, Customer[o], Held(o) - Held(o)')
       /\ totalSpent' = Credited(totalSpent, Customer[o], Held(o)' - Held(o))
  <2>1. Held(o)' = Held(o) /\ Held(o) \in Int
    BY <1>3 DEF Held, BooksInv, Row
  <2>2. QED
    BY <1>1, <2>1 DEF Credited, BooksInv, WalletsTypeOK
<1>8. HeldSums'
  BY <1>3, <1>7a, HeldSumsKept
<1>9. CommissionSums'
  <2>1. c \in Int /\ c = order'[o].commission - order[o].commission
    BY <1>2, <1>3, <1>4
  <2>2. QED
    BY <1>1, <1>3, <2>1, CommissionSumsKept
<1>10. RowMoves(o)
  BY <1>3, <1>4, <1>7a DEF RowMoves, SqlRefunded, RefundedKeys
<1>11. QED
  BY <1>3, <1>5, <1>6, <1>7, <1>8, <1>9, <1>10 DEF BooksInv

LEMMA PlaceKeepsBooks ==
    ASSUME BooksInv, NEW o \in Orders, NEW amount \in OrderAmounts, BotPlacesOrder(o, amount)
    PROVE  BooksInv' /\ RowMoves(o)
<1>1. /\ order[o].status = "none" /\ balance[Customer[o]] >= amount
      /\ order' = [order EXCEPT ![o] = [@ EXCEPT !.status = PlacedStatus(o), !.amount = amount]]
      /\ balance' = Credited(balance, Customer[o], -amount)
      /\ totalSpent' = Credited(totalSpent, Customer[o], amount)
      /\ UNCHANGED <<referralBalance, referralEarned, referralLevel, adjusted>>
  BY DEF BotPlacesOrder
<1>2. amount \in Nat /\ Customer[o] \in Users
  BY OrdersAssumption
<1>3. PlacedStatus(o) \in ActiveKeys
  BY DEF PlacedStatus, ActiveKeys
<1>4. PlacedStatus(o) \in StoredStatuses /\ PlacedStatus(o) # "none" /\ Key(PlacedStatus(o)) \notin RefundedKeys
  BY <1>3 DEF StoredStatuses, ActiveKeys, RefundedKeys, Key
<1>5. order[o].amount = 0 /\ order[o].refunded = 0 /\ ~order[o].paidOut /\ order[o].commission = 0
  BY <1>1 DEF BooksInv, RowsOK
<1>6. /\ order' \in [Orders -> Row] /\ \A p \in Orders \ {o} : order'[p] = order[p]
      /\ order'[o].status = PlacedStatus(o)
      /\ order'[o].amount = amount /\ order'[o].refunded = order[o].refunded
      /\ order'[o].paidOut = order[o].paidOut /\ order'[o].commission = order[o].commission
  BY <1>1, <1>2, <1>4 DEF BooksInv, Row
<1>7. WalletsTypeOK'
  BY <1>1, <1>2 DEF BooksInv, WalletsTypeOK, Credited
<1>8. RowsOK'
  BY <1>4, <1>5, <1>6 DEF BooksInv, RowsOK
<1>9. RefundedIsWhole'
  BY <1>2, <1>4, <1>5, <1>6 DEF BooksInv, RefundedIsWhole
<1>9a. /\ balance' = Credited(balance, Customer[o], Held(o) - Held(o)')
       /\ totalSpent' = Credited(totalSpent, Customer[o], Held(o)' - Held(o))
  <2>1. Held(o) = 0 /\ Held(o)' = amount
    BY <1>2, <1>5, <1>6 DEF Held
  <2>2. Held(o) - Held(o)' = -amount /\ Held(o)' - Held(o) = amount
    BY <1>2, <2>1
  <2>3. QED
    BY <1>1, <2>2
<1>10. HeldSums'
  BY <1>6, <1>9a, HeldSumsKept
<1>11. CommissionSums'
  <2>1. order'[o].commission - order[o].commission = 0
    BY <1>5, <1>6
  <2>2. \A r : /\ Credited(referralEarned, r, 0) = referralEarned
               /\ Credited(referralBalance, r, 0) = referralBalance
    BY DEF Credited, BooksInv, WalletsTypeOK
  <2>3. QED
    BY <1>1, <1>6, <2>1, <2>2, CommissionSumsKept
<1>12. RowMoves(o)
  BY <1>1, <1>5, <1>6, <1>9a DEF RowMoves, SqlRefunded, RefundedKeys
<1>13. QED
  BY <1>6, <1>7, <1>8, <1>9, <1>10, <1>11, <1>12 DEF BooksInv

LEMMA PartialKeepsBooks ==
    ASSUME BooksInv, NEW o \in Orders, NEW back \in PartialRefunds, BotPartial(o, back)
    PROVE  BooksInv' /\ RowMoves(o)
<1>1. /\ SqlActive(o) /\ back <= Held(o)
      /\ order' = [order EXCEPT ![o] = [@ EXCEPT !.status = "partial", !.refunded = order[o].refunded + back]]
      /\ balance' = Credited(balance, Customer[o], back)
      /\ totalSpent' = Floored(totalSpent, Customer[o], back)
      /\ UNCHANGED <<referralBalance, referralEarned, referralLevel, adjusted>>
  BY DEF BotPartial
<1>2. back \in Nat /\ Customer[o] \in Users
  BY OrdersAssumption
<1>3. "partial" \in StoredStatuses /\ Key("partial") \notin RefundedKeys
  BY DEF StoredStatuses, Delivered, RefundedKeys, Key
<1>4. order[o] \in Row
  BY DEF BooksInv
<1> DEFINE sum == order[o].refunded + back
           row == [order[o] EXCEPT !.status = "partial", !.refunded = sum]
<1>4a. order' = [order EXCEPT ![o] = row] /\ sum \in Nat
  BY <1>1, <1>2, <1>4 DEF Row
<1> HIDE DEF sum
<1>4b. /\ row \in Row
       /\ row.status = "partial"
       /\ row.amount = order[o].amount /\ row.refunded = sum
       /\ row.paidOut = order[o].paidOut /\ row.commission = order[o].commission
  BY <1>3, <1>4, <1>4a DEF Row
<1> HIDE DEF row
<1>5. /\ order' \in [Orders -> Row] /\ \A p \in Orders \ {o} : order'[p] = order[p]
      /\ order'[o].status = "partial"
      /\ order'[o].amount = order[o].amount /\ order'[o].refunded = order[o].refunded + back
      /\ order'[o].paidOut = order[o].paidOut /\ order'[o].commission = order[o].commission
  BY <1>4a, <1>4b DEF BooksInv, sum
<1>6. Held(o)' = Held(o) - back /\ Held(o) \in Nat /\ Held(o) <= totalSpent[Customer[o]]
  BY <1>2, <1>4, <1>5, HeldIsCovered DEF Held, Row
<1>7. totalSpent[Customer[o]] \in Nat
  BY <1>2 DEF BooksInv, WalletsTypeOK
<1>8. /\ balance' = Credited(balance, Customer[o], Held(o) - Held(o)')
      /\ totalSpent' = Credited(totalSpent, Customer[o], Held(o)' - Held(o))
  <2>1. Held(o) - Held(o)' = back /\ Held(o)' - Held(o) = -back
    BY <1>2, <1>6
  <2>2. totalSpent' = Credited(totalSpent, Customer[o], -back)
    BY <1>1, <1>2, <1>6, FloorDoesNotCut DEF BooksInv, WalletsTypeOK
  <2>3. QED
    BY <1>1, <2>1, <2>2
<1>9. WalletsTypeOK'
  BY <1>1, <1>2, <1>6, <1>7 DEF BooksInv, WalletsTypeOK, Credited, Floored
<1>10. RowsOK'
  BY <1>5 DEF BooksInv, RowsOK
<1>11. RefundedIsWhole'
  <2>1. order[o].refunded + back <= order[o].amount
    BY <1>1, <1>2, <1>4 DEF Held, Row
  <2>2. QED
    BY <1>3, <1>5, <2>1 DEF BooksInv, RefundedIsWhole
<1>12. HeldSums'
  BY <1>5, <1>8, HeldSumsKept
<1>13. CommissionSums'
  <2>1. order'[o].commission - order[o].commission = 0
    BY <1>4, <1>5 DEF Row
  <2>2. \A r : /\ Credited(referralEarned, r, 0) = referralEarned
               /\ Credited(referralBalance, r, 0) = referralBalance
    BY DEF Credited, BooksInv, WalletsTypeOK
  <2>3. QED
    BY <1>1, <1>5, <2>1, <2>2, CommissionSumsKept
<1>14. RowMoves(o)
  BY <1>1, <1>5, <1>8 DEF RowMoves, SqlActive, SqlRefunded, ActiveKeys, RefundedKeys
<1>15. QED
  BY <1>5, <1>9, <1>10, <1>11, <1>12, <1>13, <1>14 DEF BooksInv

\* The referral level enters no sum, and neither do the requests.
LEMMA LevelKeepsBooks ==
    ASSUME BooksInv, UNCHANGED <<balance, totalSpent, referralBalance, referralEarned, adjusted, order>>,
           referralLevel' \in [Users -> Levels]
    PROVE  BooksInv'
<1>1. HeldOf' = HeldOf /\ CommissionOf' = CommissionOf
  BY DEF HeldOf, CommissionOf, Held
<1>2. HeldSums' /\ CommissionSums'
  BY <1>1 DEF BooksInv, HeldSums, CommissionSums, OrdersOf, ReferredBy, ReferrerOf
<1>3. WalletsTypeOK' /\ RowsOK' /\ RefundedIsWhole'
  BY DEF BooksInv, WalletsTypeOK, RowsOK, RefundedIsWhole
<1>4. QED
  BY <1>2, <1>3 DEF BooksInv

-----------------------------------------------------------------------------
(* The specification. *)

\* Every step that changes orders or wallets is one of these.
BooksStep ==
    \/ \E o \in Orders, s \in StoredStatuses :
          Key(s) \notin RefundedKeys /\ ~SqlRefunded(o) /\ ApplyStatus(o, s)
    \/ \E o \in Orders, s \in RefundedKeys \cup {"cancelled"} : ~SqlRefunded(o) /\ ApplyRefund(o, s)
    \/ \E o \in Orders : Payable(o) /\ ApplyPayout(o)
    \/ \E o \in Orders, a \in OrderAmounts : BotPlacesOrder(o, a)
    \/ \E o \in Orders, b \in PartialRefunds : BotPartial(o, b)
    \/ \E u \in Users, l \in Levels : ChangeUserReferralLevel(u, l) /\ UNCHANGED order
    \/ UNCHANGED <<wallets, order>>

LEMMA BooksAreKept ==
    ASSUME BooksInv, BooksStep
    PROVE  /\ BooksInv'
           /\ UNCHANGED <<order, balance>> \/ \E o \in Orders : RowMoves(o)
<1> DEFINE Kept == /\ BooksInv'
                   /\ UNCHANGED <<order, balance>> \/ \E o \in Orders : RowMoves(o)
<1>1. ASSUME NEW o \in Orders, NEW s \in StoredStatuses, Key(s) \notin RefundedKeys,
             ~SqlRefunded(o), ApplyStatus(o, s)
      PROVE  Kept
  BY <1>1, StatusKeepsBooks
<1>2. ASSUME NEW o \in Orders, NEW s \in RefundedKeys \cup {"cancelled"},
             ~SqlRefunded(o), ApplyRefund(o, s)
      PROVE  Kept
  BY <1>2, RefundKeepsBooks
<1>3. ASSUME NEW o \in Orders, Payable(o), ApplyPayout(o)
      PROVE  Kept
  BY <1>3, PayoutKeepsBooks
<1>4. ASSUME NEW o \in Orders, NEW a \in OrderAmounts, BotPlacesOrder(o, a)
      PROVE  Kept
  BY <1>4, PlaceKeepsBooks
<1>5. ASSUME NEW o \in Orders, NEW b \in PartialRefunds, BotPartial(o, b)
      PROVE  Kept
  BY <1>5, PartialKeepsBooks
<1>6. ASSUME NEW u \in Users, NEW l \in Levels, ChangeUserReferralLevel(u, l), UNCHANGED order
      PROVE  Kept
  <2>1. referralLevel' \in [Users -> Levels]
    BY <1>6 DEF ChangeUserReferralLevel, BooksInv, WalletsTypeOK
  <2>2. QED
    BY <1>6, <2>1, LevelKeepsBooks DEF ChangeUserReferralLevel
<1>7. ASSUME UNCHANGED <<wallets, order>>
      PROVE  Kept
  <2>1. referralLevel' \in [Users -> Levels]
    BY <1>7 DEF wallets, BooksInv, WalletsTypeOK
  <2>2. QED
    BY <1>7, <2>1, LevelKeepsBooks DEF wallets
<1> HIDE DEF Kept
<1>8. Kept
  BY <1>1, <1>2, <1>3, <1>4, <1>5, <1>6, <1>7 DEF BooksStep
<1>9. QED
  BY <1>8 DEF Kept

LEMMA KeyType == \A s \in StoredStatuses : Key(s) \in StoredStatuses /\ (Key(s) \in RefundedKeys => s \in RefundedKeys \cup {"cancelled"})
BY DEF Key, StoredStatuses, RefundedKeys

\* update_order_status commits on no order stored as refunded, whatever it had read.
LEMMA CommitsOnLiveRow ==
    ASSUME NEW o, NEW new, NEW seen, Commits(o, new, seen)
    PROVE  ~SqlRefunded(o)
BY DEF Commits

LEMMA OrdersStep ==
    ASSUME OrdersInv, [OrdersNext]_ordersVars
    PROVE  BooksStep /\ edit' \in [Editors -> Edits \cup {NoEdit}]
<1> DEFINE Good == BooksStep /\ edit' \in [Editors -> Edits \cup {NoEdit}]
<1>0. edit \in [Editors -> Edits \cup {NoEdit}]
  BY DEF OrdersInv
<1>1. ASSUME NEW h \in Editors, NEW o \in Orders, NEW new \in NewStatuses, ReadOrder(h, o, new)
      PROVE  Good
  <2>1. order[o].status \in StoredStatuses
    BY <1>1 DEF ReadOrder, Found, OrdersInv, BooksInv, Row
  <2>2. Key(order[o].status) \in StoredStatuses
    BY <2>1, KeyType
  <2>3. [order |-> o, new |-> new, seen |-> Key(order[o].status), step |-> "checked"] \in Edits
    BY <2>2 DEF Edits
  <2>4. edit' \in [Editors -> Edits \cup {NoEdit}]
    BY <1>0, <1>1, <2>3 DEF ReadOrder
  <2>5. QED
    BY <1>1, <2>4 DEF ReadOrder, BooksStep
<1>2. ASSUME NEW h \in Editors, CommitStatus(h)
      PROVE  Good
  <2> DEFINE o == edit[h].order
             new == edit[h].new
  <2>1. edit[h] \in Edits
    BY <1>0, <1>2 DEF CommitStatus
  <2>2. o \in Orders /\ new \in NewStatuses /\ new \in StoredStatuses
    BY <2>1, OrdersAssumption DEF Edits
  <2>3. /\ Commits(o, new, edit[h].seen)
        /\ IF Key(new) \in RefundedKeys THEN ApplyRefund(o, new) ELSE ApplyStatus(o, new)
        /\ edit' = [edit EXCEPT ![h].step = IF new \in Delivered THEN "payout" ELSE "done"]
    BY <1>2 DEF CommitStatus
  <2>4. ~SqlRefunded(o)
    BY <2>3, CommitsOnLiveRow
  <2>5. edit' \in [Editors -> Edits \cup {NoEdit}]
    <3> DEFINE next == IF new \in Delivered THEN "payout" ELSE "done"
    <3>1. next \in {"checked", "payout", "done"} /\ edit' = [edit EXCEPT ![h] = [edit[h] EXCEPT !.step = next]]
      BY <2>3
    <3> HIDE DEF next
    <3>2. [edit[h] EXCEPT !.step = next] \in Edits
      BY <2>1, <3>1 DEF Edits
    <3>3. QED
      BY <1>0, <3>1, <3>2
  <2>6. CASE Key(new) \in RefundedKeys
    BY <2>2, <2>3, <2>4, <2>5, <2>6, KeyType DEF BooksStep
  <2>7. CASE Key(new) \notin RefundedKeys
    BY <2>2, <2>3, <2>4, <2>5, <2>7 DEF BooksStep
  <2>8. QED
    BY <2>6, <2>7
<1>3. ASSUME NEW h \in Editors, RefuseStatus(h) \/ EndEdit(h)
      PROVE  Good
  BY <1>0, <1>3 DEF RefuseStatus, EndEdit, BooksStep
<1>4. ASSUME NEW h \in Editors, TryPayout(h) \/ SkipPayout(h)
      PROVE  Good
  <2>1. edit[h] \in Edits
    BY <1>0, <1>4 DEF TryPayout, SkipPayout
  <2>2. edit' = [edit EXCEPT ![h] = [edit[h] EXCEPT !.step = "done"]] /\ [edit[h] EXCEPT !.step = "done"] \in Edits
    BY <1>4, <2>1 DEF TryPayout, SkipPayout, Edits
  <2>3. edit' \in [Editors -> Edits \cup {NoEdit}]
    BY <1>0, <2>2
  <2>4. edit[h].order \in Orders
    BY <2>1 DEF Edits
  <2>5. QED
    BY <1>4, <2>3, <2>4 DEF TryPayout, SkipPayout, BooksStep
<1>5. ASSUME RestartEditors
      PROVE  Good
  BY <1>0, <1>5 DEF RestartEditors, BooksStep
<1>6. ASSUME NEW o \in Orders, BotOrders(o)
      PROVE  Good
  <2>1. edit' = edit
    BY <1>6 DEF BotOrders, BotPlacesOrder, BotProgress, BotPartial, BotRefund, BotPayout
  <2>2. SqlActive(o) => ~SqlRefunded(o)
    BY DEF SqlActive, SqlRefunded, ActiveKeys, RefundedKeys
  <2>3. ASSUME NEW s \in {"in progress", "completed"}, BotProgress(o, s)
        PROVE  BooksStep
    <3>1. s \in StoredStatuses /\ Key(s) \notin RefundedKeys
      BY DEF StoredStatuses, ActiveKeys, Delivered, RefundedKeys, Key
    <3>2. QED
      BY <2>2, <2>3, <3>1 DEF BotProgress, BooksStep
  <2>4. BotRefund(o) \/ BotPayout(o) => BooksStep
    BY <2>2 DEF BotRefund, BotPayout, BooksStep, RefundedKeys
  <2>5. (\E a \in OrderAmounts : BotPlacesOrder(o, a)) \/ (\E b \in PartialRefunds : BotPartial(o, b))
           => BooksStep
    BY DEF BooksStep
  <2>6. BooksStep
    BY <1>6, <2>3, <2>4, <2>5 DEF BotOrders
  <2>7. QED
    BY <1>0, <2>1, <2>6
<1>7. ASSUME NEW u \in Users, NEW l \in Levels, ChangeUserReferralLevel(u, l), UNCHANGED orders
      PROVE  Good
  BY <1>0, <1>7 DEF orders, BooksStep
<1>8. ASSUME UNCHANGED ordersVars
      PROVE  Good
  BY <1>0, <1>8 DEF ordersVars, orders, wallets, BooksStep
<1> HIDE DEF Good
<1>9. Good
  BY <1>1, <1>2, <1>3, <1>4, <1>5, <1>6, <1>7, <1>8 DEF OrdersNext, EditStep
<1>10. QED
  BY <1>9 DEF Good

LEMMA OrdersInvStarts == OrdersInit => OrdersInv
<1> SUFFICES ASSUME OrdersInit PROVE OrdersInv
  OBVIOUS
<1>1. WalletsTypeOK
  BY WalletsAssumption DEF OrdersInit, WalletsInit, WalletsTypeOK
<1>2. order \in [Orders -> Row]
  BY DEF OrdersInit, Row
<1>3. RowsOK /\ RefundedIsWhole
  BY DEF OrdersInit, RowsOK, RefundedIsWhole, Key, RefundedKeys
<1>4. HeldSums
  <2>1. \A o \in Orders : HeldOf[o] = 0
    BY DEF OrdersInit, HeldOf, Held
  <2>2. \A u : Sum(HeldOf, OrdersOf(u)) = 0
    BY <2>1, Finite, SumOfZeros DEF OrdersOf
  <2>3. OpeningBalance - 0 = OpeningBalance
    BY WalletsAssumption
  <2>4. QED
    BY <2>2, <2>3 DEF OrdersInit, WalletsInit, HeldSums
<1>5. CommissionSums
  <2>1. \A o \in Orders : CommissionOf[o] = 0
    BY DEF OrdersInit, CommissionOf
  <2>2. \A r : Sum(CommissionOf, ReferredBy(r)) = 0
    BY <2>1, Finite, SumOfZeros DEF ReferredBy
  <2>3. QED
    BY <2>2, WalletsAssumption DEF OrdersInit, WalletsInit, CommissionSums
<1>6. edit \in [Editors -> Edits \cup {NoEdit}]
  BY DEF OrdersInit
<1>7. QED
  BY <1>1, <1>2, <1>3, <1>4, <1>5, <1>6 DEF OrdersInv, BooksInv

LEMMA OrdersInvHolds == OrdersSpec => []OrdersInv
<1>1. OrdersInv /\ [OrdersNext]_ordersVars => OrdersInv'
  BY OrdersStep, BooksAreKept DEF OrdersInv
<1>2. QED
  BY <1>1, OrdersInvStarts, PTL DEF OrdersSpec

\* The columns of the users table, the orders and the requests keep their types; no column of
\* money ever becomes negative.
THEOREM OrdersTypeCorrect == OrdersSpec => []OrdersTypeOK
<1>1. OrdersInv => OrdersTypeOK
  BY DEF OrdersInv, BooksInv, OrdersTypeOK, Row
<1>2. QED
  BY <1>1, OrdersInvHolds, PTL

\* Every customer's balance and total_spent are accounted for by the customer's orders.
THEOREM OrdersAreBooked == OrdersSpec => []OrderBooks
<1>1. OrdersInv => OrderBooks
  BY SumsAreBooks DEF OrdersInv, BooksInv
<1>2. QED
  BY <1>1, OrdersInvHolds, PTL

\* Every referrer's earnings are accounted for by the commissions recorded on the orders.
THEOREM CommissionsAreBooked == OrdersSpec => []ReferralBooks
<1>1. OrdersInv => ReferralBooks
  BY SumsAreBooks DEF OrdersInv, BooksInv
<1>2. QED
  BY <1>1, OrdersInvHolds, PTL

\* A refunded order has given everything back and holds no commission.
THEOREM RefundsAreWhole == OrdersSpec => []RefundedIsWhole
<1>1. OrdersInv => RefundedIsWhole
  BY DEF OrdersInv, BooksInv
<1>2. QED
  BY <1>1, OrdersInvHolds, PTL

\* The three action properties, of one step.
LEMMA OrdersStepIsGood ==
    ASSUME OrdersInv, [OrdersNext]_ordersVars
    PROVE  /\ \A o \in Orders : SqlRefunded(o) => order'[o] = order[o]
           /\ \A o \in Orders : order[o].paidOut =>
                 \/ order'[o].paidOut /\ order'[o].commission = order[o].commission
                 \/ Key(order'[o].status) \in RefundedKeys
           /\ \A o \in Orders : Held(o)' # Held(o) =>
                 /\ balance' = Credited(balance, Customer[o], Held(o) - Held(o)')
                 /\ \A p \in Orders \ {o} : order'[p] = order[p]
<1>1. UNCHANGED <<order, balance>> \/ \E o \in Orders : RowMoves(o)
  BY OrdersStep, BooksAreKept DEF OrdersInv
<1>2. CASE UNCHANGED <<order, balance>>
  BY <1>2 DEF Held
<1>3. ASSUME NEW q \in Orders, RowMoves(q)
      PROVE  /\ \A o \in Orders : SqlRefunded(o) => order'[o] = order[o]
             /\ \A o \in Orders : order[o].paidOut =>
                   \/ order'[o].paidOut /\ order'[o].commission = order[o].commission
                   \/ Key(order'[o].status) \in RefundedKeys
             /\ \A o \in Orders : Held(o)' # Held(o) =>
                   /\ balance' = Credited(balance, Customer[o], Held(o) - Held(o)')
                   /\ \A p \in Orders \ {o} : order'[p] = order[p]
  <2>1. /\ ~SqlRefunded(q) /\ \A p \in Orders \ {q} : order'[p] = order[p]
        /\ balance' = Credited(balance, Customer[q], Held(q) - Held(q)')
        /\ order[q].paidOut => \/ order'[q].paidOut /\ order'[q].commission = order[q].commission
                               \/ Key(order'[q].status) \in RefundedKeys
    BY <1>3 DEF RowMoves
  <2>2. \A o \in Orders : SqlRefunded(o) => order'[o] = order[o]
    BY <2>1
  <2>3. \A o \in Orders : order[o].paidOut =>
           \/ order'[o].paidOut /\ order'[o].commission = order[o].commission
           \/ Key(order'[o].status) \in RefundedKeys
    BY <2>1
  <2>4. \A o \in Orders : Held(o)' # Held(o) => o = q
    BY <2>1 DEF Held
  <2>5. QED
    BY <2>1, <2>2, <2>3, <2>4
<1>4. QED
  BY <1>1, <1>2, <1>3

\* An order stored as refunded never changes again, whatever requests had read it earlier.
THEOREM RefundsAreFinal == OrdersSpec => RefundIsFinal
<1>1. OrdersInv /\ [OrdersNext]_ordersVars
         => [\A o \in Orders : SqlRefunded(o) => order'[o] = order[o]]_ordersVars
  BY OrdersStepIsGood
<1>2. QED
  BY <1>1, OrdersInvHolds, PTL DEF OrdersSpec, RefundIsFinal

\* A commission that was recorded is only removed, whole, together with a full refund.
THEOREM CommissionsStay == OrdersSpec => CommissionStays
<1>1. OrdersInv /\ [OrdersNext]_ordersVars
         => [\A o \in Orders : order[o].paidOut =>
                \/ order'[o].paidOut /\ order'[o].commission = order[o].commission
                \/ Key(order'[o].status) \in RefundedKeys]_ordersVars
  BY OrdersStepIsGood
<1>2. QED
  BY <1>1, OrdersInvHolds, PTL DEF OrdersSpec, CommissionStays

\* A step moves a customer's balance by what it changes in one order of the customer's.
THEOREM MoneyFollows == OrdersSpec => MoneyFollowsOrders
<1>1. OrdersInv /\ [OrdersNext]_ordersVars
         => [\A o \in Orders : Held(o)' # Held(o) =>
                /\ balance' = Credited(balance, Customer[o], Held(o) - Held(o)')
                /\ \A p \in Orders \ {o} : order'[p] = order[p]]_ordersVars
  BY OrdersStepIsGood
<1>2. QED
  BY <1>1, OrdersInvHolds, PTL DEF OrdersSpec, MoneyFollowsOrders

-----------------------------------------------------------------------------
(* Manual orders: every step is a step of Orders, or leaves it alone, so that *)
(* whatever holds of Orders holds of manual orders too.                       *)

Manuals == [op: ManualOps, order: AdminOrders, step: ManualSteps, ref: 0 .. MaxSubmissions]

\* What a request that is at one of these steps knows and has done.
RequestOK(h) ==
    LET m == manual[h]
    IN  /\ m.step \in {"checked", "updating"} => m.op \in {"complete", "reject"}
        /\ m.step = "updating" =>
              edit[h] # NoEdit /\ edit[h].order = m.order /\ edit[h].new = StatusOf[m.op]
        /\ m.step \notin {"none", "updating"} => edit[h] = NoEdit
        /\ m.step \in {"persisting", "notifying"} => m.ref \in 1 .. submissions[m.order]
        /\ m.step = "notifying" => providerOrderId[m.order] # 0

ManualInv ==
    /\ OrdersInv
    /\ manual \in [Editors -> Manuals \cup {NoManual}]
    /\ submissions \in [Orders -> 0 .. MaxSubmissions]
    /\ providerOrderId \in [Orders -> Nat]
    /\ \A o \in Orders : providerOrderId[o] \in 0 .. submissions[o]
    /\ processed \in [Orders -> Seq({"complete", "reject"})]
    /\ notices \in [Orders -> SUBSET [op: ManualOps, ref: 1 .. MaxSubmissions]]
    /\ \A h \in Editors : RequestOK(h)
    /\ RejectionIsLast
    /\ NoticesAreStored

LEMMA ManualStarts == ManualInit => ManualInv
<1> SUFFICES ASSUME ManualInit PROVE ManualInv
  OBVIOUS
<1>1. OrdersInv
  BY OrdersInvStarts DEF ManualInit
<1>2. /\ manual = [h \in Editors |-> NoManual] /\ submissions = [o \in Orders |-> 0]
      /\ providerOrderId = [o \in Orders |-> 0] /\ processed = [o \in Orders |-> <<>>]
      /\ notices = [o \in Orders |-> {}]
  BY DEF ManualInit
<1>3. manual \in [Editors -> Manuals \cup {NoManual}] /\ \A h \in Editors : manual[h].step = "none"
  BY <1>2 DEF NoManual
<1>4. \A h \in Editors : RequestOK(h)
  BY <1>3 DEF RequestOK
<1>5. RejectionIsLast
  <2>1. \A o \in Orders : Len(processed[o]) = 0
    BY <1>2
  <2>2. \A o \in Orders : ~Contains(processed[o], "reject")
    BY <2>1 DEF Contains
  <2>3. QED
    BY <2>2 DEF RejectionIsLast
<1>6. NoticesAreStored
  BY <1>2 DEF NoticesAreStored
<1>7. processed \in [Orders -> Seq({"complete", "reject"})]
  BY <1>2
<1>8. /\ submissions \in [Orders -> 0 .. MaxSubmissions] /\ providerOrderId \in [Orders -> Nat]
      /\ \A o \in Orders : providerOrderId[o] \in 0 .. submissions[o]
      /\ notices \in [Orders -> SUBSET [op: ManualOps, ref: 1 .. MaxSubmissions]]
  BY <1>2, ManualAssumption
<1>9. QED
  BY <1>1, <1>3, <1>4, <1>5, <1>6, <1>7, <1>8 DEF ManualInv

\* What a request at a step other than "none" is.
LEMMA RequestType ==
    ASSUME ManualInv, NEW h \in Editors, manual[h].step # "none"
    PROVE  /\ manual[h] \in Manuals /\ manual[h].order \in Orders /\ RequestOK(h)
           /\ manual[h].op \in ManualOps /\ manual[h].step \in ManualSteps
           /\ manual[h].ref \in 0 .. MaxSubmissions
<1>1. manual[h] \in Manuals \cup {NoManual} /\ RequestOK(h)
  BY DEF ManualInv
<1>2. manual[h] # NoManual
  BY DEF NoManual
<1>3. QED
  BY <1>1, <1>2, OrdersAssumption DEF Manuals

\* Every step of ManualOrders is a step of Orders or changes none of its variables.
LEMMA ManualStepIsOrdersStep ==
    ASSUME ManualInv, [ManualNext]_manualVars
    PROVE  [OrdersNext]_ordersVars
<1>0. edit \in [Editors -> Edits \cup {NoEdit}]
  BY DEF ManualInv, OrdersInv
<1>1. ASSUME NEW h \in Editors, EditStep(h) PROVE OrdersNext
  BY <1>1 DEF OrdersNext
<1>2. ASSUME NEW h \in Editors, NEW op, NEW o, RequirePending(h, op, o) PROVE UNCHANGED ordersVars
  BY <1>2 DEF RequirePending
<1>3. ASSUME NEW h \in Editors, NEW o, BeginNotify(h, o) PROVE UNCHANGED ordersVars
  BY <1>3 DEF BeginNotify
<1>4. ASSUME NEW h \in Editors, BeginUpdate(h) PROVE EditStep(h)
  <2>1. manual[h].step = "checked"
    BY <1>4 DEF BeginUpdate, At
  <2>2. manual[h].order \in Orders /\ manual[h].op \in {"complete", "reject"}
    BY <2>1, RequestType DEF RequestOK
  <2>3. StatusOf[manual[h].op] \in NewStatuses
    BY <2>2, ManualAssumption DEF StatusOf
  <2>4. QED
    BY <1>4, <2>2, <2>3 DEF BeginUpdate, EditStep
<1>5. ASSUME NEW h \in Editors, Updated(h) PROVE EditStep(h)
  <2>1. edit[h].step = "done"
    BY <1>5 DEF Updated
  <2>2. edit[h] # NoEdit
    BY <2>1 DEF NoEdit
  <2>3. QED
    BY <1>5, <2>2 DEF Updated, EditStep, EndEdit
<1>6. ASSUME NEW h \in Editors,
             \/ AlreadyProcessed(h) \/ ReadReference(h) \/ Submitted(h) \/ SubmitFails(h)
             \/ Persist(h) \/ Notify(h)
      PROVE  UNCHANGED ordersVars
  BY <1>6 DEF AlreadyProcessed, ReadReference, Submitted, SubmitFails, Persist, Notify
<1>7. ASSUME NEW h \in Editors, Die(h) PROVE EditStep(h) \/ UNCHANGED ordersVars
  <2>1. CASE edit[h] = NoEdit
    BY <1>0, <1>7, <2>1 DEF Die, ordersVars, orders
  <2>2. CASE edit[h] # NoEdit
    BY <1>7, <2>2 DEF Die, EditStep, EndEdit
  <2>3. QED
    BY <2>1, <2>2
<1>8. ASSUME NEW h \in Editors, UpdateStep(h) PROVE EditStep(h)
  BY <1>8 DEF UpdateStep, CommitUpdate, RefuseUpdate, PayAfterUpdate, EditStep
<1>9. ASSUME NEW h \in Editors, PlainStep(h) PROVE EditStep(h)
  BY <1>9 DEF PlainStep, EditStep
<1>10. ASSUME RestartManual PROVE OrdersNext \/ UNCHANGED ordersVars
  <2>1. CASE \A h \in Editors : edit[h] = NoEdit
    <3>1. edit' = edit
      BY <1>0, <1>10, <2>1 DEF RestartManual
    <3>2. QED
      BY <1>10, <3>1 DEF RestartManual, ordersVars, orders
  <2>2. CASE \E h \in Editors : edit[h] # NoEdit
    BY <1>10, <2>2 DEF RestartManual, RestartEditors, OrdersNext
  <2>3. QED
    BY <2>1, <2>2
<1>11. ASSUME NEW o \in Orders, BotOrders(o) PROVE OrdersNext
  BY <1>11 DEF OrdersNext
<1>12. ASSUME UNCHANGED manualVars PROVE UNCHANGED ordersVars
  BY <1>12 DEF manualVars
<1>13. ASSUME NEW h \in Editors, ManualStep(h) PROVE EditStep(h) \/ UNCHANGED ordersVars
  BY <1>13, <1>2, <1>3, <1>4, <1>5, <1>6, <1>7 DEF ManualStep
<1>14. QED
  BY <1>1, <1>8, <1>9, <1>10, <1>11, <1>12, <1>13 DEF ManualNext

\* The other requests keep what they know, whatever one request does.
LEMMA OthersKeepTheirs ==
    ASSUME ManualInv, NEW k \in Editors, manual'[k] = manual[k], edit'[k] = edit[k],
           submissions' \in [Orders -> Nat],
           \A o \in Orders : submissions[o] <= submissions'[o],
           \A o \in Orders : providerOrderId[o] # 0 => providerOrderId'[o] # 0
    PROVE  RequestOK(k)'
<1>1. RequestOK(k)
  BY DEF ManualInv
<1>2. CASE manual[k].step = "none"
  BY <1>2 DEF RequestOK
<1>3. CASE manual[k].step # "none"
  <2>1. manual[k].order \in Orders /\ manual[k].ref \in 0 .. MaxSubmissions
    BY <1>3, RequestType
  <2>2. submissions[manual[k].order] \in Nat
    BY <2>1, ManualAssumption DEF ManualInv
  <2>3. manual[k].ref \in 1 .. submissions[manual[k].order] => manual[k].ref \in 1 .. submissions'[manual[k].order]
    BY <2>1, <2>2, ManualAssumption
  <2>4. QED
    BY <1>1, <2>1, <2>3 DEF RequestOK
<1>4. QED
  BY <1>2, <1>3

\* Nothing but the requests and the rows of orders changes.
LEMMA RequestsMove ==
    ASSUME ManualInv, OrdersInv', [OrdersNext]_ordersVars,
           UNCHANGED <<submissions, providerOrderId, processed, notices>>,
           manual' \in [Editors -> Manuals \cup {NoManual}],
           \A h \in Editors : RequestOK(h)'
    PROVE  ManualInv'
<1>1. \A o \in Orders : SqlRefunded(o) => order'[o] = order[o]
  BY OrdersStepIsGood DEF ManualInv
<1>2. RejectionIsLast'
  BY <1>1 DEF ManualInv, RejectionIsLast, SqlRefunded, RefundedKeys
<1>3. NoticesAreStored'
  BY DEF ManualInv, NoticesAreStored
<1>4. QED
  BY <1>2, <1>3 DEF ManualInv

\* The same when only request h moves.
LEMMA RequestMoves ==
    ASSUME ManualInv, OrdersInv', [OrdersNext]_ordersVars,
           UNCHANGED <<submissions, providerOrderId, processed, notices>>,
           NEW h \in Editors,
           manual' \in [Editors -> Manuals \cup {NoManual}],
           \A k \in Editors \ {h} : manual'[k] = manual[k] /\ edit'[k] = edit[k],
           RequestOK(h)'
    PROVE  ManualInv'
<1>1. submissions \in [Orders -> Nat]
  BY ManualAssumption DEF ManualInv
<1>2. \A k \in Editors \ {h} : RequestOK(k)'
  BY <1>1, OthersKeepTheirs
<1>3. QED
  BY <1>2, RequestsMove

\* A request that has ended, or has not begun, knows nothing.
LEMMA IdleIsOK == \A h \in Editors : manual[h].step = "none" => RequestOK(h)
BY DEF RequestOK

LEMMA BeginsKeep ==
    ASSUME ManualInv, OrdersInv', [OrdersNext]_ordersVars, NEW h \in Editors,
           \/ \E o \in AdminOrders : \/ \E op \in DOMAIN StatusOf : RequirePending(h, op, o)
                                     \/ BeginNotify(h, o)
           \/ BeginUpdate(h) \/ Updated(h) \/ ReadReference(h)
    PROVE  ManualInv'
<1>0. /\ manual \in [Editors -> Manuals \cup {NoManual}] /\ edit \in [Editors -> Edits \cup {NoEdit}]
      /\ providerOrderId \in [Orders -> Nat]
  BY DEF ManualInv, OrdersInv
<1>1. ASSUME NEW o \in AdminOrders, NEW op \in DOMAIN StatusOf, RequirePending(h, op, o) PROVE ManualInv'
  <2> DEFINE new == [op |-> op, order |-> o, step |-> "checked", ref |-> 0]
  <2>1. op \in {"complete", "reject"} /\ new \in Manuals
    BY ManualAssumption DEF StatusOf, Manuals, ManualOps, ManualSteps
  <2>2. manual' = [manual EXCEPT ![h] = new] /\ edit' = edit /\ edit[h] = NoEdit
    BY <1>1 DEF RequirePending, ordersVars, orders
  <2>3. RequestOK(h)'
    BY <1>0, <2>1, <2>2 DEF RequestOK
  <2>4. manual' \in [Editors -> Manuals \cup {NoManual}]
    BY <1>0, <2>1, <2>2
  <2>5. UNCHANGED <<submissions, providerOrderId, processed, notices>>
    BY <1>1 DEF RequirePending
  <2>6. QED
    BY <1>0, <2>2, <2>3, <2>4, <2>5, RequestMoves
<1>2. ASSUME NEW o \in AdminOrders, BeginNotify(h, o) PROVE ManualInv'
  <2> DEFINE new == [op |-> "notify", order |-> o, step |-> "reading", ref |-> 0]
  <2>1. new \in Manuals
    BY ManualAssumption DEF Manuals, ManualOps, ManualSteps
  <2>2. manual' = [manual EXCEPT ![h] = new] /\ edit' = edit /\ edit[h] = NoEdit
    BY <1>2 DEF BeginNotify, ordersVars, orders
  <2>3. RequestOK(h)'
    BY <1>0, <2>2 DEF RequestOK
  <2>4. manual' \in [Editors -> Manuals \cup {NoManual}]
    BY <1>0, <2>1, <2>2
  <2>5. UNCHANGED <<submissions, providerOrderId, processed, notices>>
    BY <1>2 DEF BeginNotify
  <2>6. QED
    BY <1>0, <2>2, <2>3, <2>4, <2>5, RequestMoves
<1>3. ASSUME BeginUpdate(h) PROVE ManualInv'
  <2> DEFINE m == manual[h]
             new == [m EXCEPT !.step = "updating"]
             reading == [order |-> m.order, new |-> StatusOf[m.op],
                         seen |-> Key(order[m.order].status), step |-> "checked"]
  <2>1. m.step = "checked"
    BY <1>3 DEF BeginUpdate, At
  <2>2. m \in Manuals /\ RequestOK(h)
    BY <2>1, RequestType
  <2>3. /\ new \in Manuals /\ new.step = "updating" /\ new.op = m.op /\ new.order = m.order
        /\ new.op \in {"complete", "reject"}
    BY <2>1, <2>2 DEF Manuals, ManualSteps, RequestOK
  <2>4. manual' = [manual EXCEPT ![h] = new] /\ edit' = [edit EXCEPT ![h] = reading]
    BY <1>3 DEF BeginUpdate, Goto, ReadOrder
  <2>5. reading # NoEdit /\ reading.order = m.order /\ reading.new = StatusOf[m.op]
    BY DEF NoEdit
  <2>6. RequestOK(h)'
    <3> HIDE DEF reading, new
    <3>1. manual'[h] = new /\ edit'[h] = reading
      BY <1>0, <2>4
    <3>2. QED
      BY <2>3, <2>5, <3>1 DEF RequestOK
  <2>7. manual' \in [Editors -> Manuals \cup {NoManual}]
    BY <1>0, <2>3, <2>4
  <2>8. UNCHANGED <<submissions, providerOrderId, processed, notices>>
    BY <1>3 DEF BeginUpdate
  <2>9. \A k \in Editors \ {h} : manual'[k] = manual[k] /\ edit'[k] = edit[k]
    BY <1>0, <2>4
  <2>10. QED
    BY <2>6, <2>7, <2>8, <2>9, RequestMoves
<1>4. ASSUME Updated(h) PROVE ManualInv'
  <2> DEFINE m == manual[h]
             new == [m EXCEPT !.step = "reading"]
  <2>1. m.step = "updating"
    BY <1>4 DEF Updated, At
  <2>2. m \in Manuals
    BY <2>1, RequestType
  <2>3. new \in Manuals /\ new.step = "reading"
    BY <2>2 DEF Manuals, ManualSteps
  <2>4. manual' = [manual EXCEPT ![h] = new] /\ edit' = [edit EXCEPT ![h] = NoEdit]
    BY <1>4 DEF Updated, Goto
  <2>5. RequestOK(h)'
    <3> HIDE DEF new
    <3>1. manual'[h] = new /\ edit'[h] = NoEdit
      BY <1>0, <2>4
    <3>2. QED
      BY <2>3, <3>1 DEF RequestOK
  <2>6. manual' \in [Editors -> Manuals \cup {NoManual}]
    BY <1>0, <2>3, <2>4
  <2>7. UNCHANGED <<submissions, providerOrderId, processed, notices>>
    BY <1>4 DEF Updated
  <2>8. \A k \in Editors \ {h} : manual'[k] = manual[k] /\ edit'[k] = edit[k]
    BY <1>0, <2>4
  <2>9. QED
    BY <2>5, <2>6, <2>7, <2>8, RequestMoves
<1>5. ASSUME ReadReference(h) PROVE ManualInv'
  <2> DEFINE m == manual[h]
             o == m.order
  <2>1. m.step = "reading"
    BY <1>5 DEF ReadReference, At
  <2>2. m \in Manuals /\ RequestOK(h) /\ o \in Orders
    BY <2>1, RequestType
  <2>3. edit[h] = NoEdit
    BY <2>1, <2>2 DEF RequestOK
  <2>4. edit' = edit /\ UNCHANGED <<submissions, providerOrderId, processed, notices>>
    BY <1>5 DEF ReadReference, ordersVars, orders
  <2>5. CASE providerOrderId[o] # 0 /\ manual' = [manual EXCEPT ![h].step = "notifying", ![h].ref = providerOrderId[o]]
    <3> DEFINE p == providerOrderId[o]
               new == [m EXCEPT !.step = "notifying", !.ref = p]
    <3>1. p \in 1 .. submissions[o] /\ p \in 0 .. MaxSubmissions
      BY <2>2, <2>5, ManualAssumption DEF ManualInv
    <3>2. manual' = [manual EXCEPT ![h] = new]
      BY <1>0, <2>5
    <3> HIDE DEF p
    <3>3. new \in Manuals /\ new.step = "notifying" /\ new.ref = p /\ new.order = o
      BY <2>2, <3>1 DEF Manuals, ManualSteps
    <3> HIDE DEF new
    <3>4. manual'[h] = new /\ manual' \in [Editors -> Manuals \cup {NoManual}]
      BY <1>0, <3>2, <3>3
    <3>5. RequestOK(h)'
      BY <2>3, <2>4, <2>5, <3>1, <3>3, <3>4 DEF RequestOK
    <3>6. QED
      BY <1>0, <2>4, <3>2, <3>4, <3>5, RequestMoves
  <2>6. CASE Goto(h, "submitting")
    <3> DEFINE new == [m EXCEPT !.step = "submitting"]
    <3>1. manual' = [manual EXCEPT ![h] = new]
      BY <2>6 DEF Goto
    <3>2. new \in Manuals /\ new.step = "submitting"
      BY <2>2 DEF Manuals, ManualSteps
    <3> HIDE DEF new
    <3>3. manual'[h] = new /\ manual' \in [Editors -> Manuals \cup {NoManual}]
      BY <1>0, <3>1, <3>2
    <3>4. RequestOK(h)'
      BY <2>3, <2>4, <3>2, <3>3 DEF RequestOK
    <3>5. QED
      BY <1>0, <2>4, <3>1, <3>3, <3>4, RequestMoves
  <2>7. CASE Leave(h)
    <3>1. manual' = [manual EXCEPT ![h] = NoManual] /\ NoManual.step = "none"
      BY <2>7 DEF Leave, NoManual
    <3>2. manual'[h].step = "none" /\ manual' \in [Editors -> Manuals \cup {NoManual}]
      BY <1>0, <3>1
    <3>3. RequestOK(h)'
      BY <3>2 DEF RequestOK
    <3>4. QED
      BY <1>0, <2>4, <3>1, <3>2, <3>3, RequestMoves
  <2>8. QED
    BY <1>5, <2>5, <2>6, <2>7 DEF ReadReference
<1>6. QED
  BY <1>1, <1>2, <1>3, <1>4, <1>5

\* The endings, and the steps of update_order_status that only touch the request.
LEMMA EndsKeep ==
    ASSUME ManualInv, OrdersInv', [OrdersNext]_ordersVars, NEW h \in Editors,
           AlreadyProcessed(h) \/ Die(h) \/ RefuseUpdate(h) \/ PayAfterUpdate(h) \/ PlainStep(h)
    PROVE  ManualInv'
<1>0. manual \in [Editors -> Manuals \cup {NoManual}] /\ edit \in [Editors -> Edits \cup {NoEdit}]
  BY DEF ManualInv, OrdersInv
<1>1. UNCHANGED <<submissions, providerOrderId, processed, notices>>
  BY DEF AlreadyProcessed, Die, RefuseUpdate, PayAfterUpdate, PlainStep, manuals
<1>2. ASSUME Leave(h), \A k \in Editors \ {h} : edit'[k] = edit[k] PROVE ManualInv'
  <2>1. manual' = [manual EXCEPT ![h] = NoManual] /\ NoManual.step = "none"
    BY <1>2 DEF Leave, NoManual
  <2>2. manual'[h].step = "none" /\ manual' \in [Editors -> Manuals \cup {NoManual}]
    BY <1>0, <2>1
  <2>3. RequestOK(h)'
    BY <2>2 DEF RequestOK
  <2>4. QED
    BY <1>0, <1>1, <1>2, <2>1, <2>2, <2>3, RequestMoves
<1>3. CASE AlreadyProcessed(h) \/ Die(h) \/ RefuseUpdate(h)
  <2>1. Leave(h)
    BY <1>3 DEF AlreadyProcessed, Die, RefuseUpdate
  <2>2. \A k \in Editors \ {h} : edit'[k] = edit[k]
    BY <1>0, <1>3 DEF AlreadyProcessed, ordersVars, orders, Die, RefuseUpdate, RefuseStatus
  <2>3. QED
    BY <1>2, <2>1, <2>2
<1>4. CASE PayAfterUpdate(h)
  <2>1. /\ edit[h] # NoEdit /\ edit' = [edit EXCEPT ![h].step = "done"] /\ manual' = manual
    BY <1>4 DEF PayAfterUpdate, TryPayout, SkipPayout, manuals
  <2> DEFINE new == [edit[h] EXCEPT !.step = "done"]
  <2>2. edit[h] \in Edits
    BY <1>0, <2>1
  <2>3. new.order = edit[h].order /\ new.new = edit[h].new /\ new # NoEdit
    BY <2>2 DEF Edits, NoEdit
  <2>4. edit' = [edit EXCEPT ![h] = new]
    BY <2>1
  <2> HIDE DEF new
  <2>5. edit'[h] = new /\ \A k \in Editors \ {h} : edit'[k] = edit[k]
    BY <1>0, <2>4
  <2>6. RequestOK(h)'
    <3>1. RequestOK(h)
      BY DEF ManualInv
    <3>2. QED
      BY <1>1, <2>1, <2>3, <2>5, <3>1 DEF RequestOK
  <2>7. QED
    BY <1>0, <1>1, <2>1, <2>5, <2>6, RequestMoves
<1>5. CASE PlainStep(h)
  <2>1. manual[h].step = "none" /\ manual' = manual /\ \A k \in Editors \ {h} : edit'[k] = edit[k]
    BY <1>0, <1>5 DEF PlainStep, At, manuals, ReadOrder, EndEdit
  <2>2. RequestOK(h)'
    BY <2>1 DEF RequestOK
  <2>3. QED
    BY <1>0, <1>1, <2>1, <2>2, RequestMoves
<1>6. QED
  BY <1>3, <1>4, <1>5

\* The distributor's number: obtained, stored, told.
LEMMA ReferencesKeep ==
    ASSUME ManualInv, OrdersInv', NEW h \in Editors,
           Submitted(h) \/ SubmitFails(h) \/ Persist(h) \/ Notify(h)
    PROVE  ManualInv'
<1> DEFINE m == manual[h]
           o == m.order
<1>0. /\ manual \in [Editors -> Manuals \cup {NoManual}] /\ edit \in [Editors -> Edits \cup {NoEdit}]
      /\ submissions \in [Orders -> 0 .. MaxSubmissions] /\ providerOrderId \in [Orders -> Nat]
      /\ \A p \in Orders : providerOrderId[p] \in 0 .. submissions[p]
      /\ notices \in [Orders -> SUBSET [op: ManualOps, ref: 1 .. MaxSubmissions]]
      /\ NoticesAreStored /\ MaxSubmissions \in Nat
  BY ManualAssumption DEF ManualInv, OrdersInv
<1>1. order' = order /\ edit' = edit /\ processed' = processed
  BY DEF Submitted, SubmitFails, Persist, Notify, ordersVars, orders
<1>2. RejectionIsLast'
  BY <1>1 DEF ManualInv, RejectionIsLast
<1>3. m.step \in {"submitting", "persisting", "notifying"}
  BY DEF Submitted, SubmitFails, Persist, Notify, At
<1>4. /\ m \in Manuals /\ o \in Orders /\ RequestOK(h) /\ m.op \in ManualOps /\ m.ref \in 0 .. MaxSubmissions
  BY <1>3, RequestType
<1>5. edit[h] = NoEdit
  BY <1>3, <1>4 DEF RequestOK
<1>6. submissions[o] \in 0 .. MaxSubmissions
  BY <1>0, <1>4
<1>7. NoManual.step = "none"
  BY DEF NoManual
<1>8. ASSUME submissions' \in [Orders -> 0 .. MaxSubmissions],
             \A p \in Orders : submissions[p] <= submissions'[p],
             providerOrderId' = providerOrderId, notices' = notices,
             manual' \in [Editors -> Manuals \cup {NoManual}],
             \A k \in Editors \ {h} : manual'[k] = manual[k],
             RequestOK(h)'
      PROVE  ManualInv'
  <2>1. submissions' \in [Orders -> Nat]
    BY <1>0, <1>8
  <2>2. \A k \in Editors : RequestOK(k)'
    BY <1>1, <1>8, <2>1, OthersKeepTheirs
  <2>3. \A p \in Orders : providerOrderId'[p] \in 0 .. submissions'[p]
    BY <1>0, <1>8, <2>1
  <2>4. NoticesAreStored'
    BY <1>0, <1>8 DEF NoticesAreStored
  <2>5. QED
    BY <1>0, <1>1, <1>2, <1>8, <2>2, <2>3, <2>4 DEF ManualInv
<1>9. ASSUME Accept(o)
      PROVE  /\ submissions' \in [Orders -> 0 .. MaxSubmissions]
             /\ \A p \in Orders : submissions[p] <= submissions'[p]
             /\ submissions'[o] \in 1 .. MaxSubmissions
  <2>1. submissions[o] < MaxSubmissions /\ submissions' = [submissions EXCEPT ![o] = @ + 1]
    BY <1>9 DEF Accept
  <2>2. submissions[o] + 1 \in 1 .. MaxSubmissions
    BY <1>0, <1>6, <2>1
  <2>3. QED
    BY <1>0, <1>4, <2>1, <2>2
<1>10. CASE Submitted(h)
  <2> DEFINE k == submissions'[o]
             new == [m EXCEPT !.step = "persisting", !.ref = k]
  <2>1. k \in 1 .. MaxSubmissions /\ k \in 0 .. MaxSubmissions
    BY <1>0, <1>9, <1>10 DEF Submitted
  <2>2. manual' = [manual EXCEPT ![h] = new]
    BY <1>0, <1>10 DEF Submitted
  <2> HIDE DEF k
  <2>3. new \in Manuals /\ new.step = "persisting" /\ new.ref = k /\ new.order = o
    BY <1>4, <2>1 DEF Manuals, ManualSteps
  <2> HIDE DEF new
  <2>4. manual'[h] = new /\ manual' \in [Editors -> Manuals \cup {NoManual}]
           /\ \A j \in Editors \ {h} : manual'[j] = manual[j]
    BY <1>0, <2>2, <2>3
  <2>5. k \in 1 .. submissions'[o]
    BY <2>1 DEF k
  <2>6. RequestOK(h)'
    BY <1>1, <1>5, <2>3, <2>4, <2>5 DEF RequestOK
  <2>7. providerOrderId' = providerOrderId /\ notices' = notices /\ Accept(o)
    BY <1>10 DEF Submitted
  <2>8. QED
    BY <1>8, <1>9, <2>4, <2>6, <2>7
<1>11. CASE SubmitFails(h)
  <2>1. manual' = [manual EXCEPT ![h] = NoManual]
    BY <1>11 DEF SubmitFails, Leave
  <2>2. /\ manual'[h].step = "none" /\ manual' \in [Editors -> Manuals \cup {NoManual}]
        /\ \A j \in Editors \ {h} : manual'[j] = manual[j]
    BY <1>0, <1>7, <2>1
  <2>3. RequestOK(h)'
    BY <2>2 DEF RequestOK
  <2>4. providerOrderId' = providerOrderId /\ notices' = notices /\ (Accept(o) \/ submissions' = submissions)
    BY <1>11 DEF SubmitFails
  <2>5. /\ submissions' \in [Orders -> 0 .. MaxSubmissions]
        /\ \A p \in Orders : submissions[p] <= submissions'[p]
    <3>1. CASE Accept(o)
      BY <1>9, <3>1
    <3>2. CASE submissions' = submissions
      BY <1>0, <3>2
    <3>3. QED
      BY <2>4, <3>1, <3>2
  <2>6. QED
    BY <1>8, <2>2, <2>3, <2>4, <2>5
<1>12. CASE Persist(h)
  <2> DEFINE new == [m EXCEPT !.step = "notifying"]
  <2>1. m.ref \in 1 .. submissions[o] /\ submissions' = submissions /\ notices' = notices
    BY <1>4, <1>12 DEF RequestOK, Persist, At
  <2>2. m.ref \in Nat /\ m.ref # 0 /\ m.ref \in 0 .. submissions[o]
    BY <1>0, <1>6, <2>1
  <2>3. providerOrderId' = [providerOrderId EXCEPT ![o] = m.ref] /\ manual' = [manual EXCEPT ![h] = new]
    BY <1>12 DEF Persist, Goto
  <2>4. new \in Manuals /\ new.step = "notifying" /\ new.ref = m.ref /\ new.order = o
    BY <1>4 DEF Manuals, ManualSteps
  <2> HIDE DEF new
  <2>5. manual'[h] = new /\ manual' \in [Editors -> Manuals \cup {NoManual}]
           /\ \A j \in Editors \ {h} : manual'[j] = manual[j]
    BY <1>0, <2>3, <2>4
  <2>6. /\ providerOrderId' \in [Orders -> Nat] /\ providerOrderId'[o] # 0
        /\ \A p \in Orders : providerOrderId'[p] \in 0 .. submissions'[p]
        /\ \A p \in Orders : providerOrderId[p] # 0 => providerOrderId'[p] # 0
    BY <1>0, <1>4, <2>1, <2>2, <2>3
  <2>7. RequestOK(h)'
    BY <1>1, <1>5, <2>1, <2>4, <2>5, <2>6 DEF RequestOK
  <2>8. \A k \in Editors : RequestOK(k)'
    <3>1. submissions' \in [Orders -> Nat] /\ \A p \in Orders : submissions[p] <= submissions'[p]
      BY <1>0, <2>1
    <3>2. QED
      BY <1>1, <2>5, <2>6, <2>7, <3>1, OthersKeepTheirs
  <2>9. NoticesAreStored'
    BY <1>0, <2>1, <2>6 DEF NoticesAreStored
  <2>10. QED
    BY <1>0, <1>1, <1>2, <2>1, <2>5, <2>6, <2>8, <2>9 DEF ManualInv
<1>13. CASE Notify(h)
  <2> DEFINE n == [op |-> m.op, ref |-> m.ref]
  <2>1. /\ notices' = [notices EXCEPT ![o] = @ \cup {n}] /\ manual' = [manual EXCEPT ![h] = NoManual]
        /\ submissions' = submissions /\ providerOrderId' = providerOrderId
    BY <1>13 DEF Notify, Leave
  <2>2. m.ref \in 1 .. submissions[o] /\ providerOrderId[o] # 0
    BY <1>4, <1>13 DEF RequestOK, Notify, At
  <2>3. m.ref \in 1 .. MaxSubmissions
    BY <1>0, <1>6, <2>2
  <2>4. n \in [op: ManualOps, ref: 1 .. MaxSubmissions]
    BY <1>4, <2>3
  <2> HIDE DEF n
  <2>5. notices' \in [Orders -> SUBSET [op: ManualOps, ref: 1 .. MaxSubmissions]]
    BY <1>0, <2>1, <2>4
  <2>6. NoticesAreStored'
    BY <1>0, <2>1, <2>2 DEF NoticesAreStored
  <2>7. /\ manual'[h].step = "none" /\ manual' \in [Editors -> Manuals \cup {NoManual}]
        /\ \A j \in Editors \ {h} : manual'[j] = manual[j]
    BY <1>0, <1>7, <2>1
  <2>8. \A k \in Editors : RequestOK(k)'
    <3>1. submissions' \in [Orders -> Nat] /\ \A p \in Orders : submissions[p] <= submissions'[p]
      BY <1>0, <2>1
    <3>2. RequestOK(h)'
      BY <2>7 DEF RequestOK
    <3>3. QED
      BY <1>1, <2>1, <2>7, <3>1, <3>2, OthersKeepTheirs
  <2>9. QED
    BY <1>0, <1>1, <1>2, <2>1, <2>5, <2>6, <2>7, <2>8 DEF ManualInv
<1>14. QED
  BY <1>10, <1>11, <1>12, <1>13

\* What Append does to the history of an order.
LEMMA Appended ==
    ASSUME NEW S, NEW s \in Seq(S), NEW e \in S
    PROVE  /\ Append(s, e) \in Seq(S)
           /\ \A x : Contains(Append(s, e), x) <=> Contains(s, x) \/ x = e
           /\ Last(Append(s, e)) = e
           /\ IsInjective(s) /\ ~Contains(s, e) => IsInjective(Append(s, e))
<1> DEFINE t == Append(s, e)
           n == Len(s)
<1>1. /\ t \in Seq(S) /\ Len(t) = n + 1 /\ n \in Nat
      /\ \A i \in 1 .. n : t[i] = s[i]
      /\ t[n + 1] = e
      /\ DOMAIN t = 1 .. (n + 1) /\ DOMAIN s = 1 .. n
  OBVIOUS
<1> HIDE DEF t, n
<1>2. \A i \in 1 .. (n + 1) : i \in 1 .. n \/ i = n + 1
  BY <1>1
<1>3. 1 .. n \subseteq 1 .. (n + 1) /\ n + 1 \in 1 .. (n + 1)
  BY <1>1
<1>4. \A x : Contains(t, x) <=> Contains(s, x) \/ x = e
  <2>1. \A x : Contains(t, x) <=> \E i \in 1 .. (n + 1) : t[i] = x
    BY <1>1 DEF Contains
  <2>2. \A x : Contains(s, x) <=> \E i \in 1 .. n : s[i] = x
    BY DEF Contains, n
  <2>3. QED
    BY <1>1, <1>2, <1>3, <2>1, <2>2
<1>5. Last(t) = e
  BY <1>1 DEF Last
<1>6. IsInjective(s) /\ ~Contains(s, e) => IsInjective(t)
  <2> SUFFICES ASSUME IsInjective(s), ~Contains(s, e),
                      NEW i \in DOMAIN t, NEW j \in DOMAIN t, t[i] = t[j]
               PROVE  i = j
    BY DEF IsInjective
  <2>1. \A k \in 1 .. n : s[k] # e
    BY DEF Contains, n
  <2>2. \A k, l \in 1 .. n : s[k] = s[l] => k = l
    BY <1>1 DEF IsInjective
  <2>3. QED
    BY <1>1, <1>2, <2>1, <2>2
<1>7. QED
  BY <1>1, <1>4, <1>5, <1>6 DEF t

\* The transaction of update_order_status, for an administrator's plain change or inside
\* complete and reject.
LEMMA CommitKeeps ==
    ASSUME ManualInv, OrdersInv', [OrdersNext]_ordersVars, NEW h \in Editors, CommitUpdate(h)
    PROVE  ManualInv'
<1> DEFINE m == manual[h]
           e == edit[h]
           o == e.order
           next == IF e.new \in Delivered THEN "payout" ELSE "done"
           new == [e EXCEPT !.step = next]
<1>0. /\ manual \in [Editors -> Manuals \cup {NoManual}] /\ edit \in [Editors -> Edits \cup {NoEdit}]
      /\ processed \in [Orders -> Seq({"complete", "reject"})]
  BY DEF ManualInv, OrdersInv
<1>1. /\ e # NoEdit /\ edit' = [edit EXCEPT ![h] = new] /\ Commits(o, e.new, e.seen)
      /\ IF Key(e.new) \in RefundedKeys THEN ApplyRefund(o, e.new) ELSE ApplyStatus(o, e.new)
      /\ UNCHANGED <<manual, submissions, providerOrderId, notices>>
  BY DEF CommitUpdate, CommitStatus
<1>2. e \in Edits /\ o \in Orders
  BY <1>0, <1>1 DEF Edits
<1>3. new.order = o /\ new.new = e.new /\ new # NoEdit
  <2>1. next \in {"payout", "done"}
    OBVIOUS
  <2> HIDE DEF next
  <2>2. QED
    BY <1>2, <2>1 DEF Edits, NoEdit
<1> HIDE DEF new
<1>4. edit'[h] = new /\ \A k \in Editors \ {h} : edit'[k] = edit[k]
  BY <1>0, <1>1
<1>5. RequestOK(h) /\ \A k \in Editors : RequestOK(k)
  BY DEF ManualInv
<1>6. RequestOK(h)'
  BY <1>1, <1>3, <1>4, <1>5 DEF RequestOK
<1>7. ~SqlRefunded(o)
  BY <1>1, CommitsOnLiveRow
<1>8. ~Contains(processed[o], "reject")
  BY <1>2, <1>7 DEF ManualInv, RejectionIsLast, SqlRefunded, RefundedKeys
<1>9. CASE m.step # "updating"
  <2>1. processed' = processed
    BY <1>9 DEF CommitUpdate, At
  <2>2. QED
    BY <1>0, <1>1, <1>4, <1>6, <2>1, RequestMoves
<1>10. CASE m.step = "updating"
  <2>1. m.order = o /\ e.new = StatusOf[m.op] /\ m.op \in {"complete", "reject"}
    BY <1>5, <1>10 DEF RequestOK
  <2>2. processed' = [processed EXCEPT ![o] = Append(@, m.op)]
    BY <1>10, <2>1 DEF CommitUpdate, At
  <2> DEFINE s == processed[o]
             t == Append(s, m.op)
  <2>3. s \in Seq({"complete", "reject"})
    BY <1>0, <1>2
  <2>4. /\ t \in Seq({"complete", "reject"}) /\ Last(t) = m.op
        /\ Contains(t, "reject") <=> Contains(s, "reject") \/ m.op = "reject"
    BY <2>1, <2>3, Appended
  <2> HIDE DEF t
  <2>5. processed' \in [Orders -> Seq({"complete", "reject"})] /\ processed'[o] = t
          /\ \A p \in Orders \ {o} : processed'[p] = processed[p]
    BY <1>0, <1>2, <2>2, <2>4 DEF t
  <2>6. \A p \in Orders \ {o} : order'[p] = order[p]
    <3>1. order \in [Orders -> Row]
      BY DEF ManualInv, OrdersInv, BooksInv
    <3>2. QED
      BY <1>1, <3>1 DEF ApplyRefund, ApplyStatus
  <2>7. m.op = "reject" => order'[o].status = "canceled" /\ order'[o].refunded = order'[o].amount
    <3> SUFFICES ASSUME m.op = "reject"
                 PROVE  order'[o].status = "canceled" /\ order'[o].refunded = order'[o].amount
      OBVIOUS
    <3>1. e.new = "canceled" /\ Key(e.new) = "canceled" /\ "canceled" \in RefundedKeys
      BY <2>1 DEF StatusOf, Key, RefundedKeys
    <3>2. ApplyRefund(o, "canceled")
      BY <1>1, <3>1
    <3>3. order \in [Orders -> Row] /\ order[o] \in Row
      BY <1>2 DEF ManualInv, OrdersInv, BooksInv
    <3>4. order'[o].status = "canceled"
      BY <1>2, <3>2, <3>3 DEF ApplyRefund, Row
    <3>5. Key(order'[o].status) \in RefundedKeys
      BY <3>1, <3>4
    <3>6. RefundedIsWhole'
      BY DEF OrdersInv, BooksInv
    <3>7. order'[o].refunded = order'[o].amount
      BY <1>2, <3>5, <3>6 DEF RefundedIsWhole
    <3>8. QED
      BY <3>4, <3>7
  <2>8. RejectionIsLast'
    <3> SUFFICES ASSUME NEW p \in Orders, Contains(processed'[p], "reject")
                 PROVE  /\ Last(processed'[p]) = "reject"
                        /\ order'[p].status = "canceled"
                        /\ order'[p].refunded = order'[p].amount
      BY DEF RejectionIsLast
    <3>1. CASE p = o
      BY <1>8, <2>4, <2>5, <2>7, <3>1
    <3>2. CASE p # o
      BY <2>5, <2>6, <3>2 DEF ManualInv, RejectionIsLast
    <3>3. QED
      BY <3>1, <3>2
  <2>9. \A k \in Editors : RequestOK(k)'
    <3>1. submissions' \in [Orders -> Nat] /\ \A p \in Orders : submissions[p] <= submissions'[p]
      BY <1>1, ManualAssumption DEF ManualInv
    <3>2. QED
      BY <1>1, <1>4, <1>6, <3>1, OthersKeepTheirs
  <2>10. QED
    BY <1>1, <2>5, <2>8, <2>9 DEF ManualInv, NoticesAreStored
<1>11. QED
  BY <1>9, <1>10

LEMMA ManualInvKept ==
    ASSUME ManualInv, [ManualNext]_manualVars
    PROVE  ManualInv'
<1>0. [OrdersNext]_ordersVars
  BY ManualStepIsOrdersStep
<1>1. OrdersInv'
  BY <1>0, OrdersStep, BooksAreKept DEF ManualInv, OrdersInv
<1>2. ASSUME NEW h \in Editors, ManualStep(h) PROVE ManualInv'
  BY <1>0, <1>1, <1>2, BeginsKeep, EndsKeep, ReferencesKeep DEF ManualStep
<1>3. ASSUME NEW h \in Editors, UpdateStep(h) \/ PlainStep(h) PROVE ManualInv'
  BY <1>0, <1>1, <1>3, CommitKeeps, EndsKeep DEF UpdateStep
<1>4. ASSUME RestartManual PROVE ManualInv'
  <2>1. /\ manual' = [h \in Editors |-> NoManual] /\ NoManual.step = "none"
        /\ UNCHANGED <<submissions, providerOrderId, processed, notices>>
    BY <1>4 DEF RestartManual, NoManual
  <2>2. manual' \in [Editors -> Manuals \cup {NoManual}] /\ \A h \in Editors : manual'[h].step = "none"
    BY <2>1
  <2>3. \A h \in Editors : RequestOK(h)'
    BY <2>2 DEF RequestOK
  <2>4. QED
    BY <1>0, <1>1, <2>1, <2>2, <2>3, RequestsMove
<1>5. ASSUME UNCHANGED <<manuals, edit>> PROVE ManualInv'
  <2>1. \A h \in Editors : RequestOK(h)'
    BY <1>5 DEF ManualInv, RequestOK, manuals
  <2>2. QED
    BY <1>0, <1>1, <1>5, <2>1, RequestsMove DEF manuals, ManualInv
<1>6. ASSUME NEW o \in Orders, BotOrders(o), UNCHANGED manuals PROVE ManualInv'
  BY <1>5, <1>6 DEF BotOrders, BotPlacesOrder, BotProgress, BotPartial, BotRefund, BotPayout
<1>7. CASE UNCHANGED manualVars
  BY <1>5, <1>7 DEF manualVars, ordersVars, orders
<1>8. QED
  BY <1>2, <1>3, <1>4, <1>6, <1>7 DEF ManualNext

LEMMA ManualInvHolds == ManualSpec => []ManualInv
BY ManualStarts, ManualInvKept, PTL DEF ManualSpec

\* Completing, rejecting and notifying, with their restarts and deaths, do nothing to orders
\* and wallets that status changes and the bot do not do.
THEOREM ManualImplementsOrders == ManualSpec => OrdersSpec
<1>1. ManualInit => OrdersInit
  BY DEF ManualInit
<1>2. ManualInv /\ [ManualNext]_manualVars => [OrdersNext]_ordersVars
  BY ManualStepIsOrdersStep
<1>3. QED
  BY <1>1, <1>2, ManualInvHolds, PTL DEF ManualSpec, OrdersSpec

\* The requests, the distributor's numbers, the histories and the messages keep their types.
THEOREM ManualTypeCorrect == ManualSpec => []ManualTypeOK
<1>1. ManualInv => ManualTypeOK
  BY DEF ManualInv, ManualTypeOK, OrdersInv, BooksInv, OrdersTypeOK, Row, Manuals
<1>2. QED
  BY <1>1, ManualInvHolds, PTL

\* After a rejection nothing more commits on the order, which is and stays refunded whole.
THEOREM RejectionsAreLast == ManualSpec => []RejectionIsLast
<1>1. ManualInv => RejectionIsLast
  BY DEF ManualInv
<1>2. QED
  BY <1>1, ManualInvHolds, PTL

\* A customer is only told a distributor's number of an order that has one stored.
THEOREM NoticesHaveNumbers == ManualSpec => []NoticesAreStored
<1>1. ManualInv => NoticesAreStored
  BY DEF ManualInv
<1>2. QED
  BY <1>1, ManualInvHolds, PTL

-----------------------------------------------------------------------------
(* NoDoubleProcessing holds where administrators complete and refund but do   *)
(* not, by a plain status change, make a completed order active again.        *)

Settled(o) == order[o].status = "completed" \/ SqlRefunded(o)

OnceInv ==
    /\ ManualInv
    /\ NoDoubleProcessing
    /\ \A o \in Orders : Contains(processed[o], "complete") => Settled(o)

\* The row that either branch of update_order_status leaves.
LEMMA StatusApplied ==
    ASSUME order \in [Orders -> Row], NEW o \in Orders, NEW s,
           ApplyRefund(o, s) \/ ApplyStatus(o, s)
    PROVE  order'[o].status = s /\ \A p \in Orders \ {o} : order'[p] = order[p]
<1>1. CASE ApplyStatus(o, s)
  BY <1>1 DEF ApplyStatus, Row
<1>2. CASE ApplyRefund(o, s)
  <2> DEFINE kept == IF order[o].paidOut THEN 0 ELSE order[o].commission
             row == [order[o] EXCEPT !.status = s, !.refunded = order[o].amount,
                                     !.paidOut = FALSE, !.commission = kept]
  <2>1. order' = [order EXCEPT ![o] = row]
    BY <1>2 DEF ApplyRefund
  <2> HIDE DEF kept
  <2>2. row.status = s
    BY DEF Row
  <2> HIDE DEF row
  <2>3. QED
    BY <2>1, <2>2
<1>3. QED
  BY <1>1, <1>2

\* A completed or refunded order stays completed or refunded.
LEMMA SettledStays ==
    ASSUME NewStatuses \subseteq RefundedKeys \cup {"completed"},
           OrdersInv, [OrdersNext]_ordersVars, NEW p \in Orders, Settled(p)
    PROVE  Settled(p)'
<1>0. order \in [Orders -> Row] /\ edit \in [Editors -> Edits \cup {NoEdit}]
  BY DEF OrdersInv, BooksInv
<1>1. ASSUME order' = order PROVE Settled(p)'
  BY <1>1 DEF Settled, SqlRefunded
<1>2. ASSUME NEW o \in Orders, ApplyPayout(o) PROVE Settled(p)'
  <2>1. order'[p].status = order[p].status
    BY <1>0, <1>2 DEF ApplyPayout, Row
  <2>2. QED
    BY <2>1 DEF Settled, SqlRefunded
<1>3. ASSUME NEW h \in Editors, CommitStatus(h) PROVE Settled(p)'
  <2> DEFINE o == edit[h].order
             new == edit[h].new
  <2>1. o \in Orders /\ new \in RefundedKeys \cup {"completed"}
    BY <1>0, <1>3 DEF CommitStatus, Edits
  <2>2. IF Key(new) \in RefundedKeys THEN ApplyRefund(o, new) ELSE ApplyStatus(o, new)
    BY <1>3 DEF CommitStatus
  <2> HIDE DEF o, new
  <2>3. order'[o].status = new /\ \A q \in Orders \ {o} : order'[q] = order[q]
    BY <1>0, <2>1, <2>2, StatusApplied
  <2>4. QED
    BY <2>1, <2>3 DEF Settled, SqlRefunded
<1>4. ASSUME NEW h \in Editors, EditStep(h) PROVE Settled(p)'
  <2>1. CASE TryPayout(h)
    <3>1. edit[h].order \in Orders
      BY <1>0, <2>1 DEF TryPayout, Edits
    <3>2. QED
      BY <1>1, <1>2, <2>1, <3>1 DEF TryPayout
  <2>2. QED
    BY <1>1, <1>3, <1>4, <2>1 DEF EditStep, ReadOrder, RefuseStatus, SkipPayout, EndEdit
<1>5. ASSUME NEW o \in Orders, BotOrders(o) PROVE Settled(p)'
  <2>1. CASE BotPayout(o)
    BY <1>2, <2>1 DEF BotPayout
  <2>2. CASE ~BotPayout(o)
    <3>1. order[o].status \in ActiveKeys \cup {"none"} /\ \A q \in Orders \ {o} : order'[q] = order[q]
      BY <1>0, <1>5, <2>2
         DEF BotOrders, BotPlacesOrder, BotProgress, BotPartial, BotRefund, SqlActive, ApplyStatus, ApplyRefund
    <3>2. ~Settled(o)
      BY <3>1 DEF Settled, SqlRefunded, ActiveKeys, RefundedKeys
    <3>3. p # o
      BY <3>2
    <3>4. QED
      BY <3>1, <3>3 DEF Settled, SqlRefunded
  <2>3. QED
    BY <2>1, <2>2
<1>6. QED
  BY <1>1, <1>4, <1>5 DEF OrdersNext, RestartEditors, orders, ordersVars

LEMMA OnceKept ==
    ASSUME NewStatuses \subseteq RefundedKeys \cup {"completed"},
           OnceInv, [ManualNext]_manualVars
    PROVE  OnceInv'
<1>0. /\ ManualInv /\ ManualInv' /\ OrdersInv /\ [OrdersNext]_ordersVars
      /\ processed \in [Orders -> Seq({"complete", "reject"})]
  BY ManualInvKept, ManualStepIsOrdersStep DEF OnceInv, ManualInv
<1>1. \A p \in Orders : Settled(p) => Settled(p)'
  BY <1>0, SettledStays
<1>2. ASSUME processed' = processed PROVE OnceInv'
  BY <1>0, <1>1, <1>2 DEF OnceInv, NoDoubleProcessing
<1>3. ASSUME NEW h \in Editors, CommitUpdate(h), manual[h].step = "updating" PROVE OnceInv'
  <2> DEFINE m == manual[h]
             e == edit[h]
  <2>0. PICK o \in Orders : o = m.order
    BY <1>0, <1>3, RequestType
  <2> DEFINE s == processed[o]
             t == Append(s, m.op)
  <2>1. o = m.order /\ RequestOK(h)
    BY <1>0, <1>3, <2>0, RequestType
  <2>2. e.order = o /\ e.new = StatusOf[m.op] /\ m.op \in {"complete", "reject"}
    BY <1>3, <2>1 DEF RequestOK
  <2>3. /\ Commits(o, e.new, e.seen)
        /\ IF Key(e.new) \in RefundedKeys THEN ApplyRefund(o, e.new) ELSE ApplyStatus(o, e.new)
        /\ processed' = [processed EXCEPT ![o] = t]
    <3>1. /\ Commits(e.order, e.new, e.seen)
          /\ IF Key(e.new) \in RefundedKeys THEN ApplyRefund(e.order, e.new) ELSE ApplyStatus(e.order, e.new)
          /\ processed' = [processed EXCEPT ![m.order] = Append(@, m.op)]
      BY <1>3 DEF CommitUpdate, CommitStatus, At
    <3>2. e.order = o /\ m.order = o
      BY <2>1, <2>2
    <3> HIDE DEF e
    <3>3. QED
      BY <3>1, <3>2
  <2>4. ~SqlRefunded(o)
    BY <2>3, CommitsOnLiveRow
  <2>5. ~Contains(s, m.op)
    <3>1. CASE m.op = "reject"
      BY <1>0, <2>1, <2>4, <3>1 DEF ManualInv, RejectionIsLast, SqlRefunded, RefundedKeys
    <3>2. CASE m.op = "complete"
      <4>1. e.new = "completed"
        BY <2>2, <3>2 DEF StatusOf
      <4>2. order[o].status # "completed"
        BY <2>3, <4>1 DEF Commits, Key, RefundedKeys
      <4>3. QED
        BY <2>1, <2>4, <3>2, <4>2 DEF OnceInv, Settled
    <3>3. QED
      BY <2>2, <3>1, <3>2
  <2>6. order'[o].status = e.new
    <3>1. order \in [Orders -> Row]
      BY <1>0 DEF OrdersInv, BooksInv
    <3>2. QED
      BY <2>1, <2>3, <3>1, StatusApplied
  <2>7. Settled(o)'
    <3>1. e.new \in {"completed", "canceled"}
      BY <2>2 DEF StatusOf
    <3>2. QED
      BY <2>6, <3>1 DEF Settled, SqlRefunded, RefundedKeys
  <2>8. IsInjective(s)
    BY <2>1 DEF OnceInv, NoDoubleProcessing
  <2>9. s \in Seq({"complete", "reject"})
    BY <1>0, <2>1
  <2>10. IsInjective(t)
    BY <2>2, <2>5, <2>8, <2>9, Appended
  <2> HIDE DEF t
  <2>11. processed'[o] = t /\ \A p \in Orders \ {o} : processed'[p] = processed[p]
    BY <1>0, <2>1, <2>3
  <2>12. NoDoubleProcessing'
    BY <2>1, <2>10, <2>11 DEF OnceInv, NoDoubleProcessing
  <2>13. \A p \in Orders : Contains(processed'[p], "complete") => Settled(p)'
    <3> SUFFICES ASSUME NEW p \in Orders, Contains(processed'[p], "complete")
                 PROVE  Settled(p)'
      OBVIOUS
    <3>1. p # o => Settled(p)
      BY <2>11 DEF OnceInv
    <3>2. QED
      BY <1>1, <2>7, <3>1
  <2>14. QED
    BY <1>0, <2>12, <2>13 DEF OnceInv
<1>4. ASSUME NEW h \in Editors, ManualStep(h) PROVE processed' = processed
  BY <1>4 DEF ManualStep, RequirePending, BeginNotify, BeginUpdate, AlreadyProcessed, Updated,
              ReadReference, Submitted, SubmitFails, Persist, Notify, Die
<1>5. ASSUME NEW h \in Editors, UpdateStep(h) PROVE OnceInv'
  BY <1>2, <1>3, <1>5 DEF UpdateStep, CommitUpdate, RefuseUpdate, PayAfterUpdate, manuals, At
<1>6. ASSUME NEW h \in Editors, PlainStep(h) PROVE processed' = processed
  BY <1>6 DEF PlainStep, manuals
<1>7. QED
  BY <1>2, <1>4, <1>5, <1>6 DEF ManualNext, RestartManual, manuals, manualVars

\* Each of complete and reject commits at most once on an order, whatever other completions,
\* rejections, refunds and restarts interleave with it.
THEOREM NeverProcessedTwice ==
    ASSUME NewStatuses \subseteq RefundedKeys \cup {"completed"}
    PROVE  ManualSpec => []NoDoubleProcessing
<1>1. ManualInit => OnceInv
  <2> SUFFICES ASSUME ManualInit PROVE OnceInv
    OBVIOUS
  <2>1. \A o \in Orders : Len(processed[o]) = 0 /\ DOMAIN processed[o] = {}
    BY DEF ManualInit
  <2>2. \A o \in Orders : ~Contains(processed[o], "complete")
    BY <2>1 DEF Contains
  <2>3. NoDoubleProcessing
    BY <2>1 DEF NoDoubleProcessing, IsInjective
  <2>4. QED
    BY <2>2, <2>3, ManualStarts DEF OnceInv
<1>2. OnceInv /\ [ManualNext]_manualVars => OnceInv'
  BY OnceKept
<1>3. OnceInv => NoDoubleProcessing
  BY DEF OnceInv
<1>4. QED
  BY <1>1, <1>2, <1>3, PTL DEF ManualSpec

=============================================================================
