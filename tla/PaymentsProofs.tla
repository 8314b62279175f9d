--------------------------- MODULE PaymentsProofs ---------------------------
(***************************************************************************)
(* Payments, proved for any number of users, rows, requests and amounts:   *)
(* type correctness, the ledger, the finality of decisions, the honesty of *)
(* the messages, and the refinement of Settlement.                         *)
(*                                                                         *)
(* The argument rests on one inductive invariant.  A request that has      *)
(* committed and not yet told the user is the only one that ever will: the *)
(* row it decided holds its verdict, nobody was told, and no other request *)
(* has committed on that row.                                              *)
(***************************************************************************)
EXTENDS Payments, Sums

Committed(h) == task[h] # NoTask /\ task[h].step = "committed"

\* What a request that committed may rely on until it tells the user.
CommittedAlone ==
    \A h \in Handlers : Committed(h) =>
        /\ row[task[h].item].status = Verdict(task[h].op, task[h].item)
        /\ notices[task[h].item] = <<>>
        /\ \A g \in Handlers \ {h} : Committed(g) => task[g].item # task[h].item

\* The inductive invariant: what every step preserves and the properties follow from.
IInv ==
    /\ PaymentsTypeOK
    /\ OneLedgerRowPerApproval
    /\ HonestNotices
    /\ CommittedAlone

-----------------------------------------------------------------------------
(* The columns. *)

\* A credit of a natural number leaves a column of natural numbers.
LEMMA CreditedNat ==
    ASSUME NEW column \in [Users -> Nat], NEW u \in Users, NEW amount \in Nat
    PROVE  Credited(column, u, amount) \in [Users -> Nat]
BY DEF Credited

\* A debit that the column covers leaves a column of natural numbers.
LEMMA DebitedNat ==
    ASSUME NEW column \in [Users -> Nat], NEW u \in Users, NEW amount \in Nat,
           column[u] >= amount
    PROVE  Credited(column, u, -amount) \in [Users -> Nat]
BY DEF Credited

\* The initial state satisfies the invariant.
LEMMA InitIInv == PaymentsInit => IInv
<1> SUFFICES ASSUME PaymentsInit PROVE IInv
    OBVIOUS
<1>1. WalletsTypeOK
    BY WalletsAssumption DEF PaymentsInit, WalletsInit, WalletsTypeOK
<1>2. PaymentsTypeOK
    BY <1>1 DEF PaymentsInit, PaymentsTypeOK, Statuses, NoTask
<1>3. OneLedgerRowPerApproval
    BY PaymentsAssumption DEF PaymentsInit, OneLedgerRowPerApproval, Items
<1>4. HonestNotices /\ CommittedAlone
    BY DEF PaymentsInit, HonestNotices, CommittedAlone, Committed
<1> QED
    BY <1>2, <1>3, <1>4 DEF IInv

-----------------------------------------------------------------------------
(* A decision, whoever takes it. *)

\* The type of every variable a decision changes.
LEMMA ApplyType ==
    ASSUME PaymentsTypeOK, NEW op \in Ops, NEW x \in Items, NEW amount \in Nat,
           Apply(op, x, amount)
    PROVE  /\ WalletsTypeOK'
           /\ row' \in [Items -> [status: Statuses, amount: Nat]]
           /\ credits' \in [Deposits -> Seq(Nat)]
<1> USE DEF PaymentsTypeOK, WalletsTypeOK
<1>0. Owner[x] \in Users /\ row[x].amount \in Nat
    BY PaymentsAssumption DEF Items
<1>1. CASE x \in Deposits /\ ApplyApproval(x, amount)
    <2>1. balance' \in [Users -> Nat]
        BY <1>0, <1>1, CreditedNat DEF ApplyApproval
    <2>2. credits' \in [Deposits -> Seq(Nat)]
        BY <1>1 DEF ApplyApproval
    <2>3. row' \in [Items -> [status: Statuses, amount: Nat]]
        BY <1>1 DEF ApplyApproval, Statuses
    <2> QED
        BY <1>1, <2>1, <2>2, <2>3 DEF ApplyApproval
<1>2. CASE ApplyDepositRejection(x) \/ ApplyCompletion(x)
    BY <1>2 DEF ApplyDepositRejection, ApplyCompletion, Decide, Statuses, wallets
<1>3. CASE ApplyRefund(x)
    <2>1. balance' \in [Users -> Nat] /\ referralBalance' \in [Users -> Nat]
        <3>1. /\ Credited(balance, Owner[x], row[x].amount) \in [Users -> Nat]
              /\ Credited(referralBalance, Owner[x], row[x].amount) \in [Users -> Nat]
            BY <1>0, CreditedNat
        <3> QED
            BY <1>3, <3>1 DEF ApplyRefund
    <2>2. row' \in [Items -> [status: Statuses, amount: Nat]]
        BY <1>3 DEF ApplyRefund, Decide, Statuses
    <2> QED
        BY <1>3, <2>1, <2>2 DEF ApplyRefund
<1> QED
    BY <1>1, <1>2, <1>3 DEF Apply

\* A decision of a pending row gives it the verdict, leaves every other row and its ledger
\* alone, and keeps the ledger in step.
LEMMA ApplyDecides ==
    ASSUME PaymentsTypeOK, OneLedgerRowPerApproval,
           NEW op \in Ops, NEW x \in Items, NEW amount \in Nat,
           Pending(x), Apply(op, x, amount)
    PROVE  /\ row'[x].status = Verdict(op, x)
           /\ \A y \in Items \ {x} : row'[y] = row[y]
           /\ OneLedgerRowPerApproval'
<1> USE PaymentsAssumption DEF PaymentsTypeOK, Pending
<1>1. CASE op = "approve" /\ x \in Deposits /\ ApplyApproval(x, amount)
    <2>1. /\ row'[x] = [status |-> "approved", amount |-> amount]
          /\ \A y \in Items \ {x} : row'[y] = row[y]
        BY <1>1 DEF ApplyApproval
    <2>2. credits[x] = <<>>
        BY <1>1 DEF OneLedgerRowPerApproval
    <2>3. credits'[x] = <<amount>> /\ \A d \in Deposits \ {x} : credits'[d] = credits[d]
        BY <1>1, <2>2 DEF ApplyApproval
    <2>4. ASSUME NEW d \in Deposits
          PROVE  credits'[d] = IF row'[d].status = "approved" THEN <<row'[d].amount>> ELSE <<>>
        <3>1. CASE d = x
            <4>1. row'[d].status = "approved" /\ row'[d].amount = amount
                BY <2>1, <3>1
            <4>2. credits'[d] = <<amount>>
                BY <2>3, <3>1
            <4> QED
                BY <4>1, <4>2, Zenon
        <3>2. CASE d # x
            <4>1. row'[d] = row[d] /\ credits'[d] = credits[d]
                BY <2>1, <2>3, <3>2 DEF Items
            <4> QED
                BY <4>1 DEF OneLedgerRowPerApproval
        <3> QED
            BY <3>1, <3>2
    <2> QED
        BY <1>1, <2>1, <2>4 DEF Verdict, OneLedgerRowPerApproval
<1>2. CASE op = "reject" /\ x \in Deposits /\ ApplyDepositRejection(x)
    BY <1>2 DEF ApplyDepositRejection, Decide, Verdict, OneLedgerRowPerApproval, Items
<1>3. CASE op = "approve" /\ x \in Withdrawals /\ ApplyCompletion(x)
    BY <1>3 DEF ApplyCompletion, Decide, Verdict, OneLedgerRowPerApproval, Items
<1>4. CASE op = "reject" /\ x \in Withdrawals /\ ApplyRefund(x)
    BY <1>4 DEF ApplyRefund, Decide, Verdict, OneLedgerRowPerApproval, Items
<1> QED
    BY <1>1, <1>2, <1>3, <1>4 DEF Apply

-----------------------------------------------------------------------------
(* Type correctness. *)

\* adjust_user_balance never overdraws, and books what it did.
LEMMA AdjustType ==
    ASSUME WalletsTypeOK, NEW u \in Users, NEW a \in AdjustAmounts, AdjustUserBalance(u, a)
    PROVE  WalletsTypeOK'
<1> USE DEF WalletsTypeOK
<1>1. a \in Int /\ balance[u] \in Nat /\ balance[u] + a >= 0
    BY WalletsAssumption DEF AdjustUserBalance, Covers
<1>2. balance' \in [Users -> Nat]
    BY <1>1 DEF AdjustUserBalance, Credited
<1>3. CASE a > 0
    <2>1. adjusted' \in [Users -> [credited: Nat, debited: Nat]]
        BY <1>1, <1>3 DEF AdjustUserBalance
    <2> QED
        BY <1>2, <1>3, <2>1 DEF AdjustUserBalance
<1>4. CASE ~(a > 0)
    <2>1. -a \in Nat
        BY <1>1, <1>4
    <2>2. totalSpent' \in [Users -> Nat]
        BY <1>4, <2>1 DEF AdjustUserBalance, Credited
    <2>3. adjusted' \in [Users -> [credited: Nat, debited: Nat]]
        BY <1>1, <1>4 DEF AdjustUserBalance
    <2> QED
        BY <1>2, <2>2, <2>3 DEF AdjustUserBalance
<1> QED
    BY <1>3, <1>4

\* The amounts of a decision are natural numbers.
LEMMA AmountsForNat ==
    ASSUME NEW op, NEW x, NEW amount \in AmountsFor(op, x)
    PROVE  amount \in Nat
BY PaymentsAssumption DEF AmountsFor

\* The bot takes no more than the column it takes from has.
LEMMA HoldType ==
    ASSUME PaymentsTypeOK, NEW w \in Withdrawals, NEW amount \in Amounts,
           BotCreatesWithdrawal(w, amount)
    PROVE  WalletsTypeOK'
<1> USE DEF PaymentsTypeOK, WalletsTypeOK
<1>1. Owner[w] \in Users /\ amount \in Nat
    BY PaymentsAssumption DEF Items
<1>2. CASE Referral(w)
    <2>1. Credited(referralBalance, Owner[w], -amount) \in [Users -> Nat]
        BY <1>1, <1>2, DebitedNat DEF BotCreatesWithdrawal
    <2> QED
        BY <1>2, <2>1 DEF BotCreatesWithdrawal
<1>3. CASE ~Referral(w)
    <2>1. Credited(balance, Owner[w], -amount) \in [Users -> Nat]
        BY <1>1, <1>3, DebitedNat DEF BotCreatesWithdrawal
    <2> QED
        BY <1>3, <2>1 DEF BotCreatesWithdrawal
<1> QED
    BY <1>2, <1>3

\* Every step preserves the types; in particular no account is ever overdrawn.
LEMMA NextTypeOK ==
    ASSUME PaymentsTypeOK, [PaymentsNext]_paymentsVars
    PROVE  PaymentsTypeOK'
<1> USE DEF PaymentsTypeOK
<1>1. ASSUME NEW h \in Handlers, NEW op \in Ops, NEW x \in Items,
             NEW amount \in DepositAmounts \cup {0}, Begin(h, op, x, amount)
      PROVE  PaymentsTypeOK'
    <2>1. [op |-> op, item |-> x, amount |-> amount, step |-> "checked"] \in Tasks
        BY <1>1, AmountsForNat DEF Begin, Tasks
    <2> QED
        BY <1>1, <2>1 DEF Begin, wallets, WalletsTypeOK
<1>2. ASSUME NEW h \in Handlers, Commit(h) PROVE PaymentsTypeOK'
    <2>1. task[h] \in Tasks
        BY <1>2 DEF Commit
    <2>2. /\ WalletsTypeOK'
          /\ row' \in [Items -> [status: Statuses, amount: Nat]]
          /\ credits' \in [Deposits -> Seq(Nat)]
        BY <1>2, <2>1, ApplyType DEF Commit, Tasks
    <2>3. [task[h] EXCEPT !.step = "committed"] \in Tasks
        BY <2>1 DEF Tasks
    <2>4. task' \in [Handlers -> Tasks \cup {NoTask}]
        BY <1>2, <2>3 DEF Commit
    <2> QED
        BY <1>2, <2>2, <2>4 DEF Commit
<1>3. ASSUME NEW h \in Handlers, AlreadyProcessed(h) \/ Fail(h) PROVE PaymentsTypeOK'
    BY <1>3 DEF AlreadyProcessed, Fail, wallets, WalletsTypeOK
<1>4. ASSUME NEW h \in Handlers, Notify(h) PROVE PaymentsTypeOK'
    <2>1. task[h] \in Tasks
        BY <1>4 DEF Notify, Notifies
    <2>2. Verdict(task[h].op, task[h].item) \in Decided
        BY DEF Verdict, Decided
    <2>3. notices' \in [Items -> Seq(Decided)]
        BY <1>4, <2>1, <2>2 DEF Notify, Tasks
    <2> QED
        BY <1>4, <2>3 DEF Notify, wallets, WalletsTypeOK
<1>5. ASSUME Restart PROVE PaymentsTypeOK'
    BY <1>5 DEF Restart, wallets, WalletsTypeOK
<1>6. ASSUME NEW d \in Deposits, NEW a \in Amounts, BotCreatesDeposit(d, a) PROVE PaymentsTypeOK'
    BY <1>6, PaymentsAssumption DEF BotCreatesDeposit, Statuses, wallets, WalletsTypeOK
<1>7. ASSUME NEW w \in Withdrawals, NEW a \in Amounts, BotCreatesWithdrawal(w, a) PROVE PaymentsTypeOK'
    <2>1. row' \in [Items -> [status: Statuses, amount: Nat]]
        BY <1>7, PaymentsAssumption DEF BotCreatesWithdrawal, Statuses
    <2> QED
        BY <1>7, <2>1, HoldType DEF BotCreatesWithdrawal
<1>8. ASSUME NEW op \in Ops, NEW x \in Items, NEW a \in DepositAmounts \cup {0}, BotDecides(op, x, a)
      PROVE  PaymentsTypeOK'
    <2>1. a \in Nat
        BY <1>8, AmountsForNat DEF BotDecides
    <2> QED
        BY <1>8, <2>1, ApplyType DEF BotDecides
<1>9. ASSUME NEW u \in Users, NEW a \in AdjustAmounts, AdjustUserBalance(u, a), UNCHANGED payments
      PROVE  PaymentsTypeOK'
    BY <1>9, AdjustType DEF payments
<1>10. CASE UNCHANGED paymentsVars
    BY <1>10 DEF paymentsVars, payments, wallets, WalletsTypeOK
<1> QED
    BY <1>1, <1>2, <1>3, <1>4, <1>5, <1>6, <1>7, <1>8, <1>9, <1>10 DEF PaymentsNext

-----------------------------------------------------------------------------
(* The ledger and the messages. *)

\* A decision of a pending row disturbs no request that has committed and no message.
LEMMA DecisionKeepsNotices ==
    ASSUME IInv, NEW op \in Ops, NEW x \in Items, NEW amount \in Nat,
           Pending(x), Apply(op, x, amount), UNCHANGED notices
    PROVE  /\ HonestNotices'
           /\ notices'[x] = <<>>
           /\ \A h \in Handlers : Committed(h) => task[h].item # x
<1> USE DEF IInv
<1>1. /\ \A y \in Items \ {x} : row'[y] = row[y]
      /\ row[x].status = "pending"
    BY ApplyDecides DEF Pending
<1>2. notices[x] = <<>>
    BY <1>1 DEF HonestNotices, Decided
<1>3. ASSUME NEW h \in Handlers, Committed(h), task[h].item = x PROVE FALSE
    BY <1>1, <1>3 DEF CommittedAlone, Verdict
<1>4. ASSUME NEW y \in Items, notices'[y] # <<>>
      PROVE  row'[y].status \in Decided /\ notices'[y] = <<row'[y].status>>
    <2>1. y # x /\ row'[y] = row[y] /\ notices'[y] = notices[y]
        BY <1>1, <1>2, <1>4
    <2> QED
        BY <1>4, <2>1 DEF HonestNotices
<1> QED
    BY <1>2, <1>3, <1>4 DEF HonestNotices

\* Every step preserves the rest of the invariant.
LEMMA NextIInv ==
    ASSUME IInv, [PaymentsNext]_paymentsVars
    PROVE  IInv'
<1> DEFINE Kept == OneLedgerRowPerApproval' /\ HonestNotices' /\ CommittedAlone'
<1>0. PaymentsTypeOK /\ PaymentsTypeOK'
    BY NextTypeOK DEF IInv
<1> USE DEF IInv
\* A step that changes no row, no ledger and no message, and makes no request committed.
<1>a. ASSUME row' = row, credits' = credits, notices' = notices,
             \A h \in Handlers : Committed(h)' => Committed(h) /\ task'[h] = task[h]
      PROVE  Kept
    <2>1. OneLedgerRowPerApproval' /\ HonestNotices'
        BY <1>a DEF OneLedgerRowPerApproval, HonestNotices
    <2>2. CommittedAlone'
        BY <1>a DEF CommittedAlone
    <2> QED
        BY <2>1, <2>2
<1>1. ASSUME NEW h \in Handlers, NEW op \in Ops, NEW x \in Items,
             NEW amount \in DepositAmounts \cup {0}, Begin(h, op, x, amount)
      PROVE  Kept
    <2>1. \A g \in Handlers : Committed(g)' => Committed(g) /\ task'[g] = task[g]
        BY <1>0, <1>1 DEF Begin, Committed, PaymentsTypeOK
    <2> QED
        BY <1>a, <1>1, <2>1 DEF Begin
<1>2. ASSUME NEW h \in Handlers, Commit(h) PROVE Kept
    <2> DEFINE x == task[h].item
    <2>1. task[h] \in Tasks /\ task[h].op \in Ops /\ x \in Items /\ task[h].amount \in Nat
        BY <1>0, <1>2 DEF Commit, PaymentsTypeOK, Tasks
    <2>2. Pending(x) /\ Apply(task[h].op, x, task[h].amount) /\ UNCHANGED notices
        BY <1>2 DEF Commit, StillPending
    <2>3. /\ row'[x].status = Verdict(task[h].op, x)
          /\ \A y \in Items \ {x} : row'[y] = row[y]
          /\ OneLedgerRowPerApproval'
        BY <1>0, <2>1, <2>2, ApplyDecides
    <2>4. /\ HonestNotices'
          /\ notices'[x] = <<>>
          /\ \A g \in Handlers : Committed(g) => task[g].item # x
        BY <2>1, <2>2, DecisionKeepsNotices
    <2>5. /\ task'[h].item = x /\ task'[h].op = task[h].op
          /\ \A g \in Handlers \ {h} : task'[g] = task[g]
        BY <1>0, <1>2, <2>1 DEF Commit, PaymentsTypeOK, Tasks
    <2>6. ASSUME NEW g \in Handlers, Committed(g)'
          PROVE  /\ row'[task'[g].item].status = Verdict(task'[g].op, task'[g].item)
                 /\ notices'[task'[g].item] = <<>>
                 /\ \A f \in Handlers \ {g} : Committed(f)' => task'[f].item # task'[g].item
        <3>1. CASE g = h
            <4>1. \A f \in Handlers \ {h} : Committed(f)' => Committed(f)
                BY <2>5 DEF Committed
            <4> QED
                BY <2>3, <2>4, <2>5, <3>1, <4>1
        <3>2. CASE g # h
            <4>1. Committed(g) /\ task'[g] = task[g]
                BY <2>5, <2>6, <3>2 DEF Committed
            <4>2. task[g].item \in Items /\ task[g].item # x
                BY <1>0, <2>4, <4>1 DEF Committed, PaymentsTypeOK, Tasks
            <4>3. /\ row[task[g].item].status = Verdict(task[g].op, task[g].item)
                  /\ notices[task[g].item] = <<>>
                  /\ \A f \in Handlers \ {g} : Committed(f) => task[f].item # task[g].item
                BY <4>1 DEF CommittedAlone
            <4>4. \A f \in Handlers \ {h} : (Committed(f)' <=> Committed(f)) /\ task'[f] = task[f]
                BY <2>5 DEF Committed
            <4> QED
                BY <2>2, <2>3, <2>5, <4>1, <4>2, <4>3, <4>4
        <3> QED
            BY <3>1, <3>2
    <2> QED
        BY <2>3, <2>4, <2>6 DEF CommittedAlone
<1>3. ASSUME NEW h \in Handlers, AlreadyProcessed(h) \/ Fail(h) PROVE Kept
    <2>1. \A g \in Handlers : Committed(g)' => Committed(g) /\ task'[g] = task[g]
        BY <1>0, <1>3 DEF AlreadyProcessed, Fail, Committed, PaymentsTypeOK
    <2> QED
        BY <1>a, <1>3, <2>1 DEF AlreadyProcessed, Fail
<1>4. ASSUME NEW h \in Handlers, Notify(h) PROVE Kept
    <2> DEFINE x == task[h].item
    <2>1. Committed(h) /\ task[h] \in Tasks /\ x \in Items /\ row' = row /\ credits' = credits
        BY <1>0, <1>4 DEF Notify, Notifies, Committed, PaymentsTypeOK, Tasks
    <2>2. notices[x] = <<>> /\ row[x].status = Verdict(task[h].op, x)
        BY <2>1 DEF CommittedAlone
    <2>3. /\ notices'[x] = <<row[x].status>>
          /\ \A y \in Items \ {x} : notices'[y] = notices[y]
        BY <1>0, <1>4, <2>1, <2>2 DEF Notify, PaymentsTypeOK
    <2>4. row[x].status \in Decided
        BY <2>2 DEF Verdict, Decided
    <2>5. HonestNotices'
        <3>1. ASSUME NEW y \in Items, notices'[y] # <<>>
              PROVE  row'[y].status \in Decided /\ notices'[y] = <<row'[y].status>>
            BY <2>1, <2>3, <2>4, <3>1 DEF HonestNotices
        <3> QED
            BY <3>1 DEF HonestNotices
    <2>6. \A g \in Handlers : Committed(g)' => g # h /\ Committed(g) /\ task'[g] = task[g]
        BY <1>0, <1>4 DEF Notify, Committed, PaymentsTypeOK
    <2>7. CommittedAlone'
        <3>1. ASSUME NEW g \in Handlers, Committed(g)'
              PROVE  /\ row'[task'[g].item].status = Verdict(task'[g].op, task'[g].item)
                     /\ notices'[task'[g].item] = <<>>
                     /\ \A f \in Handlers \ {g} : Committed(f)' => task'[f].item # task'[g].item
            <4>1. g # h /\ Committed(g) /\ task'[g] = task[g]
                BY <2>6, <3>1
            <4>2. task[g].item \in Items /\ task[g].item # x
                BY <1>0, <2>1, <4>1 DEF CommittedAlone, Committed, PaymentsTypeOK, Tasks
            <4>3. /\ row[task[g].item].status = Verdict(task[g].op, task[g].item)
                  /\ notices[task[g].item] = <<>>
                  /\ \A f \in Handlers \ {g} : Committed(f) => task[f].item # task[g].item
                BY <4>1 DEF CommittedAlone
            <4> QED
                BY <2>1, <2>3, <2>6, <4>1, <4>2, <4>3
        <3> QED
            BY <3>1 DEF CommittedAlone
    <2>8. OneLedgerRowPerApproval'
        BY <2>1 DEF OneLedgerRowPerApproval
    <2> QED
        BY <2>5, <2>7, <2>8
<1>5. ASSUME Restart PROVE Kept
    <2>1. \A g \in Handlers : ~Committed(g)'
        BY <1>5 DEF Restart, Committed
    <2> QED
        BY <1>a, <1>5, <2>1 DEF Restart
<1>6. ASSUME NEW y \in Items, row[y].status = "none",
             row'[y].status = "pending", \A z \in Items \ {y} : row'[z] = row[z],
             UNCHANGED <<credits, notices, task>>
      PROVE  Kept
    <2>1. notices[y] = <<>>
        BY <1>6 DEF HonestNotices, Decided
    <2>2. OneLedgerRowPerApproval'
        <3>1. ASSUME NEW d \in Deposits
              PROVE  credits'[d] = IF row'[d].status = "approved" THEN <<row'[d].amount>> ELSE <<>>
            BY <1>6 DEF OneLedgerRowPerApproval, Items
        <3> QED
            BY <3>1 DEF OneLedgerRowPerApproval
    <2>3. HonestNotices'
        <3>1. ASSUME NEW z \in Items, notices'[z] # <<>>
              PROVE  row'[z].status \in Decided /\ notices'[z] = <<row'[z].status>>
            BY <1>6, <2>1, <3>1 DEF HonestNotices
        <3> QED
            BY <3>1 DEF HonestNotices
    <2>4. ASSUME NEW g \in Handlers, Committed(g) PROVE task[g].item \in Items \ {y}
        <3>1. task[g].item \in Items
            BY <1>0, <2>4 DEF Committed, PaymentsTypeOK, Tasks
        <3>2. row[task[g].item].status # "none"
            BY <2>4 DEF CommittedAlone, Verdict
        <3> QED
            BY <1>6, <3>1, <3>2
    <2>5. CommittedAlone'
        BY <1>6, <2>4 DEF CommittedAlone, Committed
    <2> QED
        BY <2>2, <2>3, <2>5
<1>7. ASSUME NEW d \in Deposits, NEW a \in Amounts, BotCreatesDeposit(d, a) PROVE Kept
    BY <1>0, <1>6, <1>7 DEF BotCreatesDeposit, Items, PaymentsTypeOK
<1>8. ASSUME NEW w \in Withdrawals, NEW a \in Amounts, BotCreatesWithdrawal(w, a) PROVE Kept
    BY <1>0, <1>6, <1>8 DEF BotCreatesWithdrawal, Items, PaymentsTypeOK
<1>9. ASSUME NEW op \in Ops, NEW x \in Items, NEW a \in DepositAmounts \cup {0}, BotDecides(op, x, a)
      PROVE  Kept
    <2>1. a \in Nat /\ Pending(x) /\ Apply(op, x, a) /\ UNCHANGED <<notices, task>>
        BY <1>9, AmountsForNat DEF BotDecides
    <2>2. /\ \A y \in Items \ {x} : row'[y] = row[y]
          /\ OneLedgerRowPerApproval'
        BY <1>0, <2>1, ApplyDecides
    <2>3. HonestNotices' /\ \A h \in Handlers : Committed(h) => task[h].item # x
        BY <2>1, DecisionKeepsNotices
    <2>4. \A h \in Handlers : Committed(h) => task[h].item \in Items \ {x}
        BY <1>0, <2>3 DEF Committed, PaymentsTypeOK, Tasks
    <2>5. CommittedAlone'
        BY <2>1, <2>2, <2>4 DEF CommittedAlone, Committed
    <2> QED
        BY <2>2, <2>3, <2>5
<1>10. ASSUME NEW u \in Users, NEW a \in AdjustAmounts, AdjustUserBalance(u, a), UNCHANGED payments
       PROVE  Kept
    BY <1>a, <1>10 DEF payments, Committed
<1>11. ASSUME UNCHANGED paymentsVars PROVE Kept
    BY <1>a, <1>11 DEF paymentsVars, payments, Committed
<1> QED
    <2>1. Kept
        BY <1>1, <1>2, <1>3, <1>4, <1>5, <1>7, <1>8, <1>9, <1>10, <1>11 DEF PaymentsNext
    <2> QED
        BY <1>0, <2>1

-----------------------------------------------------------------------------
(* The theorems. *)

\* The invariant holds in every reachable state.
LEMMA Invariance == PaymentsSpec => []IInv
<1>1. PaymentsInit => IInv
    BY InitIInv
<1>2. IInv /\ [PaymentsNext]_paymentsVars => IInv'
    BY NextIInv
<1> QED
    BY <1>1, <1>2, PTL DEF PaymentsSpec

\* The columns, rows, messages and requests have their types whatever interleaves, so no
\* sequence of holds, debits, approvals and refunds overdraws a user.
THEOREM TypeCorrect == PaymentsSpec => []PaymentsTypeOK
<1>1. IInv => PaymentsTypeOK
    BY DEF IInv
<1> QED
    BY <1>1, Invariance, PTL

\* No race between requests, or with the bot, credits a deposit twice or leaves the ledger
\* without the row of an approval.
THEOREM LedgerCorrect == PaymentsSpec => []OneLedgerRowPerApproval
<1>1. IInv => OneLedgerRowPerApproval
    BY DEF IInv
<1> QED
    BY <1>1, Invariance, PTL

\* The dashboard tells the truth, once.
THEOREM HonestyCorrect == PaymentsSpec => []HonestNotices
<1>1. IInv => HonestNotices
    BY DEF IInv
<1> QED
    BY <1>1, Invariance, PTL

\* No step changes a decided row.
LEMMA StepKeepsDecisions ==
    ASSUME IInv, [PaymentsNext]_paymentsVars
    PROVE  \A x \in Items : row[x].status \in Decided => row'[x] = row[x]
<1> SUFFICES ASSUME NEW x \in Items, row[x].status \in Decided PROVE row'[x] = row[x]
    OBVIOUS
<1> USE DEF IInv
<1>0. PaymentsTypeOK /\ row[x].status \notin {"none", "pending"}
    BY DEF Decided
<1>1. ASSUME NEW h \in Handlers, Commit(h) PROVE row'[x] = row[x]
    <2>1. task[h].op \in Ops /\ task[h].item \in Items /\ task[h].amount \in Nat
        BY <1>1 DEF Commit, PaymentsTypeOK, Tasks
    <2>2. Pending(task[h].item) /\ Apply(task[h].op, task[h].item, task[h].amount)
        BY <1>1 DEF Commit, StillPending
    <2> QED
        BY <1>0, <2>1, <2>2, ApplyDecides DEF Pending
<1>2. ASSUME NEW op \in Ops, NEW y \in Items, NEW a \in DepositAmounts \cup {0}, BotDecides(op, y, a)
      PROVE  row'[x] = row[x]
    BY <1>0, <1>2, ApplyDecides, AmountsForNat DEF BotDecides, Pending
<1>3. ASSUME NEW d \in Deposits, NEW a \in Amounts, BotCreatesDeposit(d, a) PROVE row'[x] = row[x]
    BY <1>0, <1>3 DEF BotCreatesDeposit, PaymentsTypeOK
<1>4. ASSUME NEW w \in Withdrawals, NEW a \in Amounts, BotCreatesWithdrawal(w, a) PROVE row'[x] = row[x]
    BY <1>0, <1>4 DEF BotCreatesWithdrawal, PaymentsTypeOK
<1> QED
    BY <1>1, <1>2, <1>3, <1>4
    DEF PaymentsNext, Begin, AlreadyProcessed, Notify, Fail, Restart, paymentsVars, payments

\* A decision is final for every request that read the row before it.
THEOREM FinalityCorrect == PaymentsSpec => DecisionsFinal
<1>1. IInv /\ [PaymentsNext]_paymentsVars
      => [\A x \in Items : row[x].status \in Decided => row'[x] = row[x]]_paymentsVars
    BY StepKeepsDecisions
<1> QED
    BY <1>1, Invariance, PTL DEF PaymentsSpec, DecisionsFinal

-----------------------------------------------------------------------------
(* The refinement of Settlement. *)

\* The effect of a deposit, and of a withdrawal, read off its row.
LEMMA EffectByKind ==
    /\ \A d \in Deposits : Effect(d) = IF row[d].status = "approved" THEN row[d].amount ELSE 0
    /\ \A w \in Withdrawals :
           Effect(w) = IF row[w].status \in {"pending", "completed"} THEN -row[w].amount ELSE 0
<1>1. ASSUME NEW d \in Deposits
      PROVE  Effect(d) = IF row[d].status = "approved" THEN row[d].amount ELSE 0
    BY PaymentsAssumption DEF Effect
<1>2. ASSUME NEW w \in Withdrawals
      PROVE  Effect(w) = IF row[w].status \in {"pending", "completed"} THEN -row[w].amount ELSE 0
    BY PaymentsAssumption DEF Effect
<1> QED
    BY <1>1, <1>2

\* The same in the next state.
LEMMA EffectByKindNext ==
    /\ \A d \in Deposits : Effect(d)' = IF row'[d].status = "approved" THEN row'[d].amount ELSE 0
    /\ \A w \in Withdrawals :
           Effect(w)' = IF row'[w].status \in {"pending", "completed"} THEN -row'[w].amount ELSE 0
<1>1. ASSUME NEW d \in Deposits
      PROVE  Effect(d)' = IF row'[d].status = "approved" THEN row'[d].amount ELSE 0
    BY PaymentsAssumption DEF Effect
<1>2. ASSUME NEW w \in Withdrawals
      PROVE  Effect(w)' = IF row'[w].status \in {"pending", "completed"} THEN -row'[w].amount ELSE 0
    BY PaymentsAssumption DEF Effect
<1> QED
    BY <1>1, <1>2

\* A step that leaves the row of an item leaves its abstract state and effect.
LEMMA RowGoverns ==
    ASSUME NEW x \in Items, row'[x] = row[x]
    PROVE  State(x)' = State(x) /\ Effect(x)' = Effect(x)
<1>1. State(x)' = State(x)
    BY DEF State
<1>2. Effect(x)' = Effect(x)
    BY EffectByKind, EffectByKindNext DEF Items
<1> QED
    BY <1>1, <1>2

\* A credit, or a debit, of the column an item uses is one of its abstract account.
LEMMA AccountMoves ==
    ASSUME WalletsTypeOK, NEW x \in Items, NEW amount \in Int,
           IF x \in ReferralWithdrawals
           THEN referralBalance' = Credited(referralBalance, Owner[x], amount) /\ balance' = balance
           ELSE balance' = Credited(balance, Owner[x], amount) /\ referralBalance' = referralBalance
    PROVE  /\ accountMap' = [accountMap EXCEPT ![AccountOf[x]] = @ + amount]
           /\ AccountOf[x] \in Accounts
<1> DEFINE k == IF x \in ReferralWithdrawals THEN "referral" ELSE "balance"
<1>1. Owner[x] \in Users /\ AccountOf[x] = <<Owner[x], k>> /\ AccountOf[x] \in Accounts
    BY PaymentsAssumption DEF AccountOf, Accounts
<1>2. ASSUME NEW u \in Users, NEW c \in {"balance", "referral"}
      PROVE  accountMap'[<<u, c>>] = [accountMap EXCEPT ![AccountOf[x]] = @ + amount][<<u, c>>]
    <2>1. <<u, c>> \in Accounts
        BY DEF Accounts
    <2>2. /\ accountMap'[<<u, c>>] = IF c = "referral" THEN referralBalance'[u] ELSE balance'[u]
          /\ accountMap[<<u, c>>] = IF c = "referral" THEN referralBalance[u] ELSE balance[u]
        BY <2>1 DEF accountMap
    <2>3. CASE u = Owner[x] /\ c = k
        <3>1. [accountMap EXCEPT ![AccountOf[x]] = @ + amount][<<u, c>>] = accountMap[<<u, c>>] + amount
            BY <1>1, <2>1, <2>3 DEF accountMap
        <3>2. CASE x \in ReferralWithdrawals
            BY <1>1, <2>2, <2>3, <3>1, <3>2 DEF Credited, WalletsTypeOK
        <3>3. CASE x \notin ReferralWithdrawals
            BY <1>1, <2>2, <2>3, <3>1, <3>3 DEF Credited, WalletsTypeOK
        <3> QED
            BY <3>2, <3>3
    <2>4. CASE ~(u = Owner[x] /\ c = k)
        <3>1. [accountMap EXCEPT ![AccountOf[x]] = @ + amount][<<u, c>>] = accountMap[<<u, c>>]
            BY <1>1, <2>1, <2>4 DEF accountMap
        <3>2. CASE x \in ReferralWithdrawals
            BY <1>1, <2>2, <2>4, <3>1, <3>2 DEF Credited, WalletsTypeOK
        <3>3. CASE x \notin ReferralWithdrawals
            BY <1>1, <2>2, <2>4, <3>1, <3>3 DEF Credited, WalletsTypeOK
        <3> QED
            BY <3>2, <3>3
    <2> QED
        BY <2>3, <2>4
<1>3. ASSUME NEW a \in Accounts
      PROVE  accountMap'[a] = [accountMap EXCEPT ![AccountOf[x]] = @ + amount][a]
    <2>1. PICK u \in Users, c \in {"balance", "referral"} : a = <<u, c>>
        BY DEF Accounts
    <2> QED
        BY <1>2, <2>1
<1> QED
    BY <1>1, <1>3 DEF accountMap

\* A step that moves no money adds nothing to any account.
LEMMA AccountStays ==
    ASSUME WalletsTypeOK, NEW x \in Items, balance' = balance, referralBalance' = referralBalance
    PROVE  /\ accountMap' = [accountMap EXCEPT ![AccountOf[x]] = @ + 0]
           /\ AccountOf[x] \in Accounts
<1>1. AccountOf[x] \in Accounts /\ accountMap' = accountMap
    BY PaymentsAssumption DEF AccountOf, Accounts, accountMap
<1>2. accountMap[AccountOf[x]] \in Nat
    BY <1>1 DEF accountMap, Accounts, WalletsTypeOK
<1>3. accountMap[AccountOf[x]] + 0 = accountMap[AccountOf[x]]
    BY <1>2
<1>4. [accountMap EXCEPT ![AccountOf[x]] = accountMap[AccountOf[x]]] = accountMap
    BY <1>1 DEF accountMap
<1> QED
    BY <1>1, <1>3, <1>4

\* A step that changes the row of one item, and its account by what that changes of its
\* effect, moves the abstract variables as a Move of that item does.
LEMMA MoveImplemented ==
    ASSUME WalletsTypeOK, NEW x \in Items, NEW amount \in Int,
           \A y \in Items \ {x} : row'[y] = row[y],
           effectMap[x] \in Int, effectMap'[x] = effectMap[x] + amount,
           accountMap' = [accountMap EXCEPT ![AccountOf[x]] = @ + amount],
           AccountOf[x] \in Accounts
    PROVE  /\ stateMap' = [stateMap EXCEPT ![x] = stateMap'[x]]
           /\ effectMap' = [effectMap EXCEPT ![x] = effectMap'[x]]
           /\ accountMap' = [accountMap EXCEPT ![AccountOf[x]] = @ + effectMap'[x] - effectMap[x]]
<1>1. stateMap' = [stateMap EXCEPT ![x] = stateMap'[x]]
    <2>1. \A y \in Items \ {x} : State(y)' = State(y)
        BY RowGoverns
    <2>2. \A y \in Items \ {x} : stateMap'[y] = stateMap[y]
        BY <2>1 DEF stateMap
    <2> QED
        BY <2>2 DEF stateMap
<1>2. effectMap' = [effectMap EXCEPT ![x] = effectMap'[x]]
    <2>1. \A y \in Items \ {x} : Effect(y)' = Effect(y)
        BY RowGoverns
    <2>2. \A y \in Items \ {x} : effectMap'[y] = effectMap[y]
        BY <2>1 DEF effectMap
    <2> QED
        BY <2>2 DEF effectMap
<1>3. accountMap' = [accountMap EXCEPT ![AccountOf[x]] = @ + effectMap'[x] - effectMap[x]]
    <2>1. accountMap[AccountOf[x]] \in Int
        BY DEF accountMap, Accounts, WalletsTypeOK
    <2>2. accountMap[AccountOf[x]] + effectMap'[x] - effectMap[x] = accountMap[AccountOf[x]] + amount
        BY <2>1
    <2> QED
        BY <2>2 DEF accountMap
<1> QED
    BY <1>1, <1>2, <1>3

\* What the maps hold of an item.
LEMMA MapsOf ==
    ASSUME NEW x \in Items
    PROVE  /\ stateMap[x] = State(x) /\ stateMap'[x] = State(x)'
           /\ effectMap[x] = Effect(x) /\ effectMap'[x] = Effect(x)'
BY DEF stateMap, effectMap

\* A decision of a pending row settles or refuses its item.
LEMMA DecisionImplemented ==
    ASSUME PaymentsTypeOK, NEW op \in Ops, NEW x \in Items, NEW amount \in Nat,
           Pending(x), Apply(op, x, amount), OneLedgerRowPerApproval
    PROVE  Abstract!Settle(x) \/ Abstract!Refuse(x)
<1> USE PaymentsAssumption DEF PaymentsTypeOK
<1>1. /\ row[x].amount \in Nat
      /\ \A y \in Items \ {x} : row'[y] = row[y]
      /\ stateMap[x] = "open"
    BY ApplyDecides, MapsOf DEF Pending, State
<1>2. CASE op = "approve" /\ x \in Deposits /\ ApplyApproval(x, amount)
    <2>1. effectMap[x] = 0 /\ effectMap'[x] = amount /\ stateMap'[x] = "settled"
        <3>1. row'[x] = [status |-> "approved", amount |-> amount]
            BY <1>2 DEF ApplyApproval
        <3>2. Effect(x) = 0 /\ Effect(x)' = amount
            BY <1>2, <3>1, EffectByKind, EffectByKindNext DEF Pending
        <3>3. State(x)' = "settled"
            BY <3>1 DEF State
        <3> QED
            BY <3>2, <3>3, MapsOf
    <2>2. accountMap' = [accountMap EXCEPT ![AccountOf[x]] = @ + amount] /\ AccountOf[x] \in Accounts
        BY <1>2, AccountMoves DEF ApplyApproval
    <2>3. Abstract!Move(x, "settled")
        <3>1. /\ effectMap[x] \in Int /\ effectMap'[x] = effectMap[x] + amount
              /\ amount \in Int /\ WalletsTypeOK
            BY <1>1, <2>1
        <3>2. /\ stateMap' = [stateMap EXCEPT ![x] = stateMap'[x]]
              /\ effectMap' = [effectMap EXCEPT ![x] = effectMap'[x]]
              /\ accountMap' = [accountMap EXCEPT ![AccountOf[x]] = @ + effectMap'[x] - effectMap[x]]
            BY <3>1, <1>1, <2>2, MoveImplemented
        <3> QED
            BY <3>2, <1>1, <2>1 DEF Abstract!Move
    <2> QED
        BY <1>1, <2>1, <2>3 DEF Abstract!Settle
<1>3. CASE op = "reject" /\ x \in Deposits /\ ApplyDepositRejection(x)
    <2>1. effectMap[x] = 0 /\ effectMap'[x] = 0 /\ stateMap'[x] = "refused"
        <3>1. row'[x].status = "rejected"
            BY <1>3 DEF ApplyDepositRejection, Decide
        <3>2. Effect(x) = 0 /\ Effect(x)' = 0
            BY <1>3, <3>1, EffectByKind, EffectByKindNext DEF Pending
        <3>3. State(x)' = "refused"
            BY <3>1 DEF State
        <3> QED
            BY <3>2, <3>3, MapsOf
    <2>2. accountMap' = [accountMap EXCEPT ![AccountOf[x]] = @ + 0] /\ AccountOf[x] \in Accounts
        BY <1>3, AccountStays DEF ApplyDepositRejection, wallets
    <2>3. Abstract!Move(x, "refused")
        <3>1. /\ effectMap[x] \in Int /\ effectMap'[x] = effectMap[x] + 0
              /\ 0 \in Int /\ WalletsTypeOK
            BY <1>1, <2>1
        <3>2. /\ stateMap' = [stateMap EXCEPT ![x] = stateMap'[x]]
              /\ effectMap' = [effectMap EXCEPT ![x] = effectMap'[x]]
              /\ accountMap' = [accountMap EXCEPT ![AccountOf[x]] = @ + effectMap'[x] - effectMap[x]]
            BY <3>1, <1>1, <2>2, MoveImplemented
        <3> QED
            BY <3>2, <1>1, <2>1 DEF Abstract!Move
    <2> QED
        BY <1>1, <2>1, <2>3 DEF Abstract!Refuse
<1>4. CASE op = "approve" /\ x \in Withdrawals /\ ApplyCompletion(x)
    <2>1. /\ effectMap[x] = -row[x].amount /\ effectMap'[x] = -row[x].amount
          /\ stateMap'[x] = "settled"
        <3>1. row'[x].status = "completed" /\ row'[x].amount = row[x].amount
            BY <1>4 DEF ApplyCompletion, Decide
        <3>2. Effect(x) = -row[x].amount /\ Effect(x)' = -row[x].amount
            BY <1>4, <3>1, EffectByKind, EffectByKindNext DEF Pending
        <3>3. State(x)' = "settled"
            BY <3>1 DEF State
        <3> QED
            BY <3>2, <3>3, MapsOf
    <2>2. accountMap' = [accountMap EXCEPT ![AccountOf[x]] = @ + 0] /\ AccountOf[x] \in Accounts
        BY <1>4, AccountStays DEF ApplyCompletion, wallets
    <2>3. Abstract!Move(x, "settled")
        <3>1. /\ effectMap[x] \in Int /\ effectMap'[x] = effectMap[x] + 0
              /\ 0 \in Int /\ WalletsTypeOK
            BY <1>1, <2>1
        <3>2. /\ stateMap' = [stateMap EXCEPT ![x] = stateMap'[x]]
              /\ effectMap' = [effectMap EXCEPT ![x] = effectMap'[x]]
              /\ accountMap' = [accountMap EXCEPT ![AccountOf[x]] = @ + effectMap'[x] - effectMap[x]]
            BY <3>1, <1>1, <2>2, MoveImplemented
        <3> QED
            BY <3>2, <1>1, <2>1 DEF Abstract!Move
    <2> QED
        BY <1>1, <2>1, <2>3 DEF Abstract!Settle
<1>5. CASE op = "reject" /\ x \in Withdrawals /\ ApplyRefund(x)
    <2>1. /\ effectMap[x] = -row[x].amount /\ effectMap'[x] = 0
          /\ stateMap'[x] = "refused"
        <3>1. row'[x].status = "rejected"
            BY <1>5 DEF ApplyRefund, Decide
        <3>2. Effect(x) = -row[x].amount /\ Effect(x)' = 0
            BY <1>5, <3>1, EffectByKind, EffectByKindNext DEF Pending
        <3>3. State(x)' = "refused"
            BY <3>1 DEF State
        <3> QED
            BY <3>2, <3>3, MapsOf
    <2>2. /\ accountMap' = [accountMap EXCEPT ![AccountOf[x]] = @ + row[x].amount]
          /\ AccountOf[x] \in Accounts
        BY <1>1, <1>5, AccountMoves DEF ApplyRefund, Referral
    <2>3. Abstract!Move(x, "refused")
        <3>1. /\ effectMap[x] \in Int /\ effectMap'[x] = effectMap[x] + row[x].amount
              /\ row[x].amount \in Int /\ WalletsTypeOK
            BY <1>1, <2>1
        <3>2. /\ stateMap' = [stateMap EXCEPT ![x] = stateMap'[x]]
              /\ effectMap' = [effectMap EXCEPT ![x] = effectMap'[x]]
              /\ accountMap' = [accountMap EXCEPT ![AccountOf[x]] = @ + effectMap'[x] - effectMap[x]]
            BY <3>1, <1>1, <2>2, MoveImplemented
        <3> QED
            BY <3>2, <1>1, <2>1 DEF Abstract!Move
    <2> QED
        BY <1>1, <2>1, <2>3 DEF Abstract!Refuse
<1> QED
    BY <1>2, <1>3, <1>4, <1>5 DEF Apply

\* The bot opens items, holding what a withdrawal asks for if the owner has it.
LEMMA OpeningImplemented ==
    ASSUME PaymentsTypeOK, NEW x \in Items, NEW amount \in Amounts,
           \/ x \in Deposits /\ BotCreatesDeposit(x, amount)
           \/ x \in Withdrawals /\ BotCreatesWithdrawal(x, amount)
    PROVE  Abstract!Open(x)
<1> USE PaymentsAssumption DEF PaymentsTypeOK
<1>1. /\ amount \in Nat
      /\ \A y \in Items \ {x} : row'[y] = row[y]
      /\ row[x].status = "none" /\ row'[x] = [status |-> "pending", amount |-> amount]
    BY DEF BotCreatesDeposit, BotCreatesWithdrawal
<1>2. stateMap[x] = "none" /\ stateMap'[x] = "open"
    <2>1. State(x) = "none" /\ State(x)' = "open"
        BY <1>1 DEF State
    <2> QED
        BY <2>1, MapsOf
<1>3. CASE x \in Deposits /\ BotCreatesDeposit(x, amount)
    <2>1. effectMap[x] = 0 /\ effectMap'[x] = 0
        <3>1. Effect(x) = 0 /\ Effect(x)' = 0
            BY <1>1, <1>3, EffectByKind, EffectByKindNext
        <3> QED
            BY <3>1, MapsOf
    <2>2. accountMap' = [accountMap EXCEPT ![AccountOf[x]] = @ + 0] /\ AccountOf[x] \in Accounts
        BY <1>3, AccountStays DEF BotCreatesDeposit, wallets
    <2>3. Abstract!Move(x, "open")
        <3>1. /\ effectMap[x] \in Int /\ effectMap'[x] = effectMap[x] + 0
              /\ 0 \in Int /\ WalletsTypeOK
            BY <1>1, <1>2, <2>1
        <3>2. /\ stateMap' = [stateMap EXCEPT ![x] = stateMap'[x]]
              /\ effectMap' = [effectMap EXCEPT ![x] = effectMap'[x]]
              /\ accountMap' = [accountMap EXCEPT ![AccountOf[x]] = @ + effectMap'[x] - effectMap[x]]
            BY <3>1, <1>1, <2>2, MoveImplemented
        <3> QED
            BY <3>2, <1>1, <1>2, <2>1 DEF Abstract!Move
    <2>4. accountMap'[AccountOf[x]] \in Nat
        BY <1>3, <2>2 DEF BotCreatesDeposit, wallets, accountMap, Accounts, WalletsTypeOK
    <2> QED
        BY <1>2, <2>1, <2>3, <2>4 DEF Abstract!Open
<1>4. CASE x \in Withdrawals /\ BotCreatesWithdrawal(x, amount)
    <2>1. effectMap[x] = 0 /\ effectMap'[x] = -amount
        <3>1. Effect(x) = 0 /\ Effect(x)' = -amount
            <4>1. row'[x].status = "pending" /\ row'[x].amount = amount
                BY <1>1
            <4> QED
                BY <1>1, <1>4, <4>1, EffectByKind, EffectByKindNext
        <3> QED
            BY <3>1, MapsOf
    <2>2. /\ accountMap' = [accountMap EXCEPT ![AccountOf[x]] = @ + (-amount)]
          /\ AccountOf[x] \in Accounts
        BY <1>1, <1>4, AccountMoves DEF BotCreatesWithdrawal, Referral
    <2>3. Abstract!Move(x, "open")
        <3>1. /\ effectMap[x] \in Int /\ effectMap'[x] = effectMap[x] + (-amount)
              /\ (-amount) \in Int /\ WalletsTypeOK
            BY <1>1, <1>2, <2>1
        <3>2. /\ stateMap' = [stateMap EXCEPT ![x] = stateMap'[x]]
              /\ effectMap' = [effectMap EXCEPT ![x] = effectMap'[x]]
              /\ accountMap' = [accountMap EXCEPT ![AccountOf[x]] = @ + effectMap'[x] - effectMap[x]]
            BY <3>1, <1>1, <2>2, MoveImplemented
        <3> QED
            BY <3>2, <1>1, <1>2, <2>1 DEF Abstract!Move
    <2>4. accountMap'[AccountOf[x]] \in Nat
        <3>1. WalletsTypeOK'
            BY <1>4, HoldType
        <3> QED
            BY <2>2, <3>1 DEF accountMap, Accounts, WalletsTypeOK
    <2> QED
        BY <1>1, <1>2, <2>1, <2>3, <2>4 DEF Abstract!Open
<1> QED
    BY <1>3, <1>4

\* A manual adjustment is a movement for another reason.
LEMMA AdjustmentImplemented ==
    ASSUME PaymentsTypeOK, NEW u \in Users, NEW a \in AdjustAmounts,
           AdjustUserBalance(u, a), UNCHANGED payments
    PROVE  \E c \in Accounts : Abstract!OtherMovement(c)
<1> DEFINE c == <<u, "balance">>
<1>1. c \in Accounts /\ WalletsTypeOK /\ WalletsTypeOK'
    BY AdjustType DEF Accounts, PaymentsTypeOK
<1>2. balance' = [balance EXCEPT ![u] = @ + a] /\ referralBalance' = referralBalance
    BY DEF AdjustUserBalance, Credited
<1>3. accountMap' = [accountMap EXCEPT ![c] = accountMap'[c]]
    <2>1. ASSUME NEW v \in Users, NEW k \in {"balance", "referral"}, <<v, k>> # c
          PROVE  accountMap'[<<v, k>>] = accountMap[<<v, k>>]
        <3>1. <<v, k>> \in Accounts
            BY DEF Accounts
        <3>2. /\ accountMap'[<<v, k>>] = IF k = "referral" THEN referralBalance'[v] ELSE balance'[v]
              /\ accountMap[<<v, k>>] = IF k = "referral" THEN referralBalance[v] ELSE balance[v]
            BY <3>1 DEF accountMap
        <3>3. k = "referral" \/ v # u
            BY <2>1
        <3>4. v # u => balance'[v] = balance[v]
            BY <1>1, <1>2 DEF WalletsTypeOK
        <3> QED
            BY <1>2, <3>2, <3>3, <3>4
    <2>2. ASSUME NEW d \in Accounts, d # c PROVE accountMap'[d] = accountMap[d]
        <3>1. PICK v \in Users, k \in {"balance", "referral"} : d = <<v, k>>
            BY DEF Accounts
        <3> QED
            BY <2>1, <2>2, <3>1
    <2> QED
        BY <1>1, <2>2 DEF accountMap
<1>4. accountMap'[c] >= 0
    <2>1. accountMap'[c] \in Nat
        BY <1>1 DEF accountMap, Accounts, WalletsTypeOK
    <2> QED
        BY <2>1
<1>5. stateMap' = stateMap /\ effectMap' = effectMap
    BY RowGoverns DEF payments, stateMap, effectMap
<1> QED
    BY <1>1, <1>3, <1>4, <1>5 DEF Abstract!OtherMovement

\* A step that moves no row and no money is a stuttering step of the abstract specification.
LEMMA StutterImplemented ==
    ASSUME UNCHANGED <<wallets, row>>
    PROVE  UNCHANGED Abstract!vars
<1>1. stateMap' = stateMap /\ effectMap' = effectMap
    BY RowGoverns DEF stateMap, effectMap
<1>2. accountMap' = accountMap
    BY DEF accountMap, wallets
<1> QED
    BY <1>1, <1>2 DEF Abstract!vars

\* Every step is an abstract step or a stutter.
LEMMA StepImplemented ==
    ASSUME IInv, [PaymentsNext]_paymentsVars
    PROVE  [Abstract!Next]_(Abstract!vars)
<1>0. PaymentsTypeOK /\ OneLedgerRowPerApproval
    BY DEF IInv
<1>1. ASSUME NEW h \in Handlers, Commit(h) PROVE Abstract!Next
    <2>1. task[h].op \in Ops /\ task[h].item \in Items /\ task[h].amount \in Nat
        BY <1>0, <1>1 DEF Commit, PaymentsTypeOK, Tasks
    <2>2. Pending(task[h].item) /\ Apply(task[h].op, task[h].item, task[h].amount)
        BY <1>1 DEF Commit, StillPending
    <2> QED
        BY <1>0, <2>1, <2>2, DecisionImplemented DEF Abstract!Next
<1>2. ASSUME NEW op \in Ops, NEW x \in Items, NEW a \in DepositAmounts \cup {0}, BotDecides(op, x, a)
      PROVE  Abstract!Next
    BY <1>0, <1>2, DecisionImplemented, AmountsForNat DEF BotDecides, Abstract!Next
<1>3. ASSUME NEW d \in Deposits, NEW a \in Amounts, BotCreatesDeposit(d, a) PROVE Abstract!Next
    BY <1>0, <1>3, OpeningImplemented DEF Items, Abstract!Next
<1>4. ASSUME NEW w \in Withdrawals, NEW a \in Amounts, BotCreatesWithdrawal(w, a) PROVE Abstract!Next
    BY <1>0, <1>4, OpeningImplemented DEF Items, Abstract!Next
<1>5. ASSUME NEW u \in Users, NEW a \in AdjustAmounts, AdjustUserBalance(u, a), UNCHANGED payments
      PROVE  Abstract!Next
    BY <1>0, <1>5, AdjustmentImplemented DEF Abstract!Next
<1>6. ASSUME \/ \E h \in Handlers, op \in Ops, x \in Items, a \in DepositAmounts \cup {0} :
                    Begin(h, op, x, a)
             \/ \E h \in Handlers : AlreadyProcessed(h) \/ Notify(h) \/ Fail(h)
             \/ Restart
             \/ UNCHANGED paymentsVars
      PROVE  UNCHANGED Abstract!vars
    BY <1>6, StutterImplemented
    DEF Begin, AlreadyProcessed, Notify, Fail, Restart, paymentsVars, payments
<1> QED
    BY <1>1, <1>2, <1>3, <1>4, <1>5, <1>6 DEF PaymentsNext

\* The initial states are abstract initial states.
LEMMA InitImplemented == PaymentsInit => Abstract!Init
<1> SUFFICES ASSUME PaymentsInit PROVE Abstract!Init
    OBVIOUS
<1>1. stateMap = [x \in Items |-> "none"]
    BY DEF PaymentsInit, stateMap, State
<1>2. effectMap = [x \in Items |-> 0]
    <2>1. \A x \in Items : Effect(x) = 0
        BY EffectByKind DEF PaymentsInit, Items
    <2> QED
        BY <2>1 DEF effectMap
<1>3. accountMap \in [Accounts -> Nat]
    BY WalletsAssumption DEF PaymentsInit, WalletsInit, accountMap, Accounts
<1> QED
    BY <1>1, <1>2, <1>3 DEF Abstract!Init

\* Deposits and withdrawals implement Settlement: the reads ahead of the transactions, the
\* lost races, the late messages and the restarts cannot be told from single-step decisions.
THEOREM RefinementCorrect == PaymentsSpec => ImplementsSettlement
<1>1. PaymentsInit => Abstract!Init
    BY InitImplemented
<1>2. IInv /\ [PaymentsNext]_paymentsVars => [Abstract!Next]_(Abstract!vars)
    BY StepImplemented
<1> QED
    BY <1>1, <1>2, Invariance, PTL DEF PaymentsSpec, ImplementsSettlement, Abstract!Spec

-----------------------------------------------------------------------------
(* The books.  The refinement says that a step moves one account by what it   *)
(* moves the effect of one of the account's items; so the money stays the sum *)
(* of the effects, of however many items.                                     *)

BalanceItems(u) == {x \in Items \ ReferralWithdrawals : Owner[x] = u}
ReferralItems(u) == {x \in ReferralWithdrawals : Owner[x] = u}

\* PaymentsBooks with Sum for MapThenSumSet.
BooksSums ==
    \A u \in Users :
        /\ balance[u] = OpeningBalance + NetAdjusted(u) + Sum(effectMap, BalanceItems(u))
        /\ referralBalance[u] = OpeningReferral + Sum(effectMap, ReferralItems(u))

LEMMA FiniteItems ==
    \A u : /\ BalanceItems(u) \subseteq Items /\ ReferralItems(u) \subseteq Items
           /\ IsFiniteSet(BalanceItems(u)) /\ IsFiniteSet(ReferralItems(u))
<1>1. \A u : BalanceItems(u) \subseteq Items /\ ReferralItems(u) \subseteq Items
    BY PaymentsAssumption DEF BalanceItems, ReferralItems, Items
<1> QED
    BY <1>1, PaymentsAssumption, FS_Subset

\* The fold of the property is the sum of the proof.
LEMMA FoldOfEffects ==
    ASSUME NEW S \in SUBSET Items, IsFiniteSet(S)
    PROVE  MapThenSumSet(Effect, S) = Sum(effectMap, S)
<1> DEFINE Fold(t) == t = [s \in SUBSET S |->
                             IF s = {} THEN 0
                             ELSE Effect(CHOOSE x \in s : TRUE) + t[s \ {CHOOSE x \in s : TRUE}]]
<1>1. IsTable(effectMap, S, Table(effectMap, S))
    BY TableExists
<1>2. \A s \in SUBSET S : s # {} => effectMap[Pick(s)] = Effect(Pick(s))
    BY PickIn DEF effectMap
<1>3. \A t : IsTable(effectMap, S, t) <=> Fold(t)
    BY <1>2 DEF IsTable, Pick
<1>4. MapThenSumSet(Effect, S) = (CHOOSE t : Fold(t))[S]
    BY DEF MapThenSumSet, MapThenFoldSet
<1> HIDE DEF Fold
<1>5. Fold(CHOOSE t : Fold(t))
    BY <1>1, <1>3
<1> QED
    BY <1>1, <1>3, <1>4, <1>5, TablesAgree DEF Sum

LEMMA SumsAreBooks == BooksSums => PaymentsBooks
<1> SUFFICES ASSUME BooksSums, NEW u \in Users
             PROVE  /\ balance[u] = OpeningBalance + NetAdjusted(u) + EffectOn(u, Items \ ReferralWithdrawals)
                    /\ referralBalance[u] = OpeningReferral + EffectOn(u, ReferralWithdrawals)
    BY DEF PaymentsBooks
<1>1. EffectOn(u, Items \ ReferralWithdrawals) = Sum(effectMap, BalanceItems(u))
    BY FiniteItems, FoldOfEffects DEF EffectOn, BalanceItems
<1>2. EffectOn(u, ReferralWithdrawals) = Sum(effectMap, ReferralItems(u))
    BY FiniteItems, FoldOfEffects DEF EffectOn, ReferralItems
<1> QED
    BY <1>1, <1>2 DEF BooksSums

LEMMA EffectIsInt ==
    ASSUME PaymentsTypeOK, PaymentsTypeOK'
    PROVE  \A x \in Items : effectMap[x] \in Int /\ effectMap'[x] \in Int
<1>1. ASSUME NEW x \in Items PROVE Effect(x) \in Int /\ Effect(x)' \in Int
    <2>1. row[x].amount \in Nat /\ row'[x].amount \in Nat
        BY DEF PaymentsTypeOK
    <2> QED
        BY <2>1, EffectByKind, EffectByKindNext DEF Items
<1> QED
    BY <1>1, MapsOf

\* The sum over a set that holds x moves by what the effect of x moves, any other stays.
LEMMA EffectsMove ==
    ASSUME \A y \in Items : effectMap[y] \in Int /\ effectMap'[y] \in Int,
           NEW x \in Items, \A y \in Items \ {x} : effectMap'[y] = effectMap[y],
           NEW S \in SUBSET Items, IsFiniteSet(S)
    PROVE  /\ Sum(effectMap, S) \in Int
           /\ Sum(effectMap', S) = Sum(effectMap, S) + IF x \in S THEN effectMap'[x] - effectMap[x] ELSE 0
<1>1. \A y \in S : effectMap[y] \in Int /\ effectMap'[y] \in Int
    OBVIOUS
<1>2. Sum(effectMap, S) \in Int
    BY <1>1, SumIsInt
<1>3. CASE x \in S
    <2>1. \A y \in S \ {x} : effectMap[y] = effectMap'[y]
        OBVIOUS
    <2>2. Sum(effectMap', S) = Sum(effectMap, S) + (effectMap'[x] - effectMap[x])
        BY <1>1, <1>3, <2>1, SumMoves
    <2> QED
        BY <1>2, <1>3, <2>2
<1>4. CASE x \notin S
    <2>1. \A y \in S : effectMap[y] = effectMap'[y]
        BY <1>4
    <2>2. Sum(effectMap', S) = Sum(effectMap, S)
        BY <2>1, SumAgrees
    <2> QED
        BY <1>2, <1>4, <2>2
<1> QED
    BY <1>2, <1>3, <1>4

\* An abstract movement of an item's account and effect keeps the books.
LEMMA MoveKeepsBooks ==
    ASSUME PaymentsTypeOK, PaymentsTypeOK', BooksSums, NEW x \in Items, NEW s,
           Abstract!Move(x, s), adjusted' = adjusted
    PROVE  BooksSums'
<1> DEFINE d == effectMap'[x] - effectMap[x]
<1>1. \A y \in Items : effectMap[y] \in Int /\ effectMap'[y] \in Int
    BY EffectIsInt
<1>2. /\ \A y \in Items \ {x} : effectMap'[y] = effectMap[y]
      /\ accountMap' = [accountMap EXCEPT ![AccountOf[x]] = @ + effectMap'[x] - effectMap[x]]
    <2>1. DOMAIN effectMap = Items
        BY DEF effectMap
    <2> QED
        BY <2>1 DEF Abstract!Move
<1> SUFFICES ASSUME NEW u \in Users
             PROVE  /\ balance'[u] = OpeningBalance + NetAdjusted(u)' + Sum(effectMap', BalanceItems(u))
                    /\ referralBalance'[u] = OpeningReferral + Sum(effectMap', ReferralItems(u))
    BY DEF BooksSums, BalanceItems, ReferralItems
<1>3. /\ Sum(effectMap, BalanceItems(u)) \in Int
      /\ Sum(effectMap', BalanceItems(u))
           = Sum(effectMap, BalanceItems(u)) + IF x \in BalanceItems(u) THEN d ELSE 0
    BY <1>1, <1>2, FiniteItems, EffectsMove
<1>4. /\ Sum(effectMap, ReferralItems(u)) \in Int
      /\ Sum(effectMap', ReferralItems(u))
           = Sum(effectMap, ReferralItems(u)) + IF x \in ReferralItems(u) THEN d ELSE 0
    BY <1>1, <1>2, FiniteItems, EffectsMove
<1>5. d \in Int /\ effectMap[x] \in Int /\ effectMap'[x] \in Int
    BY <1>1
<1>6. /\ balance[u] = OpeningBalance + NetAdjusted(u) + Sum(effectMap, BalanceItems(u))
      /\ referralBalance[u] = OpeningReferral + Sum(effectMap, ReferralItems(u))
      /\ NetAdjusted(u)' = NetAdjusted(u)
    BY DEF BooksSums, NetAdjusted
<1>7. OpeningBalance \in Int /\ OpeningReferral \in Int /\ NetAdjusted(u) \in Int
          /\ balance[u] \in Int /\ referralBalance[u] \in Int
    BY WalletsAssumption DEF PaymentsTypeOK, WalletsTypeOK, NetAdjusted
<1>8. ASSUME NEW k \in {"balance", "referral"}
      PROVE  accountMap'[<<u, k>>] = accountMap[<<u, k>>] + IF AccountOf[x] = <<u, k>> THEN d ELSE 0
    <2>1. <<u, k>> \in Accounts /\ DOMAIN accountMap = Accounts
        BY DEF Accounts, accountMap
    <2>2. accountMap[<<u, k>>] \in Int
        BY <1>7, <2>1 DEF accountMap
    <2> HIDE DEF d
    <2>3. AccountOf[x] = <<u, k>> => accountMap[<<u, k>>] + effectMap'[x] - effectMap[x] = accountMap[<<u, k>>] + d
        BY <1>5, <2>2 DEF d
    <2>4. AccountOf[x] # <<u, k>> => accountMap'[<<u, k>>] = accountMap[<<u, k>>]
        BY <1>2, <2>1
    <2>5. AccountOf[x] = <<u, k>> => accountMap'[<<u, k>>] = accountMap[<<u, k>>] + effectMap'[x] - effectMap[x]
        BY <1>2, <2>1
    <2> QED
        BY <2>2, <2>3, <2>4, <2>5
<1>9. /\ accountMap[<<u, "balance">>] = balance[u] /\ accountMap'[<<u, "balance">>] = balance'[u]
      /\ accountMap[<<u, "referral">>] = referralBalance[u]
      /\ accountMap'[<<u, "referral">>] = referralBalance'[u]
    BY DEF accountMap, Accounts
<1>10. /\ AccountOf[x] = <<u, "balance">> <=> x \in BalanceItems(u)
       /\ AccountOf[x] = <<u, "referral">> <=> x \in ReferralItems(u)
    BY DEF AccountOf, BalanceItems, ReferralItems
<1> HIDE DEF d
<1>11. /\ balance'[u] = balance[u] + IF x \in BalanceItems(u) THEN d ELSE 0
       /\ referralBalance'[u] = referralBalance[u] + IF x \in ReferralItems(u) THEN d ELSE 0
    BY <1>8, <1>9, <1>10
<1> QED
    BY <1>3, <1>4, <1>5, <1>6, <1>7, <1>11

\* A manual adjustment moves a balance by what it books, and no item.
LEMMA AdjustmentKeepsBooks ==
    ASSUME PaymentsTypeOK, BooksSums, NEW v \in Users, NEW a \in AdjustAmounts,
           AdjustUserBalance(v, a), UNCHANGED payments
    PROVE  BooksSums'
<1>1. /\ a \in Int /\ balance' = Credited(balance, v, a) /\ referralBalance' = referralBalance
      /\ adjusted' = IF a > 0 THEN [adjusted EXCEPT ![v].credited = @ + a]
                              ELSE [adjusted EXCEPT ![v].debited = @ - a]
    BY WalletsAssumption DEF AdjustUserBalance
<1>2. effectMap' = effectMap
    BY RowGoverns DEF payments, effectMap
<1> SUFFICES ASSUME NEW u \in Users
             PROVE  /\ balance'[u] = OpeningBalance + NetAdjusted(u)' + Sum(effectMap, BalanceItems(u))
                    /\ referralBalance'[u] = OpeningReferral + Sum(effectMap, ReferralItems(u))
    BY <1>2 DEF BooksSums, BalanceItems, ReferralItems
<1>3. adjusted \in [Users -> [credited: Nat, debited: Nat]] /\ balance \in [Users -> Nat]
    BY DEF PaymentsTypeOK, WalletsTypeOK
<1>4. balance'[u] = balance[u] + IF u = v THEN a ELSE 0
    BY <1>1, <1>3 DEF Credited
<1>5. NetAdjusted(u)' = NetAdjusted(u) + IF u = v THEN a ELSE 0
    <2>1. adjusted[u].credited \in Nat /\ adjusted[u].debited \in Nat
        BY <1>3
    <2>2. CASE a > 0
        <3>1. adjusted' = [adjusted EXCEPT ![v].credited = @ + a]
            BY <1>1, <2>2
        <3>2. adjusted'[u].credited = adjusted[u].credited + IF u = v THEN a ELSE 0
            BY <1>1, <1>3, <2>1, <3>1
        <3>3. adjusted'[u].debited = adjusted[u].debited
            BY <1>3, <3>1
        <3> QED
            BY <1>1, <2>1, <3>2, <3>3 DEF NetAdjusted
    <2>3. CASE ~(a > 0)
        <3>1. adjusted' = [adjusted EXCEPT ![v].debited = @ - a]
            BY <1>1, <2>3
        <3>2. adjusted'[u].debited = adjusted[u].debited - IF u = v THEN a ELSE 0
            BY <1>1, <1>3, <2>1, <3>1
        <3>3. adjusted'[u].credited = adjusted[u].credited
            BY <1>3, <3>1
        <3> QED
            BY <1>1, <2>1, <3>2, <3>3 DEF NetAdjusted
    <2> QED
        BY <2>2, <2>3
<1>6. /\ balance[u] = OpeningBalance + NetAdjusted(u) + Sum(effectMap, BalanceItems(u))
      /\ referralBalance[u] = OpeningReferral + Sum(effectMap, ReferralItems(u))
    BY DEF BooksSums
<1>7. Sum(effectMap, BalanceItems(u)) \in Int
    <2>1. \A x \in Items : effectMap[x] \in Int
        <3>1. PaymentsTypeOK'
            BY AdjustType DEF payments, PaymentsTypeOK
        <3> QED
            BY <3>1, EffectIsInt
    <2>2. \A x \in BalanceItems(u) : effectMap[x] \in Int
        BY <2>1, FiniteItems
    <2> QED
        BY <2>2, FiniteItems, SumIsInt
<1>8. OpeningBalance \in Int /\ NetAdjusted(u) \in Int
    BY <1>3, WalletsAssumption DEF NetAdjusted
<1> QED
    BY <1>1, <1>4, <1>5, <1>6, <1>7, <1>8

\* Every step keeps the books.
LEMMA StepKeepsBooks ==
    ASSUME IInv, BooksSums, [PaymentsNext]_paymentsVars
    PROVE  BooksSums'
<1>0. PaymentsTypeOK /\ PaymentsTypeOK' /\ OneLedgerRowPerApproval
    BY NextTypeOK DEF IInv
<1>a. ASSUME NEW op \in Ops, NEW x \in Items, NEW amount \in Nat, Pending(x), Apply(op, x, amount)
      PROVE  BooksSums'
    <2>1. adjusted' = adjusted
        BY <1>a DEF Apply, ApplyApproval, ApplyDepositRejection, ApplyCompletion, ApplyRefund, wallets
    <2>2. \E s : Abstract!Move(x, s)
        BY <1>0, <1>a, DecisionImplemented DEF Abstract!Settle, Abstract!Refuse
    <2> QED
        BY <1>0, <2>1, <2>2, MoveKeepsBooks
<1>1. ASSUME NEW h \in Handlers, Commit(h) PROVE BooksSums'
    <2>1. task[h].op \in Ops /\ task[h].item \in Items /\ task[h].amount \in Nat
        BY <1>0, <1>1 DEF Commit, PaymentsTypeOK, Tasks
    <2>2. Pending(task[h].item) /\ Apply(task[h].op, task[h].item, task[h].amount)
        BY <1>1 DEF Commit, StillPending
    <2> QED
        BY <1>a, <2>1, <2>2
<1>2. ASSUME NEW op \in Ops, NEW x \in Items, NEW a \in DepositAmounts \cup {0}, BotDecides(op, x, a)
      PROVE  BooksSums'
    BY <1>a, <1>2, AmountsForNat DEF BotDecides
<1>3. ASSUME NEW x \in Items, NEW a \in Amounts,
             \/ x \in Deposits /\ BotCreatesDeposit(x, a)
             \/ x \in Withdrawals /\ BotCreatesWithdrawal(x, a)
      PROVE  BooksSums'
    <2>1. adjusted' = adjusted
        BY <1>3 DEF BotCreatesDeposit, BotCreatesWithdrawal, wallets
    <2>2. Abstract!Move(x, "open")
        BY <1>0, <1>3, OpeningImplemented DEF Abstract!Open
    <2> QED
        BY <1>0, <2>1, <2>2, MoveKeepsBooks
<1>4. ASSUME NEW d \in Deposits, NEW a \in Amounts, BotCreatesDeposit(d, a) PROVE BooksSums'
    BY <1>3, <1>4 DEF Items
<1>5. ASSUME NEW w \in Withdrawals, NEW a \in Amounts, BotCreatesWithdrawal(w, a) PROVE BooksSums'
    BY <1>3, <1>5 DEF Items
<1>6. ASSUME NEW u \in Users, NEW a \in AdjustAmounts, AdjustUserBalance(u, a), UNCHANGED payments
      PROVE  BooksSums'
    BY <1>0, <1>6, AdjustmentKeepsBooks
<1>7. ASSUME UNCHANGED <<wallets, row>> PROVE BooksSums'
    <2>1. effectMap' = effectMap
        BY <1>7, RowGoverns DEF effectMap
    <2> QED
        BY <1>7, <2>1 DEF wallets, BooksSums, NetAdjusted, BalanceItems, ReferralItems
<1>8. ASSUME \/ \E h \in Handlers, op \in Ops, x \in Items, a \in DepositAmounts \cup {0} :
                    Begin(h, op, x, a)
             \/ \E h \in Handlers : AlreadyProcessed(h) \/ Notify(h) \/ Fail(h)
             \/ Restart
             \/ UNCHANGED paymentsVars
      PROVE  BooksSums'
    BY <1>7, <1>8 DEF Begin, AlreadyProcessed, Notify, Fail, Restart, paymentsVars, payments
<1> QED
    BY <1>1, <1>2, <1>4, <1>5, <1>6, <1>8 DEF PaymentsNext

\* Whatever interleaves, each user's two balances are the opening ones, the adjustments and
\* the effects of the user's deposits and withdrawals, however many there are.
THEOREM BooksCorrect == PaymentsSpec => []PaymentsBooks
<1>1. PaymentsInit => BooksSums
    <2> SUFFICES ASSUME PaymentsInit, NEW u \in Users
                 PROVE  /\ balance[u] = OpeningBalance + NetAdjusted(u) + Sum(effectMap, BalanceItems(u))
                        /\ referralBalance[u] = OpeningReferral + Sum(effectMap, ReferralItems(u))
        BY DEF BooksSums
    <2>1. \A x \in Items : effectMap[x] = 0
        BY EffectByKind DEF PaymentsInit, Items, effectMap
    <2>2. Sum(effectMap, BalanceItems(u)) = 0 /\ Sum(effectMap, ReferralItems(u)) = 0
        BY <2>1, FiniteItems, SumOfZeros
    <2>3. balance[u] = OpeningBalance /\ referralBalance[u] = OpeningReferral /\ NetAdjusted(u) = 0
        BY DEF PaymentsInit, WalletsInit, NetAdjusted
    <2> QED
        BY <2>2, <2>3, WalletsAssumption
<1>2. IInv /\ BooksSums /\ [PaymentsNext]_paymentsVars => BooksSums'
    BY StepKeepsBooks
<1> QED
    BY <1>1, <1>2, SumsAreBooks, Invariance, PTL DEF PaymentsSpec

=============================================================================
