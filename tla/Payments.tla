------------------------------ MODULE Payments ------------------------------
(***************************************************************************)
(* Deposits and withdrawals (deposits.py, withdrawals.py and their         *)
(* routers) over the shared users table.                                   *)
(*                                                                         *)
(* A request handler reads the row and checks that it is pending OUTSIDE   *)
(* the transaction, awaits, and then decides in one transaction guarded by *)
(* status = 'pending'.  Between the two any other handler, or the bot's    *)
(* own administrator, may decide the same row.  After the commit a third   *)
(* step tells the user.  A step of a handler is an action; what it carries *)
(* across its awaits is its record in task.                                *)
(***************************************************************************)
EXTENDS Wallets, Sequences, FiniteSetsExt

CONSTANTS
    Deposits, Withdrawals,   \* row ids, disjoint
    Handlers,                \* concurrent administrator requests
    Owner,                   \* Owner[x]: the user_id of a deposit or withdrawal row
    ReferralWithdrawals,     \* the rows whose withdrawal_type is 'referral'
    Amounts,                 \* amounts users and administrators choose from
    DepositAmounts           \* those validate_admin_deposit_amount accepts

Items == Deposits \cup Withdrawals

ASSUME PaymentsAssumption ==
    /\ IsFiniteSet(Items)
    /\ Deposits \cap Withdrawals = {}
    /\ Owner \in [Items -> Users]
    /\ ReferralWithdrawals \subseteq Withdrawals
    /\ Amounts \subseteq Nat \ {0}
    /\ DepositAmounts \subseteq Amounts

VARIABLES
    row,       \* deposits and withdrawals: [status, amount]; status "none" before the bot inserts it
    credits,   \* deposit_transactions: the amounts of the rows inserted for each deposit
    notices,   \* history: the messages the dashboard sent about each item
    task       \* what each handler carries: NoTask or [op, item, amount, step]

payments == <<row, credits, notices, task>>
paymentsVars == <<wallets, payments>>

Statuses == {"none", "pending", "approved", "completed", "rejected"}
Decided == {"approved", "completed", "rejected"}
Ops == {"approve", "reject"}
NoTask == [op |-> "none"]
Tasks == [op: Ops, item: Items, amount: Nat, step: {"checked", "committed"}]

PaymentsTypeOK ==
    /\ WalletsTypeOK
    /\ row \in [Items -> [status: Statuses, amount: Nat]]
    /\ credits \in [Deposits -> Seq(Nat)]
    /\ notices \in [Items -> Seq(Decided)]
    /\ task \in [Handlers -> Tasks \cup {NoTask}]

PaymentsInit ==
    /\ WalletsInit
    /\ row = [x \in Items |-> [status |-> "none", amount |-> 0]]
    /\ credits = [d \in Deposits |-> <<>>]
    /\ notices = [x \in Items |-> <<>>]
    /\ task = [h \in Handlers |-> NoTask]

Pending(x) == row[x].status = "pending"
Decide(x, status) == row' = [row EXCEPT ![x].status = status]
Referral(w) == w \in ReferralWithdrawals

-----------------------------------------------------------------------------
(* The effect of each decision on the tables, as one transaction applies it. *)

\* finalize_approved_deposit: stores the amount, credits the owner, adds the ledger row.
ApplyApproval(d, amount) ==
    /\ row' = [row EXCEPT ![d] = [status |-> "approved", amount |-> amount]]
    /\ balance' = Credited(balance, Owner[d], amount)
    /\ credits' = [credits EXCEPT ![d] = Append(@, amount)]
    /\ UNCHANGED <<totalSpent, referralBalance, referralEarned, referralLevel, adjusted>>

\* reject_pending_deposit.
ApplyDepositRejection(d) ==
    /\ Decide(d, "rejected")
    /\ UNCHANGED <<wallets, credits>>

\* approve_withdrawal: no money moves, the amount was held when the bot created the row.
ApplyCompletion(w) ==
    /\ Decide(w, "completed")
    /\ UNCHANGED <<wallets, credits>>

\* Mutant: the refund always goes to users.balance.
ApplyRefundToBalance(w) ==
    /\ Decide(w, "rejected")
    /\ balance' = Credited(balance, Owner[w], row[w].amount)
    /\ UNCHANGED <<referralBalance, totalSpent, referralEarned, referralLevel, adjusted, credits>>

\* reject_withdrawal: the held amount returns to the column it was taken from.
ApplyRefund(w) ==
    /\ Decide(w, "rejected")
    /\ IF Referral(w)
       THEN /\ referralBalance' = Credited(referralBalance, Owner[w], row[w].amount)
            /\ UNCHANGED balance
       ELSE /\ balance' = Credited(balance, Owner[w], row[w].amount)
            /\ UNCHANGED referralBalance
    /\ UNCHANGED <<totalSpent, referralEarned, referralLevel, adjusted, credits>>

Apply(op, x, amount) ==
    \/ op = "approve" /\ x \in Deposits /\ ApplyApproval(x, amount)
    \/ op = "reject" /\ x \in Deposits /\ ApplyDepositRejection(x)
    \/ op = "approve" /\ x \in Withdrawals /\ ApplyCompletion(x)
    \/ op = "reject" /\ x \in Withdrawals /\ ApplyRefund(x)

-----------------------------------------------------------------------------
(* The dashboard's handlers. *)

\* validate_admin_deposit_amount; the other decisions carry no amount of their own.
AmountsFor(op, x) == IF op = "approve" /\ x \in Deposits THEN DepositAmounts ELSE {0}

\* The reads and checks before the transaction; a row that is not pending, or an amount
\* the validation refuses, ends the request with no change (a stuttering step).
Begin(h, op, x, amount) ==
    /\ task[h] = NoTask
    /\ Pending(x)
    /\ amount \in AmountsFor(op, x)
    /\ task' = [task EXCEPT ![h] = [op |-> op, item |-> x, amount |-> amount, step |-> "checked"]]
    /\ UNCHANGED <<wallets, row, credits, notices>>

\* Mutant: the UPDATE trusts the check made before the transaction.
StillPendingAssumed(x) == TRUE

\* AND status = 'pending', in the WHERE clause of all four UPDATEs.
StillPending(x) == Pending(x)

\* The transaction finds the row pending and commits.
Commit(h) ==
    /\ task[h] # NoTask /\ task[h].step = "checked"
    /\ StillPending(task[h].item)
    /\ Apply(task[h].op, task[h].item, task[h].amount)
    /\ task' = [task EXCEPT ![h].step = "committed"]
    /\ UNCHANGED notices

\* rowcount = 0: ...AlreadyProcessedError, answered with 409.
AlreadyProcessed(h) ==
    /\ task[h] # NoTask /\ task[h].step = "checked"
    /\ ~StillPending(task[h].item)
    /\ task' = [task EXCEPT ![h] = NoTask]
    /\ UNCHANGED <<wallets, row, credits, notices>>

\* Mutant: the router tells the user before it looks at the outcome.
NotifiesEarly(h) == task[h] # NoTask

\* The endpoint notifies only after the decision returned without an exception.
Notifies(h) == task[h] # NoTask /\ task[h].step = "committed"

\* What the message of a decision says.
Verdict(op, x) == IF op = "reject" THEN "rejected" ELSE IF x \in Deposits THEN "approved" ELSE "completed"

\* notify_deposit_approved / _rejected, notify_withdrawal_approved / _rejected.
Notify(h) ==
    /\ Notifies(h)
    /\ notices' = [notices EXCEPT ![task[h].item] = Append(@, Verdict(task[h].op, task[h].item))]
    /\ task' = [task EXCEPT ![h] = NoTask]
    /\ UNCHANGED <<wallets, row, credits>>

\* A locked database before the commit, a failed read or a cancelled request after it.
Fail(h) ==
    /\ task[h] # NoTask
    /\ task' = [task EXCEPT ![h] = NoTask]
    /\ UNCHANGED <<wallets, row, credits, notices>>

\* The process restarts: every request in flight is forgotten, the database stays.
Restart ==
    /\ \E h \in Handlers : task[h] # NoTask
    /\ task' = [h \in Handlers |-> NoTask]
    /\ UNCHANGED <<wallets, row, credits, notices>>

-----------------------------------------------------------------------------
(* The bot (external): inserts the rows, holding a withdrawal's amount as it *)
(* does, and decides pending rows itself by the transactions mirrored above. *)

BotCreatesDeposit(d, amount) ==
    /\ row[d].status = "none"
    /\ row' = [row EXCEPT ![d] = [status |-> "pending", amount |-> amount]]
    /\ UNCHANGED <<wallets, credits, notices, task>>

BotCreatesWithdrawal(w, amount) ==
    /\ row[w].status = "none"
    /\ row' = [row EXCEPT ![w] = [status |-> "pending", amount |-> amount]]
    /\ IF Referral(w)
       THEN /\ referralBalance[Owner[w]] >= amount
            /\ referralBalance' = Credited(referralBalance, Owner[w], -amount)
            /\ UNCHANGED balance
       ELSE /\ balance[Owner[w]] >= amount
            /\ balance' = Credited(balance, Owner[w], -amount)
            /\ UNCHANGED referralBalance
    /\ UNCHANGED <<totalSpent, referralEarned, referralLevel, adjusted, credits, notices, task>>

BotDecides(op, x, amount) ==
    /\ Pending(x)
    /\ amount \in AmountsFor(op, x)
    /\ Apply(op, x, amount)
    /\ UNCHANGED <<notices, task>>

PaymentsNext ==
    \/ \E h \in Handlers, op \in Ops, x \in Items, a \in DepositAmounts \cup {0} : Begin(h, op, x, a)
    \/ \E h \in Handlers : Commit(h) \/ AlreadyProcessed(h) \/ Notify(h) \/ Fail(h)
    \/ Restart
    \/ \E d \in Deposits, a \in Amounts : BotCreatesDeposit(d, a)
    \/ \E w \in Withdrawals, a \in Amounts : BotCreatesWithdrawal(w, a)
    \/ \E op \in Ops, x \in Items, a \in DepositAmounts \cup {0} : BotDecides(op, x, a)
    \/ \E u \in Users, a \in AdjustAmounts : AdjustUserBalance(u, a) /\ UNCHANGED payments

PaymentsSpec == PaymentsInit /\ [][PaymentsNext]_paymentsVars

-----------------------------------------------------------------------------
(* Properties. *)

\* What an item has added to its owner's account so far.
Effect(x) ==
    CASE x \in Deposits /\ row[x].status = "approved" -> row[x].amount
      [] x \in Withdrawals /\ row[x].status \in {"pending", "completed"} -> -row[x].amount
      [] OTHER -> 0

EffectOn(u, items) == MapThenSumSet(Effect, {x \in items : Owner[x] = u})

\* Whatever handlers and bot interleave, lose or repeat, each user's two balances are the
\* opening ones, plus the approved deposits and the hand-made adjustments, minus the
\* withdrawals that are pending or paid, each taken from the column of its kind.
PaymentsBooks ==
    \A u \in Users :
        /\ balance[u] = OpeningBalance + NetAdjusted(u) + EffectOn(u, Items \ ReferralWithdrawals)
        /\ referralBalance[u] = OpeningReferral + EffectOn(u, ReferralWithdrawals)

\* A deposit has exactly one deposit_transactions row, of the amount it stores, if it is
\* approved, and none otherwise: neither a double click nor a race with the bot adds one.
OneLedgerRowPerApproval ==
    \A d \in Deposits :
        credits[d] = IF row[d].status = "approved" THEN <<row[d].amount>> ELSE <<>>

\* A row that left 'pending' never changes again, whoever read it while it was pending.
DecisionsFinal ==
    [][\A x \in Items : row[x].status \in Decided => row'[x] = row[x]]_paymentsVars

\* The dashboard tells a user at most once about an item, and what it says is the decision
\* the row holds, although the message is sent after the transaction has ended.
HonestNotices ==
    \A x \in Items :
        notices[x] # <<>> => row[x].status \in Decided /\ notices[x] = <<row[x].status>>

-----------------------------------------------------------------------------
(* The abstract specification this one implements. *)

Accounts == Users \X {"balance", "referral"}
AccountOf == [x \in Items |-> <<Owner[x], IF x \in ReferralWithdrawals THEN "referral" ELSE "balance">>]

State(x) ==
    CASE row[x].status = "none" -> "none"
      [] row[x].status = "pending" -> "open"
      [] row[x].status \in {"approved", "completed"} -> "settled"
      [] row[x].status = "rejected" -> "refused"

stateMap == [x \in Items |-> State(x)]
effectMap == [x \in Items |-> Effect(x)]
accountMap == [a \in Accounts |-> IF a[2] = "referral" THEN referralBalance[a[1]] ELSE balance[a[1]]]

Abstract == INSTANCE Settlement WITH
    state <- stateMap, effect <- effectMap, account <- accountMap

\* Deposits and withdrawals behave as if every item were opened and decided in single
\* steps: the reads ahead of the transactions, the lost races and the restarts are invisible.
ImplementsSettlement == Abstract!Spec

=============================================================================
