------------------------------- MODULE Orders -------------------------------
(***************************************************************************)
(* Order status changes (orders.py): refunds, referral commissions and     *)
(* their reversal, over the shared users table.                            *)
(*                                                                         *)
(* update_order_status reads the order, decides from that reading whether  *)
(* the change is allowed, awaits, applies it in a transaction whose guard  *)
(* looks at the row again but not at all of what was decided, and, for     *)
(* completed and partial, pays the referral commission in a SECOND         *)
(* transaction whose failure is logged and forgotten.  Other handlers and  *)
(* the bot's synchronisation with the providers interleave with each step. *)
(***************************************************************************)
EXTENDS Wallets, FiniteSetsExt

CONSTANTS
    Orders,          \* order ids
    Editors,         \* concurrent status-change requests
    Customer,        \* Customer[o]: the user who placed o
    Referrer,        \* Referrer[u]: users.referred_by, or NoUser
    NoUser,
    LinkOf,          \* LinkOf[o]: the normalized link of the order
    AdminOrders,     \* orders whose fulfillment_mode is 'admin'
    OrderAmounts,    \* prices of orders
    PartialRefunds,  \* what the bot may give back of an order delivered in part
    NewStatuses      \* the statuses an administrator sends, as stored (lower case, no '_')

\* _ORDER_STATUSES_NO_ADMIN_OVERRIDE, and the list every UPDATE guard spells out.
RefundedKeys == {"failed", "canceled", "refunded"}
\* ACTIVE_LINK_ORDER_STATUS_KEYS: the statuses the unique link index covers.
ActiveKeys == {"pending", "pending admin", "submitted", "in progress", "processing"}
Delivered == {"completed", "partial"}
\* "cancelled" stands for every alias normalize_order_status_key knows but SQL does not.
StoredStatuses == RefundedKeys \cup ActiveKeys \cup Delivered \cup {"cancelled"}

ASSUME OrdersAssumption ==
    /\ IsFiniteSet(Orders)
    /\ Customer \in [Orders -> Users]
    /\ NoUser \notin Users
    /\ Referrer \in [Users -> Users \cup {NoUser}]
    /\ DOMAIN LinkOf = Orders
    /\ AdminOrders \subseteq Orders
    /\ OrderAmounts \subseteq Nat \ {0}
    /\ PartialRefunds \subseteq Nat \ {0}
    /\ NewStatuses \subseteq StoredStatuses

VARIABLES
    order,    \* orders: [status, amount, refunded, paidOut, commission]; status "none" before it is placed
    edit      \* what each request carries: NoEdit or [order, new, seen, step]

orders == <<order, edit>>
ordersVars == <<wallets, orders>>

NoEdit == [step |-> "none"]
Edits == [order: Orders, new: NewStatuses, seen: StoredStatuses, step: {"checked", "payout", "done"}]

OrdersTypeOK ==
    /\ WalletsTypeOK
    /\ order \in [Orders -> [status: StoredStatuses \cup {"none"}, amount: Nat, refunded: Nat,
                             paidOut: BOOLEAN, commission: Nat]]
    /\ edit \in [Editors -> Edits \cup {NoEdit}]

OrdersInit ==
    /\ WalletsInit
    /\ order = [o \in Orders |-> [status |-> "none", amount |-> 0, refunded |-> 0,
                                  paidOut |-> FALSE, commission |-> 0]]
    /\ edit = [h \in Editors |-> NoEdit]

\* normalize_order_status_key
Key(status) == IF status = "cancelled" THEN "canceled" ELSE status

\* status NOT IN ('failed', 'canceled', 'refunded'), as SQL evaluates it on the stored text.
SqlRefunded(o) == order[o].status \in RefundedKeys
SqlActive(o) == order[o].status \in ActiveKeys

\* idx_orders_active_normalized_link (external): at most one active order per link.
LinkFree(o) == \A p \in Orders \ {o} : SqlActive(p) => LinkOf[p] # LinkOf[o]

\* _net_spent_amount; refunded never exceeds amount, see RefundedIsWhole.
Held(o) == order[o].amount - order[o].refunded
ReferrerOf(o) == Referrer[Customer[o]]

\* Mutant: the refund ignores what was already given back.
RefundGross(o) == order[o].amount

\* refund_due, from the row as the transaction reads it.
RefundDue(o) == order[o].amount - order[o].refunded

\* Mutant: a missing order is not answered with 404.
FoundUnchecked(o) == TRUE

\* get_order found a row.
Found(o) == order[o].status # "none"

\* _REFERRAL_RATES and _compute_commission: 10, 15, 20 or 25 percent.
Commission(net, level) == (net * 5 * (level + 1)) \div 100

-----------------------------------------------------------------------------
(* The transactions. *)

\* The UPDATE of a status that moves no money.
ApplyStatus(o, status) ==
    /\ order' = [order EXCEPT ![o].status = status]
    /\ UNCHANGED wallets

\* _reverse_referral_payout_in_tx: what it takes back from the referrer's two columns.
ReverseCommission(o) ==
    IF order[o].paidOut /\ ReferrerOf(o) \in Users
    THEN /\ referralBalance' = Floored(referralBalance, ReferrerOf(o), order[o].commission)
         /\ referralEarned' = Floored(referralEarned, ReferrerOf(o), order[o].commission)
    ELSE UNCHANGED <<referralBalance, referralEarned>>

\* _credit_user_order_refund
CreditRefund(o) ==
    /\ balance' = Credited(balance, Customer[o], RefundDue(o))
    /\ totalSpent' = Floored(totalSpent, Customer[o], RefundDue(o))
    /\ UNCHANGED <<referralLevel, adjusted>>

\* Mutant: the commission of a refunded order is not reversed.
ApplyRefundOnly(o, status) ==
    /\ order' = [order EXCEPT ![o] = [@ EXCEPT !.status = status, !.refunded = order[o].amount]]
    /\ CreditRefund(o)
    /\ UNCHANGED <<referralBalance, referralEarned>>

\* The branch for failed, canceled and refunded.
ApplyRefund(o, status) ==
    /\ order' = [order EXCEPT ![o] = [@ EXCEPT !.status = status, !.refunded = order[o].amount,
                                               !.paidOut = FALSE,
                                               !.commission = IF order[o].paidOut THEN 0 ELSE order[o].commission]]
    /\ CreditRefund(o)
    /\ ReverseCommission(o)

\* _try_apply_referral_payout on an eligible order; without a referrer only the flag is set.
ApplyPayout(o) ==
    LET r == ReferrerOf(o)
        c == IF r \in Users THEN Commission(Held(o), referralLevel[r]) ELSE 0
    IN  /\ order' = [order EXCEPT ![o] = [@ EXCEPT !.paidOut = TRUE, !.commission = c]]
        /\ IF r \in Users
           THEN /\ referralBalance' = Credited(referralBalance, r, c)
                /\ referralEarned' = Credited(referralEarned, r, c)
           ELSE UNCHANGED <<referralBalance, referralEarned>>
        /\ UNCHANGED <<balance, totalSpent, referralLevel, adjusted>>

\* Mutant: a commission that was paid is paid again.
PayableAgain(o) == order[o].status \in Delivered

\* The checks of the commission's own transaction.
Payable(o) == ~order[o].paidOut /\ order[o].status \in Delivered

\* Mutant: the branches trust the reading where the UPDATE looks at the row.
CommitsOnReading(o, new, seen) ==
    CASE Key(new) \in RefundedKeys -> seen \notin RefundedKeys
      [] new = "partial" -> seen # "completed" /\ order[o].refunded > 0 /\ seen \notin RefundedKeys
      [] new = "completed" -> seen \notin RefundedKeys \cup {"completed"}
      [] OTHER -> seen \notin RefundedKeys /\ LinkFree(o)

\* Mutant: 'completed' is missing from the list in the UPDATE that completes an order.
CommitsAgain(o, new, seen) ==
    CASE new = "partial" -> seen # "completed" /\ order[o].refunded > 0 /\ ~SqlRefunded(o)
      [] OTHER -> ~SqlRefunded(o) /\ (new \in ActiveKeys => LinkFree(o))

\* Whether update_order_status, which read the status key `seen` before its transaction,
\* commits the change to `new`: each branch's own checks and the guard of its UPDATE.
Commits(o, new, seen) ==
    CASE Key(new) \in RefundedKeys -> ~SqlRefunded(o)
      [] new = "partial" -> seen # "completed" /\ order[o].refunded > 0 /\ ~SqlRefunded(o)
      [] new = "completed" -> ~SqlRefunded(o) /\ order[o].status # "completed"
      [] OTHER -> ~SqlRefunded(o) /\ LinkFree(o)

-----------------------------------------------------------------------------
(* A status-change request. *)

\* The reading before the transaction.  The same key is answered "unchanged", a refunded
\* key is refused; both end the request (a stuttering step).
ReadOrder(h, o, new) ==
    /\ edit[h] = NoEdit
    /\ Found(o)
    /\ Key(order[o].status) \notin RefundedKeys \cup {Key(new)}
    /\ edit' = [edit EXCEPT ![h] = [order |-> o, new |-> new, seen |-> Key(order[o].status),
                                    step |-> "checked"]]
    /\ UNCHANGED <<wallets, order>>

CommitStatus(h) ==
    /\ edit[h] # NoEdit /\ edit[h].step = "checked"
    /\ LET o == edit[h].order  new == edit[h].new
       IN  /\ Commits(o, new, edit[h].seen)
           /\ IF Key(new) \in RefundedKeys THEN ApplyRefund(o, new) ELSE ApplyStatus(o, new)
           /\ edit' = [edit EXCEPT ![h].step = IF new \in Delivered THEN "payout" ELSE "done"]

\* OrderStatusError or IntegrityError: the transaction rolls back.
RefuseStatus(h) ==
    /\ edit[h] # NoEdit /\ edit[h].step = "checked"
    /\ ~Commits(edit[h].order, edit[h].new, edit[h].seen)
    /\ edit' = [edit EXCEPT ![h] = NoEdit]
    /\ UNCHANGED <<wallets, order>>

\* _try_apply_referral_payout after the commit: it pays if the order is still payable.
TryPayout(h) ==
    /\ edit[h] # NoEdit /\ edit[h].step = "payout"
    /\ IF Payable(edit[h].order) THEN ApplyPayout(edit[h].order) ELSE UNCHANGED <<wallets, order>>
    /\ edit' = [edit EXCEPT ![h].step = "done"]

\* Its database error is logged and swallowed: the commission is never paid by the dashboard.
SkipPayout(h) ==
    /\ edit[h] # NoEdit /\ edit[h].step = "payout"
    /\ edit' = [edit EXCEPT ![h].step = "done"]
    /\ UNCHANGED <<wallets, order>>

\* The endpoint answers, or the request dies before that (locked database, cancellation).
EndEdit(h) ==
    /\ edit[h] # NoEdit
    /\ edit' = [edit EXCEPT ![h] = NoEdit]
    /\ UNCHANGED <<wallets, order>>

RestartEditors ==
    /\ \E h \in Editors : edit[h] # NoEdit
    /\ edit' = [h \in Editors |-> NoEdit]
    /\ UNCHANGED <<wallets, order>>

-----------------------------------------------------------------------------
(* The bot (external): it places orders, holding their price, and follows the *)
(* provider with the same transactions as the dashboard, on active orders.    *)

PlacedStatus(o) == IF o \in AdminOrders THEN "pending admin" ELSE "pending"

BotPlacesOrder(o, amount) ==
    /\ order[o].status = "none"
    /\ LinkFree(o)
    /\ balance[Customer[o]] >= amount
    /\ order' = [order EXCEPT ![o] = [@ EXCEPT !.status = PlacedStatus(o), !.amount = amount]]
    /\ balance' = Credited(balance, Customer[o], -amount)
    /\ totalSpent' = Credited(totalSpent, Customer[o], amount)
    /\ UNCHANGED <<referralBalance, referralEarned, referralLevel, adjusted, edit>>

BotProgress(o, status) ==
    /\ SqlActive(o)
    /\ order[o].status # status
    /\ ApplyStatus(o, status)
    /\ UNCHANGED edit

\* Delivered in part: the undelivered share goes back to the customer.
BotPartial(o, back) ==
    /\ SqlActive(o)
    /\ back <= Held(o)
    /\ order' = [order EXCEPT ![o] = [@ EXCEPT !.status = "partial", !.refunded = order[o].refunded + back]]
    /\ balance' = Credited(balance, Customer[o], back)
    /\ totalSpent' = Floored(totalSpent, Customer[o], back)
    /\ UNCHANGED <<referralBalance, referralEarned, referralLevel, adjusted, edit>>

BotRefund(o) ==
    /\ SqlActive(o)
    /\ ApplyRefund(o, "canceled")
    /\ UNCHANGED edit

BotPayout(o) ==
    /\ Payable(o)
    /\ ApplyPayout(o)
    /\ UNCHANGED edit

BotOrders(o) ==
    \/ \E a \in OrderAmounts : BotPlacesOrder(o, a)
    \/ \E s \in {"in progress", "completed"} : BotProgress(o, s)
    \/ \E b \in PartialRefunds : BotPartial(o, b)
    \/ BotRefund(o)
    \/ BotPayout(o)

EditStep(h) ==
    \/ \E o \in Orders, new \in NewStatuses : ReadOrder(h, o, new)
    \/ CommitStatus(h) \/ RefuseStatus(h) \/ TryPayout(h) \/ SkipPayout(h) \/ EndEdit(h)

OrdersNext ==
    \/ \E h \in Editors : EditStep(h)
    \/ RestartEditors
    \/ \E o \in Orders : BotOrders(o)
    \/ \E u \in Users, l \in Levels : ChangeUserReferralLevel(u, l) /\ UNCHANGED orders

OrdersSpec == OrdersInit /\ [][OrdersNext]_ordersVars

-----------------------------------------------------------------------------
(* Properties. *)

\* Every user's balance is the opening one minus what is held by the user's orders, and
\* total_spent counts exactly what is held: no interleaving refunds twice, refunds a stale
\* amount or loses a refund, and the SQL floor under total_spent never has to cut.
OrderBooks ==
    \A u \in Users :
        LET held == MapThenSumSet(Held, {o \in Orders : Customer[o] = u})
        IN  balance[u] = OpeningBalance - held /\ totalSpent[u] = held

\* A referrer has earned exactly the commissions recorded on the orders of the users referred:
\* none is paid twice by the dashboard and the bot, and a reversal takes back what was paid,
\* whatever the referrer's level has become.
ReferralBooks ==
    \A r \in Users :
        LET Recorded(o) == order[o].commission
            earned == MapThenSumSet(Recorded, {o \in Orders : ReferrerOf(o) = r})
        IN  referralEarned[r] = OpeningReferral + earned /\ referralBalance[r] = referralEarned[r]

\* A refunded order, under any spelling, has given everything back and holds no commission.
RefundedIsWhole ==
    \A o \in Orders :
        /\ order[o].refunded <= order[o].amount
        /\ Key(order[o].status) \in RefundedKeys =>
               order[o].refunded = order[o].amount /\ ~order[o].paidOut /\ order[o].commission = 0

\* An order stored as failed, canceled or refunded never changes again, although requests
\* that read it earlier are still under way.
RefundIsFinal ==
    [][\A o \in Orders : SqlRefunded(o) => order'[o] = order[o]]_ordersVars

\* The same for an order refunded under any spelling the program itself reads as refunded:
\* "the status of this order cannot be changed (final status or not allowed)".
RefundedKeyIsFinal ==
    [][\A o \in Orders : Key(order[o].status) \in RefundedKeys => order'[o] = order[o]]_ordersVars

\* A commission, once recorded, is only ever removed, whole, together with a full refund.
CommissionStays ==
    [][\A o \in Orders : order[o].paidOut =>
           \/ order'[o].paidOut /\ order'[o].commission = order[o].commission
           \/ Key(order'[o].status) \in RefundedKeys]_ordersVars

\* Money only moves with the order it belongs to: a step that changes what order o holds
\* changes its customer's balance by exactly the difference, and touches no other order.
MoneyFollowsOrders ==
    [][\A o \in Orders : Held(o)' # Held(o) =>
           /\ balance' = Credited(balance, Customer[o], Held(o) - Held(o)')
           /\ \A p \in Orders \ {o} : order'[p] = order[p]]_ordersVars

=============================================================================
