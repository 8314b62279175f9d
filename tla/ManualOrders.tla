---------------------------- MODULE ManualOrders ----------------------------
(***************************************************************************)
(* Orders fulfilled by an administrator (manual_orders.py and its router), *)
(* on top of the status changes of Orders.                                 *)
(*                                                                         *)
(* Complete and reject check that the order is pending, run the whole of   *)
(* update_order_status, read the order back, obtain the distributor's      *)
(* number for it (submitting it if it has none), store the number and tell *)
(* the customer.  Notify reads, obtains, stores and tells only.  Each part *)
(* is a step that may interleave with, or be cut off from, the others.     *)
(***************************************************************************)
EXTENDS Orders, Sequences, SequencesExt

CONSTANTS
    Submittable,     \* orders with a frozen provider identity (Gen-1), which may be submitted
    MaxSubmissions   \* bound: times one order is submitted

ASSUME ManualAssumption ==
    /\ {"completed", "canceled"} \subseteq NewStatuses
    /\ Submittable \subseteq Orders
    /\ MaxSubmissions \in Nat

VARIABLES
    manual,           \* what each request carries: NoManual or [op, order, step, ref]
    submissions,      \* the distributor's side: how often it accepted the order; the k-th gets number k
    providerOrderId,  \* orders.provider_order_id: 0 or one of those numbers
    processed,        \* history: the operations that committed on each order, in order
    notices           \* history: the messages sent about each order, [op, ref]

manuals == <<manual, submissions, providerOrderId, processed, notices>>
manualVars == <<ordersVars, manuals>>

ManualOps == {"complete", "reject", "notify"}
ManualSteps == {"checked", "updating", "reading", "submitting", "persisting", "notifying"}
NoManual == [step |-> "none"]
StatusOf == [complete |-> "completed", reject |-> "canceled"]

ManualTypeOK ==
    /\ OrdersTypeOK
    /\ manual \in [Editors -> {NoManual} \cup
                              [op: ManualOps, order: AdminOrders, step: ManualSteps, ref: 0 .. MaxSubmissions]]
    /\ submissions \in [Orders -> 0 .. MaxSubmissions]
    /\ \A o \in Orders : providerOrderId[o] \in 0 .. submissions[o]
    /\ processed \in [Orders -> Seq({"complete", "reject"})]
    /\ notices \in [Orders -> SUBSET [op: ManualOps, ref: 1 .. MaxSubmissions]]

ManualInit ==
    /\ OrdersInit
    /\ manual = [h \in Editors |-> NoManual]
    /\ submissions = [o \in Orders |-> 0]
    /\ providerOrderId = [o \in Orders |-> 0]
    /\ processed = [o \in Orders |-> <<>>]
    /\ notices = [o \in Orders |-> {}]

At(h, step) == manual[h].step = step
Goto(h, step) == manual' = [manual EXCEPT ![h].step = step]
Leave(h) == manual' = [manual EXCEPT ![h] = NoManual]

-----------------------------------------------------------------------------
(* The decision. *)

\* _require_pending_manual
RequirePending(h, op, o) ==
    /\ At(h, "none") /\ edit[h] = NoEdit
    /\ Key(order[o].status) = "pending admin"
    /\ manual' = [manual EXCEPT ![h] = [op |-> op, order |-> o, step |-> "checked", ref |-> 0]]
    /\ UNCHANGED <<ordersVars, submissions, providerOrderId, processed, notices>>

\* update_order_status begins with a reading of its own ...
BeginUpdate(h) ==
    /\ At(h, "checked")
    /\ ReadOrder(h, manual[h].order, StatusOf[manual[h].op])
    /\ Goto(h, "updating")
    /\ UNCHANGED <<submissions, providerOrderId, processed, notices>>

\* ... which may find the order refunded, or already in the status asked for: 409.
AlreadyProcessed(h) ==
    /\ At(h, "checked")
    /\ Key(order[manual[h].order].status) \in RefundedKeys \cup {Key(StatusOf[manual[h].op])}
    /\ Leave(h)
    /\ UNCHANGED <<ordersVars, submissions, providerOrderId, processed, notices>>

\* The steps of update_order_status itself: its transaction, refused with 409 or committed,
\* and the commission.
CommitUpdate(h) ==
    /\ CommitStatus(h)
    /\ processed' = IF At(h, "updating")
                    THEN [processed EXCEPT ![manual[h].order] = Append(@, manual[h].op)]
                    ELSE processed
    /\ UNCHANGED <<manual, submissions, providerOrderId, notices>>

RefuseUpdate(h) ==
    /\ RefuseStatus(h)
    /\ Leave(h)
    /\ UNCHANGED <<submissions, providerOrderId, processed, notices>>

PayAfterUpdate(h) ==
    /\ TryPayout(h) \/ SkipPayout(h)
    /\ UNCHANGED manuals

UpdateStep(h) == CommitUpdate(h) \/ RefuseUpdate(h) \/ PayAfterUpdate(h)

\* update_order_status returned status_changed; the order is read back.
Updated(h) ==
    /\ At(h, "updating") /\ edit[h].step = "done"
    /\ edit' = [edit EXCEPT ![h] = NoEdit]
    /\ Goto(h, "reading")
    /\ UNCHANGED <<wallets, order, submissions, providerOrderId, processed, notices>>

-----------------------------------------------------------------------------
(* ensure_provider_order_ref and the message. *)

\* The notify endpoint asks nothing of the order's status.
BeginNotify(h, o) ==
    /\ At(h, "none") /\ edit[h] = NoEdit
    /\ order[o].status # "none"
    /\ manual' = [manual EXCEPT ![h] = [op |-> "notify", order |-> o, step |-> "reading", ref |-> 0]]
    /\ UNCHANGED <<ordersVars, submissions, providerOrderId, processed, notices>>

\* get_manual_order: a stored number is used, an order without one is submitted if it can
\* be, and otherwise the endpoint answers 503.
ReadReference(h) ==
    /\ At(h, "reading")
    /\ LET o == manual[h].order
       IN  \/ providerOrderId[o] # 0
              /\ manual' = [manual EXCEPT ![h].step = "notifying", ![h].ref = providerOrderId[o]]
           \/ providerOrderId[o] = 0 /\ o \in Submittable /\ Goto(h, "submitting")
           \/ providerOrderId[o] = 0 /\ o \notin Submittable /\ Leave(h)
    /\ UNCHANGED <<ordersVars, submissions, providerOrderId, processed, notices>>

Accept(o) ==
    /\ submissions[o] < MaxSubmissions
    /\ submissions' = [submissions EXCEPT ![o] = @ + 1]

Submitted(h) ==
    /\ At(h, "submitting")
    /\ Accept(manual[h].order)
    /\ manual' = [manual EXCEPT ![h].step = "persisting", ![h].ref = submissions'[manual[h].order]]
    /\ UNCHANGED <<ordersVars, providerOrderId, processed, notices>>

\* The distributor refuses, or accepts and its answer is lost: 503 in both cases.
SubmitFails(h) ==
    /\ At(h, "submitting")
    /\ Accept(manual[h].order) \/ UNCHANGED submissions
    /\ Leave(h)
    /\ UNCHANGED <<ordersVars, providerOrderId, processed, notices>>

\* Mutant: the customer is told before the number is stored.
PersistLater(h) ==
    /\ At(h, "persisting")
    /\ Goto(h, "notifying")
    /\ UNCHANGED <<ordersVars, submissions, providerOrderId, processed, notices>>

\* _persist_provider_order_id: an UPDATE with no condition but the id.
Persist(h) ==
    /\ At(h, "persisting")
    /\ providerOrderId' = [providerOrderId EXCEPT ![manual[h].order] = manual[h].ref]
    /\ Goto(h, "notifying")
    /\ UNCHANGED <<ordersVars, submissions, processed, notices>>

\* notify_manual_order_completed / _rejected / _customer_message
Notify(h) ==
    /\ At(h, "notifying")
    /\ notices' = [notices EXCEPT ![manual[h].order] = @ \cup {[op |-> manual[h].op, ref |-> manual[h].ref]}]
    /\ Leave(h)
    /\ UNCHANGED <<ordersVars, submissions, providerOrderId, processed>>

\* A locked database or a cancelled request ends the endpoint wherever it is.
Die(h) ==
    /\ ~At(h, "none")
    /\ Leave(h)
    /\ edit' = [edit EXCEPT ![h] = NoEdit]
    /\ UNCHANGED <<wallets, order, submissions, providerOrderId, processed, notices>>

RestartManual ==
    /\ \E h \in Editors : ~At(h, "none")
    /\ manual' = [h \in Editors |-> NoManual]
    /\ edit' = [h \in Editors |-> NoEdit]
    /\ UNCHANGED <<wallets, order, submissions, providerOrderId, processed, notices>>

ManualStep(h) ==
    \/ \E o \in AdminOrders : \/ \E op \in DOMAIN StatusOf : RequirePending(h, op, o)
                              \/ BeginNotify(h, o)
    \/ BeginUpdate(h) \/ AlreadyProcessed(h) \/ Updated(h)
    \/ ReadReference(h) \/ Submitted(h) \/ SubmitFails(h) \/ Persist(h) \/ Notify(h) \/ Die(h)

\* A plain status change by the same administrator, as in Orders.
PlainStep(h) ==
    /\ At(h, "none")
    /\ (\E o \in Orders, new \in NewStatuses : ReadOrder(h, o, new)) \/ EndEdit(h)
    /\ UNCHANGED manuals

ManualNext ==
    \/ \E h \in Editors : ManualStep(h) \/ UpdateStep(h) \/ PlainStep(h)
    \/ RestartManual
    \/ \E o \in Orders : BotOrders(o) /\ UNCHANGED manuals

ManualSpec == ManualInit /\ [][ManualNext]_manualVars

-----------------------------------------------------------------------------
(* Properties. *)

\* However often and however concurrently an administrator completes an order, or rejects
\* it, each of the two commits at most once on it.
NoDoubleProcessing == \A o \in Orders : IsInjective(processed[o])

\* Nothing commits after a rejection: the order is and stays refunded whole, whatever
\* requests had read it while it was pending.
RejectionIsLast ==
    \A o \in Orders : Contains(processed[o], "reject") =>
        /\ Last(processed[o]) = "reject"
        /\ order[o].status = "canceled"
        /\ order[o].refunded = order[o].amount

\* A customer is told a distributor's number only when the order has one stored, so that
\* the next request about the order does not submit it again.
NoticesAreStored == \A o \in Orders : notices[o] # {} => providerOrderId[o] # 0

\* An order is either completed or rejected, as the answer to the second of two requests
\* says: "the manual order has already been processed or is no longer pending".
ProcessedOnce == \A o \in Orders : Len(processed[o]) <= 1

\* An order that was rejected is not sent to the distributor afterwards: the customer is
\* told "the order could not be executed" and "the amount was returned to your balance".
RejectedNotSubmitted ==
    [][\A o \in Orders : Contains(processed[o], "reject") => submissions'[o] = submissions[o]]_manualVars

=============================================================================
