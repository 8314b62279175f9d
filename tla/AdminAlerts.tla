---------------------------- MODULE AdminAlerts ----------------------------
(***************************************************************************)
(* The dashboard's own alerts and the administrator's inbox                *)
(* (admin_alerts.py, admin_notifications.py, routers/api_admin_alerts.py,  *)
(* routers/api_admin_notifications.py, notifier.notify_admin_system_alert).*)
(*                                                                         *)
(* A scan runs eight scanners one after another, each over its own reading *)
(* of the tables, then brings the table of alerts in line with what they   *)
(* found, and at last sends the messages.  get_db opens the database in    *)
(* autocommit, so that every statement on the table is a step of its own   *)
(* and stays when a later one fails.  The scan at start, the background    *)
(* loop and the scans administrators ask for overlap.                      *)
(* An alert is identified by its fingerprint, the pair of its type and its *)
(* entity.  Texts, payloads, listing and counting are left out, as are the *)
(* LIMITs of the queries: fewer than 100 rows meet a condition.            *)
(***************************************************************************)
EXTENDS Naturals, Sequences, FiniteSets

CONSTANTS Orders, Withdrawals, Accounts, Services,   \* what the scanners look at
          Requested,   \* scans besides the loop: at start, and asked for by administrators
          MaxEvents    \* bound on the changes of what they look at, the failures and the restarts

ASSUME AlertsAssumption ==
    /\ IsFiniteSet(Orders \union Withdrawals \union Accounts \union Services)
    /\ IsFiniteSet(Requested)
    /\ "loop" \notin Requested /\ MaxEvents \in Nat

VARIABLES
    orders,       \* orders: the status key, and whether it is older than its threshold
    withdrawals,  \* withdrawals: "pending", "old" or "decided"
    balances,     \* what the provider says of each account
    reachable,    \* whether fetch_provider_balance answers at all
    services,     \* smm_services: sold too cheaply, priced too long ago
    alerts,       \* admin_alerts: status and telegram_notified
    scan,         \* per scan: the next scanner, what was found, where the upsert stands
    told,         \* messages made for the administrator's chat, per fingerprint
    unread,       \* admin_notifications: the rows not yet read, per fingerprint
    events        \* changes, failures and restarts so far

world == <<orders, withdrawals, balances, reachable, services>>
alertVars == <<world, alerts, scan, told, unread, events>>

Keys == {"in progress", "submitted", "pending admin", "other"}
Scans == Requested \union {"loop"}
Global == "global"

\* An AlertCandidate, as far as the table tells candidates apart.
Candidates(type, entities) == {<<type, e>> : e \in entities}

-----------------------------------------------------------------------------
(* The scanners, in the order of scan_all_alerts.                          *)

OldOrders(key) == {o \in Orders : orders[o] = [key |-> key, old |-> TRUE]}

\* "submitted" stands for submitted or pending with a provider's number,
\* "pending admin" for that status in the administrators' fulfillment mode.
StuckExecution == Candidates("stuck_execution", OldOrders("in progress"))
StaleSubmitted == Candidates("stale_submitted", OldOrders("submitted"))
OldManual == Candidates("old_manual_order", OldOrders("pending admin"))

\* A deposit's age cannot be known: nothing is found.
OldDeposits == {}

OldWithdrawals == Candidates("old_withdrawal", {w \in Withdrawals : withdrawals[w] = "old"})

\* Mutant: a provider that does not answer counts as one with no balance.
BalanceAssumedZero ==
    Candidates("low_provider_balance",
               IF reachable THEN {a \in Accounts : balances[a] = "low"} ELSE {Global})

\* A failure hides the accounts' own conditions.
ProviderBalance ==
    IF ~reachable THEN Candidates("provider_balance_error", {Global})
    ELSE Candidates("provider_balance_error", {a \in Accounts : balances[a] = "error"})
           \union Candidates("low_provider_balance", {a \in Accounts : balances[a] = "low"})

StalePrices ==
    Candidates("stale_prices", IF \E s \in Services : services[s].stale THEN {Global} ELSE {})

LowMargin == Candidates("low_margin", {s \in Services : services[s].cheap})

Scanners == <<StuckExecution, StaleSubmitted, OldManual, OldDeposits,
              OldWithdrawals, ProviderBalance, StalePrices, LowMargin>>
AllRun == Len(Scanners) + 1

Present == UNION {Scanners[k] : k \in DOMAIN Scanners}

Fingerprints ==
    (UNION {Candidates(t, Orders) : t \in {"stuck_execution", "stale_submitted", "old_manual_order"}})
      \union Candidates("old_withdrawal", Withdrawals)
      \union Candidates("provider_balance_error", Accounts \union {Global})
      \union Candidates("low_provider_balance", Accounts)
      \union Candidates("stale_prices", {Global})
      \union Candidates("low_margin", Services)

\* Critical alerts, and those of a low margin, go to the chat too.
ForTelegram(f) == f[1] \in {"stuck_execution", "low_provider_balance", "low_margin"}

NoAlert == [status |-> "none", notified |-> FALSE]

\* put: found alerts whose INSERT is done; row: the one whose SELECT comes next;
\* flag: the one whose UPDATE comes next; tell: new_for_telegram; sent: the one
\* told of but not yet in the inbox.
NoScan == [at |-> 0, found |-> {}, put |-> {}, row |-> <<>>, flag |-> <<>>,
           tell |-> {}, sent |-> <<>>]

AlertsInit ==
    /\ orders = [o \in Orders |-> [key |-> "in progress", old |-> FALSE]]
    /\ withdrawals = [w \in Withdrawals |-> "pending"]
    /\ balances = [a \in Accounts |-> "enough"]
    /\ reachable = TRUE
    /\ services = [s \in Services |-> [cheap |-> FALSE, stale |-> FALSE]]
    /\ alerts = [f \in Fingerprints |-> NoAlert]
    /\ scan = [p \in Scans |-> NoScan]
    /\ told = [f \in Fingerprints |-> 0]
    /\ unread = [f \in Fingerprints |-> 0]
    /\ events = 0

-----------------------------------------------------------------------------
(* What the scanners look at changes meanwhile.                            *)

Change ==
    /\ events < MaxEvents /\ events' = events + 1
    /\ UNCHANGED <<alerts, scan, told, unread>>

\* A change of status sets status_changed_at.
OrderMoves(o, key) ==
    /\ Change
    /\ key # orders[o].key
    /\ orders' = [orders EXCEPT ![o] = [key |-> key, old |-> FALSE]]
    /\ UNCHANGED <<withdrawals, balances, reachable, services>>

OrderAges(o) ==
    /\ Change
    /\ ~orders[o].old
    /\ orders' = [orders EXCEPT ![o].old = TRUE]
    /\ UNCHANGED <<withdrawals, balances, reachable, services>>

WithdrawalMoves(w) ==
    /\ Change
    /\ withdrawals[w] # "decided"
    /\ \E s \in {"old", "decided"} \ {withdrawals[w]} : withdrawals' = [withdrawals EXCEPT ![w] = s]
    /\ UNCHANGED <<orders, balances, reachable, services>>

ProviderMoves ==
    /\ Change
    /\ \/ \E a \in Accounts : \E b \in {"enough", "low", "error"} \ {balances[a]} :
             balances' = [balances EXCEPT ![a] = b] /\ UNCHANGED reachable
       \/ reachable' = ~reachable /\ UNCHANGED balances
    /\ UNCHANGED <<orders, withdrawals, services>>

ServiceMoves(s) ==
    /\ Change
    /\ \/ services' = [services EXCEPT ![s].cheap = ~@]
       \/ services' = [services EXCEPT ![s].stale = ~@]
    /\ UNCHANGED <<orders, withdrawals, balances, reachable>>

-----------------------------------------------------------------------------
(* scan_all_alerts, by the loop, the bootstrap task or a request.          *)

StartScan(p) ==
    /\ scan[p] = NoScan
    /\ scan' = [scan EXCEPT ![p].at = 1]
    /\ UNCHANGED <<world, alerts, told, unread, events>>

RunScanner(p) ==
    /\ scan[p].at \in DOMAIN Scanners
    /\ scan' = [scan EXCEPT ![p].at = @ + 1, ![p].found = @ \union Scanners[scan[p].at]]
    /\ UNCHANGED <<world, alerts, told, unread, events>>

\* The exception is logged: the scanner contributes nothing.
ScannerFails(p) ==
    /\ scan[p].at \in DOMAIN Scanners /\ events < MaxEvents
    /\ scan' = [scan EXCEPT ![p].at = @ + 1]
    /\ events' = events + 1
    /\ UNCHANGED <<world, alerts, told, unread>>

-----------------------------------------------------------------------------
(* _upsert_candidates, statement by statement.                             *)

\* The INSERT ... ON CONFLICT of a candidate.
PutAlert(p, f) ==
    /\ scan[p].at = AllRun /\ scan[p].row = <<>> /\ scan[p].flag = <<>>
    /\ f \in scan[p].found \ scan[p].put
    /\ alerts' = [alerts EXCEPT ![f].status = IF @ = "dismissed" THEN @ ELSE "open"]
    /\ scan' = [scan EXCEPT ![p].put = @ \union {f},
                            ![p].row = IF ForTelegram(f) THEN f ELSE <<>>]
    /\ UNCHANGED <<world, told, unread, events>>

\* Mutant: every open alert goes to the chat.
IsOpen(f) == alerts[f].status = "open"

\* What the SELECT has to say for a message to be due.
IsNew(f) == alerts[f].status = "open" /\ ~alerts[f].notified

\* The SELECT, which decides nothing for alerts that do not go to the chat.
ReadAlert(p) ==
    /\ scan[p].row # <<>>
    /\ scan' = [scan EXCEPT ![p].row = <<>>,
                            ![p].flag = IF IsNew(scan[p].row) THEN scan[p].row ELSE <<>>]
    /\ UNCHANGED <<world, alerts, told, unread, events>>

\* UPDATE ... SET telegram_notified = 1.
FlagAlert(p) ==
    /\ scan[p].flag # <<>>
    /\ alerts' = [alerts EXCEPT ![scan[p].flag].notified = TRUE]
    /\ scan' = [scan EXCEPT ![p].flag = <<>>, ![p].tell = @ \union {scan[p].flag}]
    /\ UNCHANGED <<world, told, unread, events>>

\* Mutant: without candidates nothing is resolved.
UnseenAmong(found) == {f \in Fingerprints : found # {} /\ alerts[f].status = "open" /\ f \notin found}

Unseen(found) == {f \in Fingerprints : alerts[f].status = "open" /\ f \notin found}

\* The last UPDATE: open alerts that were not found are resolved.
ResolveRest(p) ==
    /\ scan[p].at = AllRun /\ scan[p].row = <<>> /\ scan[p].flag = <<>>
    /\ scan[p].put = scan[p].found
    /\ alerts' = [f \in Fingerprints |->
                     IF f \in Unseen(scan[p].found) THEN [alerts[f] EXCEPT !.status = "resolved"]
                     ELSE alerts[f]]
    /\ scan' = [scan EXCEPT ![p] = [NoScan EXCEPT !.at = AllRun + 1, !.tell = scan[p].tell]]
    /\ UNCHANGED <<world, told, unread, events>>

\* A statement fails and the loop or the endpoint catches: what was written
\* stays, telegram_notified included, and nothing will be told.
UpsertFails(p) ==
    /\ scan[p].at = AllRun /\ events < MaxEvents
    /\ scan' = [scan EXCEPT ![p] = NoScan]
    /\ events' = events + 1
    /\ UNCHANGED <<world, alerts, told, unread>>

-----------------------------------------------------------------------------
(* The messages, one after the other.                                      *)

\* notify_admin_system_alert, which Telegram may refuse to send.
Tell(p, f) ==
    /\ scan[p].at = AllRun + 1
    /\ f \in scan[p].tell /\ scan[p].sent = <<>>
    /\ scan' = [scan EXCEPT ![p].tell = @ \ {f}, ![p].sent = f]
    /\ told' = [told EXCEPT ![f] = @ + 1]
    /\ UNCHANGED <<world, alerts, unread, events>>

\* record_admin_notification, called whether or not it has been sent.
RecordNotice(p) ==
    /\ scan[p].sent # <<>>
    /\ unread' = [unread EXCEPT ![scan[p].sent] = @ + 1]
    /\ scan' = [scan EXCEPT ![p].sent = <<>>]
    /\ UNCHANGED <<world, alerts, told, events>>

\* The scan catches and goes on to the next message.
RecordFails(p) ==
    /\ scan[p].sent # <<>> /\ events < MaxEvents
    /\ scan' = [scan EXCEPT ![p].sent = <<>>]
    /\ events' = events + 1
    /\ UNCHANGED <<world, alerts, told, unread>>

EndScan(p) ==
    /\ scan[p] = [NoScan EXCEPT !.at = AllRun + 1]
    /\ scan' = [scan EXCEPT ![p] = NoScan]
    /\ UNCHANGED <<world, alerts, told, unread, events>>

-----------------------------------------------------------------------------
(* dismiss_alert, mark_notification_read and mark_all_notifications_read.  *)

Dismiss(f) ==
    /\ alerts[f].status = "open"
    /\ alerts' = [alerts EXCEPT ![f].status = "dismissed"]
    /\ UNCHANGED <<world, scan, told, unread, events>>

\* A row that is read stays in the table, where no step looks at it.
MarkRead(f) ==
    /\ unread[f] > 0
    /\ unread' = [unread EXCEPT ![f] = @ - 1]
    /\ UNCHANGED <<world, alerts, scan, told, events>>

MarkAllRead ==
    /\ \E f \in Fingerprints : unread[f] > 0
    /\ unread' = [f \in Fingerprints |-> 0]
    /\ UNCHANGED <<world, alerts, scan, told, events>>

\* The process ends and starts again: scans are lost, the tables are not.
ProcessRestarts ==
    /\ events < MaxEvents
    /\ scan' = [p \in Scans |-> NoScan]
    /\ events' = events + 1
    /\ UNCHANGED <<world, alerts, told, unread>>

AlertsNext ==
    \/ \E o \in Orders : OrderAges(o) \/ \E key \in Keys : OrderMoves(o, key)
    \/ \E w \in Withdrawals : WithdrawalMoves(w)
    \/ ProviderMoves
    \/ \E s \in Services : ServiceMoves(s)
    \/ \E p \in Scans :
          \/ StartScan(p)
          \/ RunScanner(p)
          \/ ScannerFails(p)
          \/ \E f \in scan[p].found : PutAlert(p, f)
          \/ ReadAlert(p)
          \/ FlagAlert(p)
          \/ ResolveRest(p)
          \/ UpsertFails(p)
          \/ \E f \in scan[p].tell : Tell(p, f)
          \/ RecordNotice(p)
          \/ RecordFails(p)
          \/ EndScan(p)
    \/ \E f \in Fingerprints : Dismiss(f) \/ MarkRead(f)
    \/ MarkAllRead
    \/ ProcessRestarts

\* run_alert_scan_loop: it survives every failure, and every request of a scan
\* has a timeout; nothing is assumed of the scans administrators ask for.
AlertsFairness ==
    WF_alertVars(\/ StartScan("loop") \/ RunScanner("loop")
                 \/ (\E f \in scan["loop"].found : PutAlert("loop", f))
                 \/ ReadAlert("loop") \/ FlagAlert("loop") \/ ResolveRest("loop")
                 \/ (\E f \in scan["loop"].tell : Tell("loop", f)) \/ RecordNotice("loop")
                 \/ EndScan("loop"))

AlertsSpec == AlertsInit /\ [][AlertsNext]_alertVars /\ AlertsFairness

-----------------------------------------------------------------------------
\* Types of the table and of the scans; what a scan found, writes or is going
\* to tell is an alert of the table or about to be (admin_alerts.py).
AlertsTypeOK ==
    /\ alerts \in [Fingerprints -> [status : {"none", "open", "dismissed", "resolved"},
                                    notified : BOOLEAN]]
    /\ \A p \in Scans :
          /\ scan[p].at \in 0..(AllRun + 1)
          /\ scan[p].found \union scan[p].tell \subseteq Fingerprints
          /\ scan[p].put \subseteq scan[p].found
          /\ {scan[p].row, scan[p].flag} \subseteq scan[p].put \union {<<>>}
          /\ scan[p].tell # {} => scan[p].at \in {AllRun, AllRun + 1}
    /\ \A f \in Fingerprints : alerts[f].notified => alerts[f].status # "none"
    /\ events \in 0..MaxEvents

\* However often a condition comes back, and whichever scans fail midway, no
\* more messages are made about an alert than scans run at once, and each is of
\* an alert marked as notified: telegram_notified is read and set in two steps,
\* so that only the scans that read it before the first one set it can tell of
\* the alert (_upsert_candidates, notify_admin_system_alert).
ToldOncePerScan ==
    \A f \in Fingerprints :
        LET telling == {p \in Scans : f \in scan[p].tell}
        IN  /\ told[f] + Cardinality(telling) <= Cardinality(Scans)
            /\ telling # {} \/ told[f] > 0 => alerts[f].notified

Settled ==
    \A f \in Fingerprints :
        IF f \in Present THEN alerts[f].status \in {"open", "dismissed"}
        ELSE alerts[f].status # "open"

\* When the conditions stop changing and the scanners stop failing, the table
\* comes to show exactly the conditions there are, except the dismissed ones,
\* whatever stale scans and failures came before (scan_all_alerts).
AlertsFollowConditions == <>[]Settled
=============================================================================
