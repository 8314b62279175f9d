-------------------------- MODULE MessagingProofs --------------------------
(***************************************************************************)
(* Proofs about what the dashboard sends through Telegram: messages to the *)
(* users (Broadcast) and alerts to the administrator (AdminAlerts).  The   *)
(* two share no state.                                                     *)
(*                                                                         *)
(* For Broadcast the argument is in three layers: the types, with what is  *)
(* known of every row, batch and buffer (Typed, RowsKnown); the exclusive  *)
(* kind (KindKept); and, for a job that is in the table, that its counters *)
(* are the number of its tasks that are done and that a message Telegram   *)
(* has answered for is in one of the places a row passes through, unless a *)
(* task has raised (JobCounted, MessagesKept).                             *)
(*                                                                         *)
(* For AdminAlerts it is that the scans that have read an alert as not yet *)
(* notified, together with the messages made about it, never outnumber the *)
(* scans: nothing is said before the alert is marked, and after that no    *)
(* scan joins them (Once).                                                 *)
(***************************************************************************)
EXTENDS Broadcast, AdminAlerts, FiniteSetTheorems, TLAPS

JobRow == [kind: Exclusive \union {None, "private"}, status: Statuses, sent: Nat, failed: Nat]
OrderRow == [autoDelete: BOOLEAN, to: SUBSET Users, ann: Announcements \union {None}]
AnnStates == {None, "active", "stopped", "expired"}

Typed ==
    /\ jobs \in [Jobs -> JobRow]
    /\ exclusive \subseteq Exclusive
    /\ order \in [Jobs -> OrderRow]
    /\ pc \in [Jobs -> [Users -> Places]]
    /\ buffer \in [Jobs -> SUBSET Users]
    /\ writing \in [Jobs -> SUBSET Users]
    /\ rows \subseteq Messages
    /\ work \in [batch: SUBSET Messages, current: Messages \union {<<>>}]
    /\ ann \in [Announcements -> AnnStates]
    /\ launching \subseteq Announcements /\ stopping \subseteq Announcements
    /\ faults \in 0..MaxFaults

-----------------------------------------------------------------------------
(* What the pieces of the actions write. *)

LEMMA ExpiredKeeps ==
    ASSUME NEW table \in [Announcements -> AnnStates] PROVE Expired(table) \subseteq [Announcements -> AnnStates]
  BY DEF Expired, AnnStates

\* create_job adds one running job, and takes only ended jobs out of the table.
LEMMA CreateWrites ==
    ASSUME BroadcastAssumption, Typed, NEW j \in Jobs, NEW r \in Requests,
           NEW a \in Announcements \union {None}, CreateJob(j, r, a)
    PROVE  /\ jobs' \in [Jobs -> JobRow]
           /\ jobs[j].status = None
           /\ jobs'[j].kind = r.kind /\ jobs'[j].status = "running"
           /\ jobs'[j].sent = 0 /\ jobs'[j].failed = 0
           /\ \A k \in Jobs : k # j => jobs'[k] = jobs[k] \/ (Ended(k) /\ jobs'[k] = Gone)
           /\ order' \in [Jobs -> OrderRow]
           /\ order'[j].to = r.to /\ order'[j].autoDelete = r.autoDelete
           /\ \A k \in Jobs : k # j => order'[k] = order[k]
           /\ exclusive' = IF r.kind \in Exclusive THEN {r.kind} ELSE exclusive
           /\ r.kind \in Exclusive => exclusive = {}
           /\ r.kind \in {"mass", "timed", "private"} /\ r.to \subseteq Users /\ r.to # {}
           /\ UNCHANGED <<sendVars, rowVars, work, tried, faults>>
  <1>1. r.kind \in {"mass", "timed", "private"} /\ r.autoDelete \in BOOLEAN /\ r.to \subseteq Users /\ r.to # {}
    BY DEF BroadcastAssumption
  <1>2. PICK stale \in {{}, {k \in Jobs : Ended(k)}} :
            jobs' = [k \in Jobs |->
                       IF k = j THEN [NoJob EXCEPT !.kind = r.kind, !.status = "running"]
                       ELSE IF k \in stale THEN Gone
                       ELSE jobs[k]]
    BY DEF CreateJob
  <1>3. PICK row : row = [NoJob EXCEPT !.kind = r.kind, !.status = "running"]
    OBVIOUS
  <1>4. /\ row \in JobRow /\ Gone \in JobRow
        /\ row.kind = r.kind /\ row.status = "running" /\ row.sent = 0 /\ row.failed = 0
    <2>1. NoJob \in [kind: {None}, status: {None}, sent: {0}, failed: {0}]
      BY DEF NoJob
    <2>2. row \in [kind: {r.kind}, status: {"running"}, sent: {0}, failed: {0}]
      BY <1>3, <2>1
    <2>3. Gone \in [kind: {None}, status: {"gone"}, sent: {0}, failed: {0}]
      BY <2>1 DEF Gone
    <2> QED
      BY <1>1, <2>2, <2>3 DEF JobRow, Exclusive, Statuses
  <1>5. \A k \in stale : Ended(k)
    BY <1>2
  <1>6. jobs' \in [Jobs -> JobRow] /\ jobs'[j] = row
    BY <1>2, <1>3, <1>4 DEF Typed
  <1>7. \A k \in Jobs : k # j => jobs'[k] = jobs[k] \/ (Ended(k) /\ jobs'[k] = Gone)
    BY <1>2, <1>5
  <1>8. jobs[j].status = None /\ UNCHANGED <<sendVars, rowVars, work, tried, faults>>
    BY DEF CreateJob
  <1>9. order' = [order EXCEPT ![j] = [autoDelete |-> r.autoDelete, to |-> r.to, ann |-> a]]
    BY DEF CreateJob
  <1>10. [autoDelete |-> r.autoDelete, to |-> r.to, ann |-> a] \in OrderRow
    BY <1>1 DEF OrderRow
  <1>11. /\ order' \in [Jobs -> OrderRow] /\ order'[j] = [autoDelete |-> r.autoDelete, to |-> r.to, ann |-> a]
         /\ \A k \in Jobs : k # j => order'[k] = order[k]
    BY <1>9, <1>10 DEF Typed
  <1>12. order'[j].to = r.to /\ order'[j].autoDelete = r.autoDelete
    BY <1>11
  <1>13. /\ r.kind \in Exclusive => exclusive = {}
         /\ exclusive' = exclusive \union ({r.kind} \intersect Exclusive)
    BY DEF CreateJob, Busy
  <1>14. exclusive' = IF r.kind \in Exclusive THEN {r.kind} ELSE exclusive
    BY <1>13
  <1> QED
    BY <1>1, <1>4, <1>6, <1>7, <1>8, <1>11, <1>12, <1>13, <1>14

\* complete_job and fail_job, of a job that is running.
LEMMA EndWrites ==
    ASSUME Typed, NEW j \in Jobs, Running(j), NEW status \in {"completed", "failed"}, End(j, status)
    PROVE  /\ jobs' \in [Jobs -> JobRow]
           /\ jobs'[j].status = status /\ jobs'[j].kind = jobs[j].kind
           /\ jobs'[j].sent = jobs[j].sent /\ jobs'[j].failed = jobs[j].failed
           /\ \A k \in Jobs : k # j => jobs'[k] = jobs[k]
           /\ exclusive' = exclusive \ {jobs[j].kind}
  <1>1. jobs' = [jobs EXCEPT ![j].status = status] /\ exclusive' = exclusive \ {jobs[j].kind}
    BY DEF End, Running, None
  <1> QED
    BY <1>1 DEF Typed, JobRow, Statuses

\* update_job_progress counts one more message of a job that is in the table.
LEMMA ProgressWrites ==
    ASSUME Typed, NEW j \in Jobs, NEW ok \in BOOLEAN, Progress(j, ok)
    PROVE  /\ jobs' \in [Jobs -> JobRow]
           /\ jobs'[j].status = jobs[j].status /\ jobs'[j].kind = jobs[j].kind
           /\ jobs[j].status \notin {None, "gone"} =>
                 jobs'[j].sent + jobs'[j].failed = jobs[j].sent + jobs[j].failed + 1
           /\ jobs[j].status \in {None, "gone"} => jobs'[j] = jobs[j]
           /\ \A k \in Jobs : k # j => jobs'[k] = jobs[k]
  <1>0. jobs \in [Jobs -> JobRow]
    BY DEF Typed
  <1>1. CASE jobs[j].status \in {None, "gone"}
    BY <1>1 DEF Progress, Typed
  <1>2. CASE jobs[j].status \notin {None, "gone"} /\ ok
    <2>1. jobs' = [jobs EXCEPT ![j].sent = @ + 1]
      BY <1>2 DEF Progress
    <2>2. jobs' \in [Jobs -> JobRow]
      BY <1>0, <2>1 DEF JobRow
    <2>3. /\ jobs'[j].status = jobs[j].status /\ jobs'[j].kind = jobs[j].kind
          /\ jobs'[j].sent + jobs'[j].failed = jobs[j].sent + jobs[j].failed + 1
          /\ \A k \in Jobs : k # j => jobs'[k] = jobs[k]
      BY <1>0, <2>1 DEF JobRow
    <2> QED
      BY <1>2, <2>2, <2>3
  <1>3. CASE jobs[j].status \notin {None, "gone"} /\ ~ok
    <2>1. jobs' = [jobs EXCEPT ![j].failed = @ + 1]
      BY <1>3 DEF Progress
    <2>2. jobs' \in [Jobs -> JobRow]
      BY <1>0, <2>1 DEF JobRow
    <2>3. /\ jobs'[j].status = jobs[j].status /\ jobs'[j].kind = jobs[j].kind
          /\ jobs'[j].sent + jobs'[j].failed = jobs[j].sent + jobs[j].failed + 1
          /\ \A k \in Jobs : k # j => jobs'[k] = jobs[k]
      BY <1>0, <2>1 DEF JobRow
    <2> QED
      BY <1>3, <2>2, <2>3
  <1> QED
    BY <1>1, <1>2, <1>3

LEMMA AtWrites ==
    ASSUME Typed, NEW j \in Jobs, NEW u \in Users, NEW place \in Places, At(j, u, place)
    PROVE  /\ pc' \in [Jobs -> [Users -> Places]]
           /\ pc'[j][u] = place
           /\ \A k \in Jobs, v \in Users : k # j \/ v # u => pc'[k][v] = pc[k][v]
  BY DEF Typed, At

LEMMA StoreWrites ==
    ASSUME Typed, NEW j \in Jobs, NEW u \in Users, StoreRow(j, u)
    PROVE  /\ rows' \subseteq Messages /\ rows \subseteq rows' /\ noted \subseteq noted'
           /\ rows' \union noted' = rows \union noted \union {<<j, u>>}
  BY DEF Typed, StoreRow, Messages

-----------------------------------------------------------------------------
(* Types. *)

LEMMA InitTyped == ASSUME BroadcastAssumption, BroadcastInit PROVE Typed
  <1>1. NoJob \in JobRow
    BY DEF NoJob, JobRow, Statuses
  <1>2. NoOrder \in OrderRow
    BY DEF NoOrder, OrderRow
  <1>3. Idle \in [batch: SUBSET Messages, current: Messages \union {<<>>}]
    BY DEF Idle
  <1>4. ann \in [Announcements -> AnnStates]
    BY DEF BroadcastInit, AnnStates, None
  <1>5. pc \in [Jobs -> [Users -> Places]]
    BY DEF BroadcastInit, Places
  <1> QED
    BY <1>1, <1>2, <1>3, <1>4, <1>5 DEF BroadcastInit, Typed, BroadcastAssumption

\* The announcements and the requests.
LEMMA RequestsTyped ==
    ASSUME BroadcastAssumption, Typed,
           \/ \E a \in Announcements : \/ PrepareTimed(a) \/ RefuseTimed(a) \/ BeginStop(a) \/ EndStop(a)
                                       \/ \E j \in Jobs, r \in Requests : LaunchTimed(a, j, r)
           \/ ListTimed
           \/ \E j \in Jobs, r \in Requests : RequestJob(j, r)
    PROVE  Typed'
  <1> DEFINE Rest == UNCHANGED <<jobVars, sendVars, rowVars, work, faults>>
  <1>1. ASSUME ann' \in [Announcements -> AnnStates], launching' \subseteq Announcements,
               stopping' \subseteq Announcements, Rest
        PROVE  Typed'
    BY <1>1 DEF Typed, jobVars, sendVars, rowVars
  <1>2. Expired(ann) \subseteq [Announcements -> AnnStates] /\ ann \in [Announcements -> AnnStates]
    BY ExpiredKeeps DEF Typed
  <1>3. launching \subseteq Announcements /\ stopping \subseteq Announcements
    BY DEF Typed
  <1>4. ASSUME NEW a \in Announcements, PrepareTimed(a) PROVE Typed'
    BY <1>1, <1>2, <1>3, <1>4 DEF PrepareTimed, AnnStates
  <1>5. ASSUME NEW a \in Announcements, RefuseTimed(a) PROVE Typed'
    BY <1>1, <1>2, <1>3, <1>5 DEF RefuseTimed
  <1>6. ASSUME NEW a \in Announcements, BeginStop(a) PROVE Typed'
    BY <1>1, <1>2, <1>3, <1>6 DEF BeginStop
  <1>7. ASSUME NEW a \in Announcements, EndStop(a) PROVE Typed'
    <2>1. [ann EXCEPT ![a] = "stopped"] \in [Announcements -> AnnStates]
      BY <1>2 DEF AnnStates
    <2>2. ann' \in [Announcements -> AnnStates]
      BY <1>7, <2>1, ExpiredKeeps DEF EndStop
    <2> QED
      BY <1>1, <1>3, <1>7, <2>2 DEF EndStop
  <1>8. CASE ListTimed
    BY <1>1, <1>2, <1>3, <1>8 DEF ListTimed
  <1>9. ASSUME NEW a \in Announcements, NEW j \in Jobs, NEW r \in Requests, LaunchTimed(a, j, r) PROVE Typed'
    <2>1. CreateJob(j, r, a) /\ ann' \in Expired(ann) /\ launching' = launching \ {a} /\ stopping' = stopping
      BY <1>9 DEF LaunchTimed
    <2>2. /\ jobs' \in [Jobs -> JobRow] /\ order' \in [Jobs -> OrderRow] /\ exclusive' \subseteq Exclusive
          /\ UNCHANGED <<sendVars, rowVars, work, tried, faults>>
      <3>1. a \in Announcements \union {None}
        OBVIOUS
      <3>2. /\ jobs' \in [Jobs -> JobRow] /\ order' \in [Jobs -> OrderRow]
            /\ exclusive' = IF r.kind \in Exclusive THEN {r.kind} ELSE exclusive
            /\ UNCHANGED <<sendVars, rowVars, work, tried, faults>>
        BY <2>1, <3>1, CreateWrites
      <3>3. exclusive \subseteq Exclusive
        BY DEF Typed
      <3> QED
        BY <3>2, <3>3
    <2> QED
      BY <1>2, <1>3, <2>1, <2>2 DEF Typed, sendVars, rowVars
  <1>10. ASSUME NEW j \in Jobs, NEW r \in Requests, RequestJob(j, r) PROVE Typed'
    <2>1. CreateJob(j, r, None) /\ UNCHANGED annVars
      BY <1>10 DEF RequestJob
    <2>2. /\ jobs' \in [Jobs -> JobRow] /\ order' \in [Jobs -> OrderRow] /\ exclusive' \subseteq Exclusive
          /\ UNCHANGED <<sendVars, rowVars, work, tried, faults>>
      <3>1. None \in Announcements \union {None}
        OBVIOUS
      <3>2. /\ jobs' \in [Jobs -> JobRow] /\ order' \in [Jobs -> OrderRow]
            /\ exclusive' = IF r.kind \in Exclusive THEN {r.kind} ELSE exclusive
            /\ UNCHANGED <<sendVars, rowVars, work, tried, faults>>
        BY <2>1, <3>1, CreateWrites
      <3>3. exclusive \subseteq Exclusive
        BY DEF Typed
      <3> QED
        BY <3>2, <3>3
    <2> QED
      BY <2>1, <2>2 DEF Typed, sendVars, rowVars, annVars
  <1> QED
    BY <1>4, <1>5, <1>6, <1>7, <1>8, <1>9, <1>10

\* The tasks of a delivery.
LEMMA TasksTyped ==
    ASSUME BroadcastAssumption, Typed, NEW j \in Jobs, NEW u \in Users,
           \/ Send(j, u) \/ AppendRow(j, u) \/ MaybeFlush(j, u) \/ FlushFails(j, u) \/ Record(j, u)
           \/ \E v \in writing[j] : FlushRow(j, u, v)
    PROVE  Typed'
  <1>1. \A place \in Places : At(j, u, place) => pc' \in [Jobs -> [Users -> Places]]
    BY AtWrites
  <1>2. {"sent", "recorded", "failed", "raised", "appended", "writing", "done"} \subseteq Places
    BY DEF Places
  <1>3. CASE Send(j, u)
    <2>1. pc' \in [Jobs -> [Users -> Places]]
      BY <1>1, <1>2, <1>3 DEF Send
    <2> QED
      BY <1>3, <2>1 DEF Send, Typed, jobVars, rowVars, annVars
  <1>4. CASE AppendRow(j, u)
    <2>1. pc' \in [Jobs -> [Users -> Places]]
      BY <1>1, <1>2, <1>4 DEF AppendRow
    <2>2. buffer' \in [Jobs -> SUBSET Users]
      <3>1. buffer \in [Jobs -> SUBSET Users] /\ buffer[j] \union {u} \in SUBSET Users
        BY DEF Typed
      <3>2. buffer' = [buffer EXCEPT ![j] = buffer[j] \union {u}]
        BY <1>4 DEF AppendRow
      <3> QED
        BY <3>1, <3>2
    <2> QED
      BY <1>4, <2>1, <2>2 DEF AppendRow, Typed, jobVars, rowVars, annVars
  <1>5. CASE MaybeFlush(j, u)
    <2>1. pc' \in [Jobs -> [Users -> Places]]
      BY <1>1, <1>2, <1>5 DEF MaybeFlush
    <2>2. buffer' \in [Jobs -> SUBSET Users] /\ writing' \in [Jobs -> SUBSET Users]
      <3>1. buffer \in [Jobs -> SUBSET Users] /\ writing \in [Jobs -> SUBSET Users]
        BY DEF Typed
      <3>2. \/ UNCHANGED <<buffer, writing>>
            \/ writing' = [writing EXCEPT ![j] = buffer[j]] /\ buffer' = [buffer EXCEPT ![j] = {}]
        BY <1>5 DEF MaybeFlush
      <3> QED
        BY <3>1, <3>2
    <2> QED
      BY <1>5, <2>1, <2>2 DEF MaybeFlush, Typed, jobVars, rowVars, annVars
  <1>6. ASSUME NEW v \in writing[j], FlushRow(j, u, v) PROVE Typed'
    <2>1. pc' \in [Jobs -> [Users -> Places]]
      BY <1>1, <1>2, <1>6 DEF FlushRow
    <2>2. writing \in [Jobs -> SUBSET Users] /\ v \in Users
      BY DEF Typed
    <2>3. writing' = [writing EXCEPT ![j] = writing[j] \ {v}]
      BY <1>6 DEF FlushRow
    <2>4. writing' \in [Jobs -> SUBSET Users]
      BY <2>2, <2>3
    <2>5. rows' \subseteq Messages
      BY <1>6, <2>2, StoreWrites DEF FlushRow
    <2> QED
      BY <1>6, <2>1, <2>4, <2>5 DEF FlushRow, Typed, jobVars, annVars
  <1>7. CASE FlushFails(j, u)
    <2>1. pc' \in [Jobs -> [Users -> Places]]
      BY <1>1, <1>2, <1>7 DEF FlushFails
    <2>2. writing' \in [Jobs -> SUBSET Users]
      BY <1>7 DEF FlushFails, Typed
    <2>3. faults' \in 0..MaxFaults
      BY <1>7 DEF FlushFails, Typed, BroadcastAssumption
    <2> QED
      BY <1>7, <2>1, <2>2, <2>3 DEF FlushFails, Typed, jobVars, rowVars, annVars
  <1>8. CASE Record(j, u)
    <2>1. pc' \in [Jobs -> [Users -> Places]]
      BY <1>1, <1>2, <1>8 DEF Record
    <2>2. jobs' \in [Jobs -> JobRow]
      BY <1>8, ProgressWrites DEF Record
    <2> QED
      BY <1>8, <2>1, <2>2 DEF Record, Typed, rowVars, annVars
  <1> QED
    BY <1>3, <1>4, <1>5, <1>6, <1>7, <1>8

\* The runner of a job.
LEMMA RunnerTyped ==
    ASSUME BroadcastAssumption, Typed, NEW j \in Jobs,
           \/ StartDelivery(j) \/ Complete(j) \/ RunnerFails(j) \/ DeliveryFails(j) \/ LastRowsFail(j)
           \/ \E u \in Users : LastRow(j, u)
    PROVE  Typed'
  <1>1. buffer[j] \subseteq Users /\ [buffer EXCEPT ![j] = {}] \in [Jobs -> SUBSET Users]
    BY DEF Typed
  <1>2. ann \in [Announcements -> AnnStates] /\ Expired(ann) \subseteq [Announcements -> AnnStates]
    BY ExpiredKeeps DEF Typed
  <1>3. ASSUME NEW status \in {"completed", "failed"}, Running(j), End(j, status)
        PROVE  jobs' \in [Jobs -> JobRow] /\ exclusive' \subseteq Exclusive
    BY <1>3, EndWrites DEF Typed
  <1>4. CASE StartDelivery(j)
    <2>1. pc' \in [Jobs -> [Users -> Places]]
      <3>1. [u \in Users |-> IF u \in order[j].to THEN "waiting" ELSE "out"] \in [Users -> Places]
        BY DEF Places
      <3> QED
        BY <1>4, <3>1 DEF StartDelivery, Typed
    <2> QED
      BY <1>4, <2>1 DEF StartDelivery, Typed, jobVars, rowVars, annVars
  <1>5. CASE Complete(j)
    <2>1. jobs' \in [Jobs -> JobRow] /\ exclusive' \subseteq Exclusive
      BY <1>3, <1>5 DEF Complete
    <2>2. ann' \in [Announcements -> AnnStates]
      BY <1>2, <1>5 DEF Complete
    <2> QED
      BY <1>5, <2>1, <2>2 DEF Complete, Typed, sendVars, rowVars
  <1>6. CASE RunnerFails(j)
    <2>1. jobs' \in [Jobs -> JobRow] /\ exclusive' \subseteq Exclusive
      BY <1>3, <1>6 DEF RunnerFails
    <2>2. faults' \in 0..MaxFaults
      BY <1>6 DEF RunnerFails, Typed, BroadcastAssumption
    <2>3. buffer' \in [Jobs -> SUBSET Users]
      BY <1>1, <1>6 DEF RunnerFails
    <2> QED
      BY <1>6, <2>1, <2>2, <2>3 DEF RunnerFails, Typed, rowVars, annVars
  <1>7. CASE DeliveryFails(j)
    <2>1. jobs' \in [Jobs -> JobRow] /\ exclusive' \subseteq Exclusive
      BY <1>3, <1>7 DEF DeliveryFails
    <2>2. pc' \in [Jobs -> [Users -> Places]]
      <3>1. [u \in Users |-> IF pc[j][u] = "waiting" THEN "raised" ELSE pc[j][u]] \in [Users -> Places]
        BY DEF Places, Typed
      <3> QED
        BY <1>7, <3>1 DEF DeliveryFails, Typed
    <2> QED
      BY <1>7, <2>1, <2>2 DEF DeliveryFails, Typed, rowVars, annVars
  <1>8. CASE LastRowsFail(j)
    <2>1. faults' \in 0..MaxFaults
      BY <1>8 DEF LastRowsFail, Typed, BroadcastAssumption
    <2>2. buffer' \in [Jobs -> SUBSET Users]
      BY <1>1, <1>8 DEF LastRowsFail
    <2> QED
      BY <1>8, <2>1, <2>2 DEF LastRowsFail, Typed, jobVars, rowVars, annVars
  <1>9. ASSUME NEW u \in Users, LastRow(j, u) PROVE Typed'
    <2>1. rows' \subseteq Messages
      BY <1>9, StoreWrites DEF LastRow
    <2>2. buffer' = [buffer EXCEPT ![j] = buffer[j] \ {u}]
      BY <1>9 DEF LastRow
    <2>3. buffer' \in [Jobs -> SUBSET Users]
      BY <2>2 DEF Typed
    <2> QED
      BY <1>9, <2>1, <2>3 DEF LastRow, Typed, jobVars, annVars
  <1> QED
    BY <1>4, <1>5, <1>6, <1>7, <1>8, <1>9

\* The deletion worker, and a restart.
LEMMA WorkerTyped ==
    ASSUME BroadcastAssumption, Typed,
           Fetch \/ (\E m \in work.batch : Attempt(m)) \/ Remove \/ WorkerFails \/ Restart
    PROVE  Typed'
  <1> DEFINE Works == [batch: SUBSET Messages, current: Messages \union {<<>>}]
  <1>0. work \in Works /\ Idle \in Works
    BY DEF Typed, Idle
  <1>1. CASE Fetch
    <2>1. PICK batch \in SUBSET rows : work' = [Idle EXCEPT !.batch = batch]
      BY <1>1 DEF Fetch
    <2>2. batch \subseteq Messages
      BY DEF Typed
    <2>3. work' \in Works
      BY <1>0, <2>1, <2>2
    <2> QED
      BY <1>1, <2>3 DEF Fetch, Typed, jobVars, sendVars, rowVars, annVars
  <1>2. ASSUME NEW m \in work.batch, Attempt(m) PROVE Typed'
    <2>1. work' \in Works
      BY <1>0, <1>2 DEF Attempt
    <2> QED
      BY <1>2, <2>1 DEF Attempt, Typed, jobVars, sendVars, rowVars, annVars
  <1>3. CASE Remove
    <2>1. work' \in Works
      BY <1>0, <1>3 DEF Remove
    <2> QED
      BY <1>3, <2>1 DEF Remove, Typed, jobVars, sendVars, annVars
  <1>4. CASE WorkerFails
    <2>1. faults' \in 0..MaxFaults
      BY <1>4 DEF WorkerFails, Typed, BroadcastAssumption
    <2> QED
      BY <1>0, <1>4, <2>1 DEF WorkerFails, Typed, jobVars, sendVars, rowVars, annVars
  <1>5. CASE Restart
    <2>1. faults' \in 0..MaxFaults
      BY <1>5 DEF Restart, Typed, BroadcastAssumption
    <2>2. NoJob \in [kind: {None}, status: {None}, sent: {0}, failed: {0}]
      BY DEF NoJob
    <2>3. Gone \in JobRow
      BY <2>2 DEF Gone, JobRow, Statuses
    <2>4. jobs' \in [Jobs -> JobRow]
      BY <1>5, <2>3 DEF Restart, Typed
    <2>5. NoOrder \in OrderRow
      BY DEF NoOrder, OrderRow
    <2>6. order' \in [Jobs -> OrderRow] /\ pc' \in [Jobs -> [Users -> Places]]
      BY <1>5, <2>5 DEF Restart, Places
    <2> QED
      BY <1>0, <1>5, <2>1, <2>4, <2>6 DEF Restart, Typed, rowVars
  <1> QED
    BY <1>1, <1>2, <1>3, <1>4, <1>5

LEMMA NextTyped == ASSUME BroadcastAssumption, Typed, [BroadcastNext]_vars PROVE Typed'
  <1>1. CASE UNCHANGED vars
    BY <1>1 DEF vars, jobVars, sendVars, rowVars, annVars, Typed
  <1> QED
    BY <1>1, RequestsTyped, TasksTyped, RunnerTyped, WorkerTyped DEF BroadcastNext

-----------------------------------------------------------------------------
(* The exclusive kind. *)

\* j is the job that stands in the way of others.
Holder(j) == Running(j) /\ jobs[j].kind \in Exclusive

\* OneExclusiveJob, job by job.
KindKept ==
    /\ \A j \in Jobs : Holder(j) => exclusive = {jobs[j].kind}
    /\ exclusive # {} => \E j \in Jobs : Holder(j)
    /\ \A j, k \in Jobs : Holder(j) /\ Holder(k) => j = k

\* What each step does to the table of jobs.
JobsMove ==
    \/ UNCHANGED <<jobs, exclusive>>
    \/ \E j \in Jobs, r \in Requests, a \in Announcements \union {None} : CreateJob(j, r, a)
    \/ \E j \in Jobs, status \in {"completed", "failed"} : Running(j) /\ End(j, status)
    \/ \E j \in Jobs, ok \in BOOLEAN : Progress(j, ok) /\ UNCHANGED exclusive
    \/ Restart

LEMMA NextMovesJobs == ASSUME [BroadcastNext]_vars PROVE JobsMove
  <1>1. ASSUME NEW a \in Announcements, NEW j \in Jobs, NEW r \in Requests, LaunchTimed(a, j, r) PROVE JobsMove
    BY <1>1 DEF LaunchTimed, JobsMove
  <1>2. ASSUME NEW j \in Jobs, NEW r \in Requests, RequestJob(j, r) PROVE JobsMove
    <2>1. CreateJob(j, r, None) /\ None \in Announcements \union {None}
      BY <1>2 DEF RequestJob
    <2> QED
      BY <2>1 DEF JobsMove
  <1>3. ASSUME NEW j \in Jobs, Complete(j) \/ RunnerFails(j) \/ DeliveryFails(j) PROVE JobsMove
    BY <1>3 DEF Complete, RunnerFails, DeliveryFails, JobsMove
  <1>4. ASSUME NEW j \in Jobs, NEW u \in Users, Record(j, u) PROVE JobsMove
    BY <1>4 DEF Record, JobsMove
  <1>5. CASE \/ UNCHANGED vars
             \/ ListTimed \/ Fetch \/ Remove \/ WorkerFails
             \/ \E m \in work.batch : Attempt(m)
             \/ \E a \in Announcements : PrepareTimed(a) \/ RefuseTimed(a) \/ BeginStop(a) \/ EndStop(a)
             \/ \E j \in Jobs : \/ StartDelivery(j) \/ LastRowsFail(j)
                                \/ \E u \in Users : \/ Send(j, u) \/ AppendRow(j, u) \/ MaybeFlush(j, u)
                                                    \/ FlushFails(j, u) \/ LastRow(j, u)
                                                    \/ \E v \in writing[j] : FlushRow(j, u, v)
    <2>1. UNCHANGED <<jobs, exclusive>>
      BY <1>5 DEF vars, jobVars, ListTimed, Fetch, Remove, WorkerFails, Attempt, PrepareTimed, RefuseTimed, BeginStop,
                  EndStop, StartDelivery, LastRowsFail, LastRow, Send, AppendRow, MaybeFlush, FlushRow, FlushFails
    <2> QED
      BY <2>1 DEF JobsMove
  <1>6. CASE Restart
    BY <1>6 DEF JobsMove
  <1> QED
    BY <1>1, <1>2, <1>3, <1>4, <1>5, <1>6 DEF BroadcastNext

LEMMA NextKindKept ==
    ASSUME BroadcastAssumption, Typed, KindKept, [BroadcastNext]_vars PROVE KindKept'
  <1> USE DEF KindKept, Holder, Running
  <1>1. CASE UNCHANGED <<jobs, exclusive>>
    BY <1>1
  <1>2. ASSUME NEW j \in Jobs, NEW r \in Requests, NEW a \in Announcements \union {None}, CreateJob(j, r, a)
        PROVE  KindKept'
    <2>1. /\ jobs[j].status = None
          /\ jobs'[j].kind = r.kind /\ jobs'[j].status = "running"
          /\ \A k \in Jobs : k # j => jobs'[k] = jobs[k] \/ (Ended(k) /\ jobs'[k] = Gone)
          /\ exclusive' = IF r.kind \in Exclusive THEN {r.kind} ELSE exclusive
          /\ r.kind \in Exclusive => exclusive = {}
      BY <1>2, CreateWrites
    <2>2. Gone.status = "gone" /\ None # "running"
      <3>1. NoJob \in [kind: {None}, status: {None}, sent: {0}, failed: {0}]
        BY DEF NoJob
      <3> QED
        BY <3>1 DEF Gone, None
    <2>3. \A k \in Jobs : k # j => /\ Holder(k)' <=> Holder(k)
                                   /\ Holder(k) => jobs'[k].kind = jobs[k].kind
      BY <2>1, <2>2 DEF Ended
    <2>4. CASE r.kind \in Exclusive
      <3>1. \A k \in Jobs : ~Holder(k)
        BY <2>1, <2>4
      <3>2. Holder(j)' /\ \A k \in Jobs : Holder(k)' => k = j
        BY <2>1, <2>3, <2>4, <3>1
      <3> QED
        BY <2>1, <2>4, <3>2
    <2>5. CASE r.kind \notin Exclusive
      <3>1. ~Holder(j)' /\ ~Holder(j)
        BY <2>1, <2>2, <2>5
      <3> QED
        BY <2>1, <2>3, <2>5, <3>1
    <2> QED
      BY <2>4, <2>5
  <1>3. ASSUME NEW j \in Jobs, NEW status \in {"completed", "failed"}, Running(j), End(j, status)
        PROVE  KindKept'
    <2>1. /\ jobs'[j].status = status
          /\ \A k \in Jobs : k # j => jobs'[k] = jobs[k]
          /\ exclusive' = exclusive \ {jobs[j].kind}
      BY <1>3, EndWrites
    <2>2. exclusive \subseteq Exclusive
      BY DEF Typed
    <2>3. ~Holder(j)'
      BY <2>1
    <2>4. CASE Holder(j)
      BY <2>1, <2>3, <2>4
    <2>5. CASE ~Holder(j)
      <3>1. exclusive' = exclusive
        BY <1>3, <2>1, <2>2, <2>5
      <3> QED
        BY <2>1, <2>3, <2>5, <3>1
    <2> QED
      BY <2>4, <2>5
  <1>4. ASSUME NEW j \in Jobs, NEW ok \in BOOLEAN, Progress(j, ok), UNCHANGED exclusive PROVE KindKept'
    <2>1. \A k \in Jobs : jobs'[k].status = jobs[k].status /\ jobs'[k].kind = jobs[k].kind
      BY <1>4, ProgressWrites
    <2> QED
      BY <1>4, <2>1
  <1>5. CASE Restart
    <2>1. NoJob \in [kind: {None}, status: {None}, sent: {0}, failed: {0}]
      BY DEF NoJob
    <2>2. Gone.status = "gone" /\ None # "running"
      BY <2>1 DEF Gone, None
    <2> QED
      BY <1>5, <2>2 DEF Restart
  <1> QED
    BY <1>1, <1>2, <1>3, <1>4, <1>5, NextMovesJobs DEF JobsMove

LEMMA KindKeptIsExclusive == ASSUME KindKept, Typed PROVE OneExclusiveJob
  <1> DEFINE holders == {j \in Jobs : Running(j) /\ jobs[j].kind \in Exclusive}
  <1>1. \A j \in Jobs : j \in holders <=> Holder(j)
    BY DEF Holder
  <1>2. CASE holders = {}
    <2>1. exclusive = {}
      BY <1>1, <1>2 DEF KindKept
    <2>2. Cardinality(holders) = 0
      BY <1>2, FS_EmptySet
    <2> QED
      BY <1>2, <2>1, <2>2 DEF OneExclusiveJob
  <1>3. CASE holders # {}
    <2>1. PICK j \in Jobs : j \in holders
      BY <1>3
    <2>2. holders = {j}
      BY <1>1, <2>1 DEF KindKept
    <2>3. Cardinality(holders) = 1
      BY <2>2, FS_Singleton
    <2>4. exclusive = {jobs[j].kind}
      BY <1>1, <2>1 DEF KindKept
    <2>5. {jobs[k].kind : k \in holders} = {jobs[j].kind}
      BY <2>2
    <2> HIDE DEF holders
    <2>6. Cardinality(holders) <= 1 /\ exclusive = {jobs[k].kind : k \in holders}
      BY <2>3, <2>4, <2>5
    <2> QED
      BY <2>6 DEF OneExclusiveJob, holders
  <1> QED
    BY <1>2, <1>3

KindInv == Typed /\ KindKept

\* Whatever jobs are asked for, fail, complete or are purged, and however often the process
\* restarts, at most one mass or timed job runs, and the kind that create_job looks at is set
\* exactly while it does (broadcast_jobs.py).
THEOREM OneExclusiveJobRuns == BroadcastSpec => []OneExclusiveJob
  <1>1. BroadcastInit => KindInv
    <2>1. ASSUME BroadcastInit, NEW j \in Jobs PROVE ~Holder(j)
      <3>1. jobs[j].status = None
        BY <2>1 DEF BroadcastInit, NoJob
      <3> QED
        BY <3>1 DEF Holder, Running, None
    <2>2. BroadcastInit => KindKept
      BY <2>1 DEF BroadcastInit, KindKept
    <2> QED
      BY <2>2, InitTyped, BroadcastAssumption DEF KindInv
  <1>2. KindInv /\ [BroadcastNext]_vars => KindInv'
    BY NextTyped, NextKindKept, BroadcastAssumption DEF KindInv
  <1>3. KindInv => OneExclusiveJob
    BY KindKeptIsExclusive DEF KindInv
  <1> QED
    BY <1>1, <1>2, <1>3, PTL DEF BroadcastSpec

-----------------------------------------------------------------------------
(* Counters and rows. *)

\* Rows and batches hold messages Telegram has answered for; the worker's batch is in the table.
RowsKnown ==
    /\ rows \union noted \subseteq acked
    /\ work.batch \subseteq rows
    /\ work.current # <<>> => work.current \in tried
    /\ \A j \in Jobs : \A u \in buffer[j] \union writing[j] : <<j, u>> \in acked
    /\ \A j \in Jobs, u \in Users : pc[j][u] = "sent" => <<j, u>> \in acked

Done(j) == {u \in Users : pc[j][u] = "done"}
InTable(j) == jobs[j].status \notin {None, "gone"}

\* The counters of a job are the number of its tasks that are done, and its tasks those of
\* its recipients.
JobCounted(j) ==
    /\ jobs[j].sent + jobs[j].failed = IF InTable(j) THEN Cardinality(Done(j)) ELSE 0
    /\ jobs[j].status = None => \A u \in Users : pc[j][u] = "out" /\ <<j, u>> \notin acked
    /\ InTable(j) =>
          /\ order[j].to # {}
          /\ AllOut(j) \/ \A u \in Users : pc[j][u] = "out" <=> u \notin order[j].to
    /\ jobs[j].status = "completed" => AllDone(j) /\ buffer[j] = {}
    /\ writing[j] # {} => \E u \in Users : pc[j][u] = "writing"

\* Where a message that was sent may be, as long as no task of its job has raised.
Kept(j, u) ==
    \/ pc[j][u] = "sent"
    \/ u \in buffer[j] \union writing[j]
    \/ <<j, u>> \in rows \union tried \union noted
    \/ \E v \in Users : pc[j][v] = "raised"

MessagesKept(j) ==
    jobs[j].status \in {"running", "completed"} /\ (order[j].autoDelete \/ faults = 0) =>
        \A u \in Users : <<j, u>> \in acked => Kept(j, u)

DeliveryInv ==
    /\ Typed
    /\ RowsKnown
    /\ \A j \in Jobs : JobCounted(j) /\ MessagesKept(j)

LEMMA InitDeliveryInv == ASSUME BroadcastAssumption, BroadcastInit PROVE DeliveryInv
  <1>1. NoJob.status = None /\ NoJob.sent = 0 /\ NoJob.failed = 0
    BY DEF NoJob
  <1>2. RowsKnown
    BY DEF BroadcastInit, RowsKnown, Idle
  <1>3. ASSUME NEW j \in Jobs PROVE JobCounted(j) /\ MessagesKept(j)
    <2>1. /\ jobs[j].status = None /\ jobs[j].sent = 0 /\ jobs[j].failed = 0
          /\ \A u \in Users : pc[j][u] = "out"
          /\ acked = {} /\ writing[j] = {}
      BY <1>1 DEF BroadcastInit
    <2>2. JobCounted(j)
      BY <2>1 DEF JobCounted, InTable, None
    <2>3. MessagesKept(j)
      BY <2>1 DEF MessagesKept
    <2> QED
      BY <2>2, <2>3
  <1> QED
    BY <1>2, <1>3, InitTyped DEF DeliveryInv

-----------------------------------------------------------------------------
(* Rows. *)

\* The steps that write neither rows, batches nor what was sent.
LEMMA RowsStay ==
    ASSUME RowsKnown, UNCHANGED <<sendVars, rowVars, work, tried>> PROVE RowsKnown'
  BY DEF RowsKnown, sendVars, rowVars

\* The places of tasks change, none of them to "sent".
LEMMA RowsStayPlaces ==
    ASSUME RowsKnown, UNCHANGED <<rowVars, work, tried, acked>>,
           \A j \in Jobs : buffer'[j] \union writing'[j] \subseteq buffer[j] \union writing[j],
           \A j \in Jobs, u \in Users : pc'[j][u] = "sent" => pc[j][u] = "sent"
    PROVE  RowsKnown'
  BY DEF RowsKnown, rowVars

\* A row of a batch or buffer is written, or some are given up.
LEMMA RowsStored ==
    ASSUME Typed, RowsKnown, UNCHANGED <<work, tried, acked>>, NEW j \in Jobs,
           NEW v \in Users, v \in buffer[j] \union writing[j],
           StoreRow(j, v),
           \A k \in Jobs : buffer'[k] \union writing'[k] \subseteq buffer[k] \union writing[k],
           \A k \in Jobs, u \in Users : pc'[k][u] = "sent" => pc[k][u] = "sent"
    PROVE  RowsKnown'
  <1>1. rows' \union noted' = rows \union noted \union {<<j, v>>} /\ rows \subseteq rows'
    BY StoreWrites
  <1>2. <<j, v>> \in acked
    BY DEF RowsKnown
  <1>3. rows' \union noted' \subseteq acked'
    BY <1>1, <1>2 DEF RowsKnown
  <1>4. work'.batch \subseteq rows' /\ (work'.current # <<>> => work'.current \in tried')
    BY <1>1 DEF RowsKnown
  <1> QED
    BY <1>3, <1>4 DEF RowsKnown

LEMMA TasksRows ==
    ASSUME Typed, RowsKnown, NEW j \in Jobs, NEW u \in Users,
           \/ Send(j, u) \/ AppendRow(j, u) \/ MaybeFlush(j, u) \/ FlushFails(j, u) \/ Record(j, u)
           \/ \E v \in writing[j] : FlushRow(j, u, v)
    PROVE  RowsKnown'
  <1>1. \A place \in Places : At(j, u, place) =>
            /\ pc'[j][u] = place
            /\ \A k \in Jobs, v \in Users : k # j \/ v # u => pc'[k][v] = pc[k][v]
    BY AtWrites
  <1>2. {"sent", "recorded", "failed", "raised", "appended", "writing", "done"} \subseteq Places
    BY DEF Places
  <1>3. buffer \in [Jobs -> SUBSET Users] /\ writing \in [Jobs -> SUBSET Users]
    BY DEF Typed
  <1>4. CASE Send(j, u)
    <2>1. acked \subseteq acked' /\ UNCHANGED <<buffer, writing, rowVars, work, tried>>
      BY <1>4 DEF Send
    <2>2. \A k \in Jobs, v \in Users : pc'[k][v] = "sent" => <<k, v>> \in acked'
      <3>1. CASE At(j, u, "sent") /\ acked' = acked \union {<<j, u>>}
        BY <1>1, <1>2, <3>1 DEF RowsKnown
      <3>2. CASE \E place \in {"recorded", "failed", "raised"} : At(j, u, place) /\ UNCHANGED acked
        BY <1>1, <1>2, <3>2 DEF RowsKnown
      <3> QED
        BY <1>4, <3>1, <3>2 DEF Send
    <2> QED
      BY <2>1, <2>2 DEF RowsKnown, rowVars
  <1>5. CASE AppendRow(j, u)
    <2>1. /\ UNCHANGED <<writing, acked, rowVars, work, tried>>
          /\ buffer' = [buffer EXCEPT ![j] = buffer[j] \union {u}]
          /\ <<j, u>> \in acked
      BY <1>5 DEF AppendRow, RowsKnown
    <2>2. \A k \in Jobs : \A v \in buffer'[k] \union writing'[k] : <<k, v>> \in acked
      BY <1>3, <2>1 DEF RowsKnown
    <2>3. \A k \in Jobs, v \in Users : pc'[k][v] = "sent" => pc[k][v] = "sent"
      BY <1>1, <1>2, <1>5 DEF AppendRow
    <2> QED
      BY <2>1, <2>2, <2>3 DEF RowsKnown, rowVars
  <1>6. CASE MaybeFlush(j, u)
    <2>1. \/ UNCHANGED <<buffer, writing>>
          \/ writing' = [writing EXCEPT ![j] = buffer[j]] /\ buffer' = [buffer EXCEPT ![j] = {}]
      BY <1>6 DEF MaybeFlush
    <2>2. \A k \in Jobs : buffer'[k] \union writing'[k] \subseteq buffer[k] \union writing[k]
      BY <1>3, <2>1
    <2>3. \A k \in Jobs, v \in Users : pc'[k][v] = "sent" => pc[k][v] = "sent"
      BY <1>1, <1>2, <1>6 DEF MaybeFlush
    <2> QED
      BY <1>6, <2>2, <2>3, RowsStayPlaces DEF MaybeFlush
  <1>7. CASE FlushFails(j, u)
    <2>1. UNCHANGED <<buffer, rows, noted, work, tried, acked>> /\ writing' = [writing EXCEPT ![j] = {}]
      BY <1>7 DEF FlushFails, rowVars
    <2>2. \A k \in Jobs : buffer'[k] \union writing'[k] \subseteq buffer[k] \union writing[k]
      BY <1>3, <2>1
    <2>3. \A k \in Jobs, v \in Users : pc'[k][v] = "sent" => pc[k][v] = "sent"
      BY <1>1, <1>2, <1>7 DEF FlushFails
    <2> QED
      BY <2>1, <2>2, <2>3, RowsStayPlaces DEF rowVars
  <1>9. ASSUME NEW v \in writing[j], FlushRow(j, u, v) PROVE RowsKnown'
    <2>1. /\ UNCHANGED <<buffer, work, tried, acked>> /\ writing' = [writing EXCEPT ![j] = writing[j] \ {v}]
          /\ StoreRow(j, v) /\ v \in Users
      BY <1>3, <1>9 DEF FlushRow
    <2>2. \A k \in Jobs : buffer'[k] \union writing'[k] \subseteq buffer[k] \union writing[k]
      BY <1>3, <2>1
    <2>3. PICK place \in {"recorded", "writing"} : At(j, u, place)
      BY <1>9 DEF FlushRow
    <2>4. \A k \in Jobs, w \in Users : pc'[k][w] = "sent" => pc[k][w] = "sent"
      BY <1>1, <1>2, <2>3
    <2> QED
      BY <2>1, <2>2, <2>4, RowsStored
  <1>8. CASE Record(j, u)
    <2>1. \A k \in Jobs, v \in Users : pc'[k][v] = "sent" => pc[k][v] = "sent"
      BY <1>1, <1>2, <1>8 DEF Record
    <2> QED
      BY <1>8, <2>1, RowsStayPlaces DEF Record
  <1> QED
    BY <1>4, <1>5, <1>6, <1>7, <1>8, <1>9

LEMMA RunnerRows ==
    ASSUME Typed, RowsKnown, NEW j \in Jobs,
           \/ StartDelivery(j) \/ Complete(j) \/ RunnerFails(j) \/ DeliveryFails(j) \/ LastRowsFail(j)
           \/ \E u \in Users : LastRow(j, u)
    PROVE  RowsKnown'
  <1>1. buffer \in [Jobs -> SUBSET Users] /\ pc \in [Jobs -> [Users -> Places]]
    BY DEF Typed
  <1>2. CASE StartDelivery(j)
    <2>1. \A k \in Jobs, v \in Users : pc'[k][v] = "sent" => pc[k][v] = "sent"
      BY <1>1, <1>2 DEF StartDelivery
    <2> QED
      BY <1>2, <2>1, RowsStayPlaces DEF StartDelivery
  <1>3. CASE DeliveryFails(j)
    <2>1. \A k \in Jobs, v \in Users : pc'[k][v] = "sent" => pc[k][v] = "sent"
      BY <1>1, <1>3 DEF DeliveryFails
    <2> QED
      BY <1>3, <2>1, RowsStayPlaces DEF DeliveryFails
  <1>4. CASE Complete(j) \/ RunnerFails(j) \/ LastRowsFail(j)
    <2>1. /\ UNCHANGED <<pc, writing, rows, noted, work, tried, acked>>
          /\ buffer' \in {buffer, [buffer EXCEPT ![j] = {}]}
      BY <1>4 DEF Complete, RunnerFails, LastRowsFail, sendVars, rowVars
    <2>2. \A k \in Jobs : buffer'[k] \union writing'[k] \subseteq buffer[k] \union writing[k]
      BY <1>1, <2>1
    <2> QED
      BY <2>1, <2>2, RowsStayPlaces DEF rowVars
  <1>5. ASSUME NEW u \in Users, LastRow(j, u) PROVE RowsKnown'
    <2>1. /\ UNCHANGED <<pc, writing, work, tried, acked>> /\ buffer' = [buffer EXCEPT ![j] = buffer[j] \ {u}]
          /\ StoreRow(j, u) /\ u \in buffer[j]
      BY <1>5 DEF LastRow
    <2>2. \A k \in Jobs : buffer'[k] \union writing'[k] \subseteq buffer[k] \union writing[k]
      BY <1>1, <2>1
    <2> QED
      BY <2>1, <2>2, RowsStored
  <1> QED
    BY <1>2, <1>3, <1>4, <1>5

LEMMA WorkerRows ==
    ASSUME Typed, RowsKnown,
           Fetch \/ (\E m \in work.batch : Attempt(m)) \/ Remove \/ WorkerFails \/ Restart
    PROVE  RowsKnown'
  <1> DEFINE Works == [batch: SUBSET Messages, current: Messages \union {<<>>}]
  <1>0. work \in Works /\ Idle \in Works
    BY DEF Typed, Idle
  <1>00. Idle.batch = {} /\ Idle.current = <<>>
    BY DEF Idle
  <1>1. CASE Fetch
    <2>1. PICK batch \in SUBSET rows : work' = [Idle EXCEPT !.batch = batch]
      BY <1>1 DEF Fetch
    <2>2. work'.batch = batch /\ work'.current = <<>>
      BY <1>0, <1>00, <2>1
    <2> QED
      BY <1>1, <2>1, <2>2 DEF Fetch, RowsKnown, sendVars, rowVars
  <1>2. ASSUME NEW m \in work.batch, Attempt(m) PROVE RowsKnown'
    <2>1. work'.batch = work.batch /\ work'.current = m
      BY <1>0, <1>2 DEF Attempt
    <2> QED
      BY <1>2, <2>1 DEF Attempt, RowsKnown, sendVars, rowVars
  <1>3. CASE Remove
    <2>1. work'.batch = work.batch \ {work.current} /\ work'.current = <<>>
      BY <1>3 DEF Remove
    <2> QED
      BY <1>3, <2>1 DEF Remove, RowsKnown, sendVars
  <1>4. CASE WorkerFails
    BY <1>00, <1>4 DEF WorkerFails, RowsKnown, sendVars, rowVars
  <1>5. CASE Restart
    <2>1. \A j \in Jobs : buffer'[j] \union writing'[j] = {}
      BY <1>5 DEF Restart
    <2>2. \A j \in Jobs, u \in Users : pc'[j][u] = "out"
      BY <1>5 DEF Restart
    <2> QED
      BY <1>00, <1>5, <2>1, <2>2 DEF Restart, RowsKnown, rowVars
  <1> QED
    BY <1>1, <1>2, <1>3, <1>4, <1>5

LEMMA NextRowsKnown == ASSUME Typed, RowsKnown, [BroadcastNext]_vars PROVE RowsKnown'
  <1>1. CASE \/ UNCHANGED vars
             \/ \E a \in Announcements : \/ PrepareTimed(a) \/ RefuseTimed(a) \/ BeginStop(a) \/ EndStop(a)
                                         \/ \E j \in Jobs, r \in Requests : LaunchTimed(a, j, r)
             \/ ListTimed
             \/ \E j \in Jobs, r \in Requests : RequestJob(j, r)
    BY <1>1, RowsStay DEF vars, PrepareTimed, RefuseTimed, BeginStop, EndStop, LaunchTimed, ListTimed,
                          RequestJob, CreateJob
  <1> QED
    BY <1>1, TasksRows, RunnerRows, WorkerRows DEF BroadcastNext

\* A message that has its row or has been handled stays so, whatever the worker does.
Handled(m) == m \in rows \union tried \union noted

\* No step loses a row before its message was tried, or undoes a fault.
Grows ==
    /\ \A m \in Messages : Handled(m) => Handled(m)'
    /\ faults' = 0 => faults = 0

LEMMA NextGrows ==
    ASSUME BroadcastAssumption, Typed, RowsKnown, [BroadcastNext]_vars
    PROVE  Grows
  <1>0. ASSUME rows \union tried \union noted \subseteq rows' \union tried' \union noted',
               faults' = faults \/ faults' = faults + 1
        PROVE  Grows
    <2>1. faults \in Nat
      BY DEF Typed, BroadcastAssumption
    <2> QED
      BY <1>0, <2>1 DEF Grows, Handled
  <1>1. ASSUME NEW j \in Jobs, NEW u \in Users, LastRow(j, u) \/ \E v \in writing[j] : FlushRow(j, u, v)
        PROVE  Grows
    <2>1. writing[j] \in SUBSET Users
      BY DEF Typed
    <2>2. PICK v \in Users : StoreRow(j, v)
      BY <1>1, <2>1 DEF FlushRow, LastRow
    <2>3. rows \subseteq rows' /\ noted \subseteq noted'
      BY <2>2, StoreWrites
    <2>4. tried' = tried /\ faults' = faults
      BY <1>1 DEF FlushRow, LastRow
    <2> QED
      BY <1>0, <2>3, <2>4
  <1>3. CASE Remove
    <2>1. tried' = tried /\ noted' = noted /\ faults' = faults /\ rows' = rows \ {work.current}
      BY <1>3 DEF Remove, sendVars
    <2>2. work.current \in tried
      BY <1>3 DEF Remove, RowsKnown
    <2> QED
      BY <1>0, <2>1, <2>2
  <1>4. CASE \/ UNCHANGED vars
             \/ \E a \in Announcements : \/ PrepareTimed(a) \/ RefuseTimed(a) \/ BeginStop(a) \/ EndStop(a)
                                         \/ \E j \in Jobs, r \in Requests : LaunchTimed(a, j, r)
             \/ ListTimed
             \/ \E j \in Jobs : \/ \E r \in Requests : RequestJob(j, r)
                                \/ StartDelivery(j) \/ DeliveryFails(j) \/ Complete(j)
                                \/ RunnerFails(j) \/ LastRowsFail(j)
                                \/ \E u \in Users : \/ Send(j, u) \/ AppendRow(j, u) \/ MaybeFlush(j, u)
                                                    \/ FlushFails(j, u) \/ Record(j, u)
             \/ Fetch
             \/ \E m \in work.batch : Attempt(m)
             \/ WorkerFails
             \/ Restart
    <2>1. rows' = rows /\ noted' = noted /\ tried \subseteq tried' /\ (faults' = faults \/ faults' = faults + 1)
      BY <1>4 DEF vars, rowVars, sendVars, jobVars, annVars, PrepareTimed, RefuseTimed, BeginStop, EndStop, LaunchTimed,
         ListTimed, RequestJob, CreateJob, StartDelivery, DeliveryFails, Complete, RunnerFails, LastRowsFail,
         Send, AppendRow, MaybeFlush, FlushFails,
         Record, Fetch, Attempt, WorkerFails, Restart
    <2> QED
      BY <1>0, <2>1
  <1> QED
    BY <1>1, <1>3, <1>4 DEF BroadcastNext

-----------------------------------------------------------------------------
(* Jobs. *)

LEMMA GoneRow == Gone.status = "gone" /\ Gone.sent = 0 /\ Gone.failed = 0 /\ None # "gone"
  <1>1. NoJob \in [kind: {None}, status: {None}, sent: {0}, failed: {0}]
    BY DEF NoJob
  <1> QED
    BY <1>1 DEF Gone, None

\* A step of another job, of the worker or of the announcements, as job i sees it.
Frame(i) ==
    /\ jobs'[i] = jobs[i] \/ (Ended(i) /\ jobs'[i] = Gone)
    /\ order'[i] = order[i] /\ pc'[i] = pc[i] /\ buffer'[i] = buffer[i] /\ writing'[i] = writing[i]
    /\ \A u \in Users : <<i, u>> \in acked' <=> <<i, u>> \in acked

LEMMA FrameKeeps ==
    ASSUME Typed, Grows, NEW i \in Jobs, Frame(i), JobCounted(i), MessagesKept(i)
    PROVE  JobCounted(i)' /\ MessagesKept(i)'
  <1>1. Done(i)' = Done(i) /\ AllOut(i)' = AllOut(i) /\ AllDone(i)' = AllDone(i)
    BY DEF Frame, Done, AllOut, AllDone
  <1>2. \A u \in Users : Kept(i, u) => Kept(i, u)'
    BY DEF Kept, Frame, Grows, Handled, Messages
  <1>3. CASE jobs'[i] = jobs[i]
    <2>1. JobCounted(i)'
      BY <1>1, <1>3 DEF Frame, JobCounted, InTable
    <2>2. MessagesKept(i)'
      BY <1>2, <1>3 DEF Frame, Grows, MessagesKept
    <2> QED
      BY <2>1, <2>2
  <1>4. CASE Ended(i) /\ jobs'[i] = Gone
    <2>1. jobs'[i].status = "gone" /\ jobs'[i].sent + jobs'[i].failed = 0 /\ None # "gone"
      BY <1>4, GoneRow
    <2>2. JobCounted(i)'
      BY <1>1, <2>1 DEF Frame, JobCounted, InTable
    <2>3. MessagesKept(i)'
      BY <2>1 DEF MessagesKept
    <2> QED
      BY <2>2, <2>3
  <1> QED
    BY <1>3, <1>4 DEF Frame

\* The invariants of every job, from those of job j, when the step is j's.
LEMMA OthersKeep ==
    ASSUME DeliveryInv, Grows, NEW j \in Jobs, \A i \in Jobs : i # j => Frame(i),
           JobCounted(j)' /\ MessagesKept(j)'
    PROVE  \A i \in Jobs : JobCounted(i)' /\ MessagesKept(i)'
  BY FrameKeeps DEF DeliveryInv

\* The job that create_job adds.
LEMMA CreateKeeps ==
    ASSUME BroadcastAssumption, DeliveryInv, Grows,
           NEW j \in Jobs, NEW r \in Requests, NEW a \in Announcements \union {None}, CreateJob(j, r, a)
    PROVE  \A i \in Jobs : JobCounted(i)' /\ MessagesKept(i)'
  <1>0. Typed /\ JobCounted(j)
    BY DEF DeliveryInv
  <1>1. /\ jobs[j].status = None
        /\ jobs'[j].status = "running" /\ jobs'[j].sent = 0 /\ jobs'[j].failed = 0
        /\ \A k \in Jobs : k # j => jobs'[k] = jobs[k] \/ (Ended(k) /\ jobs'[k] = Gone)
        /\ order'[j].to = r.to /\ r.to # {}
        /\ \A k \in Jobs : k # j => order'[k] = order[k]
        /\ UNCHANGED <<sendVars, rowVars, work, tried, faults>>
    BY <1>0, CreateWrites
  <1>2. UNCHANGED <<pc, buffer, writing, acked>>
    BY <1>1 DEF sendVars
  <1>3. \A i \in Jobs : i # j => Frame(i)
    BY <1>1, <1>2 DEF Frame
  <1>4. \A u \in Users : pc[j][u] = "out" /\ <<j, u>> \notin acked
    BY <1>0, <1>1 DEF JobCounted
  <1>5. writing[j] = {}
    BY <1>0, <1>4 DEF JobCounted
  <1>6. Done(j)' = {} /\ Cardinality({}) = 0
    BY <1>2, <1>4, FS_EmptySet DEF Done
  <1>7. AllOut(j)'
    BY <1>2, <1>4 DEF AllOut
  <1>8. InTable(j)' /\ jobs'[j].status # None
    BY <1>1 DEF InTable, None
  <1>9. JobCounted(j)'
    BY <1>1, <1>2, <1>5, <1>6, <1>7, <1>8 DEF JobCounted
  <1>10. MessagesKept(j)'
    BY <1>2, <1>4 DEF MessagesKept
  <1> QED
    BY <1>3, <1>9, <1>10, OthersKeep

\* A task moves on, short of being done.
LEMMA TaskCounted ==
    ASSUME Typed, NEW j \in Jobs, NEW u \in Users, JobCounted(j), pc[j][u] \notin {"out", "done"},
           NEW place \in Places \ {"out", "done"}, At(j, u, place), UNCHANGED <<jobs, order>>,
           writing'[j] # {} => \E v \in Users : pc'[j][v] = "writing"
    PROVE  JobCounted(j)' /\ jobs[j].status \notin {None, "completed"}
  <1>1. /\ pc'[j][u] = place
        /\ \A v \in Users : v # u => pc'[j][v] = pc[j][v]
    BY AtWrites
  <1>2. jobs[j].status # None
    BY DEF JobCounted
  <1>3. jobs[j].status # "completed"
    BY DEF JobCounted, AllDone
  <1>4. Done(j)' = Done(j)
    BY <1>1 DEF Done
  <1>5. \A v \in Users : pc'[j][v] = "out" <=> pc[j][v] = "out"
    BY <1>1
  <1>6. AllOut(j)' <=> AllOut(j)
    BY <1>5 DEF AllOut
  <1> QED
    BY <1>2, <1>3, <1>4, <1>5, <1>6 DEF JobCounted, InTable

LEMMA TasksKeep ==
    ASSUME BroadcastAssumption, DeliveryInv, Grows, NEW j \in Jobs, NEW u \in Users,
           \/ Send(j, u) \/ AppendRow(j, u) \/ MaybeFlush(j, u) \/ FlushFails(j, u)
           \/ \E v \in writing[j] : FlushRow(j, u, v)
    PROVE  \A i \in Jobs : JobCounted(i)' /\ MessagesKept(i)'
  <1>0. Typed /\ RowsKnown /\ JobCounted(j) /\ MessagesKept(j)
    BY DEF DeliveryInv
  <1>1. \A place \in Places : At(j, u, place) =>
            /\ pc'[j][u] = place
            /\ \A v \in Users : v # u => pc'[j][v] = pc[j][v]
            /\ \A k \in Jobs : k # j => pc'[k] = pc[k]
    BY <1>0, AtWrites DEF At, Typed
  <1>2. {"sent", "recorded", "failed", "raised", "appended", "writing"} \subseteq Places \ {"out", "done"}
    BY DEF Places
  <1>3. buffer \in [Jobs -> SUBSET Users] /\ writing \in [Jobs -> SUBSET Users]
    BY <1>0 DEF Typed
  <1>4. ASSUME NEW v \in Users, Handled(<<j, v>>) PROVE Handled(<<j, v>>)'
    BY <1>4 DEF Grows, Messages
  <1>5. faults' = 0 => faults = 0
    BY DEF Grows
  <1>6. CASE Send(j, u)
    <2>1. PICK place \in {"sent", "recorded", "failed", "raised"} :
              /\ At(j, u, place)
              /\ acked' = IF place = "sent" THEN acked \union {<<j, u>>} ELSE acked
      BY <1>6 DEF Send
    <2>2. /\ pc'[j][u] = place
          /\ \A v \in Users : v # u => pc'[j][v] = pc[j][v]
          /\ \A k \in Jobs : k # j => pc'[k] = pc[k]
      BY <1>1, <1>2, <2>1
    <2>3. UNCHANGED <<jobs, order, buffer, writing, faults>> /\ pc[j][u] = "waiting"
      BY <1>6 DEF Send, jobVars
    <2>4. \A i \in Jobs : i # j => Frame(i)
      BY <2>1, <2>2, <2>3 DEF Frame
    <2>5. writing'[j] # {} => \E v \in Users : pc'[j][v] = "writing"
      BY <1>0, <2>2, <2>3 DEF JobCounted
    <2>6. JobCounted(j)'
      BY <1>0, <1>2, <2>1, <2>3, <2>5, TaskCounted
    <2>7. MessagesKept(j)'
      <3>1. ASSUME NEW v \in Users, <<j, v>> \in acked', v # u, Kept(j, v) PROVE Kept(j, v)'
        BY <1>4, <2>2, <2>3, <3>1 DEF Kept, Handled
      <3>2. ASSUME <<j, u>> \in acked', place # "sent", Kept(j, u) PROVE Kept(j, u)'
        BY <1>4, <2>2, <2>3, <3>2 DEF Kept, Handled
      <3>3. place = "sent" => Kept(j, u)'
        BY <2>2 DEF Kept
      <3>4. \A v \in Users : v # u /\ <<j, v>> \in acked' => <<j, v>> \in acked
        BY <2>1
      <3> QED
        BY <1>0, <2>1, <2>3, <3>1, <3>2, <3>3, <3>4 DEF MessagesKept
    <2> QED
      BY <2>4, <2>6, <2>7, OthersKeep
  <1>7. CASE AppendRow(j, u)
    <2>1. At(j, u, "appended") /\ pc[j][u] = "sent" /\ buffer' = [buffer EXCEPT ![j] = buffer[j] \union {u}]
      BY <1>7 DEF AppendRow
    <2>2. /\ pc'[j][u] = "appended"
          /\ \A v \in Users : v # u => pc'[j][v] = pc[j][v]
          /\ \A k \in Jobs : k # j => pc'[k] = pc[k]
      BY <1>1, <1>2, <2>1
    <2>3. /\ UNCHANGED <<jobs, order, writing, acked, faults>>
          /\ buffer'[j] = buffer[j] \union {u} /\ \A k \in Jobs : k # j => buffer'[k] = buffer[k]
      BY <1>3, <1>7, <2>1 DEF AppendRow, jobVars
    <2>4. \A i \in Jobs : i # j => Frame(i)
      BY <2>2, <2>3 DEF Frame
    <2>5. writing'[j] # {} => \E v \in Users : pc'[j][v] = "writing"
      BY <1>0, <2>1, <2>2, <2>3 DEF JobCounted
    <2>6. JobCounted(j)'
      BY <1>0, <1>2, <2>1, <2>3, <2>5, TaskCounted
    <2>7. MessagesKept(j)'
      <3>1. ASSUME NEW v \in Users, Kept(j, v) PROVE Kept(j, v)'
        BY <1>4, <2>1, <2>2, <2>3, <3>1 DEF Kept, Handled
      <3> QED
        BY <1>0, <2>3, <3>1 DEF MessagesKept
    <2> QED
      BY <2>4, <2>6, <2>7, OthersKeep
  <1>8. CASE MaybeFlush(j, u)
    <2>1. PICK place \in {"writing", "recorded"} :
              /\ At(j, u, place)
              /\ \/ place = "writing" /\ writing' = [writing EXCEPT ![j] = buffer[j]] /\ buffer' = [buffer EXCEPT ![j] = {}]
                 \/ place = "recorded" /\ UNCHANGED <<buffer, writing>>
      BY <1>8 DEF MaybeFlush
    <2>2. /\ pc'[j][u] = place
          /\ \A v \in Users : v # u => pc'[j][v] = pc[j][v]
          /\ \A k \in Jobs : k # j => pc'[k] = pc[k]
      BY <1>1, <1>2, <2>1
    <2>3. UNCHANGED <<jobs, order, acked, faults>> /\ pc[j][u] = "appended" /\ writing[j] = {}
      BY <1>0, <1>8 DEF MaybeFlush, LockFree, JobCounted, jobVars
    <2>4. /\ buffer'[j] \union writing'[j] = buffer[j] \union writing[j]
          /\ writing'[j] # {} => place = "writing"
          /\ \A k \in Jobs : k # j => buffer'[k] = buffer[k] /\ writing'[k] = writing[k]
      BY <1>3, <2>1, <2>3
    <2>5. \A i \in Jobs : i # j => Frame(i)
      BY <2>2, <2>3, <2>4 DEF Frame
    <2>6. JobCounted(j)'
      BY <1>0, <1>2, <2>1, <2>2, <2>3, <2>4, TaskCounted
    <2>7. MessagesKept(j)'
      <3>1. ASSUME NEW v \in Users, Kept(j, v) PROVE Kept(j, v)'
        BY <1>4, <2>2, <2>3, <2>4, <3>1 DEF Kept, Handled
      <3> QED
        BY <1>0, <2>3, <3>1 DEF MessagesKept
    <2> QED
      BY <2>5, <2>6, <2>7, OthersKeep
  <1>9. ASSUME NEW w \in writing[j], FlushRow(j, u, w)
        PROVE  \A i \in Jobs : JobCounted(i)' /\ MessagesKept(i)'
    <2>1. PICK place \in {"writing", "recorded"} :
              /\ At(j, u, place) /\ place = IF writing[j] = {w} THEN "recorded" ELSE "writing"
              /\ pc[j][u] = "writing" /\ writing' = [writing EXCEPT ![j] = writing[j] \ {w}]
              /\ StoreRow(j, w) /\ w \in Users
      BY <1>3, <1>9 DEF FlushRow
    <2>2. /\ pc'[j][u] = place
          /\ \A v \in Users : v # u => pc'[j][v] = pc[j][v]
          /\ \A k \in Jobs : k # j => pc'[k] = pc[k]
      BY <1>1, <1>2, <2>1
    <2>3. /\ UNCHANGED <<jobs, order, buffer, acked, faults>>
          /\ writing'[j] = writing[j] \ {w} /\ \A k \in Jobs : k # j => writing'[k] = writing[k]
      BY <1>3, <1>9, <2>1 DEF FlushRow, jobVars
    <2>4. <<j, w>> \in rows' \union noted'
      BY <1>0, <2>1, StoreWrites
    <2>5. \A i \in Jobs : i # j => Frame(i)
      BY <2>2, <2>3 DEF Frame
    <2>6. writing'[j] # {} => \E v \in Users : pc'[j][v] = "writing"
      BY <2>1, <2>2, <2>3
    <2>7. JobCounted(j)'
      BY <1>0, <1>2, <2>1, <2>3, <2>6, TaskCounted
    <2>8. MessagesKept(j)'
      <3>1. ASSUME NEW v \in Users, Kept(j, v) PROVE Kept(j, v)'
        BY <1>4, <2>1, <2>2, <2>3, <2>4, <3>1 DEF Kept, Handled
      <3> QED
        BY <1>0, <2>3, <3>1 DEF MessagesKept
    <2> QED
      BY <2>5, <2>7, <2>8, OthersKeep
  <1>10. CASE FlushFails(j, u)
    <2>1. PICK place \in {"raised", "recorded"} :
              /\ At(j, u, place) /\ place = IF order[j].autoDelete THEN "raised" ELSE "recorded"
              /\ pc[j][u] = "writing" /\ writing' = [writing EXCEPT ![j] = {}]
      BY <1>10 DEF FlushFails
    <2>2. /\ pc'[j][u] = place
          /\ \A v \in Users : v # u => pc'[j][v] = pc[j][v]
          /\ \A k \in Jobs : k # j => pc'[k] = pc[k]
      BY <1>1, <1>2, <2>1
    <2>3. /\ UNCHANGED <<jobs, order, buffer, acked>> /\ faults' = faults + 1
          /\ writing'[j] = {} /\ \A k \in Jobs : k # j => writing'[k] = writing[k]
      BY <1>3, <1>10, <2>1 DEF FlushFails, jobVars
    <2>4. faults' # 0
      BY <1>0, <2>3 DEF Typed, BroadcastAssumption
    <2>5. \A i \in Jobs : i # j => Frame(i)
      BY <2>2, <2>3 DEF Frame
    <2>6. JobCounted(j)'
      BY <1>0, <1>2, <2>1, <2>3, TaskCounted
    <2>7. MessagesKept(j)'
      <3>1. CASE order[j].autoDelete
        <4>1. pc'[j][u] = "raised"
          BY <2>1, <2>2, <3>1
        <4>2. \A v \in Users : Kept(j, v)'
          BY <4>1 DEF Kept
        <4> QED
          BY <4>2 DEF MessagesKept
      <3>2. CASE ~order[j].autoDelete
        BY <2>3, <2>4, <3>2 DEF MessagesKept
      <3> QED
        BY <3>1, <3>2
    <2> QED
      BY <2>5, <2>6, <2>7, OthersKeep
  <1> QED
    BY <1>6, <1>7, <1>8, <1>9, <1>10

LEMMA RecordKeeps ==
    ASSUME BroadcastAssumption, DeliveryInv, Grows, NEW j \in Jobs, NEW u \in Users, Record(j, u)
    PROVE  \A i \in Jobs : JobCounted(i)' /\ MessagesKept(i)'
  <1>0. Typed /\ JobCounted(j) /\ MessagesKept(j) /\ IsFiniteSet(Users)
    BY DEF DeliveryInv, BroadcastAssumption
  <1>1. /\ pc[j][u] \in {"recorded", "failed"} /\ At(j, u, "done")
        /\ UNCHANGED <<order, buffer, writing, acked, rows, noted, tried, faults>>
    BY DEF Record, rowVars
  <1>2. /\ pc'[j][u] = "done"
        /\ \A v \in Users : v # u => pc'[j][v] = pc[j][v]
        /\ \A k \in Jobs : k # j => pc'[k] = pc[k]
    <2>1. "done" \in Places
      BY DEF Places
    <2> QED
      BY <1>0, <1>1, <2>1, AtWrites DEF At, Typed
  <1>3. PICK ok \in BOOLEAN : Progress(j, ok)
    BY DEF Record
  <1>4. /\ jobs'[j].status = jobs[j].status
        /\ InTable(j) => jobs'[j].sent + jobs'[j].failed = jobs[j].sent + jobs[j].failed + 1
        /\ ~InTable(j) => jobs'[j] = jobs[j]
        /\ \A k \in Jobs : k # j => jobs'[k] = jobs[k]
    BY <1>0, <1>3, ProgressWrites DEF InTable
  <1>5. jobs[j].status \notin {None, "completed"}
    BY <1>0, <1>1 DEF JobCounted, AllDone
  <1>6. Done(j)' = Done(j) \union {u} /\ u \notin Done(j)
    BY <1>1, <1>2 DEF Done
  <1>7. Cardinality(Done(j)') = Cardinality(Done(j)) + 1
    <2>1. IsFiniteSet(Done(j))
      BY <1>0, FS_Subset DEF Done
    <2> QED
      BY <1>6, <2>1, FS_AddElement
  <1>8. \A v \in Users : pc'[j][v] = "out" <=> pc[j][v] = "out"
    BY <1>1, <1>2
  <1>9. (AllOut(j)' <=> AllOut(j)) /\ (InTable(j)' <=> InTable(j))
    BY <1>4, <1>8 DEF AllOut, InTable
  <1>10. writing'[j] # {} => \E v \in Users : pc'[j][v] = "writing"
    BY <1>0, <1>1, <1>2 DEF JobCounted
  <1>11. JobCounted(j)'
    BY <1>0, <1>1, <1>4, <1>5, <1>7, <1>8, <1>9, <1>10 DEF JobCounted
  <1>12. MessagesKept(j)'
    <2>1. ASSUME NEW v \in Users, Kept(j, v) PROVE Kept(j, v)'
      BY <1>1, <1>2, <2>1 DEF Kept
    <2> QED
      BY <1>0, <1>1, <1>4, <2>1 DEF MessagesKept
  <1>13. \A i \in Jobs : i # j => Frame(i)
    BY <1>1, <1>2, <1>4 DEF Frame
  <1> QED
    BY <1>11, <1>12, <1>13, OthersKeep

LEMMA StartKeeps ==
    ASSUME BroadcastAssumption, DeliveryInv, Grows, NEW j \in Jobs, StartDelivery(j)
    PROVE  \A i \in Jobs : JobCounted(i)' /\ MessagesKept(i)'
  <1>0. Typed /\ JobCounted(j) /\ MessagesKept(j)
    BY DEF DeliveryInv
  <1>1. /\ Running(j) /\ \A u \in Users : pc[j][u] = "out"
        /\ UNCHANGED <<jobs, order, buffer, writing, acked, rows, noted, tried, faults>>
        /\ pc' = [pc EXCEPT ![j] = [u \in Users |-> IF u \in order[j].to THEN "waiting" ELSE "out"]]
    BY DEF StartDelivery, jobVars, rowVars
  <1>2. /\ \A u \in Users : pc'[j][u] = IF u \in order[j].to THEN "waiting" ELSE "out"
        /\ \A k \in Jobs : k # j => pc'[k] = pc[k]
    BY <1>0, <1>1 DEF Typed
  <1>3. InTable(j) /\ jobs[j].status = "running"
    BY <1>1 DEF Running, InTable, None
  <1>4. Done(j)' = {} /\ Done(j) = {}
    BY <1>1, <1>2 DEF Done
  <1>5. writing[j] = {}
    BY <1>0, <1>1 DEF JobCounted
  <1>6. \A u \in Users : pc'[j][u] = "out" <=> u \notin order[j].to
    BY <1>2
  <1>7. JobCounted(j)'
    BY <1>0, <1>1, <1>3, <1>4, <1>5, <1>6 DEF JobCounted, InTable, None
  <1>8. MessagesKept(j)'
    <2>1. ASSUME NEW v \in Users, Kept(j, v) PROVE Kept(j, v)'
      BY <1>1, <1>2, <2>1 DEF Kept
    <2> QED
      BY <1>0, <1>1, <2>1 DEF MessagesKept
  <1>9. \A i \in Jobs : i # j => Frame(i)
    BY <1>1, <1>2 DEF Frame
  <1> QED
    BY <1>7, <1>8, <1>9, OthersKeep

\* A job that ends keeps its counters.
LEMMA EndCounted ==
    ASSUME BroadcastAssumption, DeliveryInv, NEW j \in Jobs, Running(j),
           NEW status \in {"completed", "failed"}, End(j, status),
           status = "completed" => AllDone(j)' /\ buffer'[j] = {},
           UNCHANGED <<order, writing, acked>>,
           \A u \in Users : \A place \in {"out", "done", "writing"} : pc'[j][u] = place <=> pc[j][u] = place
    PROVE  /\ JobCounted(j)' /\ jobs'[j].status = status
           /\ \A k \in Jobs : k # j => jobs'[k] = jobs[k]
  <1>0. Typed /\ JobCounted(j)
    BY DEF DeliveryInv
  <1>1. /\ jobs'[j].status = status
        /\ jobs'[j].sent = jobs[j].sent /\ jobs'[j].failed = jobs[j].failed
        /\ \A k \in Jobs : k # j => jobs'[k] = jobs[k]
    BY <1>0, EndWrites
  <1>2. InTable(j) /\ InTable(j)' /\ jobs'[j].status # None
    BY <1>1 DEF InTable, Running, None
  <1>3. Done(j)' = Done(j) /\ (AllOut(j)' <=> AllOut(j))
    BY DEF Done, AllOut
  <1>4. writing'[j] # {} => \E v \in Users : pc'[j][v] = "writing"
    BY <1>0 DEF JobCounted
  <1> QED
    BY <1>0, <1>1, <1>2, <1>3, <1>4 DEF JobCounted

\* The last rows: one is stored, or those that are left are given up.
LEMMA LastRowsKeep ==
    ASSUME BroadcastAssumption, DeliveryInv, Grows, NEW j \in Jobs,
           LastRowsFail(j) \/ \E u \in Users : LastRow(j, u)
    PROVE  \A i \in Jobs : JobCounted(i)' /\ MessagesKept(i)'
  <1>0. Typed /\ JobCounted(j) /\ MessagesKept(j)
    BY DEF DeliveryInv
  <1>1. UNCHANGED <<jobs, order, pc, writing, acked>> /\ Running(j)
    BY DEF LastRow, LastRowsFail, jobVars
  <1>2. /\ \A k \in Jobs : k # j => buffer'[k] = buffer[k]
        /\ buffer'[j] \subseteq buffer[j]
    BY <1>0 DEF LastRow, LastRowsFail, Typed
  <1>3. (AllOut(j)' <=> AllOut(j)) /\ Done(j)' = Done(j) /\ (InTable(j)' <=> InTable(j))
    BY <1>1 DEF AllOut, Done, InTable
  <1>4. jobs[j].status # "completed"
    BY <1>1 DEF Running
  <1>5. JobCounted(j)'
    BY <1>0, <1>1, <1>3, <1>4 DEF JobCounted
  <1>6. MessagesKept(j)'
    <2>1. CASE LastRowsFail(j)
      <3>1. faults' = faults + 1 /\ faults \in Nat /\ ~order[j].autoDelete
        BY <1>0, <2>1 DEF LastRowsFail, Typed, BroadcastAssumption
      <3> QED
        BY <1>1, <3>1 DEF MessagesKept
    <2>2. ASSUME NEW u \in Users, LastRow(j, u) PROVE MessagesKept(j)'
      <3>1. StoreRow(j, u) /\ buffer'[j] = buffer[j] \ {u} /\ faults' = faults
        BY <1>0, <2>2 DEF LastRow, Typed
      <3>2. <<j, u>> \in rows' \union noted'
        BY <1>0, <3>1, StoreWrites
      <3>3. ASSUME NEW v \in Users, Kept(j, v) PROVE Kept(j, v)'
        <4>1. Handled(<<j, v>>) => Handled(<<j, v>>)'
          BY DEF Grows, Messages
        <4> QED
          BY <1>1, <3>1, <3>2, <3>3, <4>1 DEF Kept, Handled
      <3> QED
        BY <1>0, <1>1, <3>1, <3>3 DEF MessagesKept
    <2> QED
      BY <2>1, <2>2
  <1>7. \A i \in Jobs : i # j => Frame(i)
    BY <1>1, <1>2 DEF Frame
  <1> QED
    BY <1>5, <1>6, <1>7, OthersKeep

LEMMA CompleteKeeps ==
    ASSUME BroadcastAssumption, DeliveryInv, Grows, NEW j \in Jobs, Complete(j)
    PROVE  \A i \in Jobs : JobCounted(i)' /\ MessagesKept(i)'
  <1>0. Typed /\ JobCounted(j) /\ MessagesKept(j)
    BY DEF DeliveryInv
  <1>1. /\ Running(j) /\ AllDone(j) /\ End(j, "completed") /\ buffer[j] = {}
        /\ UNCHANGED <<order, pc, buffer, writing, acked, tried, rows, noted, faults>>
    BY DEF Complete, sendVars, rowVars
  <1>2. AllDone(j)'
    BY <1>1 DEF AllDone, AllOut
  <1>3. JobCounted(j)' /\ jobs'[j].status = "completed" /\ \A k \in Jobs : k # j => jobs'[k] = jobs[k]
    BY <1>1, <1>2, EndCounted
  <1>4. MessagesKept(j)'
    <2>1. ASSUME NEW v \in Users, Kept(j, v) PROVE Kept(j, v)'
      BY <1>1, <2>1 DEF Kept
    <2> QED
      BY <1>0, <1>1, <2>1 DEF MessagesKept, Running
  <1>5. \A i \in Jobs : i # j => Frame(i)
    BY <1>1, <1>3 DEF Frame
  <1> QED
    BY <1>3, <1>4, <1>5, OthersKeep

LEMMA FailureKeeps ==
    ASSUME BroadcastAssumption, DeliveryInv, Grows, NEW j \in Jobs, RunnerFails(j) \/ DeliveryFails(j)
    PROVE  \A i \in Jobs : JobCounted(i)' /\ MessagesKept(i)'
  <1>0. Typed
    BY DEF DeliveryInv
  <1>1. Running(j) /\ End(j, "failed") /\ UNCHANGED <<order, writing, acked>>
    BY DEF RunnerFails, DeliveryFails
  <1>2. /\ \A u \in Users : \A place \in {"out", "done", "writing"} : pc'[j][u] = place <=> pc[j][u] = place
        /\ \A k \in Jobs : k # j => pc'[k] = pc[k]
    <2>1. CASE RunnerFails(j)
      BY <2>1 DEF RunnerFails
    <2>2. CASE DeliveryFails(j)
      BY <1>0, <2>2 DEF DeliveryFails, Typed
    <2> QED
      BY <2>1, <2>2
  <1>3. \A k \in Jobs : k # j => buffer'[k] = buffer[k]
    BY <1>0 DEF Typed, RunnerFails, DeliveryFails
  <1>4. JobCounted(j)' /\ jobs'[j].status = "failed" /\ \A k \in Jobs : k # j => jobs'[k] = jobs[k]
    BY <1>1, <1>2, EndCounted
  <1>5. MessagesKept(j)'
    BY <1>4 DEF MessagesKept
  <1>6. \A i \in Jobs : i # j => Frame(i)
    BY <1>1, <1>2, <1>3, <1>4 DEF Frame
  <1> QED
    BY <1>4, <1>5, <1>6, OthersKeep

LEMMA RestartKeeps ==
    ASSUME DeliveryInv, Restart PROVE \A i \in Jobs : JobCounted(i)' /\ MessagesKept(i)'
  <1> TAKE i \in Jobs
  <1>1. JobCounted(i)
    BY DEF DeliveryInv
  <1>2. /\ \A u \in Users : pc'[i][u] = "out"
        /\ writing'[i] = {} /\ acked' = acked
        /\ jobs'[i] = IF jobs[i].status = None THEN jobs[i] ELSE Gone
    BY DEF Restart
  <1>3. CASE jobs[i].status = None
    <2>1. ~InTable(i)' /\ ~InTable(i) /\ jobs'[i] = jobs[i]
      BY <1>2, <1>3 DEF InTable
    <2>2. JobCounted(i)'
      BY <1>1, <1>2, <1>3, <2>1 DEF JobCounted, None
    <2>3. MessagesKept(i)'
      BY <1>2, <1>3 DEF MessagesKept, None
    <2> QED
      BY <2>2, <2>3
  <1>4. CASE jobs[i].status # None
    <2>1. jobs'[i].status = "gone" /\ jobs'[i].sent + jobs'[i].failed = 0 /\ jobs'[i].status # None
      BY <1>2, <1>4, GoneRow
    <2>2. JobCounted(i)'
      BY <1>2, <2>1 DEF JobCounted, InTable
    <2>3. MessagesKept(i)'
      BY <2>1 DEF MessagesKept
    <2> QED
      BY <2>2, <2>3
  <1> QED
    BY <1>3, <1>4

LEMMA NextDeliveryInv ==
    ASSUME BroadcastAssumption, DeliveryInv, [BroadcastNext]_vars PROVE DeliveryInv'
  <1> DEFINE Keeps == \A i \in Jobs : JobCounted(i)' /\ MessagesKept(i)'
  <1>0. Typed' /\ RowsKnown' /\ Grows
    BY NextTyped, NextRowsKnown, NextGrows DEF DeliveryInv
  <1>1. ASSUME \/ UNCHANGED vars
               \/ \E a \in Announcements : PrepareTimed(a) \/ RefuseTimed(a) \/ BeginStop(a) \/ EndStop(a)
               \/ ListTimed
               \/ Fetch
               \/ \E m \in work.batch : Attempt(m)
               \/ Remove
               \/ WorkerFails
        PROVE  Keeps
    <2>1. UNCHANGED <<jobs, order, pc, buffer, writing, acked>>
      BY <1>1 DEF vars, jobVars, sendVars, PrepareTimed, RefuseTimed, BeginStop, EndStop, ListTimed, Fetch,
                  Attempt, Remove, WorkerFails
    <2>2. \A i \in Jobs : Frame(i)
      BY <2>1 DEF Frame
    <2> QED
      BY <1>0, <2>2, FrameKeeps DEF DeliveryInv
  <1>2. ASSUME NEW j \in Jobs, NEW r \in Requests,
               RequestJob(j, r) \/ \E a \in Announcements : LaunchTimed(a, j, r)
        PROVE  Keeps
    <2>1. PICK a \in Announcements \union {None} : CreateJob(j, r, a)
      BY <1>2 DEF RequestJob, LaunchTimed
    <2> QED
      BY <1>0, <2>1, CreateKeeps
  <1>3. ASSUME NEW j \in Jobs, \/ StartDelivery(j) \/ Complete(j) \/ RunnerFails(j) \/ DeliveryFails(j)
                               \/ LastRowsFail(j) \/ \E u \in Users : LastRow(j, u)
        PROVE  Keeps
    BY <1>0, <1>3, StartKeeps, CompleteKeeps, FailureKeeps, LastRowsKeep
  <1>4. ASSUME NEW j \in Jobs, NEW u \in Users,
               \/ Send(j, u) \/ AppendRow(j, u) \/ MaybeFlush(j, u) \/ FlushFails(j, u) \/ Record(j, u)
               \/ \E v \in writing[j] : FlushRow(j, u, v)
        PROVE  Keeps
    BY <1>0, <1>4, TasksKeep, RecordKeeps
  <1>5. ASSUME Restart PROVE Keeps
    BY <1>5, RestartKeeps
  <1> HIDE DEF Keeps
  <1>6. Keeps
    BY <1>1, <1>2, <1>3, <1>4, <1>5 DEF BroadcastNext
  <1>7. (\A i \in Jobs : JobCounted(i) /\ MessagesKept(i))'
    BY <1>6 DEF Keeps
  <1> QED
    BY <1>0, <1>7 DEF DeliveryInv

LEMMA DeliveryInvHolds == BroadcastSpec => []DeliveryInv
  <1>1. BroadcastInit => DeliveryInv
    BY InitDeliveryInv, BroadcastAssumption
  <1>2. DeliveryInv /\ [BroadcastNext]_vars => DeliveryInv'
    BY NextDeliveryInv, BroadcastAssumption
  <1> QED
    BY <1>1, <1>2, PTL DEF BroadcastSpec

\* The table of jobs, the tasks, the rows and the announcements keep their types; a job never
\* counts more messages than there are users, every row is of a message Telegram has answered
\* for, and the deletion worker's batch is in the table (broadcast_jobs.py,
\* broadcast_engine.py, message_deletions.py).
THEOREM BroadcastTypeCorrect == BroadcastSpec => []BroadcastTypeOK
  <1>1. ASSUME BroadcastAssumption, DeliveryInv PROVE BroadcastTypeOK
    <2>1. ASSUME NEW j \in Jobs
          PROVE  /\ jobs[j].kind \in Exclusive \union {None, "private"}
                 /\ jobs[j].status \in Statuses
                 /\ jobs[j].sent + jobs[j].failed <= Cardinality(Users)
      <3>1. jobs[j] \in JobRow /\ JobCounted(j)
        BY <1>1 DEF DeliveryInv, Typed
      <3>2. Done(j) \subseteq Users /\ IsFiniteSet(Users)
        BY <1>1 DEF Done, BroadcastAssumption
      <3>3. Cardinality(Done(j)) <= Cardinality(Users) /\ 0 <= Cardinality(Users)
        BY <3>2, FS_Subset, FS_CardinalityType
      <3> QED
        BY <3>1, <3>3 DEF JobRow, JobCounted
    <2> QED
      BY <1>1, <2>1 DEF DeliveryInv, Typed, RowsKnown, BroadcastTypeOK, AnnStates
  <1> QED
    BY <1>1, DeliveryInvHolds, BroadcastAssumption, PTL

\* However sends, writes of full batches, their failures and the worker's deletions interleave:
\* a completed job has counted each recipient once, and every message of it that Telegram
\* answered for has its row or was handled, unless it is one to be dismissed and the database
\* failed (_run_parallel_delivery, _maybe_flush_db, complete_job).
THEOREM CompletedJobsAreAccounted == BroadcastSpec => []CompletedIsAccounted
  <1>1. ASSUME BroadcastAssumption, DeliveryInv PROVE CompletedIsAccounted
    <2>1. ASSUME NEW j \in Jobs, jobs[j].status = "completed"
          PROVE  /\ jobs[j].sent + jobs[j].failed = Cardinality(order[j].to)
                 /\ order[j].autoDelete \/ faults = 0 =>
                       \A u \in Users : <<j, u>> \in acked => <<j, u>> \in rows \union tried \union noted
      <3>1. JobCounted(j) /\ MessagesKept(j) /\ order[j].to \subseteq Users
        BY <1>1 DEF DeliveryInv, Typed, OrderRow
      <3>2. AllDone(j) /\ buffer[j] = {} /\ InTable(j)
        BY <2>1, <3>1 DEF JobCounted, InTable, None
      <3>3. Done(j) = order[j].to
        BY <3>1, <3>2 DEF JobCounted, AllDone, Done
      <3>4. writing[j] = {} /\ \A u \in Users : pc[j][u] \notin {"sent", "raised"}
        BY <3>1, <3>2 DEF JobCounted, AllDone
      <3>5. \A u \in Users : Kept(j, u) => <<j, u>> \in rows \union tried \union noted
        BY <3>2, <3>4 DEF Kept
      <3> QED
        BY <2>1, <3>1, <3>2, <3>3, <3>5 DEF JobCounted, MessagesKept
    <2> QED
      BY <2>1 DEF CompletedIsAccounted
  <1> QED
    BY <1>1, DeliveryInvHolds, BroadcastAssumption, PTL

-----------------------------------------------------------------------------
(* Alerts are told once per scan. *)

AlertRow == [status : {"none", "open", "dismissed", "resolved"}, notified : BOOLEAN]

\* AllRun is 9 (ScannersFind).
ScanRow == [at : 0..10, found : SUBSET Fingerprints, put : SUBSET Fingerprints,
            row : Fingerprints \union {<<>>}, flag : Fingerprints \union {<<>>},
            tell : SUBSET Fingerprints, sent : Fingerprints \union {<<>>}]

\* Where the upsert of a scan stands.
RowKept(r) ==
    /\ r.put \subseteq r.found
    /\ r.row \in (r.put \union {<<>>}) /\ r.flag \in (r.put \union {<<>>})
    /\ r.put # {} => r.at = 9
    /\ r.tell # {} => r.at \in {9, 10}

AlertsTyped ==
    /\ alerts \in [Fingerprints -> AlertRow]
    /\ scan \in [Scans -> ScanRow]
    /\ \A p \in Scans : RowKept(scan[p])
    /\ told \in [Fingerprints -> Nat]
    /\ unread \in [Fingerprints -> Nat]
    /\ events \in 0..MaxEvents

\* The scans that have found f not to be notified and have a message to make of it.
Holders(f) == {p \in Scans : f \in scan[p].tell \/ scan[p].flag = f}

Once(f) ==
    /\ alerts[f].notified \/ (told[f] = 0 /\ \A p \in Scans : f \notin scan[p].tell)
    /\ told[f] + Cardinality(Holders(f)) <= Cardinality(Scans)
    /\ alerts[f].notified \/ Holders(f) # {} => alerts[f].status # "none"

AlertsInv == AlertsTyped /\ \A f \in Fingerprints : Once(f)

-----------------------------------------------------------------------------
LEMMA CandidatesWithin ==
    ASSUME NEW type, NEW S, NEW T, S \subseteq T
    PROVE  Candidates(type, S) \subseteq Candidates(type, T)
BY DEF Candidates

LEMMA FingerprintsAre ==
    /\ \A t \in {"stuck_execution", "stale_submitted", "old_manual_order"} :
          Candidates(t, Orders) \subseteq Fingerprints
    /\ Candidates("old_withdrawal", Withdrawals) \subseteq Fingerprints
    /\ Candidates("provider_balance_error", Accounts \union {Global}) \subseteq Fingerprints
    /\ Candidates("low_provider_balance", Accounts) \subseteq Fingerprints
    /\ Candidates("stale_prices", {Global}) \subseteq Fingerprints
    /\ Candidates("low_margin", Services) \subseteq Fingerprints
    /\ <<>> \notin Fingerprints
<1> DEFINE OfOrders == {Candidates(t, Orders) :
                          t \in {"stuck_execution", "stale_submitted", "old_manual_order"}}
           Old == Candidates("old_withdrawal", Withdrawals)
           Error == Candidates("provider_balance_error", Accounts \union {Global})
           Low == Candidates("low_provider_balance", Accounts)
           Stale == Candidates("stale_prices", {Global})
           Margin == Candidates("low_margin", Services)
           AllOrders == UNION OfOrders
<1>1. Fingerprints = AllOrders \union Old \union Error \union Low \union Stale \union Margin
  BY DEF Fingerprints
<1>2. ASSUME NEW t \in {"stuck_execution", "stale_submitted", "old_manual_order"}
      PROVE  Candidates(t, Orders) \subseteq AllOrders
  <2>1. Candidates(t, Orders) \in OfOrders
    OBVIOUS
  <2> HIDE DEF OfOrders
  <2> QED
    BY <2>1
<1>3. \A type, S : <<>> \notin Candidates(type, S)
  BY DEF Candidates
<1>4. <<>> \notin AllOrders
  BY <1>3
<1>5. <<>> \notin Old \union Error \union Low \union Stale \union Margin
  BY <1>3
<1> HIDE DEF OfOrders, AllOrders, Old, Error, Low, Stale, Margin
<1>6. /\ AllOrders \subseteq Fingerprints /\ Old \subseteq Fingerprints /\ Error \subseteq Fingerprints
      /\ Low \subseteq Fingerprints /\ Stale \subseteq Fingerprints /\ Margin \subseteq Fingerprints
      /\ <<>> \notin Fingerprints
  BY <1>1, <1>4, <1>5
<1>7. \A t \in {"stuck_execution", "stale_submitted", "old_manual_order"} :
         Candidates(t, Orders) \subseteq Fingerprints
  BY <1>2, <1>6
<1> QED
  BY <1>6, <1>7, Zenon DEF Old, Error, Low, Stale, Margin

\* What the scanners find are alerts of the table.
LEMMA ScannersFind ==
    /\ AllRun = 9 /\ DOMAIN Scanners = 1..8
    /\ \A k \in DOMAIN Scanners : Scanners[k] \subseteq Fingerprints
<1>1. AllRun = 9 /\ DOMAIN Scanners = 1..8
  BY DEF AllRun, Scanners
<1>2. /\ StuckExecution \subseteq Fingerprints /\ StaleSubmitted \subseteq Fingerprints
      /\ OldManual \subseteq Fingerprints
  <2>1. ASSUME NEW key PROVE OldOrders(key) \subseteq Orders
    BY DEF OldOrders
  <2> QED
    BY <2>1, CandidatesWithin, FingerprintsAre DEF StuckExecution, StaleSubmitted, OldManual
<1>3. OldDeposits \subseteq Fingerprints
  BY DEF OldDeposits
<1>4. OldWithdrawals \subseteq Fingerprints
  <2>1. {w \in Withdrawals : withdrawals[w] = "old"} \subseteq Withdrawals
    OBVIOUS
  <2> QED
    BY <2>1, CandidatesWithin, FingerprintsAre DEF OldWithdrawals
<1>5. ProviderBalance \subseteq Fingerprints
  <2>1. /\ {a \in Accounts : balances[a] = "error"} \subseteq Accounts \union {Global}
        /\ {a \in Accounts : balances[a] = "low"} \subseteq Accounts
        /\ {Global} \subseteq Accounts \union {Global}
    OBVIOUS
  <2>2. /\ Candidates("provider_balance_error", {a \in Accounts : balances[a] = "error"}) \subseteq Fingerprints
        /\ Candidates("low_provider_balance", {a \in Accounts : balances[a] = "low"}) \subseteq Fingerprints
        /\ Candidates("provider_balance_error", {Global}) \subseteq Fingerprints
    BY <2>1, CandidatesWithin, FingerprintsAre
  <2> QED
    BY <2>2 DEF ProviderBalance
<1>6. StalePrices \subseteq Fingerprints
  <2>1. ASSUME NEW S \in SUBSET {Global} PROVE Candidates("stale_prices", S) \subseteq Fingerprints
    BY CandidatesWithin, FingerprintsAre
  <2>2. (IF \E s \in Services : services[s].stale THEN {Global} ELSE {}) \in SUBSET {Global}
    OBVIOUS
  <2> QED
    BY <2>1, <2>2, Zenon DEF StalePrices
<1>7. LowMargin \subseteq Fingerprints
  <2>1. {s \in Services : services[s].cheap} \subseteq Services
    OBVIOUS
  <2> QED
    BY <2>1, CandidatesWithin, FingerprintsAre DEF LowMargin
<1>8. ASSUME NEW k \in 1..8 PROVE Scanners[k] \subseteq Fingerprints
  <2>1. k = 1 \/ k = 2 \/ k = 3 \/ k = 4 \/ k = 5 \/ k = 6 \/ k = 7 \/ k = 8
    OBVIOUS
  <2>2. /\ Scanners[1] = StuckExecution /\ Scanners[2] = StaleSubmitted
        /\ Scanners[3] = OldManual /\ Scanners[4] = OldDeposits
        /\ Scanners[5] = OldWithdrawals /\ Scanners[6] = ProviderBalance
        /\ Scanners[7] = StalePrices /\ Scanners[8] = LowMargin
    BY DEF Scanners
  <2> QED
    BY <1>2, <1>3, <1>4, <1>5, <1>6, <1>7, <2>1, <2>2
<1> QED
  BY <1>1, <1>8

LEMMA NoScanRow ==
    /\ NoScan \in ScanRow /\ RowKept(NoScan)
    /\ NoScan.at = 0 /\ NoScan.tell = {} /\ NoScan.flag = <<>> /\ NoScan.put = {} /\ NoScan.row = <<>>
BY DEF NoScan, ScanRow, RowKept

LEMMA ScansFinite == ASSUME AlertsAssumption PROVE IsFiniteSet(Scans)
BY FS_AddElement DEF AlertsAssumption, Scans

LEMMA HoldersBounded ==
    ASSUME AlertsAssumption, NEW S \in SUBSET Scans
    PROVE  IsFiniteSet(S) /\ Cardinality(S) \in Nat /\ Cardinality(S) <= Cardinality(Scans)
BY ScansFinite, FS_Subset, FS_CardinalityType

LEMMA InitAlertsInv == ASSUME AlertsAssumption, AlertsInit PROVE AlertsInv
<1>1. NoAlert \in AlertRow /\ NoAlert.notified = FALSE
  BY DEF NoAlert, AlertRow
<1>2. scan \in [Scans -> ScanRow] /\ \A p \in Scans : scan[p] = NoScan
  BY NoScanRow DEF AlertsInit
<1>3. alerts \in [Fingerprints -> AlertRow] /\ \A f \in Fingerprints : ~alerts[f].notified
  BY <1>1 DEF AlertsInit
<1>4. told \in [Fingerprints -> Nat] /\ unread \in [Fingerprints -> Nat] /\ events \in 0..MaxEvents
  <2>1. events = 0
    BY DEF AlertsInit
  <2>2. MaxEvents \in Nat
    BY DEF AlertsAssumption
  <2>3. events \in 0..MaxEvents
    BY <2>1, <2>2
  <2> QED
    BY <2>3 DEF AlertsInit
<1>5. AlertsTyped
  BY <1>2, <1>3, <1>4, NoScanRow DEF AlertsTyped
<1>6. ASSUME NEW f \in Fingerprints PROVE Once(f)
  <2>1. told[f] = 0 /\ ~alerts[f].notified
    BY <1>3 DEF AlertsInit
  <2>2. \A p \in Scans : f \notin scan[p].tell /\ scan[p].flag # f
    BY <1>2, NoScanRow, FingerprintsAre
  <2>3. Holders(f) = {}
    BY <2>2 DEF Holders
  <2>4. Cardinality(Holders(f)) = 0 /\ Cardinality(Scans) \in Nat
    BY <2>3, FS_EmptySet, ScansFinite, FS_CardinalityType
  <2> QED
    BY <2>1, <2>2, <2>3, <2>4 DEF Once
<1> QED
  BY <1>5, <1>6 DEF AlertsInv

\* Whatever marks no alert, hands out no message and makes none.
LEMMA OnceStays ==
    ASSUME AlertsAssumption, NEW f \in Fingerprints, Once(f), told[f] \in Nat,
           alerts'[f].notified = alerts[f].notified,
           alerts[f].status # "none" => alerts'[f].status # "none",
           told'[f] = told[f],
           \A p \in Scans : f \in scan'[p].tell => f \in scan[p].tell,
           \A p \in Scans : scan'[p].flag = f => scan[p].flag = f
    PROVE  Once(f)'
<1>1. Holders(f)' \subseteq Holders(f)
  BY DEF Holders
<1>2. IsFiniteSet(Holders(f)) /\ Cardinality(Holders(f)) \in Nat /\ Cardinality(Scans) \in Nat
  BY HoldersBounded DEF Holders
<1>3. Cardinality(Holders(f)') <= Cardinality(Holders(f)) /\ Cardinality(Holders(f)') \in Nat
  BY <1>1, <1>2, FS_Subset, FS_CardinalityType
<1>4. Scans' = Scans
  BY DEF Scans
<1> QED
  BY <1>1, <1>2, <1>3, <1>4 DEF Once

\* A step of one scan that leaves the others alone.
Steps(p, row) ==
    /\ scan' = [scan EXCEPT ![p] = row]
    /\ row \in ScanRow /\ RowKept(row)

LEMMA StepsScan ==
    ASSUME AlertsTyped, NEW p \in Scans, NEW row, Steps(p, row)
    PROVE  /\ scan' \in [Scans -> ScanRow]
           /\ \A q \in Scans : RowKept(scan'[q])
           /\ scan'[p] = row
           /\ \A q \in Scans : q # p => scan'[q] = scan[q]
BY DEF AlertsTyped, Steps

LEMMA TypedAgain ==
    ASSUME scan' \in [Scans -> ScanRow], \A p \in Scans : RowKept(scan'[p]),
           alerts' \in [Fingerprints -> AlertRow], told' \in [Fingerprints -> Nat],
           unread' \in [Fingerprints -> Nat], events' \in 0..MaxEvents
    PROVE  AlertsTyped'
BY DEF AlertsTyped

\* What a quiet step does to the table: no alert is marked, none goes.
Quiet ==
    /\ alerts' \in [Fingerprints -> AlertRow]
    /\ \A f \in Fingerprints : /\ alerts'[f].notified = alerts[f].notified
                               /\ alerts[f].status # "none" => alerts'[f].status # "none"
    /\ told' = told
    /\ unread' \in [Fingerprints -> Nat] /\ events' \in 0..MaxEvents

LEMMA UnchangedQuiet ==
    ASSUME AlertsTyped, UNCHANGED <<alerts, told, unread>>, events' \in 0..MaxEvents PROVE Quiet
BY DEF AlertsTyped, Quiet

LEMMA MoreEvents ==
    ASSUME AlertsAssumption, AlertsTyped, events < MaxEvents, events' = events + 1 PROVE events' \in 0..MaxEvents
BY DEF AlertsTyped, AlertsAssumption

\* A step that hands out no message and takes up none.
LEMMA QuietScans ==
    ASSUME AlertsAssumption, AlertsInv, Quiet,
           scan' \in [Scans -> ScanRow], \A p \in Scans : RowKept(scan'[p]),
           \A p \in Scans : scan'[p].tell \subseteq scan[p].tell /\ scan'[p].flag \in {scan[p].flag, <<>>}
    PROVE  AlertsInv'
<1>1. AlertsTyped'
  BY TypedAgain DEF Quiet, AlertsInv, AlertsTyped
<1>2. ASSUME NEW f \in Fingerprints PROVE Once(f)'
  <2>1. f # <<>> /\ Once(f) /\ told[f] \in Nat
    BY FingerprintsAre DEF AlertsInv, AlertsTyped
  <2> QED
    BY <2>1, OnceStays DEF Quiet
<1> QED
  BY <1>1, <1>2 DEF AlertsInv

LEMMA QuietStep ==
    ASSUME AlertsAssumption, AlertsInv, Quiet, NEW p \in Scans, NEW row, Steps(p, row),
           row.tell \subseteq scan[p].tell, row.flag \in {scan[p].flag, <<>>}
    PROVE  AlertsInv'
BY StepsScan, QuietScans DEF AlertsInv

-----------------------------------------------------------------------------
LEMMA WorldMoves == ASSUME AlertsAssumption, AlertsInv, Change PROVE AlertsInv'
<1>1. events' \in 0..MaxEvents /\ UNCHANGED <<alerts, scan, told, unread>>
  BY MoreEvents DEF Change, AlertsInv
<1>2. Quiet
  BY <1>1, UnchangedQuiet DEF AlertsInv
<1>3. /\ scan' \in [Scans -> ScanRow]
      /\ \A p \in Scans : RowKept(scan'[p])
      /\ \A p \in Scans : scan'[p].tell \subseteq scan[p].tell /\ scan'[p].flag \in {scan[p].flag, <<>>}
  BY <1>1 DEF AlertsInv, AlertsTyped
<1> QED
  BY <1>2, <1>3, QuietScans

\* Every step that only reads, or ends a scan.
LEMMA ScanningKeeps ==
    ASSUME AlertsAssumption, AlertsInv, NEW p \in Scans,
           \/ StartScan(p) \/ RunScanner(p) \/ ScannerFails(p) \/ UpsertFails(p)
           \/ RecordFails(p) \/ EndScan(p)
    PROVE  AlertsInv'
<1>1. AlertsTyped /\ scan[p] \in ScanRow /\ RowKept(scan[p])
  BY DEF AlertsInv, AlertsTyped
<1>2. UNCHANGED <<alerts, told, unread>> /\ events' \in 0..MaxEvents
  BY <1>1, MoreEvents DEF StartScan, RunScanner, ScannerFails, UpsertFails, RecordFails, EndScan, AlertsTyped
<1>3. Quiet
  BY <1>1, <1>2, UnchangedQuiet
<1>4. ASSUME NEW row, Steps(p, row), row.tell \subseteq scan[p].tell, row.flag \in {scan[p].flag, <<>>}
      PROVE  AlertsInv'
  BY <1>3, <1>4, QuietStep
<1>5. ASSUME StartScan(p) PROVE AlertsInv'
  <2> DEFINE row == [scan[p] EXCEPT !.at = 1]
  <2>1. scan[p] = NoScan /\ scan' = [scan EXCEPT ![p] = row]
    BY <1>5 DEF StartScan
  <2>2. row \in ScanRow /\ row.tell = {} /\ row.flag = <<>>
    BY <1>1, <2>1, NoScanRow DEF ScanRow
  <2>3. RowKept(row)
    BY <1>1, <2>1, NoScanRow DEF ScanRow, RowKept
  <2> HIDE DEF row
  <2> QED
    BY <1>4, <2>1, <2>2, <2>3, NoScanRow DEF Steps
<1>6. ASSUME NEW at, NEW found, at \in 2..9, found \in SUBSET Fingerprints, scan[p].at = at - 1,
             scan[p].found \subseteq found,
             scan' = [scan EXCEPT ![p] = [scan[p] EXCEPT !.at = at, !.found = found]]
      PROVE  AlertsInv'
  <2> DEFINE row == [scan[p] EXCEPT !.at = at, !.found = found]
  <2>0. at \in 0..10
    BY <1>6
  <2>1. row \in ScanRow /\ row.tell = scan[p].tell /\ row.flag = scan[p].flag
    <3>1. found \in SUBSET Fingerprints
      BY <1>6
    <3> QED
      BY <1>1, <2>0, <3>1 DEF ScanRow
  <2>2. scan[p].at # 9 /\ scan[p].at # 10
    BY <1>6
  <2>3. scan[p].put = {} /\ scan[p].tell = {}
    BY <1>1, <2>2 DEF RowKept
  <2>4. row.put = scan[p].put /\ row.row = scan[p].row /\ row.found = found
    BY <1>1 DEF ScanRow
  <2>5. RowKept(row)
    BY <1>1, <1>6, <2>1, <2>3, <2>4 DEF RowKept
  <2> HIDE DEF row
  <2>6. scan' = [scan EXCEPT ![p] = row]
    BY <1>6 DEF row
  <2> QED
    BY <1>4, <2>1, <2>5, <2>6 DEF Steps
<1>7. ASSUME RunScanner(p) PROVE AlertsInv'
  <2>1. PICK n : n = scan[p].at
    OBVIOUS
  <2>2. n \in 1..8 /\ Scanners[n] \subseteq Fingerprints /\ n \in Nat
    BY <1>7, <2>1, ScannersFind DEF RunScanner
  <2>3. PICK found : found = scan[p].found \union Scanners[n]
    OBVIOUS
  <2>4. scan' = [scan EXCEPT ![p] = [scan[p] EXCEPT !.at = n + 1, !.found = found]]
    BY <1>1, <1>7, <2>1, <2>3 DEF RunScanner, ScanRow
  <2>5. found \in SUBSET Fingerprints /\ scan[p].found \subseteq found
    BY <1>1, <2>2, <2>3 DEF ScanRow
  <2>6. n + 1 \in 2..9 /\ scan[p].at = (n + 1) - 1
    BY <2>1, <2>2
  <2> QED
    BY <1>6, <2>4, <2>5, <2>6
<1>8. ASSUME ScannerFails(p) PROVE AlertsInv'
  <2>1. PICK n : n = scan[p].at
    OBVIOUS
  <2>2. n \in 1..8
    BY <1>8, <2>1, ScannersFind DEF ScannerFails
  <2>3. PICK found : found = scan[p].found
    OBVIOUS
  <2>4. scan' = [scan EXCEPT ![p] = [scan[p] EXCEPT !.at = n + 1, !.found = found]]
    BY <1>1, <1>8, <2>1, <2>3 DEF ScannerFails, ScanRow, AlertsTyped
  <2>5. found \in SUBSET Fingerprints /\ scan[p].found \subseteq found
    BY <1>1, <2>3 DEF ScanRow
  <2>6. n + 1 \in 2..9 /\ scan[p].at = (n + 1) - 1
    BY <2>1, <2>2
  <2> QED
    BY <1>6, <2>4, <2>5, <2>6
<1>9. ASSUME UpsertFails(p) \/ EndScan(p) PROVE AlertsInv'
  <2>1. scan' = [scan EXCEPT ![p] = NoScan]
    BY <1>9 DEF UpsertFails, EndScan
  <2> QED
    BY <1>4, <2>1, NoScanRow DEF Steps
<1>10. ASSUME RecordFails(p) PROVE AlertsInv'
  <2> DEFINE row == [scan[p] EXCEPT !.sent = <<>>]
  <2>1. row \in ScanRow /\ row.tell = scan[p].tell /\ row.flag = scan[p].flag
    BY <1>1 DEF ScanRow
  <2>2. RowKept(row)
    BY <1>1 DEF ScanRow, RowKept
  <2>3. scan' = [scan EXCEPT ![p] = row]
    BY <1>1, <1>10 DEF RecordFails, ScanRow
  <2> HIDE DEF row
  <2> QED
    BY <1>4, <2>1, <2>2, <2>3 DEF Steps
<1> QED
  BY <1>5, <1>7, <1>8, <1>9, <1>10

LEMMA RecordNoticeKeeps ==
    ASSUME AlertsAssumption, AlertsInv, NEW p \in Scans, RecordNotice(p) PROVE AlertsInv'
<1>1. AlertsTyped /\ scan[p] \in ScanRow /\ RowKept(scan[p])
  BY DEF AlertsInv, AlertsTyped
<1> DEFINE row == [scan[p] EXCEPT !.sent = <<>>]
<1>2. row \in ScanRow /\ row.tell = scan[p].tell /\ row.flag = scan[p].flag
  BY <1>1 DEF ScanRow
<1>3. RowKept(row)
  BY <1>1 DEF ScanRow, RowKept
<1>4. scan' = [scan EXCEPT ![p] = row]
  BY <1>1 DEF RecordNotice, ScanRow
<1> HIDE DEF row
<1>5. PICK f : f = scan[p].sent
  OBVIOUS
<1>6. f \in Fingerprints /\ unread' = [unread EXCEPT ![f] = @ + 1]
  BY <1>1, <1>5 DEF RecordNotice, ScanRow
<1>7. unread' \in [Fingerprints -> Nat]
  BY <1>1, <1>6 DEF AlertsTyped
<1>8. Quiet
  BY <1>1, <1>7 DEF RecordNotice, AlertsTyped, Quiet
<1> QED
  BY <1>2, <1>3, <1>4, <1>8, QuietStep DEF Steps

\* The INSERT opens alerts, or leaves them dismissed.
LEMMA PutAlertKeeps ==
    ASSUME AlertsAssumption, AlertsInv, NEW p \in Scans, NEW f, PutAlert(p, f) PROVE AlertsInv'
<1>1. AlertsTyped /\ scan[p] \in ScanRow /\ RowKept(scan[p])
  BY DEF AlertsInv, AlertsTyped
<1>2. f \in scan[p].found /\ f \in Fingerprints /\ scan[p].at = 9 /\ scan[p].flag = <<>>
  BY <1>1, ScannersFind DEF PutAlert, ScanRow
<1>3. PICK status : status = (IF alerts[f].status = "dismissed" THEN "dismissed" ELSE "open")
  OBVIOUS
<1>4. alerts' = [alerts EXCEPT ![f] = [alerts[f] EXCEPT !.status = status]] /\ alerts[f] \in AlertRow
  BY <1>1, <1>2, <1>3 DEF PutAlert, AlertsTyped, AlertRow
<1>5. Quiet
  <2>1. [alerts[f] EXCEPT !.status = status] \in AlertRow
        /\ [alerts[f] EXCEPT !.status = status].notified = alerts[f].notified
        /\ [alerts[f] EXCEPT !.status = status].status # "none"
    BY <1>3, <1>4 DEF AlertRow
  <2>2. alerts' \in [Fingerprints -> AlertRow]
    BY <1>1, <1>2, <1>4, <2>1 DEF AlertsTyped
  <2>3. \A g \in Fingerprints : /\ alerts'[g].notified = alerts[g].notified
                                /\ alerts[g].status # "none" => alerts'[g].status # "none"
    BY <1>1, <1>2, <1>4, <2>1 DEF AlertsTyped
  <2> QED
    BY <1>1, <2>2, <2>3 DEF PutAlert, AlertsTyped, Quiet
<1>6. PICK put, reads : put = (scan[p].put \union {f}) /\ reads = (IF ForTelegram(f) THEN f ELSE <<>>)
  OBVIOUS
<1> DEFINE row == [scan[p] EXCEPT !.put = put, !.row = reads]
<1>7. scan' = [scan EXCEPT ![p] = row]
  BY <1>1, <1>6 DEF PutAlert, AlertsTyped, ScanRow
<1>8. put \in SUBSET Fingerprints /\ reads \in Fingerprints \union {<<>>}
  BY <1>1, <1>2, <1>6 DEF ScanRow
<1>9. row \in ScanRow /\ row.put = put /\ row.row = reads /\ row.tell = scan[p].tell /\ row.at = 9
      /\ row.found = scan[p].found /\ row.flag = scan[p].flag
  BY <1>1, <1>2, <1>8 DEF ScanRow
<1>10. put \subseteq scan[p].found /\ reads \in (put \union {<<>>})
  BY <1>1, <1>2, <1>6 DEF RowKept
<1> HIDE DEF row
<1>11. RowKept(row)
  BY <1>2, <1>9, <1>10 DEF RowKept
<1> QED
  BY <1>5, <1>7, <1>9, <1>11, QuietStep DEF Steps

\* The last UPDATE closes alerts and loses none.
LEMMA ResolveRestKeeps ==
    ASSUME AlertsAssumption, AlertsInv, NEW p \in Scans, ResolveRest(p) PROVE AlertsInv'
<1>1. AlertsTyped /\ scan[p] \in ScanRow
  BY DEF AlertsInv, AlertsTyped
<1>2. PICK tell : tell = scan[p].tell
  OBVIOUS
<1> DEFINE row == [NoScan EXCEPT !.at = 10, !.tell = tell]
<1>3. scan' = [scan EXCEPT ![p] = row]
  BY <1>2, ScannersFind DEF ResolveRest
<1>4. row \in ScanRow /\ row.tell = tell /\ row.flag = <<>> /\ RowKept(row)
  <2>1. tell \in SUBSET Fingerprints
    BY <1>1, <1>2 DEF ScanRow
  <2>2. NoScan \in ScanRow /\ 10 \in 0..10 /\ NoScan.put = {} /\ NoScan.row = <<>> /\ NoScan.flag = <<>>
    BY NoScanRow
  <2>3. row \in ScanRow
    BY <2>1, <2>2 DEF ScanRow
  <2>4. row.tell = tell /\ row.at = 10
    BY <2>2 DEF ScanRow
  <2>5. row.put = {} /\ row.row = <<>> /\ row.flag = <<>>
    BY <2>2 DEF ScanRow
  <2> HIDE DEF row
  <2> QED
    BY <2>3, <2>4, <2>5 DEF RowKept
<1>5. Quiet
  <2>1. PICK closed : closed = Unseen(scan[p].found)
    OBVIOUS
  <2>2. alerts' = [g \in Fingerprints |-> IF g \in closed THEN [alerts[g] EXCEPT !.status = "resolved"]
                                          ELSE alerts[g]]
    BY <2>1 DEF ResolveRest
  <2>3. ASSUME NEW g \in Fingerprints
        PROVE  /\ [alerts[g] EXCEPT !.status = "resolved"] \in AlertRow
               /\ [alerts[g] EXCEPT !.status = "resolved"].notified = alerts[g].notified
               /\ [alerts[g] EXCEPT !.status = "resolved"].status # "none"
               /\ alerts[g] \in AlertRow
    <3>1. alerts[g] \in AlertRow
      BY <1>1 DEF AlertsTyped
    <3> QED
      BY <3>1 DEF AlertRow
  <2> QED
    BY <1>1, <2>2, <2>3 DEF ResolveRest, AlertsTyped, Quiet
<1> HIDE DEF row
<1> QED
  BY <1>2, <1>3, <1>4, <1>5, QuietStep DEF Steps

\* The SELECT finds an alert not notified: nobody has told of it, and no more scans than there
\* are have found the same.
LEMMA ReadAlertKeeps ==
    ASSUME AlertsAssumption, AlertsInv, NEW p \in Scans, ReadAlert(p) PROVE AlertsInv'
<1>1. AlertsTyped /\ scan[p] \in ScanRow /\ RowKept(scan[p])
  BY DEF AlertsInv, AlertsTyped
<1>2. PICK f : f = scan[p].row
  OBVIOUS
<1>3. f \in Fingerprints /\ f \in scan[p].put /\ f # <<>>
  BY <1>1, <1>2, FingerprintsAre DEF ReadAlert, ScanRow, RowKept
<1>4. PICK flag : flag = (IF IsNew(f) THEN f ELSE <<>>)
  OBVIOUS
<1> DEFINE row == [scan[p] EXCEPT !.row = <<>>, !.flag = flag]
<1>5. scan' = [scan EXCEPT ![p] = row] /\ UNCHANGED <<alerts, told, unread, events>>
  BY <1>1, <1>2, <1>4 DEF ReadAlert, AlertsTyped, ScanRow
<1>6. flag \in Fingerprints \union {<<>>} /\ flag \in (scan[p].put \union {<<>>})
  BY <1>3, <1>4
<1>7. row \in ScanRow /\ row.put = scan[p].put /\ row.row = <<>> /\ row.flag = flag
      /\ row.tell = scan[p].tell /\ row.at = scan[p].at /\ row.found = scan[p].found
  BY <1>1, <1>6 DEF ScanRow
<1> HIDE DEF row
<1>8. RowKept(row)
  BY <1>1, <1>6, <1>7 DEF RowKept
<1>9. /\ scan' \in [Scans -> ScanRow]
      /\ \A q \in Scans : RowKept(scan'[q])
      /\ scan'[p] = row
      /\ \A q \in Scans : q # p => scan'[q] = scan[q]
  BY <1>1, <1>5, <1>7, <1>8, StepsScan DEF Steps
<1>10. AlertsTyped'
  BY <1>1, <1>5, <1>9, TypedAgain DEF AlertsTyped
<1>11. \A q \in Scans : scan'[q].tell = scan[q].tell
  BY <1>7, <1>9
<1>12. ASSUME NEW g \in Fingerprints, \A q \in Scans : scan'[q].flag = g => scan[q].flag = g
       PROVE  Once(g)'
  <2>1. Once(g) /\ told[g] \in Nat
    BY <1>1 DEF AlertsInv, AlertsTyped
  <2> QED
    BY <1>5, <1>11, <1>12, <2>1, OnceStays
<1>13. ASSUME NEW g \in Fingerprints, flag # g PROVE Once(g)'
  <2>1. \A q \in Scans : scan'[q].flag = g => scan[q].flag = g
    BY <1>7, <1>9, <1>13
  <2> QED
    BY <1>12, <2>1
<1>14. ASSUME IsNew(f), flag = f PROVE Once(f)'
  <2>1. ~alerts[f].notified /\ alerts[f].status = "open" /\ Once(f)
    BY <1>3, <1>14 DEF IsNew, AlertsInv
  <2>2. told[f] = 0 /\ \A q \in Scans : f \notin scan[q].tell
    BY <2>1 DEF Once
  <2>3. told'[f] = 0 /\ \A q \in Scans : f \notin scan'[q].tell
    BY <1>5, <1>11, <2>2
  <2>4. alerts'[f].status # "none"
    BY <1>5, <2>1
  <2>5. Holders(f)' \in SUBSET Scans
    BY DEF Holders, Scans
  <2>6. Scans' = Scans
    BY DEF Scans
  <2>7. Cardinality(Holders(f)') <= Cardinality(Scans) /\ Cardinality(Holders(f)') \in Nat
    BY <2>5, HoldersBounded
  <2> QED
    BY <2>3, <2>4, <2>6, <2>7 DEF Once
<1>15. ASSUME NEW g \in Fingerprints, flag = g PROVE Once(g)'
  <2>1. g # <<>>
    BY FingerprintsAre
  <2>2. IsNew(f) /\ g = f
    BY <1>4, <1>15, <2>1
  <2>3. Once(f)'
    BY <1>14, <1>15, <2>2
  <2> QED
    BY <2>2, <2>3
<1>16. \A g \in Fingerprints : Once(g)'
  BY <1>13, <1>15
<1> QED
  BY <1>10, <1>16 DEF AlertsInv

\* The UPDATE that follows: the scan that found the alert not notified now has it to tell.
LEMMA FlagAlertKeeps ==
    ASSUME AlertsAssumption, AlertsInv, NEW p \in Scans, FlagAlert(p) PROVE AlertsInv'
<1>1. AlertsTyped /\ scan[p] \in ScanRow /\ RowKept(scan[p])
  BY DEF AlertsInv, AlertsTyped
<1>2. PICK f : f = scan[p].flag
  OBVIOUS
<1>3. f \in Fingerprints /\ f \in scan[p].put /\ f # <<>> /\ alerts[f] \in AlertRow
  BY <1>1, <1>2, FingerprintsAre DEF FlagAlert, ScanRow, RowKept, AlertsTyped
<1>4. PICK tell : tell = (scan[p].tell \union {f})
  OBVIOUS
<1> DEFINE row == [scan[p] EXCEPT !.flag = <<>>, !.tell = tell]
           marked == [alerts[f] EXCEPT !.notified = TRUE]
<1>5. /\ scan' = [scan EXCEPT ![p] = row] /\ alerts' = [alerts EXCEPT ![f] = marked]
      /\ UNCHANGED <<told, unread, events>>
  BY <1>1, <1>2, <1>3, <1>4 DEF FlagAlert, AlertsTyped, ScanRow, AlertRow
<1>6. tell \in SUBSET Fingerprints
  BY <1>1, <1>3, <1>4 DEF ScanRow
<1>7. row \in ScanRow /\ row.put = scan[p].put /\ row.row = scan[p].row /\ row.flag = <<>>
      /\ row.tell = tell /\ row.at = scan[p].at /\ row.found = scan[p].found
  BY <1>1, <1>6 DEF ScanRow
<1>8. marked \in AlertRow /\ marked.notified = TRUE /\ marked.status = alerts[f].status
  BY <1>3 DEF AlertRow
<1> HIDE DEF row, marked
<1>9. scan[p].at = 9
  BY <1>1, <1>3 DEF RowKept
<1>10. RowKept(row)
  BY <1>1, <1>7, <1>9 DEF RowKept
<1>11. /\ scan' \in [Scans -> ScanRow]
       /\ \A q \in Scans : RowKept(scan'[q])
       /\ scan'[p] = row
       /\ \A q \in Scans : q # p => scan'[q] = scan[q]
  BY <1>1, <1>5, <1>7, <1>10, StepsScan DEF Steps
<1>12. alerts' \in [Fingerprints -> AlertRow] /\ alerts'[f] = marked
       /\ \A g \in Fingerprints : g # f => alerts'[g] = alerts[g]
  BY <1>1, <1>3, <1>5, <1>8 DEF AlertsTyped
<1>13. AlertsTyped'
  BY <1>1, <1>5, <1>11, <1>12, TypedAgain DEF AlertsTyped
<1>14. Once(f)'
  <2>1. Once(f) /\ p \in Holders(f)
    BY <1>2, <1>3 DEF AlertsInv, Holders
  <2>2. alerts[f].status # "none"
    BY <2>1 DEF Once
  <2>3. alerts'[f].notified /\ alerts'[f].status # "none" /\ told'[f] = told[f]
    BY <1>5, <1>8, <1>12, <2>2
  <2>4. ASSUME NEW q \in Scans
        PROVE  (f \in scan'[q].tell \/ scan'[q].flag = f) <=> (f \in scan[q].tell \/ scan[q].flag = f)
    BY <1>2, <1>3, <1>4, <1>7, <1>11
  <2>5. Holders(f)' = Holders(f) /\ Scans' = Scans
    BY <2>4 DEF Holders, Scans
  <2> QED
    BY <2>1, <2>3, <2>5 DEF Once
<1>15. ASSUME NEW g \in Fingerprints, g # f PROVE Once(g)'
  <2>1. Once(g) /\ told[g] \in Nat /\ g # <<>>
    BY <1>1, FingerprintsAre DEF AlertsInv, AlertsTyped
  <2>2. \A q \in Scans : g \in scan'[q].tell => g \in scan[q].tell
    BY <1>4, <1>7, <1>11, <1>15
  <2>3. \A q \in Scans : scan'[q].flag = g => scan[q].flag = g
    BY <1>7, <1>11, <2>1
  <2> QED
    BY <1>5, <1>12, <1>15, <2>1, <2>2, <2>3, OnceStays
<1>16. \A g \in Fingerprints : Once(g)'
  BY <1>14, <1>15
<1> QED
  BY <1>13, <1>16 DEF AlertsInv

\* A message is made: one told more, one fewer to be told.
LEMMA TellKeeps ==
    ASSUME AlertsAssumption, AlertsInv, NEW p \in Scans, NEW f, Tell(p, f) PROVE AlertsInv'
<1>1. AlertsTyped /\ scan[p] \in ScanRow /\ RowKept(scan[p])
  BY DEF AlertsInv, AlertsTyped
<1>2. f \in scan[p].tell /\ f \in Fingerprints /\ f # <<>> /\ scan[p].at = 10
  BY <1>1, ScannersFind, FingerprintsAre DEF Tell, ScanRow
<1>3. PICK tell : tell = scan[p].tell \ {f}
  OBVIOUS
<1> DEFINE row == [scan[p] EXCEPT !.tell = tell, !.sent = f]
<1>4. /\ scan' = [scan EXCEPT ![p] = row] /\ told' = [told EXCEPT ![f] = @ + 1]
      /\ UNCHANGED <<alerts, unread, events>>
  BY <1>1, <1>3 DEF Tell, AlertsTyped, ScanRow
<1>5. tell \in SUBSET Fingerprints
  BY <1>1, <1>3 DEF ScanRow
<1>6. row \in ScanRow /\ row.put = scan[p].put /\ row.row = scan[p].row /\ row.flag = scan[p].flag
      /\ row.tell = tell /\ row.at = scan[p].at /\ row.found = scan[p].found
  BY <1>1, <1>2, <1>5 DEF ScanRow
<1> HIDE DEF row
<1>7. RowKept(row)
  BY <1>1, <1>2, <1>6 DEF RowKept
<1>8. /\ scan' \in [Scans -> ScanRow]
      /\ \A q \in Scans : RowKept(scan'[q])
      /\ scan'[p] = row
      /\ \A q \in Scans : q # p => scan'[q] = scan[q]
  BY <1>1, <1>4, <1>6, <1>7, StepsScan DEF Steps
<1>9. told' \in [Fingerprints -> Nat] /\ told'[f] = told[f] + 1 /\ told[f] \in Nat
      /\ \A g \in Fingerprints : g # f => told'[g] = told[g]
  BY <1>1, <1>2, <1>4 DEF AlertsTyped
<1>10. AlertsTyped'
  BY <1>1, <1>4, <1>8, <1>9, TypedAgain DEF AlertsTyped
<1>11. Once(f)'
  <2>1. Once(f) /\ p \in Holders(f) /\ IsFiniteSet(Holders(f)) /\ Cardinality(Scans) \in Nat
    BY <1>2, HoldersBounded, ScansFinite, FS_CardinalityType DEF AlertsInv, Holders
  <2>2. alerts[f].notified
    BY <1>2, <2>1 DEF Once
  <2>3. scan[p].flag = <<>>
    BY <1>1, <1>2 DEF RowKept
  <2>4. Holders(f)' = Holders(f) \ {p}
    <3>1. f \notin scan'[p].tell /\ scan'[p].flag # f
      BY <1>2, <1>3, <1>6, <1>8, <2>3
    <3> QED
      BY <1>8, <3>1 DEF Holders, Scans
  <2>5. Cardinality(Holders(f)') = Cardinality(Holders(f)) - 1 /\ Cardinality(Holders(f)) \in Nat
    BY <2>1, <2>4, FS_RemoveElement, FS_CardinalityType
  <2>6. Scans' = Scans
    BY DEF Scans
  <2>7. told'[f] + Cardinality(Holders(f)') <= Cardinality(Scans)
    BY <1>9, <2>1, <2>5 DEF Once
  <2>8. alerts'[f].notified /\ alerts'[f].status # "none"
    BY <1>4, <2>1, <2>2 DEF Once
  <2> QED
    BY <2>6, <2>7, <2>8 DEF Once
<1>12. ASSUME NEW g \in Fingerprints, g # f PROVE Once(g)'
  <2>1. Once(g) /\ told[g] \in Nat
    BY <1>1 DEF AlertsInv, AlertsTyped
  <2>2. \A q \in Scans : /\ g \in scan'[q].tell => g \in scan[q].tell
                         /\ scan'[q].flag = g => scan[q].flag = g
    BY <1>3, <1>6, <1>8
  <2> QED
    BY <1>4, <1>9, <1>12, <2>1, <2>2, OnceStays
<1>13. \A g \in Fingerprints : Once(g)'
  BY <1>11, <1>12
<1> QED
  BY <1>10, <1>13 DEF AlertsInv

\* Dismissals, readings of the inbox and restarts.
LEMMA TablesKeep ==
    ASSUME AlertsAssumption, AlertsInv,
           \/ \E f \in Fingerprints : Dismiss(f) \/ MarkRead(f)
           \/ MarkAllRead
           \/ ProcessRestarts
    PROVE  AlertsInv'
<1>1. AlertsTyped
  BY DEF AlertsInv
<1>2. ASSUME Quiet, UNCHANGED scan PROVE AlertsInv'
  <2>1. /\ scan' \in [Scans -> ScanRow]
        /\ \A p \in Scans : RowKept(scan'[p])
        /\ \A p \in Scans : scan'[p].tell \subseteq scan[p].tell /\ scan'[p].flag \in {scan[p].flag, <<>>}
    BY <1>1, <1>2 DEF AlertsTyped
  <2> QED
    BY <1>2, <2>1, QuietScans
<1>3. ASSUME NEW f \in Fingerprints, Dismiss(f) PROVE AlertsInv'
  <2> DEFINE row == [alerts[f] EXCEPT !.status = "dismissed"]
  <2>1. alerts[f] \in AlertRow
    BY <1>1 DEF AlertsTyped
  <2>2. row \in AlertRow /\ row.notified = alerts[f].notified /\ row.status # "none"
    BY <2>1 DEF AlertRow
  <2>3. alerts' = [alerts EXCEPT ![f] = row] /\ UNCHANGED <<scan, told, unread, events>>
    BY <1>3 DEF Dismiss
  <2> HIDE DEF row
  <2>4. Quiet
    BY <1>1, <2>2, <2>3 DEF AlertsTyped, Quiet
  <2> QED
    BY <1>2, <2>3, <2>4
<1>4. ASSUME NEW f \in Fingerprints, MarkRead(f) PROVE AlertsInv'
  <2>1. PICK n : n = unread[f]
    OBVIOUS
  <2>2. n \in Nat /\ n > 0 /\ unread' = [unread EXCEPT ![f] = n - 1]
    BY <1>1, <1>4, <2>1 DEF MarkRead, AlertsTyped
  <2>3. n - 1 \in Nat
    BY <2>2
  <2>4. unread' \in [Fingerprints -> Nat]
    BY <1>1, <2>2, <2>3 DEF AlertsTyped
  <2>5. Quiet /\ UNCHANGED scan
    BY <1>1, <1>4, <2>4 DEF MarkRead, AlertsTyped, Quiet
  <2> QED
    BY <1>2, <2>5
<1>5. ASSUME MarkAllRead PROVE AlertsInv'
  <2>1. Quiet /\ UNCHANGED scan
    BY <1>1, <1>5 DEF MarkAllRead, AlertsTyped, Quiet
  <2> QED
    BY <1>2, <2>1
<1>6. ASSUME ProcessRestarts PROVE AlertsInv'
  <2>1. events' \in 0..MaxEvents /\ UNCHANGED <<alerts, told, unread>>
    BY <1>1, <1>6, MoreEvents DEF ProcessRestarts
  <2>2. Quiet
    BY <1>1, <2>1, UnchangedQuiet
  <2>3. scan' = [p \in Scans |-> NoScan]
    BY <1>6 DEF ProcessRestarts
  <2>4. /\ scan' \in [Scans -> ScanRow]
        /\ \A p \in Scans : RowKept(scan'[p])
        /\ \A p \in Scans : scan'[p].tell \subseteq scan[p].tell /\ scan'[p].flag \in {scan[p].flag, <<>>}
    BY <2>3, NoScanRow
  <2> QED
    BY <2>2, <2>4, QuietScans
<1> QED
  BY <1>3, <1>4, <1>5, <1>6

LEMMA NextAlertsInv ==
    ASSUME AlertsAssumption, AlertsInv, [AlertsNext]_alertVars PROVE AlertsInv'
<1>1. CASE UNCHANGED alertVars
  <2>1. UNCHANGED <<alerts, scan, told, unread, events>>
    BY <1>1 DEF alertVars
  <2>2. Quiet
    BY <2>1 DEF AlertsInv, AlertsTyped, Quiet
  <2>3. /\ scan' \in [Scans -> ScanRow]
        /\ \A p \in Scans : RowKept(scan'[p])
        /\ \A p \in Scans : scan'[p].tell \subseteq scan[p].tell /\ scan'[p].flag \in {scan[p].flag, <<>>}
    BY <2>1 DEF AlertsInv, AlertsTyped
  <2> QED
    BY <2>2, <2>3, QuietScans
<1>2. ASSUME \/ \E o \in Orders : OrderAges(o) \/ \E key \in Keys : OrderMoves(o, key)
             \/ \E w \in Withdrawals : WithdrawalMoves(w)
             \/ ProviderMoves
             \/ \E s \in Services : ServiceMoves(s)
      PROVE  AlertsInv'
  <2>1. Change
    BY <1>2 DEF OrderAges, OrderMoves, WithdrawalMoves, ProviderMoves, ServiceMoves
  <2> QED
    BY <2>1, WorldMoves
<1>3. ASSUME NEW p \in Scans,
             \/ StartScan(p) \/ RunScanner(p) \/ ScannerFails(p) \/ UpsertFails(p)
             \/ RecordFails(p) \/ EndScan(p)
      PROVE  AlertsInv'
  BY <1>3, ScanningKeeps
<1>4. ASSUME NEW p \in Scans,
             \/ \E f \in scan[p].found : PutAlert(p, f)
             \/ ReadAlert(p) \/ FlagAlert(p) \/ ResolveRest(p) \/ RecordNotice(p)
             \/ \E f \in scan[p].tell : Tell(p, f)
      PROVE  AlertsInv'
  BY <1>4, PutAlertKeeps, ReadAlertKeeps, FlagAlertKeeps, ResolveRestKeeps, RecordNoticeKeeps, TellKeeps
<1>5. ASSUME \/ \E f \in Fingerprints : Dismiss(f) \/ MarkRead(f)
             \/ MarkAllRead
             \/ ProcessRestarts
      PROVE  AlertsInv'
  BY <1>5, TablesKeep
<1> QED
  BY <1>1, <1>2, <1>3, <1>4, <1>5 DEF AlertsNext

LEMMA AlertsInvHolds == AlertsSpec => []AlertsInv
<1>1. AlertsInit => AlertsInv
  BY InitAlertsInv, AlertsAssumption
<1>2. AlertsInv /\ [AlertsNext]_alertVars => AlertsInv'
  BY NextAlertsInv, AlertsAssumption
<1> QED
  BY <1>1, <1>2, PTL DEF AlertsSpec

\* The alerts and the scans keep their types, and a message waits to be made only in a scan
\* that is writing the table or has written it (admin_alerts.py).
THEOREM AlertsTypeCorrect == AlertsSpec => []AlertsTypeOK
<1>1. ASSUME AlertsInv PROVE AlertsTypeOK
  <2>1. ASSUME NEW p \in Scans
        PROVE  /\ scan[p].at \in 0..(AllRun + 1)
               /\ (scan[p].found \union scan[p].tell) \subseteq Fingerprints
               /\ scan[p].put \subseteq scan[p].found
               /\ {scan[p].row, scan[p].flag} \subseteq (scan[p].put \union {<<>>})
               /\ scan[p].tell # {} => scan[p].at \in {AllRun, AllRun + 1}
    <3>1. scan[p] \in ScanRow /\ RowKept(scan[p])
      BY <1>1 DEF AlertsInv, AlertsTyped
    <3>2. AllRun = 9 /\ AllRun + 1 = 10
      BY ScannersFind
    <3> QED
      BY <3>1, <3>2 DEF ScanRow, RowKept
  <2>2. \A f \in Fingerprints : alerts[f].notified => alerts[f].status # "none"
    BY <1>1 DEF AlertsInv, Once
  <2>3. alerts \in [Fingerprints -> AlertRow] /\ events \in 0..MaxEvents
    BY <1>1 DEF AlertsInv, AlertsTyped
  <2> QED
    BY <2>1, <2>2, <2>3 DEF AlertsTypeOK, AlertRow
<1> QED
  BY <1>1, AlertsInvHolds, PTL

\* However scans overlap statement by statement, fail midway and are cut off: an alert whose
\* message was made or is about to be is marked as notified, and no more messages are made of
\* it than there are scans that run at once (_upsert_candidates, notify_admin_system_alert).
THEOREM AlertsAreToldOncePerScan == AlertsSpec => []ToldOncePerScan
<1>1. ASSUME AlertsAssumption, AlertsInv PROVE ToldOncePerScan
  <2> SUFFICES ASSUME NEW f \in Fingerprints
               PROVE  LET telling == {p \in Scans : f \in scan[p].tell}
                      IN  /\ told[f] + Cardinality(telling) <= Cardinality(Scans)
                          /\ telling # {} \/ told[f] > 0 => alerts[f].notified
    BY DEF ToldOncePerScan
  <2> DEFINE telling == {p \in Scans : f \in scan[p].tell}
  <2>1. Once(f) /\ told[f] \in Nat
    BY <1>1 DEF AlertsInv, AlertsTyped
  <2>2. telling \subseteq Holders(f) /\ Holders(f) \in SUBSET Scans
    BY DEF Holders
  <2>3. /\ Cardinality(telling) <= Cardinality(Holders(f))
        /\ Cardinality(telling) \in Nat /\ Cardinality(Holders(f)) \in Nat /\ Cardinality(Scans) \in Nat
    BY <1>1, <2>2, HoldersBounded, ScansFinite, FS_Subset, FS_CardinalityType
  <2>4. telling # {} \/ told[f] > 0 => alerts[f].notified
    BY <2>1 DEF Once
  <2> HIDE DEF telling
  <2>5. told[f] + Cardinality(telling) <= Cardinality(Scans)
    BY <2>1, <2>3 DEF Once
  <2> QED
    BY <2>4, <2>5 DEF telling
<1> QED
  BY <1>1, AlertsInvHolds, AlertsAssumption, PTL

\* If only the loop scans, no alert is ever told twice, whatever fails and however often its
\* condition comes back (run_alert_scan_loop).
THEOREM AloneToldOnce ==
    ASSUME Requested = {}
    PROVE  AlertsSpec => [](\A f \in Fingerprints : told[f] <= 1)
<1>1. ASSUME AlertsAssumption, AlertsInv PROVE \A f \in Fingerprints : told[f] <= 1
  <2>1. Cardinality(Scans) = 1
    BY FS_Singleton DEF Scans
  <2>2. ASSUME NEW f \in Fingerprints PROVE told[f] <= 1
    <3>1. Once(f) /\ told[f] \in Nat /\ Holders(f) \in SUBSET Scans
      BY <1>1 DEF AlertsInv, AlertsTyped, Holders
    <3>2. Cardinality(Holders(f)) \in Nat
      BY <1>1, <3>1, HoldersBounded
    <3> QED
      BY <2>1, <3>1, <3>2 DEF Once
  <2> QED
    BY <2>2
<1> QED
  BY <1>1, AlertsInvHolds, AlertsAssumption, PTL

=============================================================================
