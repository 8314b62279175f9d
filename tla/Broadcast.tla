------------------------------ MODULE Broadcast ------------------------------
(***************************************************************************)
(* Mass, private and timed messages to the bot's users (broadcast.py,      *)
(* broadcast_jobs.py, broadcast_tasks.py, broadcast_engine.py,             *)
(* timed_announcements.py, message_deletions.py, routers/api_broadcast.py).*)
(*                                                                         *)
(* A request creates a job in memory and answers; the job's runner sends   *)
(* to its recipients in parallel and writes, in batches, the rows that the *)
(* deletion worker reads later.  The table of jobs, the batches and the    *)
(* worker's list die with the process; announcements and rows survive it.  *)
(* A message is the pair of its job and its recipient.  The semaphore only *)
(* limits how many sends overlap, and a send is one step, so it is left    *)
(* out; texts, validation of texts and the listing pages are left out.     *)
(* get_db opens the database in autocommit: every statement is a step of   *)
(* its own and stays when a later one fails, and executemany stores its    *)
(* rows one by one.                                                        *)
(***************************************************************************)
EXTENDS Naturals, FiniteSets

CONSTANTS MaxJobs,        \* bound on the jobs created; they are numbered in that order
          Requests,       \* what administrators ask for: kind, autoDelete and recipients
          Users,          \* the rows of the table users
          Announcements,  \* the announcements that may be inserted
          FlushEvery,     \* DB_FLUSH_EVERY
          Batch,          \* BATCH_SIZE of the deletion worker
          MaxFaults       \* bound on restarts and database errors

ASSUME BroadcastAssumption ==
    /\ IsFiniteSet(Users) /\ MaxJobs \in Nat
    /\ Requests \subseteq [kind : {"mass", "timed", "private"}, autoDelete : BOOLEAN,
                           to : (SUBSET Users) \ {{}}]
    /\ \A r \in Requests : r.kind # "private" => r.to = Users
    /\ FlushEvery \in Nat \ {0} /\ Batch \in Nat \ {0} /\ MaxFaults \in Nat

VARIABLES
    jobs,       \* _jobs: kind, status, sent and failed of each job
    exclusive,  \* _running_exclusive
    order,      \* what the runner was given: the request and the announcement
    pc,         \* per job and user: where _send_one stands
    buffer,     \* scheduled_deletions or pending_notifications of a delivery
    writing,    \* what is left to store of the batch taken while db_lock is held
    rows,       \* scheduled_message_deletions
    noted,      \* pending_notifications
    work,       \* the worker: its fetched batch and the message in hand
    acked,      \* messages whose sending was answered with a message_id
    tried,      \* messages the worker asked Telegram to delete
    ann,        \* timed_announcements.status
    launching,  \* requests between prepare_timed_announcement and create_job
    stopping,   \* requests between the check and the UPDATE of stop_timed_announcement
    faults      \* restarts and database errors so far

jobVars == <<jobs, exclusive, order>>
sendVars == <<pc, buffer, writing, acked>>
rowVars == <<rows, noted>>
annVars == <<ann, launching, stopping>>
vars == <<jobVars, sendVars, rowVars, work, tried, annVars, faults>>

None == "none"
Jobs == 1..MaxJobs
Exclusive == {"mass", "timed"}
Messages == Jobs \X Users
Idle == [batch |-> {}, current |-> <<>>]
NoOrder == [autoDelete |-> FALSE, to |-> {}, ann |-> None]
NoJob == [kind |-> None, status |-> None, sent |-> 0, failed |-> 0]
Gone == [NoJob EXCEPT !.status = "gone"]

BroadcastInit ==
    /\ jobs = [j \in Jobs |-> NoJob]
    /\ exclusive = {}
    /\ order = [j \in Jobs |-> NoOrder]
    /\ pc = [j \in Jobs |-> [u \in Users |-> "out"]]
    /\ buffer = [j \in Jobs |-> {}]
    /\ writing = [j \in Jobs |-> {}]
    /\ rows = {} /\ noted = {}
    /\ work = Idle
    /\ acked = {} /\ tried = {}
    /\ ann = [a \in Announcements |-> None]
    /\ launching = {} /\ stopping = {}
    /\ faults = 0

-----------------------------------------------------------------------------
(* The table of jobs.  Each function holds _lock throughout.               *)

Running(j) == jobs[j].status = "running"
Ended(j) == jobs[j].status \in {"completed", "failed"}

\* Mutant: only a job of the same kind is in the way.
BusyWithKind(kind) == kind \in exclusive

\* Whether create_job refuses: BroadcastJobBusyError.
Busy(kind) == kind \in Exclusive /\ exclusive # {}

\* create_job, with the purge of ended jobs that are older than the TTL.
CreateJob(j, r, a) ==
    /\ jobs[j].status = None /\ \A k \in 1..(j - 1) : jobs[k].status # None
    /\ ~Busy(r.kind)
    /\ \E stale \in {{}, {k \in Jobs : Ended(k)}} :
          jobs' = [k \in Jobs |->
                     IF k = j THEN [NoJob EXCEPT !.kind = r.kind, !.status = "running"]
                     ELSE IF k \in stale THEN Gone
                     ELSE jobs[k]]
    /\ exclusive' = exclusive \union ({r.kind} \intersect Exclusive)
    /\ order' = [order EXCEPT ![j] = [autoDelete |-> r.autoDelete, to |-> r.to, ann |-> a]]
    /\ UNCHANGED <<sendVars, rowVars, work, tried, faults>>

\* Mutant: a failed job keeps the kind.
EndKeepingKind(j, status) ==
    IF jobs[j].status \in {None, "gone"} THEN UNCHANGED <<jobs, exclusive>>
    ELSE /\ jobs' = [jobs EXCEPT ![j].status = status]
         /\ exclusive' = IF status = "failed" THEN exclusive ELSE exclusive \ {jobs[j].kind}

\* complete_job and fail_job: they record the end and release the kind.
End(j, status) ==
    IF jobs[j].status \in {None, "gone"} THEN UNCHANGED <<jobs, exclusive>>
    ELSE /\ jobs' = [jobs EXCEPT ![j].status = status]
         /\ exclusive' = exclusive \ {jobs[j].kind}

\* update_job_progress, which a purged job ignores.
Progress(j, ok) ==
    jobs' = IF jobs[j].status \in {None, "gone"} THEN jobs
            ELSE IF ok THEN [jobs EXCEPT ![j].sent = @ + 1]
            ELSE [jobs EXCEPT ![j].failed = @ + 1]

-----------------------------------------------------------------------------
(* Announcements and requests.                                             *)

\* _expire_past_announcements, which every operation on announcements calls:
\* ends_at may have passed for any of the active ones.
Expired(table) ==
    {[a \in Announcements |-> IF a \in past THEN "expired" ELSE table[a]] :
        past \in SUBSET {a \in Announcements : table[a] = "active"}}

\* prepare_timed_announcement: the row is inserted as active, and only then
\* is the job asked for.  (The expiry and the INSERT of a new row are two
\* statements, which commute with whatever comes between them.)
PrepareTimed(a) ==
    /\ ann[a] = None
    /\ \E table \in Expired(ann) : ann' = [table EXCEPT ![a] = "active"]
    /\ launching' = launching \union {a}
    /\ UNCHANGED <<jobVars, sendVars, rowVars, work, tried, stopping, faults>>

\* The rest of start_timed_announcement_job, and add_task in the endpoint.
LaunchTimed(a, j, r) ==
    /\ a \in launching /\ r.kind = "timed"
    /\ CreateJob(j, r, a)
    /\ ann' \in Expired(ann)
    /\ launching' = launching \ {a}
    /\ UNCHANGED stopping

\* create_job raises and the request is answered with 409.
RefuseTimed(a) ==
    /\ a \in launching
    /\ Busy("timed")
    /\ ann' \in Expired(ann)
    /\ launching' = launching \ {a}
    /\ UNCHANGED <<jobVars, sendVars, rowVars, work, tried, stopping, faults>>

\* stop_timed_announcement, up to the check: the SELECT follows the expiry.
BeginStop(a) ==
    /\ ann' \in Expired(ann) /\ ann'[a] = "active"
    /\ stopping' = stopping \union {a}
    /\ UNCHANGED <<jobVars, sendVars, rowVars, work, tried, launching, faults>>

\* Its UPDATE, by id only: whatever the status is by now; the answer's
\* reading expires again.  A request that fails before it never gets here.
EndStop(a) ==
    /\ a \in stopping
    /\ ann' \in Expired([ann EXCEPT ![a] = "stopped"])
    /\ stopping' = stopping \ {a}
    /\ UNCHANGED <<jobVars, sendVars, rowVars, work, tried, launching, faults>>

\* The pages that list announcements expire them too.
ListTimed ==
    /\ ann' \in Expired(ann) \ {ann}
    /\ UNCHANGED <<jobVars, sendVars, rowVars, work, tried, launching, stopping, faults>>

\* broadcast_to_all and broadcast_private.
RequestJob(j, r) ==
    /\ r.kind # "timed"
    /\ CreateJob(j, r, None)
    /\ UNCHANGED annVars

-----------------------------------------------------------------------------
(* The runner of a job and the delivery it awaits.                         *)

At(j, u, place) == pc' = [pc EXCEPT ![j][u] = place]

\* run_mass_broadcast_job and its siblings, up to asyncio.gather.
StartDelivery(j) ==
    /\ Running(j)
    /\ \A u \in Users : pc[j][u] = "out"
    /\ pc' = [pc EXCEPT ![j] = [u \in Users |-> IF u \in order[j].to THEN "waiting" ELSE "out"]]
    /\ UNCHANGED <<jobVars, buffer, writing, acked, rowVars, work, tried, annVars, faults>>

\* send_fn, under the semaphore: it is sent and has a message_id; it is sent
\* without one; it counts as failed, either refused or, for a message whose
\* dismiss button is added by a second request, sent all the same; or an error
\* that is no ClientError (a timeout) leaves _send_one.
Send(j, u) ==
    /\ pc[j][u] = "waiting"
    /\ \/ At(j, u, "sent") /\ acked' = acked \union {<<j, u>>}
       \/ \E place \in {"recorded", "failed", "raised"} : At(j, u, place) /\ UNCHANGED acked
    /\ UNCHANGED <<jobVars, buffer, writing, rowVars, work, tried, annVars, faults>>

\* db_lock of the delivery, held from the copy to the end of the write.
LockFree(j) == \A u \in Users : pc[j][u] # "writing"

\* The message is appended to the rows still to be written.
AppendRow(j, u) ==
    /\ pc[j][u] = "sent" /\ LockFree(j)
    /\ At(j, u, "appended")
    /\ buffer' = [buffer EXCEPT ![j] = @ \union {u}]
    /\ UNCHANGED <<jobVars, writing, acked, rowVars, work, tried, annVars, faults>>

\* _maybe_flush_db: a full buffer is copied, cleared and then written.
MaybeFlush(j, u) ==
    /\ pc[j][u] = "appended" /\ LockFree(j)
    /\ IF Cardinality(buffer[j]) >= FlushEvery
       THEN /\ At(j, u, "writing")
            /\ writing' = [writing EXCEPT ![j] = buffer[j]]
            /\ buffer' = [buffer EXCEPT ![j] = {}]
       ELSE At(j, u, "recorded") /\ UNCHANGED <<buffer, writing>>
    /\ UNCHANGED <<jobVars, acked, rowVars, work, tried, annVars, faults>>

\* One row of schedule_message_deletions_batch or register_pending_notifications_batch.
StoreRow(j, u) ==
    IF order[j].autoDelete
    THEN rows' = rows \union {<<j, u>>} /\ UNCHANGED noted
    ELSE noted' = noted \union {<<j, u>>} /\ UNCHANGED rows

\* v is the recipient of the row, u the task that holds the lock; with the
\* last row the write returns.
FlushRow(j, u, v) ==
    /\ pc[j][u] = "writing" /\ v \in writing[j]
    /\ StoreRow(j, v)
    /\ writing' = [writing EXCEPT ![j] = @ \ {v}]
    /\ At(j, u, IF writing[j] = {v} THEN "recorded" ELSE "writing")
    /\ UNCHANGED <<jobVars, buffer, acked, work, tried, annVars, faults>>

\* The database fails and the rest of the batch is lost: pending notifications
\* are given up with a warning, scheduled deletions let the error out of _send_one.
FlushFails(j, u) ==
    /\ pc[j][u] = "writing" /\ faults < MaxFaults
    /\ At(j, u, IF order[j].autoDelete THEN "raised" ELSE "recorded")
    /\ writing' = [writing EXCEPT ![j] = {}]
    /\ faults' = faults + 1
    /\ UNCHANGED <<jobVars, buffer, acked, rowVars, work, tried, annVars>>

\* _record_progress.
Record(j, u) ==
    /\ pc[j][u] \in {"recorded", "failed"}
    /\ Progress(j, pc[j][u] = "recorded")
    /\ At(j, u, "done")
    /\ UNCHANGED <<exclusive, order, buffer, writing, acked, rowVars, work, tried,
                   annVars, faults>>

AllOut(j) == \A u \in Users : pc[j][u] = "out"

\* Mutant: the delivery is over when every send has been answered.
AllAnswered(j) == ~AllOut(j) /\ \A u \in Users : pc[j][u] \in {"out", "done", "recorded", "failed"}

AllDone(j) == ~AllOut(j) /\ \A u \in Users : pc[j][u] \in {"out", "done"}

\* gather returns, and the rows left in the buffer are stored.
LastRow(j, u) ==
    /\ Running(j) /\ AllDone(j)
    /\ u \in buffer[j]
    /\ StoreRow(j, u)
    /\ buffer' = [buffer EXCEPT ![j] = @ \ {u}]
    /\ UNCHANGED <<jobVars, pc, writing, acked, work, tried, annVars, faults>>

\* The database fails meanwhile, and the other pending notifications are given up.
LastRowsFail(j) ==
    /\ Running(j) /\ AllDone(j) /\ faults < MaxFaults
    /\ ~order[j].autoDelete /\ buffer[j] # {}
    /\ buffer' = [buffer EXCEPT ![j] = {}]
    /\ faults' = faults + 1
    /\ UNCHANGED <<jobVars, pc, writing, acked, rowVars, work, tried, annVars>>

\* Nothing is left in the buffer, and the job is completed.
Complete(j) ==
    /\ Running(j) /\ AllDone(j) /\ buffer[j] = {}
    /\ ann' \in IF order[j].ann = None THEN {ann} ELSE Expired(ann)
    /\ End(j, "completed")
    /\ UNCHANGED <<order, sendVars, rowVars, work, tried, launching, stopping, faults>>

\* The database fails outside _send_one: before the delivery, at the last
\* write of scheduled deletions, or at the final reading of an announcement.
RunnerFails(j) ==
    /\ Running(j) /\ faults < MaxFaults
    /\ \/ AllOut(j)
       \/ AllDone(j) /\ order[j].autoDelete /\ buffer[j] # {}
       \/ AllDone(j) /\ order[j].ann # None /\ buffer[j] = {}
    /\ buffer' = [buffer EXCEPT ![j] = {}]
    /\ End(j, "failed")
    /\ faults' = faults + 1
    /\ UNCHANGED <<order, pc, writing, acked, rowVars, work, tried, annVars>>

\* gather raises the first error: the session is closed, the sends not yet
\* made fail unheard, the other tasks go on, and the job fails.
DeliveryFails(j) ==
    /\ Running(j)
    /\ \E u \in Users : pc[j][u] = "raised"
    /\ pc' = [pc EXCEPT ![j] = [u \in Users |-> IF pc[j][u] = "waiting" THEN "raised" ELSE pc[j][u]]]
    /\ End(j, "failed")
    /\ UNCHANGED <<order, buffer, writing, acked, rowVars, work, tried, annVars, faults>>

-----------------------------------------------------------------------------
(* The deletion worker: process_due_deletions_once, again and again.       *)

\* _fetch_due_deletions: at most BATCH_SIZE rows whose delete_at has passed,
\* which at any time may be any of them.
Fetch ==
    /\ work = Idle
    /\ \E batch \in SUBSET rows :
          /\ batch # {} /\ Cardinality(batch) <= Batch
          /\ work' = [Idle EXCEPT !.batch = batch]
    /\ UNCHANGED <<jobVars, sendVars, rowVars, tried, annVars, faults>>

\* delete_telegram_message, whose answer is not looked at.
Attempt(m) ==
    /\ m \in work.batch /\ work.current = <<>>
    /\ work' = [work EXCEPT !.current = m]
    /\ tried' = tried \union {m}
    /\ UNCHANGED <<jobVars, sendVars, rowVars, annVars, faults>>

\* Mutant: the row stays in the table.
RemoveFromBatch ==
    /\ work.current # <<>>
    /\ work' = [batch |-> work.batch \ {work.current}, current |-> <<>>]
    /\ UNCHANGED <<jobVars, sendVars, rowVars, tried, annVars, faults>>

\* Mutant: the worker keeps the message in its batch.
RemoveRow ==
    /\ work.current # <<>>
    /\ rows' = rows \ {work.current}
    /\ work' = [work EXCEPT !.current = <<>>]
    /\ UNCHANGED <<jobVars, sendVars, noted, tried, annVars, faults>>

\* _remove_deletion.
Remove ==
    /\ work.current # <<>>
    /\ rows' = rows \ {work.current}
    /\ work' = [batch |-> work.batch \ {work.current}, current |-> <<>>]
    /\ UNCHANGED <<jobVars, sendVars, noted, tried, annVars, faults>>

\* The removal raises: run_deletion_worker logs it and starts over later.
WorkerFails ==
    /\ work.current # <<>> /\ faults < MaxFaults
    /\ work' = Idle
    /\ faults' = faults + 1
    /\ UNCHANGED <<jobVars, sendVars, rowVars, tried, annVars>>

\* The process ends and starts again; only the database survives.
Restart ==
    /\ faults < MaxFaults
    /\ faults' = faults + 1
    /\ jobs' = [j \in Jobs |-> IF jobs[j].status = None THEN jobs[j]
                               ELSE Gone]
    /\ order' = [j \in Jobs |-> NoOrder]
    /\ exclusive' = {}
    /\ pc' = [j \in Jobs |-> [u \in Users |-> "out"]]
    /\ buffer' = [j \in Jobs |-> {}]
    /\ writing' = [j \in Jobs |-> {}]
    /\ work' = Idle
    /\ launching' = {} /\ stopping' = {}
    /\ UNCHANGED <<acked, rowVars, tried, ann>>

BroadcastNext ==
    \/ \E a \in Announcements :
          \/ PrepareTimed(a)
          \/ RefuseTimed(a)
          \/ BeginStop(a)
          \/ EndStop(a)
          \/ \E j \in Jobs, r \in Requests : LaunchTimed(a, j, r)
    \/ ListTimed
    \/ \E j \in Jobs :
          \/ \E r \in Requests : RequestJob(j, r)
          \/ StartDelivery(j)
          \/ LastRowsFail(j)
          \/ Complete(j)
          \/ RunnerFails(j)
          \/ DeliveryFails(j)
          \/ \E u \in Users :
                \/ Send(j, u)
                \/ AppendRow(j, u)
                \/ MaybeFlush(j, u)
                \/ \E v \in writing[j] : FlushRow(j, u, v)
                \/ FlushFails(j, u)
                \/ LastRow(j, u)
                \/ Record(j, u)
    \/ Fetch
    \/ \E m \in work.batch : Attempt(m)
    \/ Remove
    \/ WorkerFails
    \/ Restart

(***************************************************************************)
(* Fairness: a background task is scheduled once its request is answered,  *)
(* every request to Telegram times out and 429 is retried five times, so   *)
(* each task and the worker take their next step; time passes.             *)
(***************************************************************************)
BroadcastFairness ==
    /\ \A j \in Jobs : WF_vars(\/ StartDelivery(j) \/ Complete(j) \/ DeliveryFails(j)
                              \/ \E u \in Users : LastRow(j, u))
    /\ \A j \in Jobs, u \in Users :
          WF_vars(\/ Send(j, u) \/ AppendRow(j, u) \/ MaybeFlush(j, u) \/ Record(j, u)
                  \/ \E v \in writing[j] : FlushRow(j, u, v))
    /\ WF_vars(Fetch \/ (\E m \in work.batch : Attempt(m)) \/ Remove)

BroadcastSpec == BroadcastInit /\ [][BroadcastNext]_vars /\ BroadcastFairness

-----------------------------------------------------------------------------
Statuses == {None, "running", "completed", "failed", "gone"}
Places == {"out", "waiting", "sent", "appended", "writing", "recorded", "failed", "done", "raised"}

\* Types of the table of jobs, of the tasks and of the rows (broadcast_jobs.py, broadcast_engine.py).
BroadcastTypeOK ==
    /\ \A j \in Jobs : /\ jobs[j].kind \in Exclusive \union {None, "private"}
                       /\ jobs[j].status \in Statuses
                       /\ jobs[j].sent + jobs[j].failed <= Cardinality(Users)
    /\ exclusive \subseteq Exclusive
    /\ pc \in [Jobs -> [Users -> Places]]
    /\ rows \union noted \subseteq acked /\ work.batch \subseteq rows
    /\ ann \in [Announcements -> {None, "active", "stopped", "expired"}]
    /\ launching \union stopping \subseteq Announcements
    /\ faults \in 0..MaxFaults

\* At most one mass or timed job runs, and the kind that create_job looks at is
\* set exactly while it does, whichever way the runner ends (broadcast_jobs.py).
OneExclusiveJob ==
    LET holders == {j \in Jobs : Running(j) /\ jobs[j].kind \in Exclusive}
    IN  /\ Cardinality(holders) <= 1
        /\ exclusive = {jobs[j].kind : j \in holders}

\* A completed job counted every recipient once, and every message of it has its
\* row or has been handled (one to be dismissed, unless the database failed): no
\* batch is dropped between the buffer, its copy and the last write
\* (_run_parallel_delivery).
CompletedIsAccounted ==
    \A j \in Jobs : jobs[j].status = "completed" =>
        /\ jobs[j].sent + jobs[j].failed = Cardinality(order[j].to)
        /\ order[j].autoDelete \/ faults = 0 =>
              \A u \in Users : <<j, u>> \in acked => <<j, u>> \in rows \union tried \union noted

\* A job does not keep the exclusive kind for ever (the runners' finally).
ExclusiveIsReleased == exclusive # {} ~> exclusive = {}

\* The rows that were written are worked off, restarts and errors of the
\* database notwithstanding (process_due_deletions_once).
DeletionsAreTried == rows # {} ~> rows \subseteq tried
=============================================================================
