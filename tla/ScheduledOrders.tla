-------------------------- MODULE ScheduledOrders --------------------------
(***************************************************************************)
(* Recurring orders (scheduled_orders.py): the life of a job and the run   *)
(* pipeline that turns it into orders.                                     *)
(*                                                                         *)
(* A run reads the job, holds the price and inserts the order in one       *)
(* transaction, submits it to the provider, stores the provider's number,  *)
(* writes the run row and updates the job: five awaits, each of which may  *)
(* fail.  The background worker and any number of "run now" requests run   *)
(* the same pipeline concurrently, while administrators pause, resume,     *)
(* stop and delete the job, and the process may restart between any two    *)
(* steps.                                                                  *)
(*                                                                         *)
(* Time is kept as whether a job's next_run_at has passed.  A run is named *)
(* by its number, which is also the name of the order it may create.       *)
(***************************************************************************)
EXTENDS Integers, FiniteSets

CONSTANTS
    Jobs,          \* scheduled_orders ids
    LinkOf,        \* LinkOf[j]: the normalized link of the job's template order
    Requests,      \* concurrent "run now" requests
    Worker,        \* the background worker
    Controllers,   \* concurrent pause and resume requests
    MaxFailures,   \* MAX_CONSECUTIVE_FAILURES
    BatchLimit,    \* LIMIT of the worker's query
    MaxRuns,       \* bound: runs ever started
    MaxDisturbances  \* bound: administrator commands on jobs, locked databases and restarts

Runners == Requests \cup {Worker}
Runs == 1 .. MaxRuns

ASSUME ScheduledAssumption ==
    /\ IsFiniteSet(Jobs)
    /\ Worker \notin Requests
    /\ DOMAIN LinkOf = Jobs
    /\ MaxFailures \in Nat \ {0}
    /\ BatchLimit \in Nat \ {0}
    /\ MaxRuns \in Nat /\ MaxDisturbances \in Nat

VARIABLES
    job,       \* scheduled_orders: [status, due, failures, runsCount]
    order,     \* orders made by runs: [job, state, accepted, ref]
    log,       \* scheduled_order_runs: the runs recorded as successful, per job
    run,       \* what each runner carries: [step, job, id]
    ctl,       \* what each pause or resume request carries: [op, job, due]
    batch,     \* the job ids the worker has read and not yet executed
    started,   \* number of runs started
    disturbed, \* number of administrator commands and faults so far
    broken     \* history: runs that did not go through the whole pipeline

vars == <<job, order, log, run, ctl, batch, started, disturbed, broken>>

Idle == [step |-> "idle"]
NoControl == [op |-> "none"]
Steps == {"hold", "submit", "persist", "recordSuccess", "markSuccess", "recordFailure", "markFailure"}
JobStatuses == {"none", "active", "paused", "stopped", "deleted"}

TypeOK ==
    /\ job \in [Jobs -> [status: JobStatuses, due: BOOLEAN, failures: Nat, runsCount: Nat]]
    /\ order \in [Runs -> [job: Jobs \cup {Worker}, state: {"none", "active", "closed"},
                           accepted: BOOLEAN, ref: BOOLEAN]]
    /\ log \in [Jobs -> SUBSET Runs]
    /\ run \in [Runners -> {Idle} \cup [step: Steps, job: Jobs, id: Runs]]
    /\ ctl \in [Controllers -> {NoControl} \cup [op: {"pause", "resume"}, job: Jobs, due: BOOLEAN]]
    /\ batch \subseteq Jobs /\ Cardinality(batch) <= BatchLimit
    /\ started \in 0 .. MaxRuns /\ disturbed \in 0 .. MaxDisturbances
    /\ broken \subseteq Runs

NoOrder == [job |-> Worker, state |-> "none", accepted |-> FALSE, ref |-> FALSE]

Init ==
    /\ job = [j \in Jobs |-> [status |-> "none", due |-> FALSE, failures |-> 0, runsCount |-> 0]]
    /\ order = [n \in Runs |-> NoOrder]
    /\ log = [j \in Jobs |-> {}]
    /\ run = [r \in Runners |-> Idle]
    /\ ctl = [c \in Controllers |-> NoControl]
    /\ batch = {}
    /\ started = 0 /\ disturbed = 0
    /\ broken = {}

Exists(j) == job[j].status \notin {"none", "deleted"}
At(r, step) == run[r].step = step
Goto(r, step) == run' = [run EXCEPT ![r].step = step]
Leave(r) == run' = [run EXCEPT ![r] = Idle]
Active(n) == order[n].state = "active"

\* Mutant: the hold forgets the active-link guard.
LinkUnguarded(j) == TRUE

\* find_active_order_for_link_async inside the hold's transaction.
LinkFree(j) == \A n \in Runs : Active(n) => LinkOf[order[n].job] # LinkOf[j]

-----------------------------------------------------------------------------
(* Administrator commands. *)

Disturbance == disturbed < MaxDisturbances /\ disturbed' = disturbed + 1

\* create_scheduled_order; a job may be created for later or due at once.
Create(j, due) ==
    /\ job[j].status = "none"
    /\ job' = [job EXCEPT ![j].status = "active", ![j].due = due]
    /\ UNCHANGED <<order, log, run, ctl, batch, started, disturbed, broken>>

\* pause and resume read the job first; a stopped job is refused (a stuttering step).
ReadForControl(c, op, j) ==
    /\ Disturbance
    /\ ctl[c] = NoControl
    /\ Exists(j) /\ job[j].status # "stopped"
    /\ ctl' = [ctl EXCEPT ![c] = [op |-> op, job |-> j, due |-> job[j].due]]
    /\ UNCHANGED <<job, order, log, run, batch, started, broken>>

\* Their UPDATE has no condition but the id; resume writes back the next_run_at it read.
ApplyControl(c) ==
    /\ ctl[c] # NoControl
    /\ LET j == ctl[c].job
       IN  job' = IF ~Exists(j) THEN job
                  ELSE IF ctl[c].op = "pause" THEN [job EXCEPT ![j].status = "paused"]
                  ELSE [job EXCEPT ![j].status = "active", ![j].failures = 0, ![j].due = ctl[c].due]
    /\ ctl' = [ctl EXCEPT ![c] = NoControl]
    /\ UNCHANGED <<order, log, run, batch, started, disturbed, broken>>

\* stop_scheduled_order: whatever the status was.
Stop(j) ==
    /\ Disturbance
    /\ Exists(j)
    /\ job' = [job EXCEPT ![j].status = "stopped"]
    /\ UNCHANGED <<order, log, run, ctl, batch, started, broken>>

\* delete_scheduled_order: the run rows go first, then the job.
Delete(j) ==
    /\ Disturbance
    /\ Exists(j)
    /\ job' = [job EXCEPT ![j].status = "deleted"]
    /\ log' = [log EXCEPT ![j] = {}]
    /\ UNCHANGED <<order, run, ctl, batch, started, broken>>

-----------------------------------------------------------------------------
(* The run pipeline: execute_scheduled_order and _submit_job_order. *)

Due(j) == job[j].status = "active" /\ job[j].due

\* The job is read and the run begins: forced for "run now", due for the worker.
StartRun(r, j) ==
    /\ run[r] = Idle
    /\ started < MaxRuns
    /\ started' = started + 1
    /\ run' = [run EXCEPT ![r] = [step |-> "hold", job |-> j, id |-> started + 1]]

RunNow(r, j) ==
    /\ Exists(j) /\ job[j].status # "stopped"
    /\ StartRun(r, j)
    /\ UNCHANGED <<job, order, log, ctl, batch, disturbed, broken>>

\* Mutant: the query has no LIMIT.
WithoutLimit(ids) == TRUE

\* LIMIT 20
WithinLimit(ids) == Cardinality(ids) <= BatchLimit

\* process_due_scheduled_orders reads a batch of due ids ...
Poll ==
    /\ run[Worker] = Idle /\ batch = {}
    /\ \E ids \in SUBSET {j \in Jobs : Due(j)} :
           /\ ids # {}
           /\ WithinLimit(ids)
           /\ \A j \in Jobs \ ids : Due(j) => Cardinality(ids) = BatchLimit
           /\ batch' = ids
    /\ UNCHANGED <<job, order, log, run, ctl, started, disturbed, broken>>

\* Mutant: the refusal of a job that is no longer due ends the batch's loop where it is.
WorkerTakesDue(j) ==
    /\ run[Worker] = Idle /\ j \in batch
    /\ Due(j)
    /\ batch' = batch \ {j}
    /\ StartRun(Worker, j)
    /\ UNCHANGED <<job, order, log, ctl, disturbed, broken>>

\* ... and executes them one by one, each only if it is still active and due.
WorkerTakes(j) ==
    /\ run[Worker] = Idle /\ j \in batch
    /\ batch' = batch \ {j}
    /\ IF Due(j) THEN StartRun(Worker, j) ELSE UNCHANGED <<run, started>>
    /\ UNCHANGED <<job, order, log, ctl, disturbed, broken>>

\* Pricing, identity and account checks passed; the price is held and the order inserted.
Hold(r) ==
    /\ At(r, "hold")
    /\ LinkFree(run[r].job)
    /\ order' = [order EXCEPT ![run[r].id].job = run[r].job, ![run[r].id].state = "active"]
    /\ Goto(r, "submit")
    /\ UNCHANGED <<job, log, ctl, batch, started, disturbed, broken>>

\* Any of those checks fails, the balance is short, the link is occupied or the database locked.
HoldFails(r) ==
    /\ At(r, "hold")
    /\ Goto(r, "recordFailure")
    /\ broken' = broken \cup {run[r].id}
    /\ UNCHANGED <<job, order, log, ctl, batch, started, disturbed>>

\* Mutant: the provider's number is not stored.
SubmittedOnly(r) ==
    /\ At(r, "submit")
    /\ order' = [order EXCEPT ![run[r].id].accepted = TRUE]
    /\ Goto(r, "recordSuccess")
    /\ UNCHANGED <<job, log, ctl, batch, started, disturbed, broken>>

\* submit_provider_order returned the provider's number.
Submitted(r) ==
    /\ At(r, "submit")
    /\ order' = [order EXCEPT ![run[r].id].accepted = TRUE]
    /\ Goto(r, "persist")
    /\ UNCHANGED <<job, log, ctl, batch, started, disturbed, broken>>

\* The provider refuses, or its answer is lost after it accepted: the order stays as it is.
SubmitFails(r, accepted) ==
    /\ At(r, "submit")
    /\ order' = [order EXCEPT ![run[r].id].accepted = accepted]
    /\ Goto(r, "recordFailure")
    /\ broken' = broken \cup {run[r].id}
    /\ UNCHANGED <<job, log, ctl, batch, started, disturbed>>

\* Mutant: the job is marked although the run was not recorded.
PersistAndMark(r) ==
    /\ At(r, "persist")
    /\ order' = [order EXCEPT ![run[r].id].ref = TRUE]
    /\ Goto(r, "markSuccess")
    /\ UNCHANGED <<job, log, ctl, batch, started, disturbed, broken>>

\* _persist_provider_order_id
Persist(r) ==
    /\ At(r, "persist")
    /\ order' = [order EXCEPT ![run[r].id].ref = TRUE]
    /\ Goto(r, "recordSuccess")
    /\ UNCHANGED <<job, log, ctl, batch, started, disturbed, broken>>

\* _record_run: the foreign key refuses the row of a deleted job, which ends the run.
RecordSuccess(r) ==
    /\ At(r, "recordSuccess")
    /\ IF Exists(run[r].job)
       THEN /\ log' = [log EXCEPT ![run[r].job] = @ \cup {run[r].id}]
            /\ Goto(r, "markSuccess")
            /\ UNCHANGED broken
       ELSE /\ Leave(r)
            /\ broken' = broken \cup {run[r].id}
            /\ UNCHANGED log
    /\ UNCHANGED <<job, order, ctl, batch, started, disturbed>>

RecordFailure(r) ==
    /\ At(r, "recordFailure")
    /\ IF Exists(run[r].job) THEN Goto(r, "markFailure") ELSE Leave(r)
    /\ UNCHANGED <<job, order, log, ctl, batch, started, disturbed, broken>>

\* _mark_run_success leaves the status alone.
MarkSuccess(r) ==
    /\ At(r, "markSuccess")
    /\ LET j == run[r].job
       IN  job' = IF Exists(j)
                  THEN [job EXCEPT ![j].runsCount = @ + 1, ![j].failures = 0, ![j].due = FALSE]
                  ELSE job
    /\ Leave(r)
    /\ UNCHANGED <<order, log, ctl, batch, started, disturbed, broken>>

\* Mutant: the counter is compared before it is incremented.
StatusAfterOld(failures) == IF failures - 1 >= MaxFailures THEN "paused" ELSE "active"

\* new_status in _mark_run_failure: it does not depend on the status the job has.
StatusAfter(failures) == IF failures >= MaxFailures THEN "paused" ELSE "active"

MarkFailure(r) ==
    /\ At(r, "markFailure")
    /\ LET j == run[r].job
           failures == job[j].failures + 1
       IN  job' = IF Exists(j)
                  THEN [job EXCEPT ![j].failures = failures, ![j].due = FALSE,
                                   ![j].status = StatusAfter(failures)]
                  ELSE job
    /\ Leave(r)
    /\ UNCHANGED <<order, log, ctl, batch, started, disturbed, broken>>

-----------------------------------------------------------------------------
(* Faults and the environment. *)

\* A locked database while the provider's number is stored is caught as a failed run; while
\* the run is being recorded or the job marked it is not, and ends the run there.
DbLocked(r) ==
    /\ Disturbance
    /\ \/ At(r, "persist") /\ Goto(r, "recordFailure")
       \/ run[r].step \in {"recordSuccess", "markSuccess", "recordFailure", "markFailure"} /\ Leave(r)
    /\ broken' = broken \cup {run[r].id}
    /\ UNCHANGED <<job, order, log, ctl, batch, started>>

\* The process restarts: CancelledError is not an Exception, nothing is recorded.
Restart ==
    /\ Disturbance
    /\ broken' = broken \cup {run[r].id : r \in {s \in Runners : run[s] # Idle}}
    /\ run' = [r \in Runners |-> Idle]
    /\ ctl' = [c \in Controllers |-> NoControl]
    /\ batch' = {}
    /\ UNCHANGED <<job, order, log, started>>

\* next_run_at passes.
TimePasses(j) ==
    /\ Exists(j) /\ ~job[j].due
    /\ job' = [job EXCEPT ![j].due = TRUE]
    /\ UNCHANGED <<order, log, run, ctl, batch, started, disturbed, broken>>

\* External: the bot or an administrator brings an order to a terminal status.
OrderCloses(n) ==
    /\ Active(n)
    /\ order' = [order EXCEPT ![n].state = "closed"]
    /\ UNCHANGED <<job, log, run, ctl, batch, started, disturbed, broken>>

Pipeline(r) ==
    \/ Hold(r) \/ HoldFails(r)
    \/ Submitted(r) \/ (\E a \in BOOLEAN : SubmitFails(r, a))
    \/ Persist(r)
    \/ RecordSuccess(r) \/ RecordFailure(r)
    \/ MarkSuccess(r) \/ MarkFailure(r)

WorkerStep == Poll \/ (\E j \in Jobs : WorkerTakes(j)) \/ Pipeline(Worker)

Next ==
    \/ WorkerStep
    \/ \E r \in Requests : Pipeline(r) \/ (\E j \in Jobs : RunNow(r, j))
    \/ \E r \in Runners : DbLocked(r)
    \/ Restart
    \/ \E c \in Controllers : ApplyControl(c)
    \/ \E c \in Controllers, op \in {"pause", "resume"}, j \in Jobs : ReadForControl(c, op, j)
    \/ \E j \in Jobs : Stop(j) \/ Delete(j) \/ TimePasses(j) \/ (\E due \in BOOLEAN : Create(j, due))
    \/ \E n \in Runs : OrderCloses(n)

Spec == Init /\ [][Next]_vars

\* The worker's loop never ends and none of its awaits waits for ever (provider calls time out).
FairSpec == Spec /\ WF_vars(WorkerStep)

-----------------------------------------------------------------------------
(* Properties. *)

\* Two runs, of the same job or of two jobs on one link, never both have an active order:
\* test_execute_blocked_when_link_already_active, for every interleaving of runs and restarts.
OneActiveOrderPerLink ==
    \A m, n \in Runs :
        m # n /\ Active(m) /\ Active(n) => LinkOf[order[m].job] # LinkOf[order[n].job]

\* An active job has failed fewer than MaxFailures times in a row, also when several runs of
\* it fail at the same time, or fail while it is being resumed.
ActiveBelowLimit == \A j \in Jobs : job[j].status = "active" => job[j].failures < MaxFailures

InFlight(n) == \E r \in Runners : run[r] # Idle /\ run[r].id = n

\* Every order a run created, and so every price it holds, is accounted for: by its job's
\* log, by a runner still working on it, or by a fault or refusal that broke the run.  And a
\* run logged as successful has an order the provider accepted, with its number stored.
RunsAccountFor ==
    /\ \A n \in Runs : order[n].state # "none" =>
           \/ n \in log[order[n].job]
           \/ InFlight(n)
           \/ n \in broken
           \/ ~Exists(order[n].job)
    /\ \A j \in Jobs : \A n \in log[j] : order[n].job = j /\ order[n].accepted /\ order[n].ref

\* The logged successes whose run went through to its end.
Settled(j) == {n \in log[j] : ~InFlight(n) /\ n \notin broken}

\* runs_count is the number of logged successes, short of those not marked yet and those whose
\* mark a fault prevented: no success is counted twice, none without its row, none forgotten.
RunsCounted == \A j \in Jobs : Exists(j) => job[j].runsCount = Cardinality(Settled(j))

\* A job that is active and due is run, and so no longer due, or is taken out of service; the
\* last disjunct is the bound of the model.  Faults are finitely many.
DueJobIsHandled == \A j \in Jobs : Due(j) ~> (~Due(j) \/ started = MaxRuns)

\* A stopped job stays stopped: pause answers "the job is permanently stopped" and resume
\* "the job is deleted or stopped, create a new one".
StoppedIsFinal ==
    [][\A j \in Jobs : job[j].status = "stopped" => job'[j].status \in {"stopped", "deleted"}]_vars

=============================================================================
