----------------------- MODULE ScheduledOrdersProofs -----------------------
(***************************************************************************)
(* Proofs about ScheduledOrders.                                           *)
(*                                                                         *)
(* The inductive invariant says, for each place a runner can be at, what   *)
(* the tables hold of its run (RunOK), that run numbers belong to one      *)
(* runner each and are handed out in order (RunsKnown), and that run       *)
(* numbers not yet handed out have left no trace (OrdersKnown, LogKnown).  *)
(***************************************************************************)
EXTENDS ScheduledOrders, FiniteSetTheorems, TLAPS

Row == [status: JobStatuses, due: BOOLEAN, failures: Nat, runsCount: Nat]
OrderRow == [job: Jobs \cup {Worker}, state: {"none", "active", "closed"},
             accepted: BOOLEAN, ref: BOOLEAN]
Work == [step: Steps, job: Jobs, id: Runs]

\* A runner that is not idle carries a run.
LEMMA Working ==
    ASSUME TypeOK, NEW r \in Runners, run[r] # Idle \/ run[r].step # "idle"
    PROVE  run[r] \in Work /\ run[r] # Idle /\ run[r].step # "idle"
  BY DEF TypeOK, Work, Idle, Steps

\* Goto changes the place of one runner and nothing else of what runners carry.
LEMMA GotoMoves ==
    ASSUME TypeOK, NEW r \in Runners, run[r].step # "idle", NEW s \in Steps, Goto(r, s)
    PROVE  /\ run'[r] = [step |-> s, job |-> run[r].job, id |-> run[r].id]
           /\ \A q \in Runners : q # r => run'[q] = run[q]
           /\ run' \in [Runners -> {Idle} \cup Work]
  <1>1. run[r] \in Work
    BY Working
  <1>2. run \in [Runners -> {Idle} \cup Work]
    BY DEF TypeOK, Work
  <1>3. [run[r] EXCEPT !.step = s] = [step |-> s, job |-> run[r].job, id |-> run[r].id]
    BY <1>1 DEF Work
  <1>4. [step |-> s, job |-> run[r].job, id |-> run[r].id] \in Work
    BY <1>1 DEF Work
  <1> QED
    BY <1>1, <1>2, <1>3, <1>4 DEF Goto

LEMMA LeaveMoves ==
    ASSUME TypeOK, NEW r \in Runners, Leave(r)
    PROVE  /\ run'[r] = Idle
           /\ \A q \in Runners : q # r => run'[q] = run[q]
           /\ run' \in [Runners -> {Idle} \cup Work]
  BY DEF TypeOK, Work, Leave

LEMMA StartMoves ==
    ASSUME ScheduledAssumption, TypeOK, NEW r \in Runners, NEW j \in Jobs, StartRun(r, j)
    PROVE  /\ run'[r] = [step |-> "hold", job |-> j, id |-> started + 1]
           /\ \A q \in Runners : q # r => run'[q] = run[q]
           /\ run' \in [Runners -> {Idle} \cup Work]
           /\ started' = started + 1 /\ started' \in 0 .. MaxRuns /\ started + 1 \in Runs
  <1>1. started + 1 \in Runs /\ started' \in 0 .. MaxRuns
    BY DEF TypeOK, StartRun, ScheduledAssumption, Runs
  <1>2. [step |-> "hold", job |-> j, id |-> started + 1] \in Work
    BY <1>1 DEF Work, Steps
  <1> QED
    BY <1>1, <1>2 DEF TypeOK, Work, StartRun

-----------------------------------------------------------------------------
(* Types. *)

\* TypeOK, one conjunct per variable.
LEMMA TypeParts ==
    TypeOK <=> /\ job \in [Jobs -> Row] /\ order \in [Runs -> OrderRow]
               /\ log \in [Jobs -> SUBSET Runs] /\ run \in [Runners -> {Idle} \cup Work]
               /\ ctl \in [Controllers -> {NoControl} \cup
                                          [op: {"pause", "resume"}, job: Jobs, due: BOOLEAN]]
               /\ batch \subseteq Jobs /\ Cardinality(batch) <= BatchLimit
               /\ started \in 0 .. MaxRuns /\ disturbed \in 0 .. MaxDisturbances
               /\ broken \subseteq Runs
  BY DEF TypeOK, Row, OrderRow, Work

LEMMA InitTypeOK == ASSUME ScheduledAssumption, Init PROVE TypeOK
  <1>1. Cardinality({}) = 0
    BY FS_EmptySet
  <1> QED
    BY <1>1 DEF Init, TypeOK, ScheduledAssumption, NoOrder, Idle, NoControl, JobStatuses

\* What pause and resume write, and what stop and delete write.
LEMMA ControlWrites ==
    ASSUME TypeOK, NEW c \in Controllers, ApplyControl(c)
    PROVE  /\ job' \in [Jobs -> Row]
           /\ \A j \in Jobs : ~Exists(j) => job'[j] = job[j]
           /\ \A j \in Jobs : /\ job'[j].runsCount = job[j].runsCount
                             /\ \/ job'[j] = job[j]
                                \/ job'[j].status = "paused"
                                \/ job'[j].status = "active" /\ job'[j].failures = 0
  <1>1. ctl[c] \in [op: {"pause", "resume"}, job: Jobs, due: BOOLEAN]
    BY DEF ApplyControl, TypeOK
  <1>2. PICK k \in Jobs, due \in BOOLEAN : k = ctl[c].job /\ due = ctl[c].due
    BY <1>1
  <1>3. job \in [Jobs -> Row]
    BY TypeParts
  <1>4. \/ job' = job
        \/ Exists(k) /\ job' = [job EXCEPT ![k].status = "paused"]
        \/ Exists(k) /\ job' = [job EXCEPT ![k].status = "active", ![k].failures = 0, ![k].due = due]
    BY <1>2 DEF ApplyControl
  <1>5. CASE job' = job
    BY <1>3, <1>5
  <1>6. CASE Exists(k) /\ job' = [job EXCEPT ![k].status = "paused"]
    BY <1>3, <1>6 DEF Row, JobStatuses
  <1>7. CASE Exists(k) /\ job' = [job EXCEPT ![k].status = "active", ![k].failures = 0, ![k].due = due]
    BY <1>2, <1>3, <1>7 DEF Row, JobStatuses
  <1> QED
    BY <1>4, <1>5, <1>6, <1>7

LEMMA EndWrites ==
    ASSUME TypeOK, NEW j \in Jobs, Stop(j) \/ Delete(j)
    PROVE  /\ job' \in [Jobs -> Row]
           /\ Exists(j)
           /\ \A k \in Jobs : k # j => job'[k] = job[k]
           /\ job'[j].status = IF Stop(j) /\ ~Delete(j) THEN "stopped" ELSE "deleted"
           /\ job'[j].runsCount = job[j].runsCount /\ job'[j].failures = job[j].failures
  <1>1. job \in [Jobs -> Row]
    BY TypeParts
  <1>2. CASE Delete(j)
    BY <1>1, <1>2 DEF Delete, Row, JobStatuses
  <1>3. CASE Stop(j) /\ ~Delete(j)
    BY <1>1, <1>3 DEF Stop, Row, JobStatuses
  <1> QED
    BY <1>2, <1>3

\* The commands of administrators keep the types.
LEMMA CommandsTypeOK ==
    ASSUME ScheduledAssumption, TypeOK,
           \/ \E c \in Controllers : ApplyControl(c)
           \/ \E c \in Controllers, op \in {"pause", "resume"}, j \in Jobs : ReadForControl(c, op, j)
           \/ \E j \in Jobs : Stop(j) \/ Delete(j) \/ TimePasses(j) \/ (\E due \in BOOLEAN : Create(j, due))
    PROVE  TypeOK'
  <1> USE TypeParts
  <1>1. ASSUME NEW c \in Controllers, ApplyControl(c) PROVE TypeOK'
    <2>2. job' \in [Jobs -> Row]
      BY <1>1, ControlWrites
    <2>3. ctl' \in [Controllers -> {NoControl} \cup [op: {"pause", "resume"}, job: Jobs, due: BOOLEAN]]
      BY <1>1 DEF ApplyControl
    <2> QED
      BY <1>1, <2>2, <2>3 DEF ApplyControl, TypeOK, Row, OrderRow, Work
  <1>2. ASSUME NEW c \in Controllers, NEW op \in {"pause", "resume"}, NEW j \in Jobs, ReadForControl(c, op, j)
        PROVE  TypeOK'
    <2>1. job[j].due \in BOOLEAN
      BY DEF Row
    <2>2. [op |-> op, job |-> j, due |-> job[j].due] \in [op: {"pause", "resume"}, job: Jobs, due: BOOLEAN]
      BY <2>1
    <2>3. ctl' \in [Controllers -> {NoControl} \cup [op: {"pause", "resume"}, job: Jobs, due: BOOLEAN]]
      BY <1>2, <2>2 DEF ReadForControl
    <2>4. disturbed' \in 0 .. MaxDisturbances
      BY <1>2 DEF ReadForControl, Disturbance, ScheduledAssumption
    <2> QED
      BY <1>2, <2>3, <2>4 DEF ReadForControl, TypeOK, Row, OrderRow, Work
  <1>3. ASSUME NEW j \in Jobs, Stop(j) \/ Delete(j) PROVE TypeOK'
    <2>1. job' \in [Jobs -> Row]
      BY <1>3, EndWrites
    <2>2. log' \in [Jobs -> SUBSET Runs]
      BY <1>3 DEF Stop, Delete
    <2>3. disturbed' \in 0 .. MaxDisturbances
      BY <1>3 DEF Stop, Delete, Disturbance, ScheduledAssumption
    <2> QED
      BY <1>3, <2>1, <2>2, <2>3 DEF Stop, Delete, TypeOK, Row, OrderRow, Work
  <1>4. ASSUME NEW j \in Jobs, TimePasses(j) PROVE TypeOK'
    <2>1. job' \in [Jobs -> Row]
      BY <1>4 DEF TimePasses, Row
    <2> QED
      BY <1>4, <2>1 DEF TimePasses, TypeOK, Row, OrderRow, Work
  <1>5. ASSUME NEW j \in Jobs, NEW due \in BOOLEAN, Create(j, due) PROVE TypeOK'
    <2>1. job' \in [Jobs -> Row]
      BY <1>5 DEF Create, Row, JobStatuses
    <2> QED
      BY <1>5, <2>1 DEF Create, TypeOK, Row, OrderRow, Work
  <1> QED
    BY <1>1, <1>2, <1>3, <1>4, <1>5

\* The worker's reading of due jobs and the start of runs keep the types.
LEMMA StartsTypeOK ==
    ASSUME ScheduledAssumption, TypeOK,
           \/ Poll
           \/ \E j \in Jobs : WorkerTakes(j)
           \/ \E r \in Requests, j \in Jobs : RunNow(r, j)
    PROVE  TypeOK'
  <1> USE TypeParts
  <1>1. CASE Poll
    BY <1>1 DEF Poll, WithinLimit, TypeOK
  <1>2. ASSUME NEW j \in Jobs, WorkerTakes(j) PROVE TypeOK'
    <2>1. IsFiniteSet(batch)
      BY FS_Subset DEF ScheduledAssumption
    <2>2. batch' = batch \ {j} /\ batch' \subseteq Jobs
      BY <1>2 DEF WorkerTakes
    <2>3. Cardinality(batch') <= Cardinality(batch) /\ Cardinality(batch') \in Nat /\ Cardinality(batch) \in Nat
      BY <2>1, <2>2, FS_Subset, FS_CardinalityType
    <2>4. Cardinality(batch') <= BatchLimit
      BY <2>3 DEF ScheduledAssumption
    <2>5. run' \in [Runners -> {Idle} \cup Work] /\ started' \in 0 .. MaxRuns
      BY <1>2, StartMoves DEF WorkerTakes, Runners
    <2> QED
      BY <1>2, <2>2, <2>4, <2>5 DEF WorkerTakes, TypeOK, Work
  <1>3. ASSUME NEW r \in Requests, NEW j \in Jobs, RunNow(r, j) PROVE TypeOK'
    <2>1. run' \in [Runners -> {Idle} \cup Work] /\ started' \in 0 .. MaxRuns
      BY <1>3, StartMoves DEF RunNow, Runners
    <2> QED
      BY <1>3, <2>1 DEF RunNow, TypeOK, Work
  <1> QED
    BY <1>1, <1>2, <1>3

\* What a run writes to its order.
LEMMA OrderChanges ==
    ASSUME TypeOK, NEW n \in Runs, NEW row \in OrderRow, order' = [order EXCEPT ![n] = row]
    PROVE  /\ order' \in [Runs -> OrderRow]
           /\ order'[n] = row /\ \A m \in Runs : m # n => order'[m] = order[m]
  BY TypeParts

\* The row of a run's order after each step of the pipeline that writes it.
LEMMA HoldWrites ==
    ASSUME TypeOK, NEW r \in Runners, Hold(r)
    PROVE  /\ order' \in [Runs -> OrderRow]
           /\ order'[run[r].id].job = run[r].job /\ order'[run[r].id].state = "active"
           /\ \A m \in Runs : m # run[r].id => order'[m] = order[m]
           /\ run[r].id \in Runs /\ run[r].job \in Jobs
  <1>1. run[r] \in Work
    BY Working DEF Hold, At
  <1>2. run[r].id \in Runs /\ run[r].job \in Jobs
    BY <1>1 DEF Work
  <1>3. PICK n \in Runs : n = run[r].id
    BY <1>2
  <1>4. order' = [order EXCEPT ![n].job = run[r].job, ![n].state = "active"]
    BY <1>3 DEF Hold
  <1>5. order \in [Runs -> OrderRow]
    BY TypeParts
  <1> QED
    BY <1>2, <1>3, <1>4, <1>5 DEF OrderRow

LEMMA SubmitWrites ==
    ASSUME TypeOK, NEW r \in Runners, NEW a \in BOOLEAN, At(r, "submit"),
           order' = [order EXCEPT ![run[r].id].accepted = a]
    PROVE  /\ order' \in [Runs -> OrderRow]
           /\ run[r].id \in Runs
           /\ \A m \in Runs : /\ order'[m].job = order[m].job /\ order'[m].state = order[m].state
                              /\ order'[m].ref = order[m].ref
                              /\ m # run[r].id => order'[m] = order[m]
           /\ order'[run[r].id].accepted = a
  <1>1. run[r] \in Work
    BY Working DEF At
  <1>2. run[r].id \in Runs
    BY <1>1 DEF Work
  <1>3. PICK n \in Runs : n = run[r].id
    BY <1>2
  <1>4. order' = [order EXCEPT ![n].accepted = a]
    BY <1>3
  <1>5. order \in [Runs -> OrderRow]
    BY TypeParts
  <1> QED
    BY <1>2, <1>3, <1>4, <1>5 DEF OrderRow

LEMMA PersistWrites ==
    ASSUME TypeOK, NEW r \in Runners, Persist(r)
    PROVE  /\ order' \in [Runs -> OrderRow]
           /\ run[r].id \in Runs
           /\ \A m \in Runs : /\ order'[m].job = order[m].job /\ order'[m].state = order[m].state
                              /\ order'[m].accepted = order[m].accepted
                              /\ m # run[r].id => order'[m] = order[m]
           /\ order'[run[r].id].ref = TRUE
  <1>1. run[r] \in Work
    BY Working DEF At, Persist
  <1>2. run[r].id \in Runs
    BY <1>1 DEF Work
  <1>3. PICK n \in Runs : n = run[r].id
    BY <1>2
  <1>4. order' = [order EXCEPT ![n].ref = TRUE]
    BY <1>3 DEF Persist
  <1>5. order \in [Runs -> OrderRow]
    BY TypeParts
  <1> QED
    BY <1>2, <1>3, <1>4, <1>5 DEF OrderRow

LEMMA CloseWrites ==
    ASSUME TypeOK, NEW n \in Runs, OrderCloses(n)
    PROVE  /\ order' \in [Runs -> OrderRow]
           /\ \A m \in Runs : /\ order'[m].job = order[m].job /\ order'[m].ref = order[m].ref
                              /\ order'[m].accepted = order[m].accepted
                              /\ m # n => order'[m] = order[m]
           /\ order[n].state = "active" /\ order'[n].state = "closed"
  BY TypeParts DEF OrderCloses, Active, OrderRow

\* What the end of a run writes to its job.
LEMMA MarksWrite ==
    ASSUME TypeOK, NEW r \in Runners, MarkSuccess(r) \/ MarkFailure(r)
    PROVE  /\ job' \in [Jobs -> Row]
           /\ run[r].job \in Jobs /\ run[r].id \in Runs
           /\ \A j \in Jobs : j # run[r].job \/ ~Exists(j) => job'[j] = job[j]
           /\ MarkSuccess(r) /\ Exists(run[r].job) =>
                 /\ job'[run[r].job].runsCount = job[run[r].job].runsCount + 1
                 /\ job'[run[r].job].failures = 0
                 /\ job'[run[r].job].status = job[run[r].job].status
           /\ MarkFailure(r) /\ Exists(run[r].job) =>
                 /\ job'[run[r].job].runsCount = job[run[r].job].runsCount
                 /\ job'[run[r].job].failures = job[run[r].job].failures + 1
                 /\ job'[run[r].job].status = StatusAfter(job[run[r].job].failures + 1)
  <1>1. run[r] \in Work
    BY Working DEF At, MarkSuccess, MarkFailure
  <1>2. run[r].id \in Runs /\ run[r].job \in Jobs
    BY <1>1 DEF Work
  <1>3. PICK j \in Jobs : j = run[r].job
    BY <1>2
  <1>4. job \in [Jobs -> Row]
    BY TypeParts
  <1>5. StatusAfter(job[j].failures + 1) \in JobStatuses
    BY DEF StatusAfter, JobStatuses
  <1>6. MarkSuccess(r) => \/ ~Exists(j) /\ job' = job
                          \/ /\ Exists(j)
                             /\ job' = [job EXCEPT ![j].runsCount = @ + 1, ![j].failures = 0, ![j].due = FALSE]
    BY <1>3 DEF MarkSuccess
  <1>7. MarkFailure(r) => \/ ~Exists(j) /\ job' = job
                          \/ /\ Exists(j)
                             /\ job' = [job EXCEPT ![j].failures = job[j].failures + 1, ![j].due = FALSE,
                                                   ![j].status = StatusAfter(job[j].failures + 1)]
    BY <1>3 DEF MarkFailure
  <1>8. MarkSuccess(r) => r \in Runners /\ ~MarkFailure(r)
    BY DEF MarkSuccess, MarkFailure, At
  <1> HIDE DEF StatusAfter
  <1>9. CASE MarkSuccess(r)
    BY <1>2, <1>3, <1>4, <1>6, <1>8, <1>9 DEF Row
  <1>10. CASE MarkFailure(r)
    BY <1>2, <1>3, <1>4, <1>5, <1>7, <1>8, <1>10 DEF Row
  <1> QED
    BY <1>9, <1>10

\* The steps of the pipeline keep the types.
LEMMA PipelineTypeOK ==
    ASSUME ScheduledAssumption, TypeOK, NEW r \in Runners, Pipeline(r)
    PROVE  TypeOK'
  <1> USE TypeParts
  <1>1. CASE Hold(r)
    <2>1. run' \in [Runners -> {Idle} \cup Work]
      BY <1>1, GotoMoves DEF Hold, At, Steps
    <2> QED
      BY <1>1, <2>1, HoldWrites DEF Hold, TypeOK, OrderRow, Work
  <1>2. CASE HoldFails(r) \/ RecordFailure(r)
    <2>1. run' \in [Runners -> {Idle} \cup Work]
      BY <1>2, GotoMoves, LeaveMoves DEF HoldFails, RecordFailure, At, Steps
    <2>2. run[r].id \in Runs
      BY <1>2, Working DEF HoldFails, RecordFailure, At, Work
    <2> QED
      BY <1>2, <2>1, <2>2 DEF HoldFails, RecordFailure, TypeOK, Work
  <1>3. CASE Submitted(r)
    <2>1. run' \in [Runners -> {Idle} \cup Work]
      BY <1>3, GotoMoves DEF Submitted, At, Steps
    <2>2. order' \in [Runs -> OrderRow]
      BY <1>3, SubmitWrites DEF Submitted
    <2> QED
      BY <1>3, <2>1, <2>2 DEF Submitted, TypeOK, OrderRow, Work
  <1>4. ASSUME NEW a \in BOOLEAN, SubmitFails(r, a) PROVE TypeOK'
    <2>1. run' \in [Runners -> {Idle} \cup Work]
      BY <1>4, GotoMoves DEF SubmitFails, At, Steps
    <2>2. order' \in [Runs -> OrderRow] /\ run[r].id \in Runs
      BY <1>4, SubmitWrites DEF SubmitFails
    <2> QED
      BY <1>4, <2>1, <2>2 DEF SubmitFails, TypeOK, OrderRow, Work
  <1>5. CASE Persist(r)
    <2>1. run' \in [Runners -> {Idle} \cup Work]
      BY <1>5, GotoMoves DEF Persist, At, Steps
    <2> QED
      BY <1>5, <2>1, PersistWrites DEF Persist, TypeOK, OrderRow, Work
  <1>6. CASE RecordSuccess(r)
    <2>1. run' \in [Runners -> {Idle} \cup Work]
      BY <1>6, GotoMoves, LeaveMoves DEF RecordSuccess, At, Steps
    <2>2. run[r].id \in Runs /\ run[r].job \in Jobs
      BY <1>6, Working DEF RecordSuccess, At, Work
    <2>3. log' \in [Jobs -> SUBSET Runs] /\ broken' \subseteq Runs
      BY <1>6, <2>2 DEF RecordSuccess
    <2> QED
      BY <1>6, <2>1, <2>3 DEF RecordSuccess, TypeOK, Work
  <1>7. CASE MarkSuccess(r) \/ MarkFailure(r)
    <2>1. run' \in [Runners -> {Idle} \cup Work]
      BY <1>7, LeaveMoves DEF MarkSuccess, MarkFailure
    <2> QED
      BY <1>7, <2>1, MarksWrite DEF MarkSuccess, MarkFailure, TypeOK, Row, Work
  <1> QED
    BY <1>1, <1>2, <1>3, <1>4, <1>5, <1>6, <1>7 DEF Pipeline

\* Faults and the environment keep the types.
LEMMA FaultsTypeOK ==
    ASSUME ScheduledAssumption, TypeOK,
           Restart \/ (\E r \in Runners : DbLocked(r)) \/ (\E n \in Runs : OrderCloses(n))
    PROVE  TypeOK'
  <1> USE TypeParts
  <1>1. CASE Restart
    <2>1. \A r \in Runners : run[r] # Idle => run[r].id \in Runs
      BY Working DEF Work
    <2>2. broken' \subseteq Runs
      BY <1>1, <2>1 DEF Restart
    <2>3. Cardinality(batch') = 0
      BY <1>1, FS_EmptySet DEF Restart
    <2>4. disturbed' \in 0 .. MaxDisturbances
      BY <1>1 DEF Restart, Disturbance, ScheduledAssumption
    <2> QED
      BY <1>1, <2>2, <2>3, <2>4 DEF Restart, TypeOK, ScheduledAssumption
  <1>2. ASSUME NEW r \in Runners, DbLocked(r) PROVE TypeOK'
    <2>1. run' \in [Runners -> {Idle} \cup Work]
      BY <1>2, GotoMoves, LeaveMoves DEF DbLocked, At, Steps
    <2>2. run[r].id \in Runs
      BY <1>2, Working DEF DbLocked, At, Work
    <2>3. disturbed' \in 0 .. MaxDisturbances
      BY <1>2 DEF DbLocked, Disturbance, ScheduledAssumption
    <2> QED
      BY <1>2, <2>1, <2>2, <2>3 DEF DbLocked, TypeOK, Work
  <1>3. ASSUME NEW n \in Runs, OrderCloses(n) PROVE TypeOK'
    BY <1>3, CloseWrites DEF OrderCloses, TypeOK, OrderRow
  <1> QED
    BY <1>1, <1>2, <1>3

LEMMA NextTypeOK == ASSUME ScheduledAssumption, TypeOK, [Next]_vars PROVE TypeOK'
  <1>1. CASE UNCHANGED vars
    BY <1>1 DEF vars, TypeOK
  <1> QED
    BY <1>1, CommandsTypeOK, StartsTypeOK, PipelineTypeOK, FaultsTypeOK DEF Next, WorkerStep, Runners

\* The tables of jobs, orders and run rows and what the runners and administrators carry keep
\* their types, and the worker never holds more than BatchLimit jobs (scheduled_orders.py).
THEOREM ScheduledTypeCorrect == Spec => []TypeOK
  <1>1. Init => TypeOK
    BY InitTypeOK, ScheduledAssumption
  <1>2. TypeOK /\ [Next]_vars => TypeOK'
    BY NextTypeOK, ScheduledAssumption
  <1> QED
    BY <1>1, <1>2, PTL DEF Spec

-----------------------------------------------------------------------------
(* The limit on failures. *)

\* A job nobody has created has neither failed nor run.
NewJobs == \A j \in Jobs : job[j].status = "none" => job[j].failures = 0 /\ job[j].runsCount = 0

\* What each step does to the row of a job.
JobsMove ==
    \A j \in Jobs :
        \/ job'[j] = job[j]
        \/ /\ job'[j].runsCount = job[j].runsCount /\ job'[j].failures = job[j].failures
           /\ job'[j].status = job[j].status /\ Exists(j)
        \/ /\ job[j].status = "none" /\ job'[j].status = "active"
           /\ job'[j].runsCount = job[j].runsCount /\ job'[j].failures = job[j].failures
        \/ /\ Exists(j) /\ job'[j].status \in {"paused", "stopped", "deleted"}
           /\ job'[j].runsCount = job[j].runsCount
        \/ /\ Exists(j) /\ job'[j].status = "active" /\ job'[j].failures = 0
           /\ job'[j].runsCount = job[j].runsCount
        \/ /\ Exists(j) /\ job'[j].status = StatusAfter(job'[j].failures)
           /\ job'[j].runsCount = job[j].runsCount
        \/ /\ Exists(j) /\ job'[j].status = job[j].status /\ job'[j].failures = 0
           /\ \E r \in Runners : MarkSuccess(r) /\ run[r].job = j

LEMMA NextMovesJobs == ASSUME TypeOK, [Next]_vars PROVE JobsMove
  <1> DEFINE Still == job' = job
  <1>0. job \in [Jobs -> Row]
    BY TypeParts
  <1>1. ASSUME Still PROVE JobsMove
    BY <1>1 DEF JobsMove
  <1>2. ASSUME NEW c \in Controllers, ApplyControl(c) PROVE JobsMove
    <2>1. \A j \in Jobs : ~Exists(j) => job'[j] = job[j]
      BY <1>2, ControlWrites
    <2> QED
      BY <1>2, <2>1, ControlWrites DEF JobsMove
  <1>3. ASSUME NEW j \in Jobs, Stop(j) \/ Delete(j) PROVE JobsMove
    BY <1>3, EndWrites DEF JobsMove
  <1>4. ASSUME NEW j \in Jobs, TimePasses(j) PROVE JobsMove
    <2>1. job' = [job EXCEPT ![j].due = TRUE] /\ Exists(j)
      BY <1>4 DEF TimePasses
    <2>2. /\ job'[j].runsCount = job[j].runsCount /\ job'[j].failures = job[j].failures
          /\ job'[j].status = job[j].status
          /\ \A k \in Jobs : k # j => job'[k] = job[k]
      BY <1>0, <2>1 DEF Row
    <2> QED
      BY <2>1, <2>2 DEF JobsMove
  <1>5. ASSUME NEW j \in Jobs, NEW due \in BOOLEAN, Create(j, due) PROVE JobsMove
    <2>1. job' = [job EXCEPT ![j].status = "active", ![j].due = due] /\ job[j].status = "none"
      BY <1>5 DEF Create
    <2>2. /\ job'[j].runsCount = job[j].runsCount /\ job'[j].failures = job[j].failures
          /\ job'[j].status = "active"
          /\ \A k \in Jobs : k # j => job'[k] = job[k]
      BY <1>0, <2>1 DEF Row
    <2> QED
      BY <2>1, <2>2 DEF JobsMove
  <1>6. ASSUME NEW r \in Runners, MarkSuccess(r) \/ MarkFailure(r) PROVE JobsMove
    <2>1. CASE MarkSuccess(r)
      <3>1. PICK k \in Jobs : k = run[r].job
        BY <1>6, MarksWrite
      <3>2. \A j \in Jobs : j # k \/ ~Exists(j) => job'[j] = job[j]
        BY <1>6, <3>1, MarksWrite
      <3>3. Exists(k) => job'[k].failures = 0 /\ job'[k].status = job[k].status
        BY <2>1, <3>1, MarksWrite
      <3>4. \E q \in Runners : MarkSuccess(q) /\ run[q].job = k
        BY <2>1, <3>1
      <3> HIDE DEF Exists
      <3> QED
        BY <3>2, <3>3, <3>4 DEF JobsMove
    <2>2. CASE MarkFailure(r)
      <3>1. PICK k \in Jobs : k = run[r].job
        BY <1>6, MarksWrite
      <3>2. \A j \in Jobs : j # k \/ ~Exists(j) => job'[j] = job[j]
        BY <1>6, <3>1, MarksWrite
      <3>3. Exists(k) => /\ job'[k].failures = job[k].failures + 1
                         /\ job'[k].status = StatusAfter(job[k].failures + 1)
                         /\ job'[k].runsCount = job[k].runsCount
        BY <2>2, <3>1, MarksWrite
      <3> QED
        BY <3>2, <3>3 DEF JobsMove
    <2> QED
      BY <1>6, <2>1, <2>2
  <1>7. ASSUME NEW r \in Runners, Pipeline(r) PROVE Still \/ MarkSuccess(r) \/ MarkFailure(r)
    BY <1>7 DEF Pipeline, Hold, HoldFails, Submitted, SubmitFails, Persist, RecordSuccess, RecordFailure
  <1>8. CASE \/ UNCHANGED vars
             \/ Poll
             \/ \E j \in Jobs : WorkerTakes(j)
             \/ \E r \in Requests, j \in Jobs : RunNow(r, j)
             \/ \E r \in Runners : DbLocked(r)
             \/ Restart
             \/ \E c \in Controllers, op \in {"pause", "resume"}, j \in Jobs : ReadForControl(c, op, j)
             \/ \E n \in Runs : OrderCloses(n)
    BY <1>1, <1>8 DEF vars, Poll, WorkerTakes, RunNow, DbLocked, Restart, ReadForControl, OrderCloses
  <1> HIDE DEF Still
  <1> QED
    BY <1>1, <1>2, <1>3, <1>4, <1>5, <1>6, <1>7, <1>8 DEF Next, WorkerStep, Runners

LimitInv == TypeOK /\ NewJobs /\ ActiveBelowLimit

LEMMA InitLimitInv == ASSUME ScheduledAssumption, Init PROVE LimitInv
  <1>1. NewJobs /\ ActiveBelowLimit
    BY DEF Init, NewJobs, ActiveBelowLimit
  <1> QED
    BY <1>1, InitTypeOK DEF LimitInv

LEMMA NextLimitInv == ASSUME ScheduledAssumption, LimitInv, [Next]_vars PROVE LimitInv'
  <1> USE DEF LimitInv
  <1>1. TypeOK' /\ JobsMove
    BY NextTypeOK, NextMovesJobs
  <1>2. job \in [Jobs -> Row] /\ job' \in [Jobs -> Row]
    BY <1>1, TypeParts DEF TypeOK, Row
  <1>3. ASSUME NEW j \in Jobs, job'[j].status = "none" PROVE job'[j].failures = 0 /\ job'[j].runsCount = 0
    BY <1>1, <1>2, <1>3 DEF JobsMove, NewJobs, Exists, StatusAfter, Row
  <1>4. ASSUME NEW j \in Jobs, job'[j].status = "active" PROVE job'[j].failures < MaxFailures
    BY <1>1, <1>2, <1>4 DEF JobsMove, NewJobs, ActiveBelowLimit, Exists, StatusAfter, Row, ScheduledAssumption
  <1> QED
    BY <1>1, <1>3, <1>4 DEF NewJobs, ActiveBelowLimit

\* However the failing runs, the successful ones and the commands of administrators interleave,
\* a job that is active has failed fewer than MAX_CONSECUTIVE_FAILURES times in a row
\* (_mark_run_failure, resume_scheduled_order).
THEOREM ActiveJobsAreBelowLimit == Spec => []ActiveBelowLimit
  <1>1. Init => LimitInv
    BY InitLimitInv, ScheduledAssumption
  <1>2. LimitInv /\ [Next]_vars => LimitInv'
    BY NextLimitInv, ScheduledAssumption
  <1>3. LimitInv => ActiveBelowLimit
    BY DEF LimitInv
  <1> QED
    BY <1>1, <1>2, <1>3, PTL DEF Spec

-----------------------------------------------------------------------------
(* One active order per link. *)

\* What each step does to the orders: none, or that of one run.
OrdersMove ==
    \/ order' = order
    \/ \E r \in Runners : Hold(r)
    \/ \E n \in Runs :
          /\ \A m \in Runs : m # n => order'[m] = order[m]
          /\ order'[n].job = order[n].job
          /\ \/ order'[n].state = order[n].state
             \/ order'[n].state = "closed" /\ order[n].state = "active"

LEMMA NextMovesOrders == ASSUME TypeOK, [Next]_vars PROVE OrdersMove
  <1>1. ASSUME NEW r \in Runners, Submitted(r) PROVE OrdersMove
    <2>1. At(r, "submit") /\ order' = [order EXCEPT ![run[r].id].accepted = TRUE]
      BY <1>1 DEF Submitted
    <2>2. PICK n \in Runs : n = run[r].id
      BY <2>1, SubmitWrites
    <2>3. /\ \A m \in Runs : m # n => order'[m] = order[m]
          /\ order'[n].job = order[n].job /\ order'[n].state = order[n].state
      BY <2>1, <2>2, SubmitWrites
    <2> QED
      BY <2>2, <2>3 DEF OrdersMove
  <1>2. ASSUME NEW r \in Runners, NEW a \in BOOLEAN, SubmitFails(r, a) PROVE OrdersMove
    <2>1. At(r, "submit") /\ order' = [order EXCEPT ![run[r].id].accepted = a]
      BY <1>2 DEF SubmitFails
    <2>2. PICK n \in Runs : n = run[r].id
      BY <2>1, SubmitWrites
    <2>3. /\ \A m \in Runs : m # n => order'[m] = order[m]
          /\ order'[n].job = order[n].job /\ order'[n].state = order[n].state
      BY <2>1, <2>2, SubmitWrites
    <2> QED
      BY <2>2, <2>3 DEF OrdersMove
  <1>3. ASSUME NEW r \in Runners, Persist(r) PROVE OrdersMove
    <2>1. PICK n \in Runs : n = run[r].id
      BY <1>3, PersistWrites
    <2>2. /\ \A m \in Runs : m # n => order'[m] = order[m]
          /\ order'[n].job = order[n].job /\ order'[n].state = order[n].state
      BY <1>3, <2>1, PersistWrites
    <2> QED
      BY <2>1, <2>2 DEF OrdersMove
  <1>4. ASSUME NEW n \in Runs, OrderCloses(n) PROVE OrdersMove
    BY <1>4, CloseWrites DEF OrdersMove
  <1>5. ASSUME NEW r \in Runners, Pipeline(r) PROVE OrdersMove
    <2>1. CASE HoldFails(r) \/ RecordSuccess(r) \/ RecordFailure(r) \/ MarkSuccess(r) \/ MarkFailure(r)
      BY <2>1 DEF OrdersMove, HoldFails, RecordSuccess, RecordFailure, MarkSuccess, MarkFailure
    <2> QED
      BY <1>1, <1>2, <1>3, <1>5, <2>1 DEF Pipeline, OrdersMove
  <1>6. CASE \/ UNCHANGED vars
             \/ Poll
             \/ \E j \in Jobs : WorkerTakes(j)
             \/ \E r \in Requests, j \in Jobs : RunNow(r, j)
             \/ \E r \in Runners : DbLocked(r)
             \/ Restart
             \/ \E c \in Controllers : ApplyControl(c)
             \/ \E c \in Controllers, op \in {"pause", "resume"}, j \in Jobs : ReadForControl(c, op, j)
             \/ \E j \in Jobs : Stop(j) \/ Delete(j) \/ TimePasses(j) \/ (\E due \in BOOLEAN : Create(j, due))
    BY <1>6 DEF OrdersMove, vars, Poll, WorkerTakes, RunNow, DbLocked, Restart, ApplyControl, ReadForControl,
                Stop, Delete, TimePasses, Create
  <1> QED
    BY <1>4, <1>5, <1>6 DEF Next, WorkerStep, Runners

LEMMA NextOneActive ==
    ASSUME TypeOK, OneActiveOrderPerLink, [Next]_vars PROVE OneActiveOrderPerLink'
  <1>0. OrdersMove
    BY NextMovesOrders
  <1>1. CASE order' = order
    BY <1>1 DEF OneActiveOrderPerLink, Active
  <1>2. ASSUME NEW r \in Runners, Hold(r) PROVE OneActiveOrderPerLink'
    <2>1. PICK k \in Runs, j \in Jobs : k = run[r].id /\ j = run[r].job
      BY <1>2, HoldWrites
    <2>2. order'[k].job = j /\ \A m \in Runs : m # k => order'[m] = order[m]
      BY <1>2, <2>1, HoldWrites
    <2>3. \A m \in Runs : Active(m) => LinkOf[order[m].job] # LinkOf[j]
      BY <1>2, <2>1 DEF Hold, LinkFree
    <2> QED
      BY <2>2, <2>3 DEF OneActiveOrderPerLink, Active
  <1>3. ASSUME NEW n \in Runs, \A m \in Runs : m # n => order'[m] = order[m],
               order'[n].job = order[n].job,
               \/ order'[n].state = order[n].state
               \/ order'[n].state = "closed" /\ order[n].state = "active"
        PROVE  OneActiveOrderPerLink'
    <2>1. \A m \in Runs : order'[m].job = order[m].job /\ (order'[m].state = "active" => order[m].state = "active")
      BY <1>3
    <2> QED
      BY <2>1 DEF OneActiveOrderPerLink, Active
  <1> QED
    BY <1>0, <1>1, <1>2, <1>3 DEF OrdersMove

\* Whatever the number of runners, jobs and restarts, two runs whose jobs have one link never
\* both have an active order: the link is looked at in the transaction that inserts the order
\* (_submit_job_order, find_active_order_for_link_async).
THEOREM OneActivePerLink == Spec => []OneActiveOrderPerLink
  <1>1. Init => OneActiveOrderPerLink
    BY DEF Init, OneActiveOrderPerLink, Active, NoOrder
  <1>2. TypeOK /\ OneActiveOrderPerLink /\ [Next]_vars => OneActiveOrderPerLink'
    BY NextOneActive
  <1> QED
    BY <1>1, <1>2, ScheduledTypeCorrect, PTL DEF Spec

-----------------------------------------------------------------------------
(* What is known of the runs in flight, and of the rows they have written. *)

\* The places of a run that has its order and has met no failure, and those of one that failed.
Going == {"submit", "persist", "recordSuccess", "markSuccess"}
Failing == {"recordFailure", "markFailure"}

\* A run's number belongs to one runner.
RunsKnown ==
    \A q, r \in Runners : run[q] # Idle /\ run[r] # Idle /\ run[q].id = run[r].id => q = r

\* What the tables hold of a run, by the place its runner is at.
RunOK(r) ==
    /\ run[r].id <= started
    /\ job[run[r].job].status # "none"
    /\ run[r].step = "hold" => order[run[r].id].state = "none"
    /\ run[r].step \in Going => order[run[r].id].state # "none"
    /\ order[run[r].id].state # "none" => order[run[r].id].job = run[r].job
    /\ run[r].step \in {"persist", "recordSuccess"} => order[run[r].id].accepted
    /\ run[r].step = "recordSuccess" => order[run[r].id].ref
    /\ run[r].step \in Failing <=> run[r].id \in broken
    /\ run[r].step = "markSuccess" /\ Exists(run[r].job) => run[r].id \in log[run[r].job]

RunsOK == \A r \in Runners : run[r] # Idle => RunOK(r)

OrdersKnown ==
    \A n \in Runs : order[n].state # "none" =>
        n <= started /\ order[n].job \in Jobs /\ job[order[n].job].status # "none"

BrokenKnown == \A n \in broken : n <= started

\* The second half of RunsAccountFor, and that a run is logged when it is at its last step.
LogKnown ==
    \A j \in Jobs : \A n \in log[j] :
        /\ order[n].job = j /\ order[n].accepted /\ order[n].ref /\ order[n].state # "none"
        /\ \A r \in Runners : run[r] # Idle /\ run[r].id = n => run[r].step = "markSuccess"

\* The first half of RunsAccountFor.
OrdersAccounted ==
    \A n \in Runs : order[n].state # "none" =>
        n \in log[order[n].job] \/ InFlight(n) \/ n \in broken \/ ~Exists(order[n].job)

RunsInv ==
    /\ TypeOK /\ NewJobs
    /\ RunsKnown /\ RunsOK /\ OrdersKnown /\ BrokenKnown /\ LogKnown /\ OrdersAccounted /\ RunsCounted

LEMMA InitRunsInv == ASSUME ScheduledAssumption, Init PROVE RunsInv
  <1>1. TypeOK
    BY InitTypeOK
  <1>2. \A j \in Jobs : job[j].status = "none" /\ job[j].failures = 0 /\ job[j].runsCount = 0
    BY DEF Init
  <1>3. NewJobs /\ RunsCounted
    BY <1>2 DEF NewJobs, RunsCounted, Exists
  <1>4. \A r \in Runners : run[r] = Idle
    BY DEF Init
  <1>5. \A n \in Runs : order[n].state = "none"
    BY DEF Init, NoOrder
  <1>6. RunsKnown /\ RunsOK /\ OrdersKnown /\ OrdersAccounted
    BY <1>4, <1>5 DEF RunsKnown, RunsOK, OrdersKnown, OrdersAccounted
  <1>7. BrokenKnown /\ LogKnown
    BY DEF Init, BrokenKnown, LogKnown
  <1> QED
    BY <1>1, <1>3, <1>6, <1>7 DEF RunsInv

\* A job that was created is never again one that was not, and a deleted one stays deleted.
JobsGoOn ==
    \A j \in Jobs : job[j].status # "none" => /\ job'[j].status # "none"
                                              /\ ~Exists(j) => ~Exists(j)'

LEMMA NextJobsGoOn == ASSUME JobsMove PROVE JobsGoOn
  BY DEF JobsMove, JobsGoOn, Exists, StatusAfter

\* A step of runner r concerns its own run and no other ...
OwnStep(r) ==
    /\ \A q \in Runners : q # r => run'[q] = run[q]
    /\ run'[r] # Idle => run'[r].id = run[r].id /\ run'[r].job = run[r].job
    /\ started' = started
    /\ \A m \in Runs : m # run[r].id => order'[m] = order[m]
    /\ \A m \in Runs : m # run[r].id => (m \in broken' <=> m \in broken)
    /\ \A j \in Jobs : \A m \in Runs : m # run[r].id => (m \in log'[j] <=> m \in log[j])

\* ... and leaves it as the place it reaches requires.
OwnRunOK(r) ==
    /\ run'[r] # Idle => RunOK(r)'
    /\ order'[run[r].id].state # "none" =>
          /\ order'[run[r].id].job = run[r].job
          /\ \/ run[r].id \in log'[run[r].job]
             \/ run'[r] # Idle
             \/ run[r].id \in broken'
             \/ job'[run[r].job].status \in {"none", "deleted"}
    /\ \A j \in Jobs : run[r].id \in log'[j] =>
          /\ order'[run[r].id].job = j /\ order'[run[r].id].accepted /\ order'[run[r].id].ref
          /\ order'[run[r].id].state # "none"
          /\ run'[r] # Idle => run'[r].step = "markSuccess"

Known == RunsKnown /\ RunsOK /\ OrdersKnown /\ BrokenKnown /\ LogKnown /\ OrdersAccounted

\* Then what is known of the others' runs stays true.
LEMMA OwnStepKeeps ==
    ASSUME TypeOK, TypeOK', Known, JobsGoOn,
           NEW r \in Runners, run[r] # Idle, OwnStep(r), OwnRunOK(r)
    PROVE  Known'
  <1> DEFINE k == run[r].id
             j == run[r].job
  <1>1. run[r] \in Work /\ k \in Runs /\ j \in Jobs
    BY Working DEF Work
  <1>2. RunOK(r)
    BY DEF Known, RunsOK
  <1>3. k <= started /\ job[j].status # "none"
    BY <1>2 DEF RunOK
  <1>4. \A q \in Runners : q # r /\ run[q] # Idle => run[q].id # k /\ run[q].id \in Runs /\ run[q].job \in Jobs
    BY Working DEF Known, RunsKnown, Work
  <1>5. RunsKnown'
    BY <1>4 DEF OwnStep, Known, RunsKnown
  <1>6. RunsOK'
    <2>1. ASSUME NEW q \in Runners, q # r, run'[q] # Idle PROVE RunOK(q)'
      <3>1. run'[q] = run[q] /\ run[q].id # k /\ run[q].id \in Runs /\ run[q].job \in Jobs
        BY <1>4, <2>1 DEF OwnStep
      <3>2. PICK m \in Runs, i \in Jobs : m = run[q].id /\ i = run[q].job
        BY <3>1
      <3>3. /\ order'[m] = order[m] /\ (m \in broken' <=> m \in broken)
            /\ m \in log'[i] <=> m \in log[i]
            /\ started' = started
        BY <3>1, <3>2 DEF OwnStep
      <3>4. RunOK(q)
        BY <2>1, <3>1 DEF Known, RunsOK
      <3>5. job'[i].status # "none" /\ (Exists(i)' => Exists(i))
        BY <3>2, <3>4 DEF RunOK, JobsGoOn
      <3> QED
        BY <3>1, <3>2, <3>3, <3>4, <3>5 DEF RunOK, Exists
    <2> QED
      BY <2>1 DEF RunsOK, OwnRunOK
  <1>7. ASSUME NEW n \in Runs, order'[n].state # "none"
        PROVE  /\ n <= started' /\ order'[n].job \in Jobs /\ job'[order'[n].job].status # "none"
               /\ n \in log'[order'[n].job] \/ InFlight(n)' \/ n \in broken' \/ ~Exists(order[n].job)'
    <2>1. CASE n = k
      <3>1. order'[n].job = j
        BY <1>7, <2>1 DEF OwnRunOK
      <3>2. n <= started' /\ job'[j].status # "none"
        BY <1>1, <1>3, <2>1 DEF OwnStep, JobsGoOn
      <3>3. run'[r] # Idle => InFlight(n)'
        BY <2>1 DEF InFlight, OwnStep
      <3> QED
        BY <1>1, <1>7, <2>1, <3>1, <3>2, <3>3 DEF OwnRunOK, Exists
    <2>2. CASE n # k
      <3>1. /\ order'[n] = order[n] /\ started' = started
            /\ n \in broken' <=> n \in broken
            /\ \A i \in Jobs : n \in log'[i] <=> n \in log[i]
        BY <2>2 DEF OwnStep
      <3>2. PICK i \in Jobs : i = order[n].job
        BY <1>7, <3>1 DEF Known, OrdersKnown
      <3>3. n <= started /\ job[i].status # "none"
        BY <1>7, <3>1, <3>2 DEF Known, OrdersKnown
      <3>4. n \in log[i] \/ InFlight(n) \/ n \in broken \/ ~Exists(i)
        BY <1>7, <3>1, <3>2 DEF Known, OrdersAccounted
      <3>5. InFlight(n) => InFlight(n)'
        BY <2>2 DEF InFlight, OwnStep
      <3>6. job'[i].status # "none" /\ (~Exists(i) => ~Exists(i)')
        BY <3>3 DEF JobsGoOn
      <3> QED
        BY <3>1, <3>2, <3>3, <3>4, <3>5, <3>6 DEF Exists
    <2> QED
      BY <2>1, <2>2
  <1>8. OrdersKnown' /\ OrdersAccounted'
    BY <1>7 DEF OrdersKnown, OrdersAccounted
  <1>9. BrokenKnown'
    <2>1. ASSUME NEW n \in broken' PROVE n <= started'
      <3>1. n \in Runs
        BY DEF TypeOK
      <3> QED
        BY <1>3, <3>1 DEF OwnStep, Known, BrokenKnown
    <2> QED
      BY <2>1 DEF BrokenKnown
  <1>10. LogKnown'
    <2>1. ASSUME NEW i \in Jobs, NEW n \in log'[i]
          PROVE  /\ order'[n].job = i /\ order'[n].accepted /\ order'[n].ref /\ order'[n].state # "none"
                 /\ \A q \in Runners : run'[q] # Idle /\ run'[q].id = n => run'[q].step = "markSuccess"
      <3>1. n \in Runs
        BY DEF TypeOK
      <3>2. CASE n = k
        <4>1. \A q \in Runners : run'[q] # Idle /\ run'[q].id = n => q = r
          BY <1>4, <3>2 DEF OwnStep
        <4> QED
          BY <2>1, <3>2, <4>1 DEF OwnRunOK
      <3>3. CASE n # k
        <4>1. order'[n] = order[n] /\ n \in log[i]
          BY <2>1, <3>1, <3>3 DEF OwnStep
        <4>2. \A q \in Runners : run'[q] # Idle /\ run'[q].id = n => q # r /\ run'[q] = run[q]
          BY <3>3 DEF OwnStep
        <4> QED
          BY <4>1, <4>2 DEF Known, LogKnown
      <3> QED
        BY <3>2, <3>3
    <2> QED
      BY <2>1 DEF LogKnown
  <1> QED
    BY <1>5, <1>6, <1>8, <1>9, <1>10 DEF Known

\* What RunsInv says of the run a working runner carries.
LEMMA OwnRun ==
    ASSUME RunsInv, NEW r \in Runners, run[r].step # "idle"
    PROVE  /\ run[r] # Idle /\ run[r].id \in Runs /\ run[r].job \in Jobs /\ RunOK(r)
           /\ \A j \in Jobs : run[r].id \in log[j] =>
                 /\ order[run[r].id].job = j /\ order[run[r].id].accepted /\ order[run[r].id].ref
                 /\ order[run[r].id].state # "none" /\ run[r].step = "markSuccess"
           /\ order[run[r].id] \in OrderRow
  BY Working, TypeParts DEF RunsInv, RunsOK, LogKnown, Work

\* Each step of the pipeline, and a locked database, concerns the runner's own run.
LEMMA PipelineOwnStep ==
    ASSUME RunsInv, NEW r \in Runners, Pipeline(r) \/ DbLocked(r)
    PROVE  run[r].step # "idle" /\ OwnStep(r) /\ OwnRunOK(r)
  <1> USE DEF Going, Failing
  <1>0. TypeOK
    BY DEF RunsInv
  <1>1. run[r].step # "idle"
    BY DEF Pipeline, DbLocked, Hold, HoldFails, Submitted, SubmitFails, Persist, RecordSuccess,
           RecordFailure, MarkSuccess, MarkFailure, At
  <1>2. PICK k \in Runs, j \in Jobs : k = run[r].id /\ j = run[r].job
    BY <1>1, OwnRun
  <1>3. /\ run[r] # Idle /\ RunOK(r) /\ order[k] \in OrderRow
        /\ \A i \in Jobs : k \in log[i] =>
              /\ order[k].job = i /\ order[k].accepted /\ order[k].ref
              /\ order[k].state # "none" /\ run[r].step = "markSuccess"
    BY <1>1, <1>2, OwnRun
  <1>4. ASSUME NEW s \in Steps, Goto(r, s)
        PROVE  /\ run'[r] # Idle /\ run'[r].step = s /\ run'[r].id = k /\ run'[r].job = j
               /\ \A q \in Runners : q # r => run'[q] = run[q]
    <2>1. /\ run'[r] = [step |-> s, job |-> run[r].job, id |-> run[r].id]
          /\ \A q \in Runners : q # r => run'[q] = run[q]
      BY <1>0, <1>1, <1>4, GotoMoves
    <2>2. run'[r].step = s /\ run'[r].id = k /\ run'[r].job = j
      BY <1>2, <2>1
    <2>3. s # "idle"
      BY DEF Steps
    <2> QED
      BY <2>1, <2>2, <2>3 DEF Idle
  <1>5. ASSUME Leave(r) PROVE run'[r] = Idle /\ \A q \in Runners : q # r => run'[q] = run[q]
    BY <1>0, <1>5, LeaveMoves
  <1>6. CASE Hold(r)
    <2>1. /\ order'[k].job = j /\ order'[k].state = "active"
          /\ \A m \in Runs : m # k => order'[m] = order[m]
      BY <1>0, <1>2, <1>6, HoldWrites
    <2>2. /\ run'[r] # Idle /\ run'[r].step = "submit" /\ run'[r].id = k /\ run'[r].job = j
          /\ \A q \in Runners : q # r => run'[q] = run[q]
      BY <1>4, <1>6 DEF Hold, Steps
    <2>3. OwnStep(r)
      BY <1>2, <1>6, <2>1, <2>2 DEF Hold, OwnStep
    <2>4. RunOK(r)'
      BY <1>2, <1>3, <1>6, <2>1, <2>2 DEF Hold, At, RunOK
    <2> QED
      BY <1>1, <1>2, <1>3, <1>6, <2>1, <2>2, <2>3, <2>4 DEF Hold, At, OwnRunOK
  <1>7. CASE HoldFails(r)
    <2>1. /\ run'[r] # Idle /\ run'[r].step = "recordFailure" /\ run'[r].id = k /\ run'[r].job = j
          /\ \A q \in Runners : q # r => run'[q] = run[q]
      BY <1>4, <1>7 DEF HoldFails, Steps
    <2>2. OwnStep(r)
      BY <1>2, <1>7, <2>1 DEF HoldFails, OwnStep
    <2>3. RunOK(r)'
      BY <1>2, <1>3, <1>7, <2>1 DEF HoldFails, At, RunOK
    <2> QED
      BY <1>1, <1>2, <1>3, <1>7, <2>1, <2>2, <2>3 DEF HoldFails, At, OwnRunOK, RunOK
  <1>8. CASE Submitted(r)
    <2>1. /\ \A m \in Runs : /\ order'[m].job = order[m].job /\ order'[m].state = order[m].state
                             /\ order'[m].ref = order[m].ref
                             /\ m # k => order'[m] = order[m]
          /\ order'[k].accepted = TRUE
      BY <1>0, <1>2, <1>8, SubmitWrites DEF Submitted
    <2>2. /\ run'[r] # Idle /\ run'[r].step = "persist" /\ run'[r].id = k /\ run'[r].job = j
          /\ \A q \in Runners : q # r => run'[q] = run[q]
      BY <1>4, <1>8 DEF Submitted, Steps
    <2>3. OwnStep(r)
      BY <1>2, <1>8, <2>1, <2>2 DEF Submitted, OwnStep
    <2>4. RunOK(r)'
      BY <1>2, <1>3, <1>8, <2>1, <2>2 DEF Submitted, At, RunOK
    <2> QED
      BY <1>1, <1>2, <1>3, <1>8, <2>1, <2>2, <2>3, <2>4 DEF Submitted, At, OwnRunOK, RunOK
  <1>9. ASSUME NEW a \in BOOLEAN, SubmitFails(r, a) PROVE OwnStep(r) /\ OwnRunOK(r)
    <2>1. \A m \in Runs : /\ order'[m].job = order[m].job /\ order'[m].state = order[m].state
                          /\ order'[m].ref = order[m].ref
                          /\ m # k => order'[m] = order[m]
      BY <1>0, <1>2, <1>9, SubmitWrites DEF SubmitFails
    <2>2. /\ run'[r] # Idle /\ run'[r].step = "recordFailure" /\ run'[r].id = k /\ run'[r].job = j
          /\ \A q \in Runners : q # r => run'[q] = run[q]
      BY <1>4, <1>9 DEF SubmitFails, Steps
    <2>3. OwnStep(r)
      BY <1>2, <1>9, <2>1, <2>2 DEF SubmitFails, OwnStep
    <2>4. RunOK(r)'
      BY <1>2, <1>3, <1>9, <2>1, <2>2 DEF SubmitFails, At, RunOK
    <2> QED
      BY <1>2, <1>3, <1>9, <2>1, <2>2, <2>3, <2>4 DEF SubmitFails, At, OwnRunOK, RunOK
  <1>10. CASE Persist(r)
    <2>1. /\ \A m \in Runs : /\ order'[m].job = order[m].job /\ order'[m].state = order[m].state
                             /\ order'[m].accepted = order[m].accepted
                             /\ m # k => order'[m] = order[m]
          /\ order'[k].ref = TRUE
      BY <1>0, <1>2, <1>10, PersistWrites
    <2>2. /\ run'[r] # Idle /\ run'[r].step = "recordSuccess" /\ run'[r].id = k /\ run'[r].job = j
          /\ \A q \in Runners : q # r => run'[q] = run[q]
      BY <1>4, <1>10 DEF Persist, Steps
    <2>3. OwnStep(r)
      BY <1>2, <1>10, <2>1, <2>2 DEF Persist, OwnStep
    <2>4. RunOK(r)'
      BY <1>2, <1>3, <1>10, <2>1, <2>2 DEF Persist, At, RunOK
    <2> QED
      BY <1>1, <1>2, <1>3, <1>10, <2>1, <2>2, <2>3, <2>4 DEF Persist, At, OwnRunOK, RunOK
  <1>11. CASE RecordSuccess(r)
    <2>0. log \in [Jobs -> SUBSET Runs]
      BY <1>0, TypeParts
    <2>1. CASE Exists(j)
      <3>1. /\ log' = [log EXCEPT ![j] = @ \cup {k}]
            /\ UNCHANGED <<job, order, started, broken>> /\ Goto(r, "markSuccess")
        BY <1>2, <1>11, <2>1 DEF RecordSuccess
      <3>2. /\ run'[r] # Idle /\ run'[r].step = "markSuccess" /\ run'[r].id = k /\ run'[r].job = j
            /\ \A q \in Runners : q # r => run'[q] = run[q]
        BY <1>4, <3>1 DEF Steps
      <3>3. /\ k \in log'[j] /\ \A i \in Jobs : i # j => log'[i] = log[i]
            /\ \A m \in Runs : m # k => (m \in log'[j] <=> m \in log[j])
        BY <2>0, <3>1
      <3>4. OwnStep(r)
        BY <1>2, <3>1, <3>2, <3>3 DEF OwnStep
      <3>5. RunOK(r)'
        BY <1>2, <1>3, <1>11, <3>1, <3>2, <3>3 DEF RecordSuccess, At, RunOK
      <3>6. order[k].state # "none" /\ order[k].job = j /\ order[k].accepted /\ order[k].ref
        BY <1>2, <1>3, <1>11 DEF RecordSuccess, At, RunOK
      <3>7. \A i \in Jobs : k \in log'[i] => i = j
        BY <1>3, <3>3, <3>6
      <3> QED
        BY <1>1, <1>2, <3>1, <3>2, <3>3, <3>4, <3>5, <3>6, <3>7 DEF OwnRunOK
    <2>2. CASE ~Exists(j)
      <3>1. UNCHANGED <<job, order, started, log>> /\ Leave(r) /\ broken' = broken \cup {k}
        BY <1>2, <1>11, <2>2 DEF RecordSuccess
      <3>2. run'[r] = Idle /\ \A q \in Runners : q # r => run'[q] = run[q]
        BY <1>5, <3>1
      <3>3. OwnStep(r)
        BY <1>2, <3>1, <3>2 DEF OwnStep
      <3> QED
        BY <1>1, <1>2, <1>3, <1>11, <3>1, <3>2, <3>3 DEF RecordSuccess, At, OwnRunOK, RunOK
    <2> QED
      BY <2>1, <2>2
  <1>12. CASE RecordFailure(r)
    <2>1. UNCHANGED <<job, order, started, log, broken>> /\ (Goto(r, "markFailure") \/ Leave(r))
      BY <1>12 DEF RecordFailure
    <2>2. CASE Goto(r, "markFailure")
      <3>1. /\ run'[r] # Idle /\ run'[r].step = "markFailure" /\ run'[r].id = k /\ run'[r].job = j
            /\ \A q \in Runners : q # r => run'[q] = run[q]
        BY <1>4, <2>2 DEF Steps
      <3>2. OwnStep(r)
        BY <1>2, <2>1, <3>1 DEF OwnStep
      <3>3. RunOK(r)'
        BY <1>2, <1>3, <1>12, <2>1, <3>1 DEF RecordFailure, At, RunOK
      <3>4. k \in broken /\ order'[k] = order[k]
        BY <1>2, <1>3, <1>12, <2>1 DEF RecordFailure, At, RunOK
      <3>5. order[k].state # "none" => order[k].job = j
        BY <1>2, <1>3, <1>12 DEF RecordFailure, At, RunOK
      <3> QED
        BY <1>1, <1>2, <1>3, <1>12, <2>1, <3>1, <3>2, <3>3, <3>4, <3>5 DEF RecordFailure, At, OwnRunOK
    <2>3. CASE Leave(r)
      <3>1. run'[r] = Idle /\ \A q \in Runners : q # r => run'[q] = run[q]
        BY <1>5, <2>3
      <3>2. OwnStep(r)
        BY <1>2, <2>1, <3>1 DEF OwnStep
      <3> QED
        BY <1>1, <1>2, <1>3, <1>12, <2>1, <3>1, <3>2 DEF RecordFailure, At, OwnRunOK, RunOK
    <2> QED
      BY <2>1, <2>2, <2>3
  <1>13. CASE MarkSuccess(r) \/ MarkFailure(r)
    <2>1. UNCHANGED <<order, started, log, broken>> /\ Leave(r) /\ run[r].step \in {"markSuccess", "markFailure"}
      BY <1>13 DEF MarkSuccess, MarkFailure, At
    <2>2. run'[r] = Idle /\ \A q \in Runners : q # r => run'[q] = run[q]
      BY <1>5, <2>1
    <2>3. OwnStep(r)
      BY <1>2, <2>1, <2>2 DEF OwnStep
    <2>4. order[k].state # "none" => order[k].job = j
      BY <1>2, <1>3 DEF RunOK
    <2>5. k \in log[j] \/ k \in broken \/ ~Exists(j)
      BY <1>2, <1>3, <2>1 DEF RunOK
    <2>6. ~Exists(j) => job'[j].status \in {"none", "deleted"}
      BY <1>0, <1>2, <1>13, MarksWrite DEF Exists
    <2> QED
      BY <1>1, <1>2, <1>3, <2>1, <2>2, <2>3, <2>4, <2>5, <2>6 DEF OwnRunOK
  <1>14. CASE DbLocked(r)
    <2>1. /\ UNCHANGED <<job, order, log, started>> /\ broken' = broken \cup {k}
          /\ \/ At(r, "persist") /\ Goto(r, "recordFailure")
             \/ Leave(r)
      BY <1>2, <1>14 DEF DbLocked
    <2>2. order[k].state # "none" => order[k].job = j
      BY <1>2, <1>3 DEF RunOK
    <2>3. CASE At(r, "persist") /\ Goto(r, "recordFailure")
      <3>1. /\ run'[r] # Idle /\ run'[r].step = "recordFailure" /\ run'[r].id = k /\ run'[r].job = j
            /\ \A q \in Runners : q # r => run'[q] = run[q]
        BY <1>4, <2>3 DEF Steps
      <3>2. OwnStep(r)
        BY <1>2, <2>1, <3>1 DEF OwnStep
      <3>3. RunOK(r)'
        BY <1>2, <1>3, <2>1, <2>3, <3>1 DEF At, RunOK
      <3> QED
        BY <1>1, <1>2, <1>3, <2>1, <2>2, <2>3, <3>1, <3>2, <3>3 DEF At, OwnRunOK
    <2>4. CASE Leave(r)
      <3>1. run'[r] = Idle /\ \A q \in Runners : q # r => run'[q] = run[q]
        BY <1>5, <2>4
      <3>2. OwnStep(r)
        BY <1>2, <2>1, <3>1 DEF OwnStep
      <3> QED
        BY <1>1, <1>2, <1>3, <2>1, <2>2, <3>1, <3>2 DEF OwnRunOK
    <2> QED
      BY <2>1, <2>3, <2>4
  <1> QED
    BY <1>1, <1>6, <1>7, <1>8, <1>9, <1>10, <1>11, <1>12, <1>13, <1>14 DEF Pipeline

\* The start of a run gives it a number no run has had.
LEMMA StartKnown ==
    ASSUME RunsInv, TypeOK', NEW r \in Runners, NEW j \in Jobs, StartRun(r, j),
           job[j].status # "none", UNCHANGED <<job, order, log, broken>>
    PROVE  Known'
  <1> USE DEF RunsInv
  <1>0. TypeOK /\ Known
    BY DEF Known
  <1>1. /\ run'[r] = [step |-> "hold", job |-> j, id |-> started + 1]
        /\ \A q \in Runners : q # r => run'[q] = run[q]
        /\ started' = started + 1 /\ started + 1 \in Runs
    BY <1>0, StartMoves, ScheduledAssumption
  <1>2. run[r] = Idle /\ started \in Nat
    BY <1>0 DEF StartRun, TypeOK
  <1>3. PICK k \in Runs : k = started + 1
    BY <1>1
  <1>4. run'[r].step = "hold" /\ run'[r].job = j /\ run'[r].id = k /\ run'[r] # Idle
    BY <1>1, <1>3 DEF Idle
  <1>5. \A q \in Runners : run[q] # Idle => run[q].id <= started /\ run[q].id \in Runs /\ run[q].job \in Jobs
    BY <1>0, Working DEF RunsOK, RunOK, Work
  <1>6. order[k].state = "none" /\ k \notin broken /\ \A i \in Jobs : k \notin log[i]
    BY <1>2, <1>3 DEF OrdersKnown, BrokenKnown, LogKnown, Runs
  <1>7. RunsKnown'
    BY <1>1, <1>2, <1>3, <1>4, <1>5 DEF RunsKnown, Runs
  <1>8. RunsOK'
    <2>1. RunOK(r)'
      BY <1>1, <1>2, <1>3, <1>4, <1>6 DEF RunOK, Going, Failing, Runs
    <2>2. ASSUME NEW q \in Runners, q # r, run'[q] # Idle PROVE RunOK(q)'
      <3>1. run'[q] = run[q] /\ RunOK(q) /\ run[q].id \in Runs
        BY <1>1, <1>5, <2>2 DEF RunsOK
      <3> QED
        BY <1>1, <1>2, <3>1 DEF RunOK, Exists, Runs
    <2> QED
      BY <2>1, <2>2 DEF RunsOK
  <1>9. OrdersKnown' /\ BrokenKnown'
    BY <1>0, <1>1, <1>2, TypeParts DEF OrdersKnown, BrokenKnown, Runs
  <1>10. LogKnown'
    BY <1>1, <1>4, <1>6 DEF LogKnown
  <1>11. OrdersAccounted'
    <2>1. \A n \in Runs : InFlight(n) => InFlight(n)'
      BY <1>1, <1>2 DEF InFlight
    <2> QED
      BY <2>1 DEF OrdersAccounted, Exists
  <1> QED
    BY <1>7, <1>8, <1>9, <1>10, <1>11 DEF Known

\* A step that touches neither runs nor orders nor their rows.
LEMMA JobsOnlyKnown ==
    ASSUME RunsInv, JobsGoOn, UNCHANGED <<order, run, started, broken>>,
           log' = log \/ \E j \in Jobs : Delete(j)
    PROVE  Known'
  <1> USE DEF RunsInv
  <1>1. \A j \in Jobs : Exists(j)' => log'[j] = log[j]
    <2>1. ASSUME NEW j \in Jobs, Delete(j) PROVE ~Exists(j)' /\ \A i \in Jobs : i # j => log'[i] = log[i]
      BY <2>1, TypeParts, EndWrites DEF Delete, Exists
    <2> QED
      BY <2>1
  <1>2. \A j \in Jobs : log'[j] \subseteq log[j]
    <2>1. ASSUME NEW j \in Jobs, Delete(j) PROVE \A i \in Jobs : log'[i] \subseteq log[i]
      BY <2>1, TypeParts DEF Delete
    <2> QED
      BY <2>1
  <1>3. RunsKnown' /\ BrokenKnown'
    BY DEF RunsKnown, BrokenKnown
  <1>4. RunsOK'
    <2>1. ASSUME NEW q \in Runners, run'[q] # Idle PROVE RunOK(q)'
      <3>1. PICK i \in Jobs : i = run[q].job
        BY <2>1, Working DEF Work
      <3>2. RunOK(q)
        BY <2>1 DEF RunsOK
      <3>3. job'[i].status # "none" /\ (Exists(i)' => Exists(i) /\ log'[i] = log[i])
        BY <1>1, <3>1, <3>2 DEF RunOK, JobsGoOn
      <3> QED
        BY <3>1, <3>2, <3>3 DEF RunOK, Exists
    <2> QED
      BY <2>1 DEF RunsOK
  <1>5. OrdersKnown'
    BY DEF OrdersKnown, JobsGoOn
  <1>6. LogKnown'
    BY <1>2 DEF LogKnown
  <1>7. OrdersAccounted'
    <2>1. ASSUME NEW n \in Runs, order[n].state # "none"
          PROVE  n \in log'[order[n].job] \/ InFlight(n)' \/ n \in broken \/ ~Exists(order[n].job)'
      <3>1. PICK i \in Jobs : i = order[n].job
        BY <2>1 DEF OrdersKnown
      <3>2. job[i].status # "none" /\ (n \in log[i] \/ InFlight(n) \/ n \in broken \/ ~Exists(i))
        BY <2>1, <3>1 DEF OrdersKnown, OrdersAccounted
      <3>3. InFlight(n) => InFlight(n)'
        BY DEF InFlight
      <3>4. Exists(i)' => Exists(i) /\ log'[i] = log[i]
        BY <1>1, <3>2 DEF JobsGoOn
      <3> QED
        BY <3>1, <3>2, <3>3, <3>4 DEF Exists
    <2> QED
      BY <2>1 DEF OrdersAccounted
  <1> QED
    BY <1>3, <1>4, <1>5, <1>6, <1>7 DEF Known

LEMMA RestartKnown == ASSUME RunsInv, Restart PROVE Known'
  <1> USE DEF RunsInv
  <1>1. /\ UNCHANGED <<job, order, log, started>>
        /\ \A r \in Runners : run'[r] = Idle
        /\ \A n : n \in broken' <=> n \in broken \/ InFlight(n)
    BY DEF Restart, InFlight
  <1>2. RunsKnown' /\ RunsOK'
    BY <1>1 DEF RunsKnown, RunsOK
  <1>3. OrdersKnown' /\ LogKnown'
    BY <1>1 DEF OrdersKnown, LogKnown
  <1>4. BrokenKnown'
    BY <1>1 DEF BrokenKnown, InFlight, RunsOK, RunOK
  <1>5. OrdersAccounted'
    BY <1>1 DEF OrdersAccounted, Exists
  <1> QED
    BY <1>2, <1>3, <1>4, <1>5 DEF Known

LEMMA CloseKnown == ASSUME RunsInv, NEW n \in Runs, OrderCloses(n) PROVE Known'
  <1> USE DEF RunsInv
  <1>1. UNCHANGED <<job, log, run, started, broken>>
    BY DEF OrderCloses
  <1>2. \A m \in Runs : /\ order'[m].job = order[m].job /\ order'[m].ref = order[m].ref
                        /\ order'[m].accepted = order[m].accepted
                        /\ order'[m].state = "none" <=> order[m].state = "none"
    BY CloseWrites
  <1>3. log \in [Jobs -> SUBSET Runs]
    BY TypeParts
  <1>4. RunsKnown' /\ BrokenKnown'
    BY <1>1 DEF RunsKnown, BrokenKnown
  <1>5. RunsOK'
    <2>1. ASSUME NEW q \in Runners, run'[q] # Idle PROVE RunOK(q)'
      <3>1. PICK k \in Runs : k = run[q].id
        BY <1>1, <2>1, Working DEF Work
      <3> QED
        BY <1>1, <1>2, <2>1, <3>1 DEF RunsOK, RunOK, Exists
    <2> QED
      BY <2>1 DEF RunsOK
  <1>6. OrdersKnown' /\ LogKnown'
    BY <1>1, <1>2, <1>3 DEF OrdersKnown, LogKnown
  <1>7. OrdersAccounted'
    BY <1>1, <1>2 DEF OrdersAccounted, Exists, InFlight
  <1> QED
    BY <1>4, <1>5, <1>6, <1>7 DEF Known

LEMMA NextKnown == ASSUME RunsInv, TypeOK', JobsGoOn, [Next]_vars PROVE Known'
  <1>1. ASSUME NEW r \in Runners, Pipeline(r) \/ DbLocked(r) PROVE Known'
    BY <1>1, PipelineOwnStep, OwnStepKeeps, OwnRun DEF RunsInv, Known
  <1>2. ASSUME NEW r \in Requests, NEW j \in Jobs, RunNow(r, j) PROVE Known'
    BY <1>2, StartKnown DEF RunNow, Exists, Runners
  <1>3. ASSUME NEW j \in Jobs, WorkerTakes(j) PROVE Known'
    <2>1. CASE Due(j)
      BY <1>3, <2>1, StartKnown DEF WorkerTakes, Due, Runners
    <2>2. CASE ~Due(j)
      BY <1>3, <2>2, JobsOnlyKnown DEF WorkerTakes
    <2> QED
      BY <2>1, <2>2
  <1>4. CASE \/ UNCHANGED vars
             \/ Poll
             \/ \E c \in Controllers : ApplyControl(c)
             \/ \E c \in Controllers, op \in {"pause", "resume"}, j \in Jobs : ReadForControl(c, op, j)
             \/ \E j \in Jobs : Stop(j) \/ TimePasses(j) \/ (\E due \in BOOLEAN : Create(j, due))
    BY <1>4, JobsOnlyKnown DEF vars, Poll, ApplyControl, ReadForControl, Stop, TimePasses, Create
  <1>5. ASSUME NEW j \in Jobs, Delete(j) PROVE Known'
    BY <1>5, JobsOnlyKnown DEF Delete
  <1> QED
    BY <1>1, <1>2, <1>3, <1>4, <1>5, RestartKnown, CloseKnown DEF Next, WorkerStep, Runners

-----------------------------------------------------------------------------
(* The counter of a job. *)

\* A job's counter and the set it counts do not change, or grow by one run together.
CountMoves(j) ==
    \/ Settled(j)' = Settled(j) /\ job'[j].runsCount = job[j].runsCount
    \/ /\ \E k \in Runs \ Settled(j) : Settled(j)' = Settled(j) \cup {k}
       /\ job'[j].runsCount = job[j].runsCount + 1

\* A runner's step settles its own run, if any.
LEMMA OwnStepSettles ==
    ASSUME RunsInv, NEW r \in Runners, run[r] # Idle, OwnStep(r), NEW j \in Jobs, log'[j] \subseteq Runs
    PROVE  /\ run[r].id \in Runs /\ run[r].id \notin Settled(j)
           /\ Settled(j)' = IF run[r].id \in log'[j] /\ run'[r] = Idle /\ run[r].id \notin broken'
                            THEN Settled(j) \cup {run[r].id} ELSE Settled(j)
  <1>0. PICK k \in Runs : k = run[r].id
    BY Working DEF RunsInv, Work
  <1>1. InFlight(k)
    BY <1>0 DEF InFlight
  <1>2. k \notin Settled(j) /\ Settled(j) \subseteq Runs
    BY <1>1, TypeParts DEF Settled, RunsInv
  <1>3. ASSUME NEW n \in Runs, n # k PROVE n \in Settled(j)' <=> n \in Settled(j)
    <2>1. InFlight(n)' <=> InFlight(n)
      BY <1>0, <1>3 DEF InFlight, OwnStep
    <2> QED
      BY <1>0, <1>3, <2>1 DEF Settled, OwnStep
  <1>4. InFlight(k)' <=> run'[r] # Idle
    BY <1>0 DEF InFlight, OwnStep, RunsInv, RunsKnown
  <1>5. k \in Settled(j)' <=> k \in log'[j] /\ run'[r] = Idle /\ k \notin broken'
    BY <1>1, <1>4 DEF Settled
  <1>6. Settled(j)' \subseteq Runs
    BY DEF Settled
  <1> QED
    BY <1>0, <1>1, <1>2, <1>3, <1>5, <1>6

\* While the tables and the runs that are broken stay, and no run in flight ends, so do the sets.
LEMMA SettledStays ==
    ASSUME NEW j \in Jobs, log'[j] = log[j],
           \A n \in log[j] : (InFlight(n) \/ n \in broken)' <=> InFlight(n) \/ n \in broken
    PROVE  Settled(j)' = Settled(j)
  BY DEF Settled

LEMMA PipelineCounts ==
    ASSUME RunsInv, TypeOK', JobsMove, NEW r \in Runners, Pipeline(r) \/ DbLocked(r), NEW j \in Jobs, Exists(j)
    PROVE  CountMoves(j)
  <1>0. TypeOK /\ log' \in [Jobs -> SUBSET Runs]
    BY DEF RunsInv, TypeOK
  <1>1. run[r] # Idle /\ run[r].step # "idle" /\ OwnStep(r) /\ OwnRunOK(r)
    BY PipelineOwnStep, OwnRun
  <1>2. PICK k \in Runs, i \in Jobs : k = run[r].id /\ i = run[r].job
    BY <1>1, OwnRun
  <1>3. /\ k \notin Settled(j)
        /\ Settled(j)' = IF k \in log'[j] /\ run'[r] = Idle /\ k \notin broken'
                         THEN Settled(j) \cup {k} ELSE Settled(j)
    BY <1>0, <1>1, <1>2, OwnStepSettles
  <1>4. RunOK(r) /\ \A m \in Jobs : k \in log[m] => order[k].job = m /\ run[r].step = "markSuccess"
    BY <1>1, <1>2, OwnRun
  <1>5. CASE MarkSuccess(r)
    <2>1. /\ UNCHANGED <<order, log, broken>> /\ run'[r] = Idle /\ run[r].step = "markSuccess"
          /\ run[r].step \notin Failing
      BY <1>0, <1>5, LeaveMoves DEF MarkSuccess, At, Failing
    <2>2. k \notin broken
      BY <1>2, <1>4, <2>1 DEF RunOK
    <2>3. CASE j = i
      <3>1. k \in log[j]
        BY <1>2, <1>4, <2>1, <2>3 DEF RunOK
      <3>2. job'[j].runsCount = job[j].runsCount + 1
        BY <1>0, <1>2, <1>5, <2>3, MarksWrite
      <3> QED
        BY <1>3, <2>1, <2>2, <3>1, <3>2 DEF CountMoves
    <2>4. CASE j # i
      <3>1. k \notin log[j]
        BY <1>2, <1>4, <2>1, <2>4 DEF RunOK, Going
      <3>2. job'[j] = job[j]
        BY <1>0, <1>2, <1>5, <2>4, MarksWrite
      <3> QED
        BY <1>3, <2>1, <3>1, <3>2 DEF CountMoves
    <2> QED
      BY <2>3, <2>4
  <1>6. CASE ~MarkSuccess(r)
    <2>1. run'[r] = Idle => k \in broken' \/ k \notin log'[j]
      <3>1. ASSUME DbLocked(r) PROVE k \in broken'
        BY <1>2, <3>1 DEF DbLocked
      <3>2. ASSUME RecordFailure(r) \/ MarkFailure(r) PROVE k \in broken'
        BY <1>2, <1>4, <3>2 DEF RecordFailure, MarkFailure, At, RunOK, Failing
      <3>3. ASSUME NEW s \in Steps, Goto(r, s) PROVE run'[r] # Idle
        <4>1. run'[r] = [step |-> s, job |-> run[r].job, id |-> run[r].id]
          BY <1>0, <1>1, <3>3, GotoMoves
        <4>2. run'[r].step = s /\ s # "idle"
          BY <4>1 DEF Steps
        <4> QED
          BY <4>2 DEF Idle
      <3>4. ASSUME RecordSuccess(r), run'[r] = Idle PROVE k \in broken'
        <4>1. ~Goto(r, "markSuccess")
          BY <3>4, <3>3 DEF Steps
        <4> QED
          BY <1>2, <3>4, <4>1 DEF RecordSuccess
      <3>5. Hold(r) \/ HoldFails(r) \/ Submitted(r) \/ (\E a \in BOOLEAN : SubmitFails(r, a)) \/ Persist(r)
            => run'[r] # Idle
        BY <3>3 DEF Hold, HoldFails, Submitted, SubmitFails, Persist, Steps
      <3> QED
        BY <1>6, <3>1, <3>4, <3>2, <3>5 DEF Pipeline
    <2>2. job'[j].runsCount = job[j].runsCount
      <3>1. CASE MarkFailure(r)
        BY <1>0, <3>1, MarksWrite
      <3>2. CASE ~MarkFailure(r)
        BY <1>6, <3>2 DEF Pipeline, DbLocked, Hold, HoldFails, Submitted, SubmitFails, Persist,
                          RecordSuccess, RecordFailure
      <3> QED
        BY <3>1, <3>2
    <2> QED
      BY <1>3, <2>1, <2>2 DEF CountMoves
  <1> QED
    BY <1>5, <1>6

LEMMA NextCounts ==
    ASSUME RunsInv, TypeOK', JobsMove, [Next]_vars, NEW j \in Jobs, Exists(j)'
    PROVE  CountMoves(j)
  <1> USE DEF RunsInv
  <1>0. TypeOK
    OBVIOUS
  <1>1. CASE \E r \in Runners : Pipeline(r) \/ DbLocked(r)
    <2>1. PICK r \in Runners : Pipeline(r) \/ DbLocked(r)
      BY <1>1
    <2>2. Exists(j)
      BY <1>0, <2>1, TypeParts, MarksWrite DEF Pipeline, DbLocked, Hold, HoldFails, Submitted, SubmitFails, Persist,
               RecordSuccess, RecordFailure, Exists
    <2> QED
      BY <2>1, <2>2, PipelineCounts
  <1>2. ASSUME ~\E r \in Runners : Pipeline(r) \/ DbLocked(r), [Next]_vars PROVE CountMoves(j)
    <2>1. job'[j].runsCount = job[j].runsCount
      BY <1>2 DEF JobsMove, Pipeline
    <2>2. CASE log' = log /\ run' = run /\ broken' = broken
      <3>1. Settled(j)' = Settled(j)
        BY <2>2, SettledStays DEF InFlight
      <3> QED
        BY <2>1, <3>1 DEF CountMoves
    <2>3. ASSUME NEW i \in Jobs, Delete(i) PROVE CountMoves(j)
      <3>1. i # j /\ log'[j] = log[j] /\ run' = run /\ broken' = broken
        BY <1>0, <2>3, EndWrites, TypeParts DEF Delete, Exists
      <3>2. Settled(j)' = Settled(j)
        BY <3>1, SettledStays DEF InFlight
      <3> QED
        BY <2>1, <3>2 DEF CountMoves
    <2>4. CASE Restart
      <3>1. log' = log /\ \A n : InFlight(n)' \/ n \in broken' <=> InFlight(n) \/ n \in broken
        BY <2>4 DEF Restart, InFlight
      <3>2. Settled(j)' = Settled(j)
        BY <3>1, SettledStays
      <3> QED
        BY <2>1, <3>2 DEF CountMoves
    <2>5. ASSUME NEW r \in Runners, NEW i \in Jobs, StartRun(r, i), UNCHANGED <<order, log, broken>>
          PROVE  CountMoves(j)
      <3>0. run[r] = Idle /\ started \in Nat
        BY <1>0, <2>5 DEF StartRun, TypeOK
      <3>1. /\ run'[r] = [step |-> "hold", job |-> i, id |-> started + 1]
            /\ \A q \in Runners : q # r => run'[q] = run[q]
            /\ started + 1 \in Runs
        BY <1>0, <2>5, StartMoves, ScheduledAssumption
      <3>2. run'[r].id = started + 1
        BY <3>1
      <3>3. started + 1 \notin log[j]
        BY <3>0, <3>1 DEF LogKnown, OrdersKnown, Runs
      <3>4. \A n \in log[j] : InFlight(n)' <=> InFlight(n)
        BY <3>0, <3>1, <3>2, <3>3 DEF InFlight
      <3>5. Settled(j)' = Settled(j)
        BY <2>5, <3>4, SettledStays
      <3> QED
        BY <2>1, <3>5 DEF CountMoves
    <2> QED
      BY <1>2, <2>2, <2>3, <2>4, <2>5 DEF Next, WorkerStep, vars, Poll, WorkerTakes, RunNow, ApplyControl,
         ReadForControl, Stop, TimePasses, Create, OrderCloses, Runners
  <1> QED
    BY <1>1, <1>2

LEMMA NextRunsInv == ASSUME ScheduledAssumption, RunsInv, LimitInv, [Next]_vars PROVE RunsInv'
  <1>1. TypeOK' /\ JobsMove /\ JobsGoOn /\ NewJobs'
    BY NextTypeOK, NextMovesJobs, NextJobsGoOn, NextLimitInv DEF RunsInv, LimitInv
  <1>2. Known'
    BY <1>1, NextKnown
  <1>3. ASSUME NEW j \in Jobs, Exists(j)' PROVE job'[j].runsCount = Cardinality(Settled(j)')
    <2>1. CountMoves(j)
      BY <1>1, <1>3, NextCounts
    <2>2. IsFiniteSet(Settled(j)) /\ Settled(j) \subseteq Runs
      <3>1. Settled(j) \subseteq 1 .. MaxRuns
        BY TypeParts DEF RunsInv, Settled, Runs
      <3>2. IsFiniteSet(1 .. MaxRuns)
        BY FS_Interval DEF ScheduledAssumption
      <3> QED
        BY <3>1, <3>2, FS_Subset DEF Runs
    <2>3. job[j].runsCount = Cardinality(Settled(j))
      <3>1. CASE Exists(j)
        BY <3>1 DEF RunsInv, RunsCounted
      <3>2. CASE ~Exists(j)
        <4>1. job[j].status = "none"
          BY <1>1, <1>3, <3>2 DEF JobsGoOn, Exists
        <4>2. log[j] = {}
          BY <4>1, TypeParts DEF RunsInv, LogKnown, OrdersKnown
        <4>3. Settled(j) = {} /\ Cardinality({}) = 0
          BY <4>2, FS_EmptySet DEF Settled
        <4> QED
          BY <4>1, <4>3 DEF RunsInv, NewJobs
      <3> QED
        BY <3>1, <3>2
    <2>4. \A k \in Runs \ Settled(j) : Cardinality(Settled(j) \cup {k}) = Cardinality(Settled(j)) + 1
      BY <2>2, FS_AddElement
    <2> QED
      BY <2>1, <2>3, <2>4 DEF CountMoves
  <1>4. RunsCounted'
    BY <1>3 DEF RunsCounted
  <1> QED
    BY <1>1, <1>2, <1>4 DEF RunsInv, Known

LEMMA RunsInvHolds == Spec => [](RunsInv /\ LimitInv)
  <1>1. Init => RunsInv /\ LimitInv
    BY InitRunsInv, InitLimitInv, ScheduledAssumption
  <1>2. RunsInv /\ LimitInv /\ [Next]_vars => (RunsInv /\ LimitInv)'
    BY NextRunsInv, NextLimitInv, ScheduledAssumption
  <1> QED
    BY <1>1, <1>2, PTL DEF Spec

\* Every order that any run ever created, and so every price it holds, is in its job's log, in
\* the hands of a runner, or of a run that a fault or refusal broke or whose job was deleted;
\* and a run logged as successful has an order the provider accepted, with its number stored
\* (execute_scheduled_order, _submit_job_order, _record_run).
THEOREM RunsAreAccounted == Spec => []RunsAccountFor
  <1>1. RunsInv => RunsAccountFor
    BY DEF RunsInv, RunsAccountFor, OrdersAccounted, LogKnown
  <1> QED
    BY <1>1, RunsInvHolds, PTL

\* runs_count is exactly the number of logged successes whose run reached its end, for any
\* number of concurrent runs of a job: none is counted twice, none without its row
\* (_record_run, _mark_run_success).
THEOREM RunsAreCounted == Spec => []RunsCounted
  <1>1. RunsInv => RunsCounted
    BY DEF RunsInv
  <1> QED
    BY <1>1, RunsInvHolds, PTL
=============================================================================
