------------------------------ MODULE AdminJobs ------------------------------
(***************************************************************************)
(* Background jobs (admin_job_service.py): rows of admin_job_runs, and the *)
(* worker threads that claim, run and finish them.                         *)
(*                                                                         *)
(* One iteration of a worker's loop is run_next_due_job: it locks and      *)
(* commits a claim, commits a started event, runs the job's command as a   *)
(* subprocess with a timeout, and commits the outcome.  Any commit may     *)
(* fail: the loop swallows the exception and polls again, and the row      *)
(* stays what the last successful commit made it.  Times are time          *)
(* remaining, so next_attempt_at in the past and no next_attempt_at are    *)
(* the same.                                                               *)
(***************************************************************************)
EXTENDS Naturals, FiniteSets

CONSTANTS
  Jobs,         \* rows of admin_job_runs
  Processes,    \* backend processes
  Workers,      \* worker threads
  ProcessOf,    \* the process a thread belongs to
  MaxAttempts,  \* _MAX_ATTEMPTS_DEFAULT
  ShortDelay,   \* _RETRY_BACKOFF_SECONDS[0]
  LongDelay,    \* _RETRY_BACKOFF_SECONDS[1]
  Timeout,      \* _JOB_EXECUTION_TIMEOUT_SECONDS
  Lease,        \* _LEASE_SECONDS
  Faults,       \* what may go wrong: see FaultKinds
  MaxFaults,    \* bound on what goes wrong in a behaviour
  None          \* no value

FaultKinds == {"database", "crash", "stop"}

ASSUME JobsAssumption ==
  /\ IsFiniteSet(Jobs)
  /\ MaxAttempts \in Nat \ {0}
  /\ ShortDelay \in Nat /\ LongDelay \in Nat
  /\ Timeout \in Nat /\ Lease \in Nat
  /\ MaxFaults \in Nat
  /\ ProcessOf \in [Workers -> Processes]
  /\ Faults \subseteq FaultKinds
  /\ None \notin Jobs /\ None \notin Workers /\ None \notin Nat

VARIABLES
  job,     \* admin_job_runs
  audit,   \* how many events of each kind admin_audit_events has for a job
  worker,  \* the worker threads
  handle,  \* AdminJobService._worker_thread of each process
  runs,    \* history: how often a job's command was launched, and exited 0
  faults   \* what has gone wrong so far

vars == <<job, audit, worker, handle, runs, faults>>

-----------------------------------------------------------------------------
Statuses == {"absent", "queued", "running", "succeeded", "failed"}

JobRow == [status : Statuses, attempts : Nat, created : Nat,
           wait : Nat, lease : Nat \cup {None}]

Absent == [status |-> "absent", attempts |-> 0, created |-> 0, wait |-> 0,
           lease |-> None]

Events == [started : Nat, retried : Nat, succeeded : Nat, failed : Nat]

NoEvents == [started |-> 0, retried |-> 0, succeeded |-> 0, failed |-> 0]

\* Where run_next_due_job stands once it has a job.
Busy == {"claimed", "started", "executing", "succeeding", "failing"}

Idle == {"off", "poll", "query"}

WorkerState == [pc : Idle \cup {"claiming"} \cup Busy,
                job : Jobs \cup {None},
                left : Nat,
                stop : BOOLEAN]

Off == [pc |-> "off", job |-> None, left |-> 0, stop |-> FALSE]

\* Back at the head of the loop; stop_event stays as it is.
Polling(w) == [Off EXCEPT !.pc = "poll", !.stop = worker[w].stop]

RetryDelay(attempts) == IF attempts <= 1 THEN ShortDelay ELSE LongDelay

Locked(j) == \E w \in Workers : worker[w].pc = "claiming" /\ worker[w].job = j

\* Mutant: a row without a lease is not selected.
DueOnceExpired(j) ==
  job[j].status = "queued" /\ job[j].wait = 0 /\ job[j].lease = 0

\* What the claim query selects.
Due(j) == /\ job[j].status = "queued"
          /\ job[j].wait = 0
          /\ job[j].lease \in {None, 0}

-----------------------------------------------------------------------------
(* The queue. *)

\* enqueue_job: the row and its admin_job_triggered event.
Enqueue(j) ==
  /\ job[j].status = "absent"
  /\ job' = [job EXCEPT ![j] =
       [@ EXCEPT !.status = "queued",
                 !.created = Cardinality({k \in Jobs :
                                            job[k].status # "absent"}) + 1]]
  /\ UNCHANGED <<audit, worker, handle, runs, faults>>

-----------------------------------------------------------------------------
(* The worker. *)

\* Mutant: the loop never looks at stop_event.
PollForever(w) ==
  /\ worker[w].pc = "poll"
  /\ worker' = [worker EXCEPT ![w].pc = "query"]
  /\ UNCHANGED <<job, audit, handle, runs, faults>>

\* while not stop_event.is_set(): the thread looks for a job, or ends.
Poll(w) ==
  /\ worker[w].pc = "poll"
  /\ worker' = [worker EXCEPT ![w] =
                  IF worker[w].stop THEN Off ELSE [@ EXCEPT !.pc = "query"]]
  /\ UNCHANGED <<job, audit, handle, runs, faults>>

\* Mutant: the query does not skip the rows others have locked.
ClaimUnlocked(w) ==
  /\ worker[w].pc = "query"
  /\ \E j \in Jobs :
       /\ Due(j)
       /\ \A k \in Jobs : Due(k) => job[j].created <= job[k].created
       /\ worker' = [worker EXCEPT ![w] =
                       [@ EXCEPT !.pc = "claiming", !.job = j]]
  /\ UNCHANGED <<job, audit, handle, runs, faults>>

\* ORDER BY created_at ... FOR UPDATE SKIP LOCKED LIMIT 1.
Claim(w) ==
  /\ worker[w].pc = "query"
  /\ \E j \in Jobs :
       /\ Due(j) /\ ~Locked(j)
       /\ \A k \in Jobs :
            Due(k) /\ ~Locked(k) => job[j].created <= job[k].created
       /\ worker' = [worker EXCEPT ![w] =
                       [@ EXCEPT !.pc = "claiming", !.job = j]]
  /\ UNCHANGED <<job, audit, handle, runs, faults>>

\* Mutant: a query without a row does not return early.
ClaimNothing(w) ==
  /\ worker[w].pc = "query"
  /\ \A j \in Jobs : ~(Due(j) /\ ~Locked(j))
  /\ worker' = [worker EXCEPT ![w].pc = "claiming"]
  /\ UNCHANGED <<job, audit, handle, runs, faults>>

\* The query has no row: the loop waits, for the next poll or for stop_event.
NothingDue(w) ==
  /\ worker[w].pc = "query"
  /\ \A j \in Jobs : ~(Due(j) /\ ~Locked(j))
  /\ worker' = [worker EXCEPT ![w] = Polling(w)]
  /\ UNCHANGED <<job, audit, handle, runs, faults>>

ClaimCommit(w) ==
  LET j == worker[w].job
  IN  /\ worker[w].pc = "claiming"
      /\ job' = [job EXCEPT ![j] =
           [job[j] EXCEPT !.status = "running", !.attempts = @ + 1,
                     !.wait = 0, !.lease = Lease]]
      /\ worker' = [worker EXCEPT ![w].pc = "claimed"]
      /\ UNCHANGED <<audit, handle, runs, faults>>

RecordStarted(w) ==
  /\ worker[w].pc = "claimed"
  /\ audit' = [audit EXCEPT ![worker[w].job].started = @ + 1]
  /\ worker' = [worker EXCEPT ![w].pc = "started"]
  /\ UNCHANGED <<job, handle, runs, faults>>

\* _resolve_execution_for_job_run raises: the job type, the profile or the
\* allowlist changed since the job was enqueued.
Reject(w) ==
  /\ worker[w].pc = "started"
  /\ worker' = [worker EXCEPT ![w].pc = "failing"]
  /\ UNCHANGED <<job, audit, handle, runs, faults>>

Launch(w) ==
  /\ worker[w].pc = "started"
  /\ runs' = [runs EXCEPT ![worker[w].job].launched = @ + 1]
  /\ worker' = [worker EXCEPT ![w] =
                  [@ EXCEPT !.pc = "executing", !.left = Timeout]]
  /\ UNCHANGED <<job, audit, handle, faults>>

\* The command exits with 0.
CommandSucceeds(w) ==
  /\ worker[w].pc = "executing"
  /\ runs' = [runs EXCEPT ![worker[w].job].completed = @ + 1]
  /\ worker' = [worker EXCEPT ![w].pc = "succeeding"]
  /\ UNCHANGED <<job, audit, handle, faults>>

\* The command exits with another code.
CommandFails(w) ==
  /\ worker[w].pc = "executing"
  /\ worker' = [worker EXCEPT ![w].pc = "failing"]
  /\ UNCHANGED <<job, audit, handle, runs, faults>>

\* TimeoutExpired: the command is killed.
CommandTimesOut(w) ==
  /\ worker[w].pc = "executing"
  /\ worker[w].left = 0
  /\ worker' = [worker EXCEPT ![w].pc = "failing"]
  /\ UNCHANGED <<job, audit, handle, runs, faults>>

MarkSucceeded(w) ==
  LET j == worker[w].job
  IN  /\ worker[w].pc = "succeeding"
      /\ job' = [job EXCEPT ![j] =
           [@ EXCEPT !.status = "succeeded", !.lease = None, !.wait = 0]]
      /\ audit' = [audit EXCEPT ![j].succeeded = @ + 1]
      /\ worker' = [worker EXCEPT ![w] = Polling(w)]
      /\ UNCHANGED <<handle, runs, faults>>

\* Mutant: one attempt too many.
MarkFailedLate(w) ==
  LET j == worker[w].job
  IN  /\ worker[w].pc = "failing"
      /\ IF job[j].attempts <= MaxAttempts
         THEN /\ job' = [job EXCEPT ![j] =
                   [@ EXCEPT !.status = "queued", !.lease = None,
                             !.wait = RetryDelay(job[j].attempts)]]
              /\ audit' = [audit EXCEPT ![j].retried = @ + 1]
         ELSE /\ job' = [job EXCEPT ![j] =
                   [@ EXCEPT !.status = "failed", !.lease = None, !.wait = 0]]
              /\ audit' = [audit EXCEPT ![j].failed = @ + 1]
      /\ worker' = [worker EXCEPT ![w] = Polling(w)]
      /\ UNCHANGED <<handle, runs, faults>>

MarkFailedOrRequeued(w) ==
  LET j == worker[w].job
  IN  /\ worker[w].pc = "failing"
      /\ IF job[j].attempts < MaxAttempts
         THEN /\ job' = [job EXCEPT ![j] =
                   [@ EXCEPT !.status = "queued", !.lease = None,
                             !.wait = RetryDelay(job[j].attempts)]]
              /\ audit' = [audit EXCEPT ![j].retried = @ + 1]
         ELSE /\ job' = [job EXCEPT ![j] =
                   [@ EXCEPT !.status = "failed", !.lease = None, !.wait = 0]]
              /\ audit' = [audit EXCEPT ![j].failed = @ + 1]
      /\ worker' = [worker EXCEPT ![w] = Polling(w)]
      /\ UNCHANGED <<handle, runs, faults>>

-----------------------------------------------------------------------------
(* Threads, failures and time. *)

StartWorker(w) ==
  /\ handle[ProcessOf[w]] = None
  /\ worker[w].pc = "off"
  /\ worker' = [worker EXCEPT ![w] = [Off EXCEPT !.pc = "poll"]]
  /\ handle' = [handle EXCEPT ![ProcessOf[w]] = w]
  /\ UNCHANGED <<job, audit, runs, faults>>

Fault(kind) ==
  /\ kind \in Faults
  /\ faults < MaxFaults
  /\ faults' = faults + 1

\* The thread is told to stop and forgotten after 3 seconds, done or not.
StopWorker(p) ==
  /\ Fault("stop")
  /\ handle[p] # None
  /\ worker' = [worker EXCEPT ![handle[p]].stop = TRUE]
  /\ handle' = [handle EXCEPT ![p] = None]
  /\ UNCHANGED <<job, audit, runs>>

\* Mutant: the handler rolls back first, so that its own commit can work.
DatabaseErrorRequeues(w) ==
  /\ Fault("database")
  /\ worker[w].pc \in {"claiming", "claimed", "started", "succeeding", "failing"}
  /\ worker' = [worker EXCEPT ![w] =
       IF @.pc = "succeeding" THEN [@ EXCEPT !.pc = "failing"] ELSE Polling(w)]
  /\ UNCHANGED <<job, audit, handle, runs>>

\* A statement or a commit fails.  After _mark_succeeded the exception
\* handler's commit fails too: the session accepts nothing before a rollback.
\* (A commit whose answer is lost is that commit, then this at the next one.)
DatabaseError(w) ==
  /\ Fault("database")
  /\ worker[w].pc \in {"claiming", "claimed", "started", "succeeding", "failing"}
  /\ worker' = [worker EXCEPT ![w] = Polling(w)]
  /\ UNCHANGED <<job, audit, handle, runs>>

\* A process dies, with its threads and their transactions.
Crash(p) ==
  /\ Fault("crash")
  /\ worker' = [w \in Workers |-> IF ProcessOf[w] = p THEN Off ELSE worker[w]]
  /\ handle' = [handle EXCEPT ![p] = None]
  /\ UNCHANGED <<job, audit, runs>>

Minus1(n) == IF n = 0 THEN 0 ELSE n - 1

Tick ==
  /\ \A w \in Workers : worker[w].pc = "executing" => worker[w].left > 0
  /\ job' = [j \in Jobs |->
       [job[j] EXCEPT !.wait = Minus1(@),
                      !.lease = IF @ = None THEN None ELSE Minus1(@)]]
  /\ worker' = [w \in Workers |-> [worker[w] EXCEPT !.left = Minus1(@)]]
  /\ UNCHANGED <<audit, handle, runs, faults>>

-----------------------------------------------------------------------------
Init ==
  /\ job = [j \in Jobs |-> Absent]
  /\ audit = [j \in Jobs |-> NoEvents]
  /\ worker = [w \in Workers |-> Off]
  /\ handle = [p \in Processes |-> None]
  /\ runs = [j \in Jobs |-> [launched |-> 0, completed |-> 0]]
  /\ faults = 0

\* What the thread does by itself, and what its command does.
Step(w) ==
  \/ Poll(w) \/ Claim(w) \/ NothingDue(w) \/ ClaimCommit(w)
  \/ RecordStarted(w) \/ Reject(w) \/ Launch(w) \/ CommandTimesOut(w)
  \/ MarkSucceeded(w) \/ MarkFailedOrRequeued(w)

Command(w) == CommandSucceeds(w) \/ CommandFails(w)

Next ==
  \/ \E j \in Jobs : Enqueue(j)
  \/ \E w \in Workers : Step(w) \/ Command(w) \/ StartWorker(w)
                         \/ DatabaseError(w)
  \/ \E p \in Processes : StopWorker(p) \/ Crash(p)
  \/ Tick

Spec == Init /\ [][Next]_vars

-----------------------------------------------------------------------------
TypeOK ==
  /\ job \in [Jobs -> JobRow]
  /\ audit \in [Jobs -> Events]
  /\ worker \in [Workers -> WorkerState]
  /\ \A w \in Workers : worker[w].pc \in Idle <=> worker[w].job = None
  /\ handle \in [Processes -> Workers \cup {None}]
  /\ runs \in [Jobs -> [launched : Nat, completed : Nat]]
  /\ faults \in Nat

Working(w, j) == worker[w].pc \in Busy /\ worker[w].job = j

\* A job in progress has one worker at most, and its row says running,
\* although stop_worker may leave a second thread behind.
OneRunner ==
  \A j \in Jobs : \A w \in Workers : Working(w, j) =>
    /\ job[j].status = "running"
    /\ \A v \in Workers : Working(v, j) => v = w

\* Every attempt is accounted for by the audit log: it was retried, it ended
\* the job, or it is in progress (or lost); and no command was launched
\* without its started event, nor more often than the job may be attempted.
AttemptsAccounted ==
  \A j \in Jobs :
    /\ job[j].attempts = audit[j].retried + audit[j].succeeded
         + audit[j].failed + (IF job[j].status = "running" THEN 1 ELSE 0)
    /\ runs[j].launched <= audit[j].started
    /\ audit[j].started <= job[j].attempts
    /\ job[j].attempts <= MaxAttempts

\* A job whose command has exited with 0 never goes back to the queue, whatever
\* commit fails afterwards, and only such a job is called succeeded.
SuccessRunsOnce ==
  \A j \in Jobs :
    /\ runs[j].completed <= 1
    /\ runs[j].completed = 1 => job[j].status \in {"running", "succeeded"}
    /\ job[j].status = "succeeded" => runs[j].completed = 1

Ended(j) == job[j].status \in {"succeeded", "failed"}

\* An ended job is not touched again by any worker, late or restarted.
EndedIsFinal ==
  [][\A j \in Jobs : Ended(j) =>
       /\ job'[j].status = job[j].status
       /\ audit'[j] = audit[j]
       /\ runs'[j] = runs[j]]_vars

At(j, pcs) == \E w \in Workers : worker[w].pc \in pcs /\ worker[w].job = j

\* How far a job is, for whoever enqueued it: a running row tells no more than
\* that an attempt was begun, the rest is in the worker that has it.
Stage(j) ==
  IF job[j].status # "running" THEN job[j].status
  ELSE IF runs[j].completed > 0 THEN "completed"
  ELSE IF At(j, {"executing"}) THEN "running"
  ELSE IF At(j, {"claimed", "started"}) THEN "begun"
  ELSE "missed"

Life(j) == INSTANCE JobLife WITH
  stage <- Stage(j), attempt <- job[j].attempts, launched <- runs[j].launched,
  log <- audit[j]

\* However many threads, processes, failed commits and other jobs there are,
\* each job lives as if it were alone with one worker, whose log is its audit
\* trail: no event, attempt or launch is added to a job that has ended.
JobsLiveAlone ==
  /\ \A j \in Jobs : Life(j)!Init
  /\ [][\A j \in Jobs : [Life(j)!Next]_(Life(j)!vars)]_vars
=============================================================================
