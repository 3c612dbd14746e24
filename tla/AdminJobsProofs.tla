-------------------------- MODULE AdminJobsProofs --------------------------
(***************************************************************************)
(* Proofs about AdminJobs: type correctness, one worker per job, the audit *)
(* log's account of the attempts, success at most once, and that an ended  *)
(* job is left alone.                                                      *)
(***************************************************************************)
EXTENDS AdminJobs, FiniteSetTheorems, TLAPS

\* What a worker's place in run_next_due_job says of the row it holds.
Knows(w) ==
  LET j == worker[w].job
  IN  /\ worker[w].pc = "claiming" => job[j].status = "queued"
      /\ worker[w].pc \in Busy => job[j].status = "running"
      /\ worker[w].pc \in Busy \ {"succeeding"} => runs[j].completed = 0
      /\ worker[w].pc = "succeeding" => runs[j].completed = 1
      /\ worker[w].pc = "claimed" => audit[j].started < job[j].attempts
      /\ worker[w].pc = "started" => runs[j].launched < audit[j].started

WorkersKnow == \A w \in Workers : Knows(w)

\* No two workers hold the same job, claimed or about to be.
OneHolder ==
  \A v, w \in Workers :
    worker[v].job = worker[w].job /\ worker[w].job # None => v = w

\* A job that may be claimed has attempts left, and has not run to success.
Claimable ==
  \A j \in Jobs :
    /\ job[j].status \in {"absent", "queued"} => job[j].attempts < MaxAttempts
    /\ job[j].status \in {"absent", "queued", "failed"} => runs[j].completed = 0

IInv == /\ TypeOK
        /\ WorkersKnow
        /\ OneHolder
        /\ Claimable
        /\ AttemptsAccounted
        /\ SuccessRunsOnce

-----------------------------------------------------------------------------
(* Types. *)

LEMMA RecordTypes ==
  ASSUME JobsAssumption
  PROVE  /\ Absent \in JobRow
         /\ NoEvents \in Events
         /\ Off \in WorkerState
  BY DEF JobsAssumption, Absent, JobRow, Statuses, NoEvents, Events, Off,
         WorkerState, Idle, Busy

LEMMA InitIInv ==
  ASSUME JobsAssumption, Init
  PROVE  IInv
  <1>1. TypeOK
    BY RecordTypes DEF Init, TypeOK, Off, Idle
  <1>2. WorkersKnow /\ OneHolder
    BY DEF Init, WorkersKnow, Knows, OneHolder, Off, Busy
  <1>3. Claimable /\ AttemptsAccounted /\ SuccessRunsOnce
    BY DEF Init, Claimable, AttemptsAccounted, SuccessRunsOnce, Absent,
           NoEvents, JobsAssumption
  <1>4. QED
    BY <1>1, <1>2, <1>3 DEF IInv

\* The rows the steps write.
LEMMA RowTypes ==
  ASSUME JobsAssumption, NEW q \in JobRow, NEW n \in Nat
  PROVE  /\ [q EXCEPT !.status = "queued", !.created = n] \in JobRow
         /\ [q EXCEPT !.status = "running", !.attempts = @ + 1,
                      !.wait = 0, !.lease = Lease] \in JobRow
         /\ [q EXCEPT !.status = "succeeded", !.lease = None, !.wait = 0]
              \in JobRow
         /\ [q EXCEPT !.status = "queued", !.lease = None, !.wait = n]
              \in JobRow
         /\ [q EXCEPT !.status = "failed", !.lease = None, !.wait = 0]
              \in JobRow
         /\ [q EXCEPT !.wait = Minus1(@),
                      !.lease = IF @ = None THEN None ELSE Minus1(@)]
              \in JobRow
  <1>1. Minus1(q.wait) \in Nat
    BY DEF JobRow, Minus1
  <1>2. (IF q.lease = None THEN None ELSE Minus1(q.lease)) \in Nat \cup {None}
    BY DEF JobRow, Minus1
  <1>3. [q EXCEPT !.wait = Minus1(@),
                  !.lease = IF @ = None THEN None ELSE Minus1(@)] \in JobRow
    BY <1>1, <1>2 DEF JobRow
  <1>4. [q EXCEPT !.status = "queued", !.created = n] \in JobRow
    BY DEF JobRow, Statuses
  <1>5. [q EXCEPT !.status = "running", !.attempts = @ + 1,
                  !.wait = 0, !.lease = Lease] \in JobRow
    <2>1. q.attempts + 1 \in Nat /\ Lease \in Nat
      BY DEF JobRow, JobsAssumption
    <2> DEFINE n1 == q.attempts + 1
    <2>2. [q EXCEPT !.status = "running", !.attempts = n1,
                    !.wait = 0, !.lease = Lease] \in JobRow
      <3>1. n1 \in Nat
        BY <2>1
      <3> HIDE DEF n1
      <3>2. QED
        BY <2>1, <3>1 DEF JobRow, Statuses
    <2>3. QED
      BY <2>2
  <1>6. /\ [q EXCEPT !.status = "succeeded", !.lease = None, !.wait = 0]
             \in JobRow
        /\ [q EXCEPT !.status = "queued", !.lease = None, !.wait = n]
             \in JobRow
        /\ [q EXCEPT !.status = "failed", !.lease = None, !.wait = 0]
             \in JobRow
    BY DEF JobRow, Statuses
  <1>7. QED
    BY <1>3, <1>4, <1>5, <1>6

\* A worker holds a job, or is idle.
Coherent(q) == q.pc \in Idle <=> q.job = None

\* Where the steps move a worker.
LEMMA MoveTypes ==
  ASSUME JobsAssumption, NEW q \in WorkerState, Coherent(q)
  PROVE  /\ q.pc \in Idle =>
              LET r == [q EXCEPT !.pc = "query"]
              IN  r \in WorkerState /\ Coherent(r)
         /\ \A j \in Jobs :
              LET r == [q EXCEPT !.pc = "claiming", !.job = j]
              IN  r \in WorkerState /\ Coherent(r)
         /\ q.pc \notin Idle => \A pc \in Busy :
              LET r == [q EXCEPT !.pc = pc]
              IN  r \in WorkerState /\ Coherent(r)
         /\ q.pc \notin Idle =>
              LET r == [q EXCEPT !.pc = "executing", !.left = Timeout]
              IN  r \in WorkerState /\ Coherent(r)
         /\ LET r == [q EXCEPT !.left = Minus1(@)]
            IN  r \in WorkerState /\ Coherent(r)
         /\ LET r == [q EXCEPT !.stop = TRUE]
            IN  r \in WorkerState /\ Coherent(r)
  <1> USE DEF WorkerState, Coherent, Idle, Busy
  <1>1. Minus1(q.left) \in Nat
    BY DEF Minus1
  <1>2. LET r == [q EXCEPT !.left = Minus1(@)]
        IN  r \in WorkerState /\ Coherent(r)
    BY <1>1
  <1>3. \A j \in Jobs : LET r == [q EXCEPT !.pc = "claiming", !.job = j]
                        IN  r \in WorkerState /\ Coherent(r)
    BY DEF JobsAssumption
  <1>4. q.pc \notin Idle => \A pc \in Busy :
          LET r == [q EXCEPT !.pc = pc] IN  r \in WorkerState /\ Coherent(r)
    OBVIOUS
  <1>5. /\ q.pc \in Idle =>
             LET r == [q EXCEPT !.pc = "query"]
             IN  r \in WorkerState /\ Coherent(r)
        /\ q.pc \notin Idle =>
             LET r == [q EXCEPT !.pc = "executing", !.left = Timeout]
             IN  r \in WorkerState /\ Coherent(r)
        /\ LET r == [q EXCEPT !.stop = TRUE]
           IN  r \in WorkerState /\ Coherent(r)
    BY DEF JobsAssumption
  <1>6. QED
    BY <1>2, <1>3, <1>4, <1>5

\* A worker that starts, polls or ends.
LEMMA IdleTypes ==
  ASSUME JobsAssumption, NEW b \in BOOLEAN
  PROVE  /\ [Off EXCEPT !.pc = "poll", !.stop = b] \in WorkerState
         /\ Coherent([Off EXCEPT !.pc = "poll", !.stop = b])
         /\ [Off EXCEPT !.pc = "poll"] \in WorkerState
         /\ Coherent([Off EXCEPT !.pc = "poll"])
         /\ Off \in WorkerState /\ Coherent(Off)
  BY DEF JobsAssumption, Off, WorkerState, Idle, Busy, Coherent

LEMMA PollingType ==
  ASSUME JobsAssumption, TypeOK, NEW w \in Workers
  PROVE  Polling(w) \in WorkerState /\ Coherent(Polling(w))
  <1>1. worker[w].stop \in BOOLEAN
    BY DEF TypeOK, WorkerState
  <1>2. \A b \in BOOLEAN :
          LET q == [Off EXCEPT !.pc = "poll", !.stop = b]
          IN  q \in WorkerState /\ Coherent(q)
    BY IdleTypes
  <1>3. QED
    BY <1>1, <1>2 DEF Polling

LEMMA EventTypes ==
  ASSUME NEW e \in Events
  PROVE  /\ [e EXCEPT !.started = @ + 1] \in Events
         /\ [e EXCEPT !.retried = @ + 1] \in Events
         /\ [e EXCEPT !.succeeded = @ + 1] \in Events
         /\ [e EXCEPT !.failed = @ + 1] \in Events
  BY DEF Events

\* A worker that holds a job can look it up in every table.
LEMMA Held ==
  ASSUME JobsAssumption, TypeOK, NEW w \in Workers,
         worker[w].pc \in {"claiming"} \cup Busy
  PROVE  /\ worker[w].job \in Jobs
         /\ job[worker[w].job] \in JobRow
         /\ audit[worker[w].job] \in Events
         /\ runs[worker[w].job] \in [launched : Nat, completed : Nat]
  BY DEF TypeOK, WorkerState, Idle, Busy

\* The job table changes in one row, or its timers tick.
LEMMA JobType ==
  ASSUME JobsAssumption, TypeOK, [Next]_vars
  PROVE  job' \in [Jobs -> JobRow]
  <1>1. ASSUME NEW j \in Jobs, NEW r \in JobRow, job' = [job EXCEPT ![j] = r]
        PROVE  job' \in [Jobs -> JobRow]
    BY <1>1 DEF TypeOK
  <1>2. ASSUME NEW j \in Jobs, Enqueue(j) PROVE job' \in [Jobs -> JobRow]
    <2> DEFINE n == Cardinality({k \in Jobs : job[k].status # "absent"}) + 1
               r == [job[j] EXCEPT !.status = "queued", !.created = n]
    <2>1. n \in Nat
      <3>1. IsFiniteSet({k \in Jobs : job[k].status # "absent"})
        BY FS_Subset DEF JobsAssumption
      <3>2. QED
        BY <3>1, FS_CardinalityType
    <2>2. job[j] \in JobRow
      BY DEF TypeOK
    <2>3. r \in JobRow
      <3> HIDE DEF n
      <3>1. QED
        BY <2>1, <2>2, RowTypes
    <2>4. job' = [job EXCEPT ![j] = r]
      BY <1>2 DEF Enqueue
    <2> HIDE DEF r
    <2>5. QED
      BY <1>1, <2>3, <2>4
  <1>3. ASSUME NEW w \in Workers, ClaimCommit(w)
        PROVE  job' \in [Jobs -> JobRow]
    <2> DEFINE r == [job[worker[w].job] EXCEPT
                       !.status = "running", !.attempts = @ + 1,
                       !.wait = 0, !.lease = Lease]
    <2>1. worker[w].job \in Jobs /\ r \in JobRow
      BY <1>3, Held, RowTypes DEF ClaimCommit
    <2>2. job' = [job EXCEPT ![worker[w].job] = r]
      BY <1>3 DEF ClaimCommit
    <2> HIDE DEF r
    <2>3. QED
      BY <1>1, <2>1, <2>2
  <1>4. ASSUME NEW w \in Workers, MarkSucceeded(w)
        PROVE  job' \in [Jobs -> JobRow]
    <2> DEFINE r == [job[worker[w].job] EXCEPT
                       !.status = "succeeded", !.lease = None, !.wait = 0]
    <2>1. worker[w].job \in Jobs /\ r \in JobRow
      BY <1>4, Held, RowTypes DEF MarkSucceeded, Busy
    <2>2. job' = [job EXCEPT ![worker[w].job] = r]
      BY <1>4 DEF MarkSucceeded
    <2> HIDE DEF r
    <2>3. QED
      BY <1>1, <2>1, <2>2
  <1>5. ASSUME NEW w \in Workers, MarkFailedOrRequeued(w)
        PROVE  job' \in [Jobs -> JobRow]
    <2> DEFINE n == RetryDelay(job[worker[w].job].attempts)
               r == [job[worker[w].job] EXCEPT
                       !.status = "queued", !.lease = None, !.wait = n]
               f == [job[worker[w].job] EXCEPT
                       !.status = "failed", !.lease = None, !.wait = 0]
    <2>1. n \in Nat
      BY DEF RetryDelay, JobsAssumption
    <2>2. /\ worker[w].job \in Jobs
          /\ r \in JobRow
          /\ f \in JobRow
      <3> HIDE DEF n
      <3>1. QED
        BY <1>5, <2>1, Held, RowTypes DEF MarkFailedOrRequeued, Busy
    <2>3. \/ job' = [job EXCEPT ![worker[w].job] = r]
          \/ job' = [job EXCEPT ![worker[w].job] = f]
      BY <1>5 DEF MarkFailedOrRequeued
    <2> HIDE DEF r, f
    <2>4. QED
      BY <1>1, <2>2, <2>3
  <1>6. CASE Tick
    <2>1. \A j \in Jobs :
            [job[j] EXCEPT !.wait = Minus1(@),
                           !.lease = IF @ = None THEN None ELSE Minus1(@)]
              \in JobRow
      BY RowTypes DEF TypeOK
    <2>2. QED
      BY <1>6, <2>1 DEF Tick
  <1>7. CASE UNCHANGED job
    BY <1>7 DEF TypeOK
  <1>8. QED
    BY <1>2, <1>3, <1>4, <1>5, <1>6, <1>7
       DEF Next, vars, Step, Command, Poll, Claim, NothingDue, RecordStarted,
           Reject, Launch, CommandTimesOut, CommandSucceeds, CommandFails,
           StartWorker, StopWorker, DatabaseError, Crash

\* The audit counters only go up.
LEMMA AuditType ==
  ASSUME JobsAssumption, TypeOK, [Next]_vars
  PROVE  audit' \in [Jobs -> Events]
  <1>1. ASSUME NEW w \in Workers, worker[w].pc \in Busy, NEW e \in Events,
               audit' = [audit EXCEPT ![worker[w].job] = e]
        PROVE  audit' \in [Jobs -> Events]
    BY <1>1 DEF TypeOK
  <1>2. ASSUME NEW w \in Workers,
               RecordStarted(w) \/ MarkSucceeded(w) \/ MarkFailedOrRequeued(w)
        PROVE  audit' \in [Jobs -> Events]
    <2> DEFINE e == audit[worker[w].job]
               e1 == [e EXCEPT !.started = @ + 1]
               e2 == [e EXCEPT !.retried = @ + 1]
               e3 == [e EXCEPT !.succeeded = @ + 1]
               e4 == [e EXCEPT !.failed = @ + 1]
    <2>1. worker[w].pc \in Busy
      BY <1>2 DEF RecordStarted, MarkSucceeded, MarkFailedOrRequeued, Busy
    <2>2. e1 \in Events /\ e2 \in Events /\ e3 \in Events /\ e4 \in Events
      BY <2>1, Held, EventTypes
    <2>3. \E x \in {e1, e2, e3, e4} :
            audit' = [audit EXCEPT ![worker[w].job] = x]
      BY <1>2 DEF RecordStarted, MarkSucceeded, MarkFailedOrRequeued
    <2> HIDE DEF e1, e2, e3, e4
    <2>4. QED
      BY <1>1, <2>1, <2>2, <2>3
  <1>3. CASE UNCHANGED audit
    BY <1>3 DEF TypeOK
  <1>4. QED
    BY <1>2, <1>3
       DEF Next, vars, Step, Command, Poll, Claim, NothingDue, ClaimCommit,
           Reject, Launch, CommandTimesOut, CommandSucceeds, CommandFails,
           StartWorker, StopWorker, DatabaseError, Crash, Enqueue, Tick

WorkersTyped == /\ worker \in [Workers -> WorkerState]
                /\ \A w \in Workers : Coherent(worker[w])

\* A step moves one worker, or stops or kills or ages several.
LEMMA WorkerType ==
  ASSUME JobsAssumption, TypeOK, [Next]_vars
  PROVE  WorkersTyped'
  <1>a. WorkersTyped
    BY DEF TypeOK, WorkersTyped, Coherent
  <1>1. ASSUME NEW w \in Workers, NEW q \in WorkerState, Coherent(q),
               worker' = [worker EXCEPT ![w] = q]
        PROVE  WorkersTyped'
    BY <1>1, <1>a DEF WorkersTyped
  <1>2. ASSUME NEW w \in Workers,
               \/ worker' = [worker EXCEPT ![w] = Polling(w)]
               \/ worker' = [worker EXCEPT ![w] = Off]
               \/ worker' = [worker EXCEPT ![w] = [Off EXCEPT !.pc = "poll"]]
        PROVE  WorkersTyped'
    BY <1>1, <1>2, PollingType, IdleTypes
  <1>3. ASSUME NEW w \in Workers, Poll(w) PROVE WorkersTyped'
    <2> DEFINE q == [worker[w] EXCEPT !.pc = "query"]
    <2>1. \/ worker' = [worker EXCEPT ![w] = Off]
          \/ worker' = [worker EXCEPT ![w] = q]
      BY <1>3 DEF Poll
    <2>2. worker[w].pc \in Idle
      BY <1>3 DEF Poll, Idle
    <2>3. q \in WorkerState /\ Coherent(q)
      BY <1>a, <2>2, MoveTypes DEF WorkersTyped
    <2> HIDE DEF q
    <2>4. QED
      BY <1>1, <1>2, <2>1, <2>3
  <1>4. ASSUME NEW w \in Workers, NEW j \in Jobs,
               worker' = [worker EXCEPT ![w] =
                            [@ EXCEPT !.pc = "claiming", !.job = j]]
        PROVE  WorkersTyped'
    <2> DEFINE q == [worker[w] EXCEPT !.pc = "claiming", !.job = j]
    <2>1. worker' = [worker EXCEPT ![w] = q]
      BY <1>4
    <2>2. q \in WorkerState /\ Coherent(q)
      BY <1>a, MoveTypes DEF WorkersTyped
    <2> HIDE DEF q
    <2>3. QED
      BY <1>1, <2>1, <2>2
  <1>5. ASSUME NEW w \in Workers, NEW pc \in Busy,
               worker[w].pc \in {"claiming"} \cup Busy,
               worker' = [worker EXCEPT ![w].pc = pc]
        PROVE  WorkersTyped'
    <2> DEFINE q == [worker[w] EXCEPT !.pc = pc]
    <2>1. worker' = [worker EXCEPT ![w] = q]
      BY <1>5
    <2>2. worker[w].pc \notin Idle
      BY <1>5 DEF Busy, Idle
    <2>3. q \in WorkerState /\ Coherent(q)
      BY <1>a, <2>2, MoveTypes DEF WorkersTyped
    <2> HIDE DEF q
    <2>4. QED
      BY <1>1, <2>1, <2>3
  <1>6. ASSUME NEW w \in Workers, Launch(w) PROVE WorkersTyped'
    <2> DEFINE q == [worker[w] EXCEPT !.pc = "executing", !.left = Timeout]
    <2>1. worker' = [worker EXCEPT ![w] = q]
      BY <1>6 DEF Launch
    <2>2. worker[w].pc \notin Idle
      BY <1>6 DEF Launch, Idle
    <2>3. q \in WorkerState /\ Coherent(q)
      BY <1>a, <2>2, MoveTypes DEF WorkersTyped
    <2> HIDE DEF q
    <2>4. QED
      BY <1>1, <2>1, <2>3
  <1>7. ASSUME NEW p \in Processes, StopWorker(p) PROVE WorkersTyped'
    <2> DEFINE w == handle[p]
               q == [worker[w] EXCEPT !.stop = TRUE]
    <2>1. w \in Workers
      BY <1>7 DEF StopWorker, TypeOK
    <2>2. worker' = [worker EXCEPT ![w] = q]
      BY <1>7 DEF StopWorker
    <2>3. q \in WorkerState /\ Coherent(q)
      BY <1>a, <2>1, MoveTypes DEF WorkersTyped
    <2> HIDE DEF q, w
    <2>4. QED
      BY <1>1, <2>1, <2>2, <2>3
  <1>8. ASSUME NEW p \in Processes, Crash(p) PROVE WorkersTyped'
    BY <1>8, <1>a, IdleTypes DEF Crash, WorkersTyped
  <1>9. CASE Tick
    <2>1. \A w \in Workers : LET q == [worker[w] EXCEPT !.left = Minus1(@)]
                             IN  q \in WorkerState /\ Coherent(q)
      BY <1>a, MoveTypes DEF WorkersTyped
    <2>2. QED
      BY <1>9, <2>1 DEF Tick, WorkersTyped
  <1>10. CASE UNCHANGED worker
    BY <1>10, <1>a DEF WorkersTyped
  <1>11. ASSUME NEW w \in Workers, Step(w) \/ Command(w) PROVE WorkersTyped'
    <2>1. CASE \/ ClaimCommit(w) \/ RecordStarted(w) \/ Reject(w)
               \/ CommandTimesOut(w) \/ CommandSucceeds(w) \/ CommandFails(w)
      BY <2>1, <1>5 DEF ClaimCommit, RecordStarted, Reject, CommandTimesOut,
                        CommandSucceeds, CommandFails, Busy
    <2>2. CASE NothingDue(w) \/ MarkSucceeded(w) \/ MarkFailedOrRequeued(w)
      BY <2>2, <1>2 DEF NothingDue, MarkSucceeded, MarkFailedOrRequeued
    <2>3. CASE Claim(w)
      BY <2>3, <1>4 DEF Claim
    <2>4. QED
      BY <1>3, <1>6, <1>11, <2>1, <2>2, <2>3 DEF Step, Command
  <1>12. ASSUME NEW w \in Workers, StartWorker(w) \/ DatabaseError(w)
         PROVE  WorkersTyped'
    BY <1>2, <1>12 DEF StartWorker, DatabaseError
  <1>13. QED
    BY <1>7, <1>8, <1>9, <1>10, <1>11, <1>12 DEF Next, vars, Enqueue

\* The processes' handles, and the history.
LEMMA OtherTypes ==
  ASSUME JobsAssumption, TypeOK, [Next]_vars
  PROVE  /\ handle' \in [Processes -> Workers \cup {None}]
         /\ runs' \in [Jobs -> [launched : Nat, completed : Nat]]
         /\ faults' \in Nat
  <1>1. ASSUME NEW w \in Workers, StartWorker(w)
        PROVE  handle' \in [Processes -> Workers \cup {None}]
    BY <1>1 DEF StartWorker, TypeOK, JobsAssumption
  <1>2. ASSUME NEW p \in Processes, StopWorker(p) \/ Crash(p)
        PROVE  handle' \in [Processes -> Workers \cup {None}]
    BY <1>2 DEF StopWorker, Crash, TypeOK
  <1>3. ASSUME NEW w \in Workers, Launch(w) \/ CommandSucceeds(w)
        PROVE  runs' \in [Jobs -> [launched : Nat, completed : Nat]]
    <2>1. runs[worker[w].job] \in [launched : Nat, completed : Nat]
      BY <1>3, Held DEF Launch, CommandSucceeds, Busy
    <2>2. QED
      BY <1>3, <2>1 DEF Launch, CommandSucceeds, TypeOK
  <1>4. faults' \in {faults, faults + 1}
    BY DEF Next, vars, Step, Command, Poll, Claim, NothingDue, ClaimCommit,
           RecordStarted, MarkSucceeded, MarkFailedOrRequeued,
           Reject, Launch, CommandTimesOut, CommandSucceeds, CommandFails,
           StartWorker, StopWorker, DatabaseError, Crash, Enqueue, Tick, Fault
  <1>5. \/ UNCHANGED runs
        \/ \E w \in Workers : Launch(w) \/ CommandSucceeds(w)
    BY DEF Next, vars, Step, Command, Poll, Claim, NothingDue, ClaimCommit,
           RecordStarted, MarkSucceeded, MarkFailedOrRequeued,
           Reject, CommandTimesOut, CommandFails,
           StartWorker, StopWorker, DatabaseError, Crash, Enqueue, Tick
  <1>6. \/ UNCHANGED handle
        \/ \E w \in Workers : StartWorker(w)
        \/ \E p \in Processes : StopWorker(p) \/ Crash(p)
    BY DEF Next, vars, Step, Command, Poll, Claim, NothingDue, ClaimCommit,
           RecordStarted, MarkSucceeded, MarkFailedOrRequeued,
           Reject, Launch, CommandTimesOut, CommandSucceeds, CommandFails,
           DatabaseError, Enqueue, Tick
  <1>7. QED
    BY <1>1, <1>2, <1>3, <1>4, <1>5, <1>6 DEF TypeOK

LEMMA TypeStep ==
  ASSUME JobsAssumption, TypeOK, [Next]_vars
  PROVE  TypeOK'
  BY JobType, AuditType, WorkerType, OtherTypes
     DEF TypeOK, WorkersTyped, Coherent

-----------------------------------------------------------------------------
(* What each step does to the job it is about, field by field. *)

\* Row j becomes status st with n attempts, the other rows stay.
Row(j, st, n) ==
  /\ job'[j].status = st /\ job'[j].attempts = n
  /\ \A k \in Jobs \ {j} : job'[k] = job[k]

SameRows == \A k \in Jobs : /\ job'[k].status = job[k].status
                           /\ job'[k].attempts = job[k].attempts

\* Job j's events become started, retried, succeeded and failed in number.
Log(j, started, retried, succeeded, failed) ==
  /\ audit'[j].started = started /\ audit'[j].retried = retried
  /\ audit'[j].succeeded = succeeded /\ audit'[j].failed = failed
  /\ \A k \in Jobs \ {j} : audit'[k] = audit[k]

Ran(j, launched, completed) ==
  /\ runs'[j].launched = launched /\ runs'[j].completed = completed
  /\ \A k \in Jobs \ {j} : runs'[k] = runs[k]

\* Worker w keeps its job and goes to pc, the others stay.
Goes(w, pc) ==
  /\ worker'[w].pc = pc /\ worker'[w].job = worker[w].job
  /\ \A v \in Workers \ {w} : worker'[v] = worker[v]

Drops(w) ==
  /\ worker'[w].pc \in Idle /\ worker'[w].job = None
  /\ \A v \in Workers \ {w} : worker'[v] = worker[v]

LEMMA WorkerMoves ==
  ASSUME JobsAssumption, TypeOK, NEW w \in Workers
  PROVE  /\ \A pc \in Busy :
              worker' = [worker EXCEPT ![w].pc = pc] => Goes(w, pc)
         /\ worker' = [worker EXCEPT ![w] =
                         [@ EXCEPT !.pc = "executing", !.left = Timeout]]
              => Goes(w, "executing")
         /\ worker' = [worker EXCEPT ![w] = Polling(w)] => Drops(w)
  <1>1. worker[w] \in WorkerState
    BY DEF TypeOK
  <1>2. Polling(w).pc = "poll" /\ Polling(w).job = None
    BY DEF Polling, Off
  <1>3. worker' = [worker EXCEPT ![w] = Polling(w)] => Drops(w)
    <2> HIDE DEF Polling
    <2>1. QED
      BY <1>2 DEF TypeOK, Drops, Idle
  <1>4. \A pc \in Busy :
          worker' = [worker EXCEPT ![w].pc = pc] => Goes(w, pc)
    BY <1>1 DEF TypeOK, WorkerState, Goes
  <1>5. worker' = [worker EXCEPT ![w] =
                    [@ EXCEPT !.pc = "executing", !.left = Timeout]]
          => Goes(w, "executing")
    BY <1>1 DEF TypeOK, WorkerState, Goes
  <1>6. QED
    BY <1>3, <1>4, <1>5

LEMMA ClaimCommitEffect ==
  ASSUME JobsAssumption, TypeOK, NEW w \in Workers, ClaimCommit(w)
  PROVE  /\ Row(worker[w].job, "running", job[worker[w].job].attempts + 1)
         /\ UNCHANGED <<audit, runs>>
         /\ Goes(w, "claimed")
  <1>1. worker[w].job \in Jobs /\ job[worker[w].job] \in JobRow
    BY Held DEF ClaimCommit
  <1>2. Row(worker[w].job, "running", job[worker[w].job].attempts + 1)
    BY <1>1 DEF ClaimCommit, Row, TypeOK, JobRow
  <1>3. QED
    BY <1>2, WorkerMoves DEF ClaimCommit, Busy

LEMMA RecordStartedEffect ==
  ASSUME JobsAssumption, TypeOK, NEW w \in Workers, RecordStarted(w)
  PROVE  LET j == worker[w].job
             e == audit[j]
         IN  /\ Log(j, e.started + 1, e.retried, e.succeeded, e.failed)
             /\ UNCHANGED <<job, runs>>
             /\ Goes(w, "started")
  <1>1. worker[w].job \in Jobs /\ audit[worker[w].job] \in Events
    BY Held DEF RecordStarted, Busy
  <1>2. LET j == worker[w].job
            e == audit[j]
        IN  Log(j, e.started + 1, e.retried, e.succeeded, e.failed)
    BY <1>1 DEF RecordStarted, Log, TypeOK, Events
  <1>3. QED
    BY <1>2, WorkerMoves DEF RecordStarted, Busy

LEMMA CommandEffect ==
  ASSUME JobsAssumption, TypeOK, NEW w \in Workers
  PROVE  LET j == worker[w].job
             r == runs[j]
         IN  /\ Launch(w) => /\ Ran(j, r.launched + 1, r.completed)
                             /\ UNCHANGED <<job, audit>>
                             /\ Goes(w, "executing")
             /\ CommandSucceeds(w) => /\ Ran(j, r.launched, r.completed + 1)
                                      /\ UNCHANGED <<job, audit>>
                                      /\ Goes(w, "succeeding")
             /\ Reject(w) \/ CommandFails(w) \/ CommandTimesOut(w) =>
                  UNCHANGED <<job, audit, runs>> /\ Goes(w, "failing")
  <1> DEFINE j == worker[w].job
             r == runs[j]
  <1>1. worker[w].pc \in Busy =>
          j \in Jobs /\ r \in [launched : Nat, completed : Nat]
    BY Held
  <1>2. Launch(w) => Ran(j, r.launched + 1, r.completed)
    BY <1>1 DEF Launch, Ran, TypeOK, Busy
  <1>3. CommandSucceeds(w) => Ran(j, r.launched, r.completed + 1)
    BY <1>1 DEF CommandSucceeds, Ran, TypeOK, Busy
  <1>4. Launch(w) => Goes(w, "executing")
    BY WorkerMoves DEF Launch
  <1>5. /\ CommandSucceeds(w) => Goes(w, "succeeding")
        /\ Reject(w) \/ CommandFails(w) \/ CommandTimesOut(w)
             => Goes(w, "failing")
    BY WorkerMoves DEF CommandSucceeds, Reject, CommandFails, CommandTimesOut,
                       Busy
  <1>6. QED
    BY <1>2, <1>3, <1>4, <1>5
       DEF Launch, CommandSucceeds, Reject, CommandFails, CommandTimesOut

LEMMA MarkEffect ==
  ASSUME JobsAssumption, TypeOK, NEW w \in Workers
  PROVE  LET j == worker[w].job
             n == job[j].attempts
             e == audit[j]
         IN  /\ MarkSucceeded(w) =>
                  /\ Row(j, "succeeded", n)
                  /\ Log(j, e.started, e.retried, e.succeeded + 1, e.failed)
                  /\ UNCHANGED runs /\ Drops(w)
             /\ MarkFailedOrRequeued(w) =>
                  /\ IF n < MaxAttempts
                     THEN /\ Row(j, "queued", n)
                          /\ Log(j, e.started, e.retried + 1, e.succeeded,
                                 e.failed)
                     ELSE /\ Row(j, "failed", n)
                          /\ Log(j, e.started, e.retried, e.succeeded,
                                 e.failed + 1)
                  /\ UNCHANGED runs /\ Drops(w)
  <1> DEFINE j == worker[w].job
             n == job[j].attempts
             e == audit[j]
  <1>1. worker[w].pc \in Busy => j \in Jobs /\ job[j] \in JobRow /\ e \in Events
    BY Held
  <1>2. MarkSucceeded(w) =>
          /\ Row(j, "succeeded", n)
          /\ Log(j, e.started, e.retried, e.succeeded + 1, e.failed)
    BY <1>1 DEF MarkSucceeded, Row, Log, TypeOK, Busy, JobRow, Events
  <1>3. ASSUME MarkFailedOrRequeued(w), n < MaxAttempts
        PROVE  /\ Row(j, "queued", n)
               /\ Log(j, e.started, e.retried + 1, e.succeeded, e.failed)
    <2>1. /\ job' = [job EXCEPT ![j] =
                       [@ EXCEPT !.status = "queued", !.lease = None,
                                 !.wait = RetryDelay(n)]]
          /\ audit' = [audit EXCEPT ![j].retried = @ + 1]
      BY <1>3 DEF MarkFailedOrRequeued
    <2>2. j \in Jobs /\ job[j] \in JobRow /\ e \in Events
      BY <1>1, <1>3 DEF MarkFailedOrRequeued, Busy
    <2>3. QED
      BY <2>1, <2>2 DEF Row, Log, TypeOK, JobRow, Events
  <1>4. ASSUME MarkFailedOrRequeued(w), ~(n < MaxAttempts)
        PROVE  /\ Row(j, "failed", n)
               /\ Log(j, e.started, e.retried, e.succeeded, e.failed + 1)
    <2>1. /\ job' = [job EXCEPT ![j] =
                       [@ EXCEPT !.status = "failed", !.lease = None,
                                 !.wait = 0]]
          /\ audit' = [audit EXCEPT ![j].failed = @ + 1]
      BY <1>4 DEF MarkFailedOrRequeued
    <2>2. j \in Jobs /\ job[j] \in JobRow /\ e \in Events
      BY <1>1, <1>4 DEF MarkFailedOrRequeued, Busy
    <2>3. QED
      BY <2>1, <2>2 DEF Row, Log, TypeOK, JobRow, Events
  <1>5. MarkSucceeded(w) \/ MarkFailedOrRequeued(w) => Drops(w)
    BY WorkerMoves DEF MarkSucceeded, MarkFailedOrRequeued
  <1>6. QED
    BY <1>2, <1>3, <1>4, <1>5 DEF MarkSucceeded, MarkFailedOrRequeued

\* Steps without a job: they leave rows, events and runs as they are, but
\* for the timers.
LEMMA QuietEffect ==
  ASSUME JobsAssumption, TypeOK,
         \/ \E w \in Workers : \/ Poll(w) \/ Claim(w) \/ NothingDue(w)
                               \/ StartWorker(w) \/ DatabaseError(w)
         \/ \E p \in Processes : StopWorker(p) \/ Crash(p)
         \/ Tick
         \/ UNCHANGED vars
  PROVE  SameRows /\ UNCHANGED <<audit, runs>>
  <1>1. CASE Tick
    <2>1. ASSUME NEW q \in JobRow, NEW n, NEW m
          PROVE  LET r == [q EXCEPT !.wait = n, !.lease = m]
                 IN  r.status = q.status /\ r.attempts = q.attempts
      BY DEF JobRow
    <2>2. ASSUME NEW k \in Jobs
          PROVE  /\ job'[k].status = job[k].status
                 /\ job'[k].attempts = job[k].attempts
      <3> DEFINE n == Minus1(job[k].wait)
                 m == IF job[k].lease = None THEN None
                                             ELSE Minus1(job[k].lease)
      <3>1. job'[k] = [job[k] EXCEPT !.wait = n, !.lease = m]
        BY <1>1 DEF Tick
      <3>2. job[k] \in JobRow
        BY DEF TypeOK
      <3> HIDE DEF n, m
      <3>3. QED
        BY <2>1, <3>1, <3>2
    <2>3. QED
      BY <1>1, <2>2 DEF Tick, SameRows
  <1>2. CASE ~Tick
    BY <1>2 DEF Poll, Claim, NothingDue, StartWorker, DatabaseError,
                StopWorker, Crash, vars, SameRows
  <1>3. QED
    BY <1>1, <1>2

LEMMA EnqueueEffect ==
  ASSUME JobsAssumption, TypeOK, NEW j \in Jobs, Enqueue(j)
  PROVE  Row(j, "queued", job[j].attempts) /\ UNCHANGED <<audit, runs, worker>>
  BY DEF Enqueue, Row, TypeOK, JobRow

-----------------------------------------------------------------------------
(* The invariant is kept. *)

\* The parts of the invariant that are about the tables alone.
JobSound(j) ==
  /\ job[j].status \in {"absent", "queued"} => job[j].attempts < MaxAttempts
  /\ job[j].status \in {"absent", "queued", "failed"} => runs[j].completed = 0
  /\ job[j].attempts = audit[j].retried + audit[j].succeeded
       + audit[j].failed + (IF job[j].status = "running" THEN 1 ELSE 0)
  /\ runs[j].launched <= audit[j].started
  /\ audit[j].started <= job[j].attempts
  /\ job[j].attempts <= MaxAttempts
  /\ runs[j].completed <= 1
  /\ runs[j].completed = 1 => job[j].status \in {"running", "succeeded"}
  /\ job[j].status = "succeeded" => runs[j].completed = 1

LEMMA JobsSound ==
  (Claimable /\ AttemptsAccounted /\ SuccessRunsOnce)
    <=> \A j \in Jobs : JobSound(j)
  BY DEF Claimable, AttemptsAccounted, SuccessRunsOnce, JobSound

LEMMA JobsStep ==
  ASSUME JobsAssumption, IInv, [Next]_vars
  PROVE  \A j \in Jobs : JobSound(j)'
  <1> SUFFICES ASSUME NEW k \in Jobs PROVE JobSound(k)'
    OBVIOUS
  <1> USE DEF IInv
  <1>1. /\ job[k].status \in Statuses /\ job[k].attempts \in Nat
        /\ audit[k].started \in Nat /\ audit[k].retried \in Nat
        /\ audit[k].succeeded \in Nat /\ audit[k].failed \in Nat
        /\ runs[k].launched \in Nat /\ runs[k].completed \in Nat
        /\ MaxAttempts \in Nat \ {0}
    BY DEF TypeOK, JobRow, Events, JobsAssumption
  <1>2. JobSound(k)
    BY JobsSound
  <1>3. CASE job'[k] = job[k] /\ audit'[k] = audit[k] /\ runs'[k] = runs[k]
    BY <1>2, <1>3 DEF JobSound
  <1>4. CASE SameRows /\ UNCHANGED <<audit, runs>>
    BY <1>2, <1>4 DEF JobSound, SameRows
  <1>5. ASSUME NEW j \in Jobs, Enqueue(j) PROVE JobSound(k)'
    <2>1. Row(j, "queued", job[j].attempts) /\ UNCHANGED <<audit, runs>>
      BY <1>5, EnqueueEffect
    <2>2. CASE k # j
      BY <1>3, <2>1, <2>2 DEF Row
    <2>3. CASE k = j
      BY <1>1, <1>2, <1>5, <2>1, <2>3 DEF JobSound, Row, Enqueue
    <2>4. QED
      BY <2>2, <2>3
  <1>6. ASSUME NEW w \in Workers, ClaimCommit(w) PROVE JobSound(k)'
    <2> DEFINE j == worker[w].job
    <2>1. Row(j, "running", job[j].attempts + 1) /\ UNCHANGED <<audit, runs>>
      BY <1>6, ClaimCommitEffect
    <2>2. CASE k # j
      BY <1>3, <2>1, <2>2 DEF Row
    <2>3. CASE k = j
      <3>1. job[k].status = "queued"
        BY <1>6, <2>3 DEF ClaimCommit, WorkersKnow, Knows
      <3>2. job'[k].status = "running" /\ job'[k].attempts = job[k].attempts + 1
        BY <2>1, <2>3 DEF Row
      <3>3. QED
        BY <1>1, <1>2, <2>1, <3>1, <3>2 DEF JobSound
    <2>4. QED
      BY <2>2, <2>3
  <1>7. ASSUME NEW w \in Workers, RecordStarted(w) PROVE JobSound(k)'
    <2> DEFINE j == worker[w].job
               e == audit[j]
    <2>1. /\ Log(j, e.started + 1, e.retried, e.succeeded, e.failed)
          /\ UNCHANGED <<job, runs>>
      BY <1>7, RecordStartedEffect
    <2>2. CASE k # j
      BY <1>3, <2>1, <2>2 DEF Log
    <2>3. CASE k = j
      <3>1. audit[k].started < job[k].attempts
        BY <1>7, <2>3 DEF RecordStarted, WorkersKnow, Knows
      <3>2. QED
        BY <1>1, <1>2, <2>1, <2>3, <3>1 DEF JobSound, Log
    <2>4. QED
      BY <2>2, <2>3
  <1>8. ASSUME NEW w \in Workers,
               \/ Reject(w) \/ CommandFails(w) \/ CommandTimesOut(w)
        PROVE  JobSound(k)'
    BY <1>3, <1>8, CommandEffect
  <1>9. ASSUME NEW w \in Workers, Launch(w) PROVE JobSound(k)'
    <2> DEFINE j == worker[w].job
               r == runs[j]
    <2>1. Ran(j, r.launched + 1, r.completed) /\ UNCHANGED <<job, audit>>
      BY <1>9, CommandEffect
    <2>2. CASE k # j
      BY <1>3, <2>1, <2>2 DEF Ran
    <2>3. CASE k = j
      <3>1. runs[k].launched < audit[k].started
        BY <1>9, <2>3 DEF Launch, WorkersKnow, Knows
      <3>2. QED
        BY <1>1, <1>2, <2>1, <2>3, <3>1 DEF JobSound, Ran
    <2>4. QED
      BY <2>2, <2>3
  <1>10. ASSUME NEW w \in Workers, CommandSucceeds(w) PROVE JobSound(k)'
    <2> DEFINE j == worker[w].job
               r == runs[j]
    <2>1. Ran(j, r.launched, r.completed + 1) /\ UNCHANGED <<job, audit>>
      BY <1>10, CommandEffect
    <2>2. CASE k # j
      BY <1>3, <2>1, <2>2 DEF Ran
    <2>3. CASE k = j
      <3>1. runs[k].completed = 0 /\ job[k].status = "running"
        BY <1>10, <2>3 DEF CommandSucceeds, WorkersKnow, Knows, Busy
      <3>2. QED
        BY <1>1, <1>2, <2>1, <2>3, <3>1 DEF JobSound, Ran
    <2>4. QED
      BY <2>2, <2>3
  <1>11. ASSUME NEW w \in Workers, MarkSucceeded(w) PROVE JobSound(k)'
    <2> DEFINE j == worker[w].job
               e == audit[j]
    <2>1. /\ Row(j, "succeeded", job[j].attempts)
          /\ Log(j, e.started, e.retried, e.succeeded + 1, e.failed)
          /\ UNCHANGED runs
      BY <1>11, MarkEffect
    <2>2. CASE k # j
      BY <1>3, <2>1, <2>2 DEF Row, Log
    <2>3. CASE k = j
      <3>1. runs[k].completed = 1 /\ job[k].status = "running"
        BY <1>11, <2>3 DEF MarkSucceeded, WorkersKnow, Knows, Busy
      <3>2. QED
        BY <1>1, <1>2, <2>1, <2>3, <3>1 DEF JobSound, Row, Log
    <2>4. QED
      BY <2>2, <2>3
  <1>12. ASSUME NEW w \in Workers, MarkFailedOrRequeued(w) PROVE JobSound(k)'
    <2> DEFINE j == worker[w].job
               e == audit[j]
               n == job[j].attempts
    <2>1. /\ IF n < MaxAttempts
             THEN /\ Row(j, "queued", n)
                  /\ Log(j, e.started, e.retried + 1, e.succeeded, e.failed)
             ELSE /\ Row(j, "failed", n)
                  /\ Log(j, e.started, e.retried, e.succeeded, e.failed + 1)
          /\ UNCHANGED runs
      BY <1>12, MarkEffect
    <2>2. CASE k # j
      BY <1>3, <2>1, <2>2 DEF Row, Log
    <2>3. CASE k = j
      <3>1. runs[k].completed = 0 /\ job[k].status = "running"
        BY <1>12, <2>3 DEF MarkFailedOrRequeued, WorkersKnow, Knows, Busy
      <3>2. QED
        BY <1>1, <1>2, <2>1, <2>3, <3>1 DEF JobSound, Row, Log
    <2>4. QED
      BY <2>2, <2>3
  <1>13. QED
    <2>1. CASE \/ \E w \in Workers : \/ Poll(w) \/ Claim(w) \/ NothingDue(w)
                                    \/ StartWorker(w) \/ DatabaseError(w)
               \/ \E p \in Processes : StopWorker(p) \/ Crash(p)
               \/ Tick
               \/ UNCHANGED vars
      BY <1>4, <2>1, QuietEffect
    <2>2. QED
      BY <1>5, <1>6, <1>7, <1>8, <1>9, <1>10, <1>11, <1>12, <2>1
         DEF Next, Step, Command

\* A step about j leaves what the other workers know.
LEMMA OthersKnow ==
  ASSUME JobsAssumption, IInv, NEW w \in Workers,
         worker[w].pc \in {"claiming"} \cup Busy,
         \A v \in Workers \ {w} : worker'[v] = worker[v],
         \A k \in Jobs \ {worker[w].job} :
           job'[k] = job[k] /\ audit'[k] = audit[k] /\ runs'[k] = runs[k]
  PROVE  \A v \in Workers \ {w} : Knows(v)'
  <1> SUFFICES ASSUME NEW v \in Workers \ {w} PROVE Knows(v)'
    OBVIOUS
  <1>1. worker'[v] = worker[v] /\ Knows(v)
    BY DEF IInv, WorkersKnow
  <1>2. CASE worker[v].pc \in {"claiming"} \cup Busy
    <2>1. worker[v].job \in Jobs /\ worker[v].job # worker[w].job
      BY <1>2, Held DEF IInv, OneHolder, JobsAssumption
    <2>2. QED
      BY <1>1, <2>1 DEF Knows
  <1>3. CASE worker[v].pc \notin {"claiming"} \cup Busy
    BY <1>1, <1>3 DEF Knows, Busy
  <1>4. QED
    BY <1>2, <1>3

LEMMA WorkerStep ==
  ASSUME JobsAssumption, IInv, NEW w \in Workers,
         \/ ClaimCommit(w) \/ RecordStarted(w) \/ Reject(w) \/ Launch(w)
         \/ CommandTimesOut(w) \/ MarkSucceeded(w) \/ MarkFailedOrRequeued(w)
         \/ CommandSucceeds(w) \/ CommandFails(w)
  PROVE  WorkersKnow' /\ OneHolder'
  <1> DEFINE j == worker[w].job
  <1> USE DEF IInv
  <1>1. /\ worker[w].pc \in {"claiming"} \cup Busy
        /\ j \in Jobs
        /\ Knows(w)
    BY Held DEF ClaimCommit, RecordStarted, Reject, Launch, CommandTimesOut,
                MarkSucceeded, MarkFailedOrRequeued, CommandSucceeds,
                CommandFails, Busy, WorkersKnow
  <1>2. /\ job[j].attempts \in Nat /\ audit[j].started \in Nat
        /\ runs[j].launched \in Nat /\ runs[j].completed \in Nat
        /\ runs[j].launched <= audit[j].started
        /\ audit[j].started <= job[j].attempts
        /\ job[j].status = "queued" => runs[j].completed = 0
    BY <1>1 DEF TypeOK, JobRow, Events, Claimable, AttemptsAccounted
  <1>3. /\ \A v \in Workers \ {w} : worker'[v] = worker[v]
        /\ worker'[w].job \in {j, None}
        /\ \A k \in Jobs \ {j} :
             job'[k] = job[k] /\ audit'[k] = audit[k] /\ runs'[k] = runs[k]
    BY <1>1, ClaimCommitEffect, RecordStartedEffect, CommandEffect, MarkEffect
       DEF Row, Log, Ran, Goes, Drops
  <1>4. Knows(w)'
    <2>1. CASE ClaimCommit(w)
      <3>1. /\ worker'[w].pc = "claimed" /\ worker'[w].job = j
            /\ job'[j].status = "running"
            /\ job'[j].attempts = job[j].attempts + 1
            /\ audit' = audit /\ runs' = runs
        BY <2>1, ClaimCommitEffect DEF Row, Goes
      <3>2. runs[j].completed = 0
        BY <1>1, <1>2, <2>1 DEF ClaimCommit, Knows
      <3>3. QED
        BY <1>2, <3>1, <3>2 DEF Knows, Busy
    <2>2. CASE RecordStarted(w)
      <3>1. /\ worker'[w].pc = "started" /\ worker'[w].job = j
            /\ audit'[j].started = audit[j].started + 1
            /\ job' = job /\ runs' = runs
        BY <2>2, RecordStartedEffect DEF Log, Goes
      <3>2. QED
        BY <1>1, <1>2, <2>2, <3>1 DEF RecordStarted, Knows, Busy
    <2>3. CASE Launch(w) \/ CommandSucceeds(w)
      <3>1. /\ worker'[w].job = j
            /\ job' = job /\ audit' = audit
            /\ \/ /\ Launch(w)
                  /\ worker'[w].pc = "executing"
                  /\ runs'[j].completed = runs[j].completed
               \/ /\ CommandSucceeds(w)
                  /\ worker'[w].pc = "succeeding"
                  /\ runs'[j].completed = runs[j].completed + 1
        BY <2>3, CommandEffect DEF Ran, Goes
      <3>2. QED
        BY <1>1, <1>2, <3>1 DEF Launch, CommandSucceeds, Knows, Busy
    <2>4. CASE Reject(w) \/ CommandFails(w) \/ CommandTimesOut(w)
      <3>1. /\ worker'[w].pc = "failing" /\ worker'[w].job = j
            /\ job' = job /\ audit' = audit /\ runs' = runs
        BY <2>4, CommandEffect DEF Goes
      <3>2. worker[w].pc \in {"started", "executing"}
        BY <2>4 DEF Reject, CommandFails, CommandTimesOut
      <3>3. QED
        BY <1>1, <3>1, <3>2 DEF Knows, Busy
    <2>5. CASE MarkSucceeded(w) \/ MarkFailedOrRequeued(w)
      <3>1. worker'[w].pc \in Idle
        BY <2>5, MarkEffect DEF Drops
      <3>2. QED
        BY <3>1 DEF Knows, Idle, Busy
    <2>6. QED
      BY <2>1, <2>2, <2>3, <2>4, <2>5
  <1>5. WorkersKnow'
    BY <1>1, <1>3, <1>4, OthersKnow DEF WorkersKnow
  <1>6. OneHolder'
    BY <1>3 DEF OneHolder
  <1>7. QED
    BY <1>5, <1>6

\* A claimed row is nobody else's: it is queued, and it is not locked.
LEMMA ClaimStep ==
  ASSUME JobsAssumption, IInv, NEW w \in Workers, Claim(w)
  PROVE  WorkersKnow' /\ OneHolder'
  <1> USE DEF IInv
  <1>1. PICK j \in Jobs :
          /\ Due(j) /\ ~Locked(j)
          /\ worker' = [worker EXCEPT ![w] =
                          [@ EXCEPT !.pc = "claiming", !.job = j]]
    BY DEF Claim
  <1>2. worker[w] \in WorkerState
    BY DEF TypeOK
  <1>3. /\ worker'[w].pc = "claiming" /\ worker'[w].job = j
        /\ \A v \in Workers \ {w} : worker'[v] = worker[v]
        /\ UNCHANGED <<job, audit, runs>>
    BY <1>1, <1>2 DEF Claim, TypeOK, WorkerState
  <1>4. ASSUME NEW v \in Workers PROVE worker[v].job # j
    <2>1. worker[v].pc \in {"claiming"} \cup Busy \/ worker[v].job = None
      BY DEF TypeOK, WorkerState
    <2>2. job[j].status = "queued"
      BY <1>1 DEF Due
    <2>3. QED
      BY <1>1, <2>1, <2>2
         DEF Locked, WorkersKnow, Knows, JobsAssumption
  <1>5. Knows(w)'
    BY <1>1, <1>3 DEF Knows, Busy, Due
  <1>6. \A v \in Workers \ {w} : Knows(v)'
    BY <1>3 DEF WorkersKnow, Knows
  <1>7. OneHolder'
    BY <1>3, <1>4 DEF OneHolder
  <1>8. QED
    BY <1>5, <1>6, <1>7 DEF WorkersKnow

\* The steps that take no job and write no table: each worker keeps its place
\* and its job, or has none.
LEMMA OtherStep ==
  ASSUME JobsAssumption, IInv, [Next]_vars,
         SameRows, UNCHANGED <<audit, runs>>,
         \A w \in Workers :
           \/ worker'[w].pc = worker[w].pc /\ worker'[w].job = worker[w].job
           \/ worker'[w].pc \in Idle /\ worker'[w].job = None
  PROVE  WorkersKnow' /\ OneHolder'
  <1> USE DEF IInv
  <1>1. ASSUME NEW w \in Workers PROVE Knows(w)'
    <2>1. CASE worker'[w].pc \in Idle
      BY <2>1 DEF Knows, Idle, Busy
    <2>2. CASE worker'[w].pc \notin Idle
      <3>1. worker'[w].pc = worker[w].pc /\ worker'[w].job = worker[w].job
        BY <2>2
      <3>2. worker[w].pc \in {"claiming"} \cup Busy
        BY <2>2, <3>1 DEF TypeOK, WorkerState
      <3>3. worker[w].job \in Jobs /\ Knows(w)
        BY <3>2, Held DEF WorkersKnow
      <3>4. QED
        BY <3>1, <3>3 DEF Knows, SameRows
    <2>3. QED
      BY <2>1, <2>2
  <1>2. OneHolder'
    BY DEF OneHolder
  <1>3. QED
    BY <1>1, <1>2 DEF WorkersKnow

\* A worker keeps its place and its job, or has none any more.
Same(w) ==
  \/ worker'[w].pc = worker[w].pc /\ worker'[w].job = worker[w].job
  \/ worker'[w].pc \in Idle /\ worker'[w].job = None

LEMMA SameOrIdle ==
  ASSUME JobsAssumption, TypeOK,
         \/ \E w \in Workers : \/ Poll(w) \/ NothingDue(w)
                               \/ StartWorker(w) \/ DatabaseError(w)
         \/ \E p \in Processes : StopWorker(p) \/ Crash(p)
         \/ Tick
         \/ UNCHANGED vars
  PROVE  \A v \in Workers : Same(v)
  <1>a. \A w \in Workers : worker[w] \in WorkerState
    BY DEF TypeOK
  <1>1. ASSUME NEW w \in Workers,
               \/ worker' = [worker EXCEPT ![w] = Polling(w)]
               \/ worker' = [worker EXCEPT ![w] = Off]
               \/ worker' = [worker EXCEPT ![w] = [Off EXCEPT !.pc = "poll"]]
        PROVE  \A v \in Workers : Same(v)
    <2>1. /\ Polling(w).pc \in Idle /\ Polling(w).job = None
          /\ Off.pc \in Idle /\ Off.job = None
          /\ [Off EXCEPT !.pc = "poll"].pc \in Idle
          /\ [Off EXCEPT !.pc = "poll"].job = None
      BY DEF Polling, Off, Idle
    <2>2. \A v \in Workers \ {w} : worker'[v] = worker[v]
      BY <1>1 DEF TypeOK
    <2>3. worker'[w] \in {Polling(w), Off, [Off EXCEPT !.pc = "poll"]}
      BY <1>1 DEF TypeOK
    <2>4. QED
      BY <2>1, <2>2, <2>3 DEF Same
  <1>2. ASSUME NEW w \in Workers, Poll(w)
        PROVE  \A v \in Workers : Same(v)
    <2>1. worker[w].pc \in Idle /\ worker[w].job = None
      BY <1>2 DEF Poll, TypeOK, Idle
    <2>2. [worker[w] EXCEPT !.pc = "query"].job = None
      BY <1>a, <2>1 DEF WorkerState
    <2>3. [worker[w] EXCEPT !.pc = "query"].pc = "query"
      BY <1>a DEF WorkerState
    <2>4. QED
      BY <1>1, <1>2, <2>2, <2>3 DEF Poll, TypeOK, Idle, Same
  <1>3. ASSUME NEW p \in Processes, StopWorker(p)
        PROVE  \A v \in Workers : Same(v)
    <2>1. handle[p] \in Workers
      BY <1>3 DEF StopWorker, TypeOK
    <2>2. QED
      BY <1>3, <1>a, <2>1 DEF StopWorker, TypeOK, WorkerState, Same
  <1>4. ASSUME NEW p \in Processes, Crash(p)
        PROVE  \A v \in Workers : Same(v)
    BY <1>4 DEF Crash, Off, Idle, Same
  <1>5. CASE Tick
    BY <1>5, <1>a DEF Tick, WorkerState, Same
  <1>6. ASSUME NEW w \in Workers,
               NothingDue(w) \/ StartWorker(w) \/ DatabaseError(w)
        PROVE  \A v \in Workers : Same(v)
    BY <1>1, <1>6 DEF NothingDue, StartWorker, DatabaseError
  <1>7. CASE UNCHANGED vars
    BY <1>7 DEF vars, Same
  <1>8. QED
    BY <1>2, <1>3, <1>4, <1>5, <1>6, <1>7

LEMMA WorkersStep ==
  ASSUME JobsAssumption, IInv, [Next]_vars
  PROVE  WorkersKnow' /\ OneHolder'
  <1> USE DEF IInv
  <1>1. ASSUME NEW j \in Jobs, Enqueue(j) PROVE WorkersKnow' /\ OneHolder'
    <2>1. /\ Row(j, "queued", job[j].attempts)
          /\ UNCHANGED <<audit, runs, worker>>
      BY <1>1, EnqueueEffect
    <2>2. ASSUME NEW w \in Workers PROVE Knows(w)'
      <3>1. Knows(w)
        BY DEF WorkersKnow
      <3>2. CASE worker[w].pc \in {"claiming"} \cup Busy
        <4>1. worker[w].job \in Jobs /\ worker[w].job # j
          BY <1>1, <3>1, <3>2, Held DEF Knows, Enqueue
        <4>2. QED
          BY <2>1, <3>1, <4>1 DEF Knows, Row
      <3>3. CASE worker[w].pc \notin {"claiming"} \cup Busy
        BY <2>1, <3>3 DEF Knows, Busy
      <3>4. QED
        BY <3>2, <3>3
    <2>3. QED
      BY <2>1, <2>2 DEF WorkersKnow, OneHolder
  <1>2. CASE \/ \E w \in Workers : \/ Poll(w) \/ NothingDue(w)
                                  \/ StartWorker(w) \/ DatabaseError(w)
             \/ \E p \in Processes : StopWorker(p) \/ Crash(p)
             \/ Tick
             \/ UNCHANGED vars
    <2>1. SameRows /\ UNCHANGED <<audit, runs>>
      BY <1>2, QuietEffect
    <2>2. \A v \in Workers : Same(v)
      BY <1>2, SameOrIdle
    <2>3. QED
      BY <2>1, <2>2, OtherStep DEF Same
  <1>3. QED
    BY <1>1, <1>2, ClaimStep, WorkerStep DEF Next, Step, Command

LEMMA NextIInv ==
  ASSUME JobsAssumption, IInv, [Next]_vars
  PROVE  IInv'
  <1>1. TypeOK'
    BY TypeStep DEF IInv
  <1>2. WorkersKnow' /\ OneHolder'
    BY WorkersStep
  <1>3. (Claimable /\ AttemptsAccounted /\ SuccessRunsOnce)'
    BY JobsStep DEF JobSound, Claimable, AttemptsAccounted, SuccessRunsOnce
  <1>4. QED
    BY <1>1, <1>2, <1>3 DEF IInv

LEMMA Inductive == Spec => []IInv
  <1>1. Init => IInv
    BY InitIInv, JobsAssumption
  <1>2. IInv /\ [Next]_vars => IInv'
    BY NextIInv, JobsAssumption
  <1>3. QED
    BY <1>1, <1>2, PTL DEF Spec

-----------------------------------------------------------------------------
(* Results. *)

\* The tables, the workers and the handles are well typed, and a worker holds
\* a job exactly while it claims or runs one.
THEOREM JobsTypeCorrect == Spec => []TypeOK
  <1>1. IInv => TypeOK
    BY DEF IInv
  <1>2. QED
    BY <1>1, Inductive, PTL

\* However many processes and threads there are, and whatever fails, SKIP
\* LOCKED and the status give each job one worker at a time.
THEOREM OneRunnerPerJob == Spec => []OneRunner
  <1>1. IInv => OneRunner
    <2> SUFFICES ASSUME IInv, NEW j \in Jobs, NEW w \in Workers, Working(w, j)
                 PROVE  /\ job[j].status = "running"
                        /\ \A v \in Workers : Working(v, j) => v = w
      BY DEF OneRunner
    <2>1. j # None
      BY JobsAssumption DEF JobsAssumption
    <2>2. QED
      BY <2>1 DEF IInv, WorkersKnow, Knows, OneHolder, Working
  <1>2. QED
    BY <1>1, Inductive, PTL

\* The audit log accounts for every attempt, and no job has more attempts than
\* it is allowed.
THEOREM EveryAttemptAccounted == Spec => []AttemptsAccounted
  <1>1. IInv => AttemptsAccounted
    BY DEF IInv
  <1>2. QED
    BY <1>1, Inductive, PTL

\* A job's command exits with 0 once at most, and a job that succeeded has had
\* it do so.
THEOREM SucceedsOnce == Spec => []SuccessRunsOnce
  <1>1. IInv => SuccessRunsOnce
    BY DEF IInv
  <1>2. QED
    BY <1>1, Inductive, PTL

LEMMA EndedStep ==
  ASSUME JobsAssumption, IInv, [Next]_vars, NEW k \in Jobs, Ended(k)
  PROVE  /\ job'[k].status = job[k].status
         /\ audit'[k] = audit[k]
         /\ runs'[k] = runs[k]
  <1> USE DEF IInv
  <1>1. ASSUME NEW w \in Workers, worker[w].pc \in {"claiming"} \cup Busy
        PROVE  worker[w].job # k
    BY <1>1 DEF WorkersKnow, Knows, Ended
  <1>2. CASE SameRows /\ UNCHANGED <<audit, runs>>
    BY <1>2 DEF SameRows
  <1>3. ASSUME NEW j \in Jobs, Enqueue(j) PROVE ~(j = k)
    BY <1>3 DEF Enqueue, Ended
  <1>4. ASSUME NEW j \in Jobs, Enqueue(j)
        PROVE  job'[k] = job[k] /\ audit' = audit /\ runs' = runs
    BY <1>3, <1>4, EnqueueEffect DEF Row
  <1>5. ASSUME NEW w \in Workers,
               \/ ClaimCommit(w) \/ RecordStarted(w) \/ Reject(w) \/ Launch(w)
               \/ CommandTimesOut(w) \/ MarkSucceeded(w)
               \/ MarkFailedOrRequeued(w)
               \/ CommandSucceeds(w) \/ CommandFails(w)
        PROVE  job'[k] = job[k] /\ audit'[k] = audit[k] /\ runs'[k] = runs[k]
    <2>1. worker[w].job # k
      BY <1>1, <1>5 DEF ClaimCommit, RecordStarted, Reject, Launch,
           CommandTimesOut, MarkSucceeded, MarkFailedOrRequeued,
           CommandSucceeds, CommandFails, Busy
    <2>2. QED
      BY <1>5, <2>1, ClaimCommitEffect, RecordStartedEffect, CommandEffect,
         MarkEffect DEF Row, Log, Ran
  <1>6. QED
    BY <1>2, <1>4, <1>5, QuietEffect DEF Next, Step, Command

\* No worker, late or restarted, touches a job that has ended.
THEOREM EndedJobsStay == Spec => EndedIsFinal
  <1>1. IInv /\ [Next]_vars =>
          [\A j \in Jobs : Ended(j) =>
             /\ job'[j].status = job[j].status
             /\ audit'[j] = audit[j]
             /\ runs'[j] = runs[j]]_vars
    BY EndedStep, JobsAssumption
  <1>2. QED
    BY <1>1, Inductive, PTL DEF Spec, EndedIsFinal

-----------------------------------------------------------------------------
(* Each job lives alone. *)

\* The stage a job is in while a worker is at pc with it.
StageAt(pc) ==
  CASE pc \in {"claimed", "started"} -> "begun"
    [] pc = "executing" -> "running"
    [] pc = "succeeding" -> "completed"
    [] OTHER -> "missed"

\* The worker that has a job decides on its stage, before a step and after it.
LEMMA StageHeld ==
  ASSUME IInv, NEW k \in Jobs, NEW w \in Workers, Working(w, k), k # None
  PROVE  Stage(k) = StageAt(worker[w].pc)
  <1>1. /\ job[k].status = "running" /\ runs[k].completed \in {0, 1}
        /\ runs[k].completed = 1 <=> worker[w].pc = "succeeding"
    BY DEF IInv, WorkersKnow, Knows, Working
  <1>2. \A v \in Workers : worker[v].job = k => v = w
    BY DEF IInv, OneHolder, Working
  <1>3. \A pcs : At(k, pcs) <=> worker[w].pc \in pcs
    BY <1>2 DEF At, Working
  <1>4. QED
    BY <1>1, <1>3 DEF Stage, StageAt, Working, Busy

LEMMA StageHeldNext ==
  ASSUME IInv', NEW k \in Jobs, NEW w \in Workers, Working(w, k)', k # None
  PROVE  Stage(k)' = StageAt(worker'[w].pc)
  <1>1. /\ job'[k].status = "running" /\ runs'[k].completed \in {0, 1}
        /\ runs'[k].completed = 1 <=> worker'[w].pc = "succeeding"
    BY DEF IInv, WorkersKnow, Knows, Working
  <1>2. \A v \in Workers : worker'[v].job = k => v = w
    BY DEF IInv, OneHolder, Working
  <1>3. \A pcs : At(k, pcs)' <=> worker'[w].pc \in pcs
    BY <1>2 DEF At, Working
  <1>4. QED
    BY <1>1, <1>3 DEF Stage, StageAt, Working, Busy

\* A job that no worker has is what its row says, or its attempt is lost.
LostStage(status, completed) ==
  IF status # "running" THEN status
  ELSE IF completed > 0 THEN "completed" ELSE "missed"

LEMMA StageUnheld ==
  ASSUME NEW k
  PROVE  /\ (\A w \in Workers : ~Working(w, k)) =>
              Stage(k) = LostStage(job[k].status, runs[k].completed)
         /\ (\A w \in Workers : ~Working(w, k)') =>
              Stage(k)' = LostStage(job'[k].status, runs'[k].completed)
  BY DEF Stage, LostStage, At, Working, Busy


\* A step that leaves a job's row and its worker alone leaves its stage alone.
LEMMA StageStays ==
  ASSUME IInv, IInv', NEW k \in Jobs, k # None,
         job'[k].status = job[k].status, runs'[k] = runs[k],
         \A w \in Workers :
           \/ worker'[w].pc = worker[w].pc /\ worker'[w].job = worker[w].job
           \/ ~Working(w, k) /\ ~Working(w, k)'
  PROVE  Stage(k)' = Stage(k)
  <1>1. ASSUME NEW w \in Workers, Working(w, k)
        PROVE  Stage(k)' = Stage(k)
    <2>1. worker'[w].pc = worker[w].pc /\ Working(w, k)'
      BY <1>1 DEF Working
    <2>2. QED
      BY <1>1, <2>1, StageHeld, StageHeldNext
  <1>2. CASE \A w \in Workers : ~Working(w, k)
    <2>1. \A w \in Workers : ~Working(w, k)'
      BY <1>2 DEF Working
    <2>2. QED
      BY <1>2, <2>1, StageUnheld
  <1>3. QED
    BY <1>1, <1>2

\* A worker that leaves its job, by an error, a stop or a crash, leaves behind an
\* attempt that is missed, unless its command had exited with 0.
LEMMA QuietLife ==
  ASSUME JobsAssumption, IInv, IInv', NEW k \in Jobs, k # None,
         SameRows, UNCHANGED <<audit, runs>>, \A w \in Workers : Same(w)
  PROVE  [Life(k)!Next]_(Life(k)!vars)
  <1>1. /\ job'[k].status = job[k].status /\ job'[k].attempts = job[k].attempts
        /\ runs'[k] = runs[k]
    BY DEF SameRows
  <1>2. ASSUME NEW w \in Workers, Working(w, k), ~Working(w, k)'
        PROVE  [Life(k)!Next]_(Life(k)!vars)
    <2>1. Stage(k) = StageAt(worker[w].pc)
      BY <1>2, StageHeld
    <2>2. \A v \in Workers : ~Working(v, k)'
      <3>1. ASSUME NEW v \in Workers, v # w PROVE ~Working(v, k)'
        <4>1. ~Working(v, k)
          BY <1>2, <3>1 DEF IInv, OneHolder, Working
        <4>2. QED
          BY <4>1 DEF Same, Working, Idle, Busy
      <3>2. QED
        BY <1>2, <3>1
    <2>3. Stage(k)' = LostStage(job[k].status, runs[k].completed)
      BY <1>1, <2>2, StageUnheld
    <2>4. /\ job[k].status = "running"
          /\ worker[w].pc = "succeeding" => runs[k].completed = 1
          /\ worker[w].pc # "succeeding" => runs[k].completed = 0
      BY <1>2 DEF IInv, WorkersKnow, Knows, Working, Busy
    <2>5. QED
      BY <1>1, <1>2, <2>1, <2>3, <2>4 DEF StageAt, LostStage, Working, Busy,
         Life!Next, Life!Miss, Life!Goes, Life!vars
  <1>3. CASE \A w \in Workers : Working(w, k) => Working(w, k)'
    <2>1. ASSUME NEW w \in Workers
          PROVE  \/ worker'[w].pc = worker[w].pc /\ worker'[w].job = worker[w].job
                 \/ ~Working(w, k) /\ ~Working(w, k)'
      BY <1>3 DEF Same, Working, Idle, Busy
    <2>2. Stage(k)' = Stage(k)
      BY <1>1, <2>1, StageStays
    <2>3. QED
      BY <1>1, <2>2 DEF Life!vars
  <1>4. QED
    BY <1>2, <1>3

\* The claim query takes no attempt yet.
LEMMA ClaimLife ==
  ASSUME JobsAssumption, IInv, IInv', NEW w \in Workers, Claim(w),
         NEW k \in Jobs, k # None
  PROVE  UNCHANGED Life(k)!vars
  <1>1. UNCHANGED <<job, audit, runs>>
    BY DEF Claim
  <1>2. \A v \in Workers \ {w} : worker'[v] = worker[v]
    BY DEF Claim, IInv, TypeOK
  <1>3. worker[w].pc = "query" /\ worker'[w].pc = "claiming"
    BY DEF Claim, IInv, TypeOK, WorkerState
  <1>4. Stage(k)' = Stage(k)
    BY <1>1, <1>2, <1>3, StageStays DEF Working, Busy
  <1>5. QED
    BY <1>1, <1>4 DEF Life!vars

\* A row of the audit table is its four counters.
LEMMA LogIs ==
  ASSUME TypeOK, TypeOK', NEW k \in Jobs, NEW a, NEW b, NEW c, NEW d,
         Log(k, a, b, c, d)
  PROVE  audit'[k] = [started |-> a, retried |-> b, succeeded |-> c, failed |-> d]
  BY DEF Log, TypeOK, Events

\* What a worker does to its job is a step of that job's life, and none of any
\* other job's.
LEMMA WorkLife ==
  ASSUME JobsAssumption, IInv, IInv', NEW w \in Workers,
         \/ ClaimCommit(w) \/ RecordStarted(w) \/ Reject(w) \/ Launch(w)
         \/ CommandTimesOut(w) \/ MarkSucceeded(w) \/ MarkFailedOrRequeued(w)
         \/ CommandSucceeds(w) \/ CommandFails(w),
         NEW k \in Jobs, k # None
  PROVE  [Life(k)!Next]_(Life(k)!vars)
  <1> DEFINE j == worker[w].job
  <1> USE DEF IInv
  <1>1. /\ worker[w].pc \in {"claiming"} \cup Busy
        /\ j \in Jobs /\ Knows(w)
    BY Held DEF ClaimCommit, RecordStarted, Reject, Launch, CommandTimesOut,
       MarkSucceeded, MarkFailedOrRequeued, CommandSucceeds, CommandFails,
       Busy, WorkersKnow
  <1>2. /\ \A v \in Workers \ {w} : worker'[v] = worker[v]
        /\ worker'[w].job \in {j, None}
        /\ \A i \in Jobs \ {j} : /\ job'[i] = job[i] /\ runs'[i] = runs[i]
                                /\ audit'[i] = audit[i]
    BY <1>1, ClaimCommitEffect, RecordStartedEffect, CommandEffect, MarkEffect
       DEF Row, Log, Ran, Goes, Drops
  <1>3. CASE k # j
    <2>1. Stage(k)' = Stage(k)
      BY <1>1, <1>2, <1>3, StageStays DEF Working
    <2>2. QED
      BY <1>2, <1>3, <2>1 DEF Life!vars
  <1>4. CASE k = j
    <2>1. /\ job[k].attempts \in Nat /\ MaxAttempts \in Nat
          /\ job[k].attempts <= MaxAttempts
          /\ runs[k].launched \in Nat /\ runs[k].completed \in Nat
          /\ audit[k] \in Events
      BY DEF TypeOK, JobRow, AttemptsAccounted, JobsAssumption
    <2>2. worker[w].pc \in Busy => Stage(k) = StageAt(worker[w].pc)
      BY <1>4, StageHeld DEF Working
    <2>3. \A pc \in Busy : Goes(w, pc) => Stage(k)' = StageAt(pc)
      BY <1>4, StageHeldNext DEF Working, Goes
    <2>4. Drops(w) => Stage(k)' = LostStage(job'[k].status, runs'[k].completed)
      <3>1. SUFFICES ASSUME Drops(w) PROVE \A v \in Workers : ~Working(v, k)'
        BY StageUnheld
      <3>2. \A v \in Workers \ {w} : worker[v].job # k
        BY <1>1, <1>4 DEF OneHolder
      <3>3. QED
        BY <3>1, <3>2 DEF Drops, Working
    <2>5. CASE ClaimCommit(w)
      <3>1. /\ job[k].status = "queued" /\ job[k].attempts < MaxAttempts
            /\ worker[w].pc = "claiming"
        BY <1>1, <1>4, <2>5 DEF ClaimCommit, Knows, Claimable
      <3>2. Stage(k) = "queued"
        BY <3>1 DEF Stage
      <3>3. Stage(k)' = "begun" /\ job'[k].attempts = job[k].attempts + 1
            /\ runs' = runs /\ audit' = audit
        BY <1>4, <2>3, <2>5, ClaimCommitEffect DEF StageAt, Busy, Row
      <3>4. QED
        BY <3>1, <3>2, <3>3 DEF Life!Next, Life!Begin, Life!Goes
    <2>6. CASE RecordStarted(w)
      <3>1. Stage(k) = "begun"
        BY <2>2, <2>6 DEF RecordStarted, StageAt, Busy
      <3>2. Stage(k)' = "begun" /\ job' = job /\ runs' = runs
        BY <2>3, <2>6, RecordStartedEffect DEF StageAt, Busy
      <3>3. audit[k].started < job[k].attempts
        BY <1>1, <1>4, <2>6 DEF RecordStarted, Knows
      <3>4. Log(k, audit[k].started + 1, audit[k].retried, audit[k].succeeded,
                audit[k].failed)
        BY <1>4, <2>6, RecordStartedEffect
      <3>5. audit'[k] = [audit[k] EXCEPT !.started = @ + 1]
        BY <2>1, <3>4, LogIs DEF Events
      <3>6. QED
        BY <3>1, <3>2, <3>3, <3>5 DEF Life!Next, Life!Announce
    <2>7. CASE Launch(w)
      <3>1. Stage(k) = "begun"
        BY <2>2, <2>7 DEF Launch, StageAt, Busy
      <3>2. Stage(k)' = "running" /\ job' = job /\ audit' = audit
            /\ runs'[k].launched = runs[k].launched + 1
        BY <1>4, <2>3, <2>7, CommandEffect DEF StageAt, Busy, Ran
      <3>3. runs[k].launched < audit[k].started
        BY <1>1, <1>4, <2>7 DEF Launch, Knows
      <3>4. QED
        BY <3>1, <3>2, <3>3 DEF Life!Next, Life!Launch, Life!Goes
    <2>8. CASE CommandSucceeds(w)
      <3>1. Stage(k) = "running"
        BY <2>2, <2>8 DEF CommandSucceeds, StageAt, Busy
      <3>2. Stage(k)' = "completed" /\ job' = job /\ audit' = audit
            /\ runs'[k].launched = runs[k].launched
        BY <1>4, <2>3, <2>8, CommandEffect DEF StageAt, Busy, Ran
      <3>3. QED
        BY <3>1, <3>2 DEF Life!Next, Life!Complete, Life!Goes
    <2>9. CASE Reject(w) \/ CommandFails(w) \/ CommandTimesOut(w)
      <3>1. Stage(k) \in {"begun", "running"}
        BY <2>2, <2>9 DEF Reject, CommandFails, CommandTimesOut, StageAt, Busy
      <3>2. Stage(k)' = "missed" /\ UNCHANGED <<job, runs, audit>>
        BY <2>3, <2>9, CommandEffect DEF StageAt, Busy
      <3>3. QED
        BY <3>1, <3>2 DEF Life!Next, Life!Miss, Life!Goes
    <2>10. CASE MarkSucceeded(w)
      <3>1. Stage(k) = "completed"
        BY <2>2, <2>10 DEF MarkSucceeded, StageAt, Busy
      <3>2. /\ job'[k].status = "succeeded" /\ runs' = runs
            /\ job'[k].attempts = job[k].attempts
        BY <1>4, <2>10, MarkEffect DEF Row
      <3>3. Stage(k)' = "succeeded"
        BY <3>2 DEF Stage
      <3>4. Log(k, audit[k].started, audit[k].retried, audit[k].succeeded + 1,
                audit[k].failed)
        BY <1>4, <2>10, MarkEffect
      <3>5. audit'[k] = [audit[k] EXCEPT !.succeeded = @ + 1]
        BY <2>1, <3>4, LogIs DEF Events
      <3>6. QED
        BY <3>1, <3>2, <3>3, <3>5 DEF Life!Next, Life!Succeed, Life!Goes
    <2>11. CASE MarkFailedOrRequeued(w)
      <3>1. Stage(k) = "missed"
        BY <2>2, <2>11 DEF MarkFailedOrRequeued, StageAt, Busy
      <3>2. /\ runs' = runs /\ job'[k].attempts = job[k].attempts
            /\ IF job[k].attempts < MaxAttempts THEN job'[k].status = "queued"
               ELSE job'[k].status = "failed"
        BY <1>4, <2>11, MarkEffect DEF Row
      <3>3. Stage(k)' = job'[k].status
        BY <3>2 DEF Stage
      <3>4. CASE job[k].attempts < MaxAttempts
        <4>1. Log(k, audit[k].started, audit[k].retried + 1, audit[k].succeeded,
                  audit[k].failed)
          BY <1>4, <2>11, <3>4, MarkEffect
        <4>2. audit'[k] = [audit[k] EXCEPT !.retried = @ + 1]
          BY <2>1, <4>1, LogIs DEF Events
        <4>3. QED
          BY <3>1, <3>2, <3>3, <3>4, <4>2 DEF Life!Next, Life!Retry, Life!Goes
      <3>5. CASE ~(job[k].attempts < MaxAttempts)
        <4>1. Log(k, audit[k].started, audit[k].retried, audit[k].succeeded,
                  audit[k].failed + 1)
          BY <1>4, <2>11, <3>5, MarkEffect
        <4>2. audit'[k] = [audit[k] EXCEPT !.failed = @ + 1]
          BY <2>1, <4>1, LogIs DEF Events
        <4>3. job[k].attempts = MaxAttempts
          BY <2>1, <3>5
        <4>4. QED
          BY <3>1, <3>2, <3>3, <3>5, <4>2, <4>3 DEF Life!Next, Life!GiveUp, Life!Goes
      <3>6. QED
        BY <3>4, <3>5
    <2>12. QED
      BY <2>5, <2>6, <2>7, <2>8, <2>9, <2>10, <2>11
  <1>5. QED
    BY <1>3, <1>4

LEMMA EnqueueLife ==
  ASSUME JobsAssumption, IInv, IInv', NEW j \in Jobs, Enqueue(j),
         NEW k \in Jobs, k # None
  PROVE  [Life(k)!Next]_(Life(k)!vars)
  <1>1. Row(j, "queued", job[j].attempts) /\ UNCHANGED <<audit, runs, worker>>
    BY EnqueueEffect DEF IInv
  <1>2. CASE k = j
    <2>1. Stage(k) = "absent" /\ Stage(k)' = "queued"
      BY <1>1, <1>2 DEF Stage, Enqueue, Row
    <2>2. QED
      BY <1>1, <1>2, <2>1 DEF Row, Life!Next, Life!Submit, Life!Goes
  <1>3. CASE k # j
    <2>1. job'[k] = job[k]
      BY <1>1, <1>3 DEF Row
    <2>2. Stage(k)' = Stage(k)
      BY <1>1, <2>1, StageStays
    <2>3. QED
      BY <1>1, <2>1, <2>2 DEF Life!vars
  <1>4. QED
    BY <1>2, <1>3

LEMMA LifeStep ==
  ASSUME JobsAssumption, IInv, [Next]_vars, NEW k \in Jobs
  PROVE  [Life(k)!Next]_(Life(k)!vars)
  <1>1. IInv'
    BY NextIInv
  <1>2. k # None
    BY DEF JobsAssumption
  <1>3. CASE \/ \E w \in Workers : \/ Poll(w) \/ NothingDue(w)
                                  \/ StartWorker(w) \/ DatabaseError(w)
             \/ \E p \in Processes : StopWorker(p) \/ Crash(p)
             \/ Tick
             \/ UNCHANGED vars
    <2>1. SameRows /\ UNCHANGED <<audit, runs>>
      BY <1>3, QuietEffect DEF IInv
    <2>2. \A v \in Workers : Same(v)
      BY <1>3, SameOrIdle DEF IInv
    <2>3. QED
      BY <1>1, <1>2, <2>1, <2>2, QuietLife
  <1>4. QED
    BY <1>1, <1>2, <1>3, ClaimLife, WorkLife, EnqueueLife DEF Next, Step, Command

\* AdminJobs implements JobLife for every job: no number of threads and
\* processes, no failed commit, crash or stop, and no other job shows in it.
THEOREM EachJobLivesAlone == Spec => JobsLiveAlone
  <1>1. Init => \A j \in Jobs : Life(j)!Init
    BY DEF Init, Life!Init, Stage, Absent, NoEvents
  <1>2. IInv /\ [Next]_vars =>
          [\A j \in Jobs : [Life(j)!Next]_(Life(j)!vars)]_vars
    BY LifeStep, JobsAssumption
  <1>3. QED
    BY <1>1, <1>2, Inductive, PTL DEF Spec, JobsLiveAlone
=============================================================================
