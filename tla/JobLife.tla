-------------------------------- MODULE JobLife --------------------------------
(***************************************************************************)
(* What whoever enqueues a job may rely on: its life, told of one job as   *)
(* if it were alone, without workers, locks, leases or commits.  It is     *)
(* attempted, a command at a time and MaxAttempts times at most, until a   *)
(* command has exited with 0 or no attempt is left; and an attempt that    *)
(* nobody finishes stays where it is.  Its log has an event for every      *)
(* launch, before it, and one for every outcome, with it.                  *)
(***************************************************************************)
EXTENDS Naturals

CONSTANT MaxAttempts

VARIABLES
  stage,    \* how far the job is, and in an attempt how far that is
  attempt,  \* attempts begun
  launched, \* commands launched
  log       \* how many events of each kind were logged

vars == <<stage, attempt, launched, log>>

-----------------------------------------------------------------------------
Init ==
  /\ stage = "absent" /\ attempt = 0 /\ launched = 0
  /\ log = [started |-> 0, retried |-> 0, succeeded |-> 0, failed |-> 0]

Goes(from, to) == stage = from /\ stage' = to

Submit == Goes("absent", "queued") /\ UNCHANGED <<attempt, launched, log>>

Begin ==
  /\ Goes("queued", "begun")
  /\ attempt < MaxAttempts /\ attempt' = attempt + 1
  /\ UNCHANGED <<launched, log>>

\* Once in an attempt at most.
Announce ==
  /\ stage = "begun" /\ log.started < attempt
  /\ log' = [log EXCEPT !.started = @ + 1]
  /\ UNCHANGED <<stage, attempt, launched>>

Launch ==
  /\ Goes("begun", "running")
  /\ launched < log.started /\ launched' = launched + 1
  /\ UNCHANGED <<attempt, log>>

\* The command exits with 0; nothing can undo that.
Complete ==
  Goes("running", "completed") /\ UNCHANGED <<attempt, launched, log>>

\* The attempt fails, before its command is launched or after, or is lost.
Miss ==
  /\ Goes("begun", "missed") \/ Goes("running", "missed")
  /\ UNCHANGED <<attempt, launched, log>>

Retry ==
  /\ Goes("missed", "queued")
  /\ attempt < MaxAttempts
  /\ log' = [log EXCEPT !.retried = @ + 1]
  /\ UNCHANGED <<attempt, launched>>

GiveUp ==
  /\ Goes("missed", "failed")
  /\ attempt = MaxAttempts
  /\ log' = [log EXCEPT !.failed = @ + 1]
  /\ UNCHANGED <<attempt, launched>>

Succeed ==
  /\ Goes("completed", "succeeded")
  /\ log' = [log EXCEPT !.succeeded = @ + 1]
  /\ UNCHANGED <<attempt, launched>>

Next ==
  \/ Submit \/ Begin \/ Announce \/ Launch \/ Complete \/ Miss \/ Retry
  \/ GiveUp \/ Succeed

Spec == Init /\ [][Next]_vars
=============================================================================
