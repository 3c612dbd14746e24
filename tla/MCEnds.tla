------------------------------- MODULE MCEnds -------------------------------
(* What must come to an end: the dispatch of stored notifications, the probe *)
(* of a submitted url, an enqueued job and a stopped worker.  As in MCOffice *)
(* the first state chooses a scene and the scene's component has the slots   *)
(* for its variables.                                                        *)
EXTENDS Naturals, Sequences

CONSTANT None

VARIABLES scene, s1, s2, s3, s4, s5, s6, s7, s8

vars == <<scene, s1, s2, s3, s4, s5, s6, s7, s8>>

-----------------------------------------------------------------------------
\* Nobody dies, and an event without a claim is never a duplicate.
Tried == INSTANCE Notifications WITH
  Types <- {"proposal_needs_triage"}, Claims <- {"c1"}, Accounts <- {"a1"},
  Tested <- {"a1"}, Requests <- {"q1", "q2"}, Dispatchers <- {"d1", "d2"},
  Crashes <- FALSE,
  row <- s1, req <- s2, disp <- s3, admins <- s4, transport <- s5, met <- s6,
  told <- s7, chosen <- s8

\* Two pages that answer anything, and fewer requests than a tour of them
\* with fallbacks from HEAD to GET would take.
Probe == INSTANCE UrlProbe WITH
  Targets <- {"p1", "p2"}, MaxRequests <- 4,
  web <- s1, start <- s2, at <- s3, method <- s4, hop <- s5, asked <- s6, result <- s7

Workers == {"w1", "w2"}

TwoProcesses == [w \in Workers |-> IF w = "w1" THEN "p1" ELSE "p2"]
OneProcess == [w \in Workers |-> "p1"]

\* Two processes with a worker each share two jobs, and nothing fails.
Queue == INSTANCE AdminJobs WITH
  Processes <- {"p1", "p2"}, Jobs <- {"j1", "j2"},
  ProcessOf <- TwoProcesses,
  MaxAttempts <- 2, ShortDelay <- 1, LongDelay <- 2, Timeout <- 1, Lease <- 2,
  Faults <- {}, MaxFaults <- 0,
  job <- s1, audit <- s2, worker <- s3, handle <- s4, runs <- s5, faults <- s6

\* One process with two threads, a stopped one and its successor, where
\* statements and commits fail.
Stopped == INSTANCE AdminJobs WITH
  Processes <- {"p1"}, Jobs <- {"j1"}, ProcessOf <- OneProcess,
  MaxAttempts <- 2, ShortDelay <- 1, LongDelay <- 2, Timeout <- 1, Lease <- 2,
  Faults <- {"stop", "database"}, MaxFaults <- 2,
  job <- s1, audit <- s2, worker <- s3, handle <- s4, runs <- s5, faults <- s6

ASSUME Assumptions ==
  /\ Tried!NotificationsAssumption /\ Probe!ProbeAssumption
  /\ Queue!JobsAssumption /\ Stopped!JobsAssumption

-----------------------------------------------------------------------------
Init ==
  \/ scene = "tried" /\ Tried!Init
  \/ scene = "probe" /\ Probe!Init /\ s8 = None
  \/ scene = "queue" /\ Queue!Init /\ s7 = None /\ s8 = None
  \/ scene = "stopped" /\ Stopped!Init /\ s7 = None /\ s8 = None

\* One dispatcher thread's next step.
Dispatch(d) == scene = "tried" /\ Tried!Dispatch(d) /\ UNCHANGED scene

ProbeStep == scene = "probe" /\ Probe!Next /\ UNCHANGED <<scene, s8>>

\* What a worker thread does by itself.
Work(w) ==
  /\ \/ scene = "queue" /\ Queue!Step(w)
     \/ scene = "stopped" /\ Stopped!Step(w)
  /\ UNCHANGED <<scene, s7, s8>>

\* The first worker, or one after a worker was stopped.
Start(p) ==
  /\ \/ scene = "queue" /\ \E w \in Workers :
          TwoProcesses[w] = p /\ Queue!StartWorker(w)
     \/ scene = "stopped" /\ \E w \in Workers :
          OneProcess[w] = p /\ Stopped!StartWorker(w)
  /\ UNCHANGED <<scene, s7, s8>>

TimePasses ==
  /\ \/ scene = "queue" /\ Queue!Tick
     \/ scene = "stopped" /\ Stopped!Tick
  /\ UNCHANGED <<scene, s7, s8>>

\* A probe is over.
Ended == scene = "probe" /\ UNCHANGED vars

Next ==
  \/ scene = "tried" /\ Tried!Next /\ UNCHANGED scene
  \/ ProbeStep
  \/ scene = "queue" /\ Queue!Next /\ UNCHANGED <<scene, s7, s8>>
  \/ scene = "stopped" /\ Stopped!Next /\ UNCHANGED <<scene, s7, s8>>
  \/ Ended

\* A dispatcher thread that was started runs unless it hangs (Hang is a step of
\* its own, and nothing leads on from it), and a probe's requests time out.
\* Worker threads are scheduled, time passes, and a process without a worker
\* starts one; a command need not end by itself.
Spec ==
  /\ Init /\ [][Next]_vars
  /\ \A d \in {"d1", "d2"} : WF_vars(Dispatch(d))
  /\ WF_vars(ProbeStep)
  /\ \A w \in Workers : WF_vars(Work(w))
  /\ \A p \in {"p1", "p2"} : WF_vars(Start(p))
  /\ WF_vars(TimePasses)

-----------------------------------------------------------------------------
\* Without crashes a stored notification is tried, unless a thread that has
\* it in its batch hangs.
EveryRowIsTried ==
  \A k \in Tried!Keys :
    (scene = "tried" /\ s1[k] = "pending")
      ~> \/ scene = "tried" /\ s1[k] \in {"sent", "failed"}
         \/ \E d \in {"d1", "d2"} :
              /\ scene = "tried" /\ s3[d].pc = "hung"
              /\ k \in s3[d].todo \cup s3[d].sent \cup s3[d].failed

\* Every probe ends, whatever the pages answer.
ProbeEnds == scene = "probe" => <>(scene = "probe" /\ s7 # "none")

\* Every enqueued job ends, in success or in failure, where nothing breaks.
EveryJobEnds ==
  \A j \in {"j1", "j2"} :
    (scene = "queue" /\ s1[j].status = "queued")
      ~> (scene = "queue" /\ Queue!Ended(j))

\* A thread told to stop stops, its job, if it has one, being its last.
StopsWhenTold ==
  \A w \in Workers :
    (scene = "stopped" /\ s3[w].stop)
      ~> (scene = "stopped" /\ s3[w].pc = "off")
=============================================================================
