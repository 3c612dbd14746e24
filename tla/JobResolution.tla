---------------------------- MODULE JobResolution ----------------------------
(***************************************************************************)
(* Which script an admin job runs (admin_job_service.py,                   *)
(* core/admin_job_allowlist.py, core/intake_profiles.py).  The script comes *)
(* from a profile that admins edit, is resolved when the job is queued, and *)
(* is resolved again, from the profile of that moment, by the worker; the   *)
(* allowlist is a file of the release.  AdminJobs models leases and retries, *)
(* IntakeProfiles how the profiles are written.                             *)
(***************************************************************************)
EXTENDS Naturals, FiniteSets

CONSTANTS
  Jobs,         \* rows of admin_job_runs
  Profiles,     \* profile ids
  Batches,      \* statement batch keys
  Modules,      \* scripts a profile may name
  Kinds,        \* which of the job types below exist
  Allowlisted,  \* the modules of each job type in the allowlist
  PlainModule,  \* what the job type without a profile runs
  DryTypes,     \* job types that support dry_run
  Committed,    \* the profiles of the release
  MaxAttempts,  \* attempts of a job
  Edits,        \* whether admins edit profiles
  None          \* no value

\* roster_seed_module, statement_batch_modules, admin_job_modules.
Profile == [roster : Modules,
            batches : {b \in [Batches -> Modules \cup {None}] :
                         \E k \in Batches : b[k] # None},
            extract : Modules \cup {None}]

ResolutionAssumption ==
  /\ None \notin Profiles /\ None \notin {"script", "resolution"}
  /\ None \notin Modules \cup {PlainModule}
  /\ Kinds \subseteq {"roster", "batch", "extract", "map"}
  /\ Allowlisted \in [Kinds -> SUBSET (Modules \cup {PlainModule})]
  /\ Committed \in [Profiles -> Profile \cup {None}]
  /\ MaxAttempts \in Nat \ {0}

VARIABLES
  profiles,  \* what get_intake_profiles_config returns
  jobs,      \* the rows
  launched,  \* history: the scripts the worker started, and for which row
  answer     \* history: the last request to enqueue and its answer

vars == <<profiles, jobs, launched, answer>>

-----------------------------------------------------------------------------
\* The allowlist has six types like "extract".
JobTypes == {"roster", "batch", "extract", "map"}

\* dry is what the payload says, None when it says nothing.
Request == [type : Kinds, profile : Profiles \cup {None},
            batch : Batches \cup {None}, dry : BOOLEAN \cup {None}]

Exists(ps) == {p \in Profiles : ps[p] # None}

\* _normalize_input_payload: the fields of the schema, all of them and no other.
WellFormed(r) ==
  /\ r.profile # None <=> r.type # "map"
  /\ r.batch # None <=> r.type = "batch"
  /\ r.dry # None => r.type \in DryTypes

Dry(r) == r.dry = TRUE

\* _resolve_job_module; None is job_input_invalid.
Resolve(ps, r) ==
  IF r.type = "map" THEN PlainModule
  ELSE IF r.profile \notin Exists(ps) THEN None
  ELSE CASE r.type = "roster" -> ps[r.profile].roster
         [] r.type = "batch" -> ps[r.profile].batches[r.batch]
         [] OTHER -> ps[r.profile].extract

\* Mutant: every profile is offered for every job type.
OfferedEverywhere(ps) ==
  {r \in Request : /\ WellFormed(r)
                   /\ r.profile # None => r.profile \in Exists(ps)
                   /\ r.type = "batch" => ps[r.profile].batches[r.batch] # None}

\* What get_job_metadata offers: all profiles for rosters and batches with the
\* batches of each, the profiles that name a script for the other types.
Offered(ps) ==
  {r \in Request : /\ WellFormed(r)
                   /\ r.profile # None => r.profile \in Exists(ps)
                   /\ r.type = "batch" => ps[r.profile].batches[r.batch] # None
                   /\ r.type = "extract" => ps[r.profile].extract # None}

NoJob == [status |-> "none", request |-> None, module |-> None,
          attempts |-> 0, edited |-> FALSE, error |-> None]

NoAnswer == [status |-> "none", offered |-> FALSE]

-----------------------------------------------------------------------------
\* The worker reads whatever profile is there when it comes to the job: the
\* rows of that profile are marked.
EditProfile(p, content) ==
  /\ Edits /\ content # profiles[p]
  /\ profiles' = [profiles EXCEPT ![p] = content]
  /\ jobs' = [j \in Jobs |->
       IF jobs[j].status # "none" /\ jobs[j].request.profile = p
       THEN [jobs[j] EXCEPT !.edited = TRUE] ELSE jobs[j]]
  /\ UNCHANGED <<launched, answer>>

\* 422 job_input_invalid or job_type_not_allowed.
EnqueueInvalid(r) ==
  /\ WellFormed(r) => Resolve(profiles, r) = None
  /\ answer' = [status |-> "invalid", offered |-> r \in Offered(profiles)]
  /\ UNCHANGED <<profiles, jobs, launched>>

\* 409 job_module_not_allowlisted.
EnqueueNotAllowlisted(r) ==
  /\ WellFormed(r) /\ Resolve(profiles, r) # None
  /\ Resolve(profiles, r) \notin Allowlisted[r.type]
  /\ answer' = [status |-> "refused", offered |-> r \in Offered(profiles)]
  /\ UNCHANGED <<profiles, jobs, launched>>

\* The row keeps the normalised payload and not the module.
Enqueue(j, r) ==
  LET m == Resolve(profiles, r) IN
  /\ jobs[j].status = "none"
  /\ WellFormed(r) /\ m # None /\ m \in Allowlisted[r.type]
  /\ jobs' = [jobs EXCEPT ![j] =
       [status |-> "queued", request |-> r, module |-> m,
        attempts |-> 0, edited |-> FALSE, error |-> None]]
  /\ answer' = [status |-> "queued", offered |-> r \in Offered(profiles)]
  /\ UNCHANGED <<profiles, launched>>

\* Mutant: one attempt too many.
AfterFailureOnceMore(n) == IF n <= MaxAttempts THEN "queued" ELSE "failed"

\* _mark_failed_or_requeued after attempt n.
AfterFailure(n) == IF n < MaxAttempts THEN "queued" ELSE "failed"

\* Mutant: the module that was checked is the queued one.
LaunchUnchecked(j, ok) ==
  LET r == jobs[j].request
      m == Resolve(profiles, r)
      n == jobs[j].attempts + 1 IN
  /\ jobs[j].status = "queued"
  /\ m # None /\ jobs[j].module \in Allowlisted[r.type]
  /\ launched' = launched \cup {[job |-> j, module |-> m, dry |-> Dry(r)]}
  /\ jobs' = [jobs EXCEPT ![j].attempts = n,
       ![j].status = IF ok THEN "succeeded" ELSE AfterFailure(n),
       ![j].error = IF ok THEN None ELSE "script"]
  /\ UNCHANGED <<profiles, answer>>

\* run_next_due_job: the script starts and ends well or not.
Launch(j, ok) ==
  LET r == jobs[j].request
      m == Resolve(profiles, r)
      n == jobs[j].attempts + 1 IN
  /\ jobs[j].status = "queued"
  /\ m # None /\ m \in Allowlisted[r.type]
  /\ launched' = launched \cup {[job |-> j, module |-> m, dry |-> Dry(r)]}
  /\ jobs' = [jobs EXCEPT ![j].attempts = n,
       ![j].status = IF ok THEN "succeeded" ELSE AfterFailure(n),
       ![j].error = IF ok THEN None ELSE "script"]
  /\ UNCHANGED <<profiles, answer>>

\* run_next_due_job: the profile no longer names a script that may run.
LaunchRefused(j) ==
  LET r == jobs[j].request
      m == Resolve(profiles, r)
      n == jobs[j].attempts + 1 IN
  /\ jobs[j].status = "queued"
  /\ m = None \/ m \notin Allowlisted[r.type]
  /\ jobs' = [jobs EXCEPT ![j].attempts = n, ![j].status = AfterFailure(n),
                          ![j].error = "resolution"]
  /\ UNCHANGED <<profiles, launched, answer>>

Init ==
  /\ profiles = Committed
  /\ jobs = [j \in Jobs |-> NoJob]
  /\ launched = {} /\ answer = NoAnswer

Next ==
  \/ \E p \in Profiles, c \in Profile : EditProfile(p, c)
  \/ \E r \in Request : EnqueueInvalid(r) \/ EnqueueNotAllowlisted(r)
  \/ \E j \in Jobs, r \in Request : Enqueue(j, r)
  \/ \E j \in Jobs, ok \in BOOLEAN : Launch(j, ok)
  \/ \E j \in Jobs : LaunchRefused(j)

Spec == Init /\ [][Next]_vars

-----------------------------------------------------------------------------
\* The variables have their types.
TypeOK ==
  /\ \A p \in Profiles : profiles[p] \in Profile \cup {None}
  /\ \A j \in Jobs :
       /\ jobs[j].status \in {"none", "queued", "succeeded", "failed"}
       /\ jobs[j].status # "none" => jobs[j].request \in Request
       /\ jobs[j].attempts \in 0 .. MaxAttempts
  /\ \A l \in launched : l.job \in Jobs /\ l.module \in Modules \cup {PlainModule}
  /\ answer.status \in {"none", "invalid", "refused", "queued"}

\* However profiles were edited between the request and each attempt, every
\* script that was started is on the allowlist of its job's type.  As long as
\* nobody edits its profile, a queued job runs the script that was checked when
\* it was queued, with its dry_run, and is never refused.
RunsWhatWasQueued ==
  /\ \A l \in launched :
       /\ jobs[l.job].status # "none"
       /\ l.module \in Allowlisted[jobs[l.job].request.type]
  /\ \A l \in launched :
       /\ l.dry = Dry(jobs[l.job].request)
       /\ ~jobs[l.job].edited => l.module = jobs[l.job].module
  /\ \A j \in Jobs : jobs[j].error = "resolution" => jobs[j].edited

\* A request that the metadata endpoint offers at that moment names a script.
OfferedResolves == answer.offered => answer.status # "invalid"
=============================================================================
