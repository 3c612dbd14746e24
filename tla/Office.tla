------------------------------- MODULE Office -------------------------------
(***************************************************************************)
(* What people do: notifications, intake profiles, the jobs that run them, *)
(* dual control, API keys and review drafts.  These parts share no state,  *)
(* so each has a scene of its own: the first state chooses a scene, its    *)
(* component alone moves, and every property is about one scene.           *)
(***************************************************************************)
EXTENDS Notifications

CONSTANTS
  Ids, Contents, Readers, MaxVersion,   \* of IntakeProfiles
  Editor,                               \* the request of the serial scene
  Editors, Contested, Faults,           \* requests, ids and faults of the other
  Jobs, Profiles, Batches, Modules, Kinds, Allowlisted, PlainModule, DryTypes,
  Committed, MaxAttempts, Edits,        \* of JobResolution
  People, Actions, AdminActions, AccessTTL, ApprovalTTL,  \* of Access
  ApiRows, Clients,                     \* of ApiKeys
  RowLists, MaxSources, Degraded        \* of ReviewDrafts

VARIABLES
  scene,                                       \* the component that moves
  file, tmp, cache, edit, rdr, audit, held,    \* of IntakeProfiles
  profiles, jobs, launched, answer,            \* of JobResolution
  people, access, approval, operation,         \* of Access
  key, client,                                 \* of ApiKeys
  rows, fetched, pc, complex, primary, second, tried, draft  \* of ReviewDrafts

fileVars == <<file, tmp, cache, edit, rdr, audit, held>>
jobVars == <<profiles, jobs, launched, answer>>
controlVars == <<people, access, approval, operation>>
keyVars == <<key, client>>
draftVars == <<rows, fetched, pc, complex, primary, second, tried, draft>>

officeVars == <<scene, vars, fileVars, jobVars, controlVars, keyVars, draftVars>>

-----------------------------------------------------------------------------
\* One admin at a time and nothing fails; several admins, and what may fail.
Serial == INSTANCE IntakeProfiles WITH
  Requests <- {Editor}, Faults <- {}, req <- edit

Faulty == INSTANCE IntakeProfiles WITH
  Ids <- Contested, Requests <- Editors, req <- edit

Resolution == INSTANCE JobResolution

Control == INSTANCE Access WITH req <- operation

ApiAccess == INSTANCE ApiKeys WITH Keys <- ApiRows

Drafts == INSTANCE ReviewDrafts

ASSUME OfficeAssumption ==
  /\ NotificationsAssumption
  /\ Serial!ProfilesAssumption /\ Faulty!ProfilesAssumption
  /\ Resolution!ResolutionAssumption
  /\ Control!AccessAssumption /\ ApiAccess!KeysAssumption
  /\ Drafts!DraftsAssumption

-----------------------------------------------------------------------------
Scenes == {"notices", "serial", "faulty", "jobs", "control", "keys", "drafts"}

\* The variables of a scene that was not chosen have no value.
NoFile ==
  /\ file = None /\ tmp = None /\ cache = None /\ edit = None /\ rdr = None
  /\ audit = None /\ held = None

NoJobs == profiles = None /\ jobs = None /\ launched = None /\ answer = None

NoPeople == people = None /\ access = None /\ approval = None /\ operation = None

NoDraft ==
  /\ rows = None /\ fetched = None /\ pc = None /\ complex = None
  /\ primary = None /\ second = None /\ tried = None /\ draft = None

OfficeInit ==
  /\ scene \in Scenes
  /\ Init
  /\ CASE scene = "serial" -> Serial!Init
       [] scene = "faulty" -> Faulty!Init
       [] OTHER -> NoFile
  /\ IF scene = "jobs" THEN Resolution!Init ELSE NoJobs
  /\ IF scene = "control" THEN Control!Init ELSE NoPeople
  /\ IF scene = "keys" THEN ApiAccess!Init ELSE key = None /\ client = None
  /\ IF scene = "drafts" THEN Drafts!Init ELSE NoDraft

\* Version counters and attempts come to their bounds, and a draft is over.
Ended ==
  /\ scene \in {"serial", "faulty", "jobs", "drafts"}
  /\ UNCHANGED officeVars

OfficeNext ==
  \/ /\ scene = "notices" /\ Next
     /\ UNCHANGED <<scene, fileVars, jobVars, controlVars, keyVars, draftVars>>
  \/ /\ scene = "serial" /\ Serial!Next
     /\ UNCHANGED <<scene, vars, jobVars, controlVars, keyVars, draftVars>>
  \/ /\ scene = "faulty" /\ Faulty!Next
     /\ UNCHANGED <<scene, vars, jobVars, controlVars, keyVars, draftVars>>
  \/ /\ scene = "jobs" /\ Resolution!Next
     /\ UNCHANGED <<scene, vars, fileVars, controlVars, keyVars, draftVars>>
  \/ /\ scene = "control" /\ Control!Next
     /\ UNCHANGED <<scene, vars, fileVars, jobVars, keyVars, draftVars>>
  \/ /\ scene = "keys" /\ ApiAccess!Next
     /\ UNCHANGED <<scene, vars, fileVars, jobVars, controlVars, draftVars>>
  \/ /\ scene = "drafts" /\ Drafts!Next
     /\ UNCHANGED <<scene, vars, fileVars, jobVars, controlVars, keyVars>>
  \/ Ended

OfficeSpec == OfficeInit /\ [][OfficeNext]_officeVars

-----------------------------------------------------------------------------
\* Every component's variables have their types.
OfficeTypeOK ==
  /\ TypeOK
  /\ scene = "serial" => Serial!TypeOK
  /\ scene = "faulty" => Faulty!TypeOK
  /\ scene = "jobs" => Resolution!TypeOK
  /\ scene = "control" => Control!TypeOK
  /\ scene = "keys" => ApiAccess!TypeOK
  /\ scene = "drafts" => Drafts!TypeOK

\* What the profile file says and what audit events report agree.
AuditMatchesFile == scene = "serial" => Serial!AuditMatchesFile

\* What a job reads was in the file, whatever failed.
CachedWasHeld == scene = "faulty" => Faulty!CachedWasHeld

\* Every script that was started is on the allowlist of its job's type, and a
\* job whose profile nobody edits runs what was checked when it was queued.
RunsWhatWasQueued == scene = "jobs" => Resolution!RunsWhatWasQueued

\* A request that the metadata endpoint offers names a script.
OfferedResolves == scene = "jobs" => Resolution!OfferedResolves

\* An operation under dual control takes two people, in roles they have.
NobodyActsAlone == scene = "control" => Control!NobodyActsAlone

\* A revoked key never works again.
RevokedStaysRevoked ==
  [][scene = "keys" =>
       \A k \in ApiRows : key[k].exists /\ ~key[k].active => ~key'[k].active]_officeVars

\* A draft in the green lane is positive, live, and read from both classes.
GreenIsSafe == scene = "drafts" => Drafts!GreenIsSafe

\* No draft is green on one model's word where the second could be asked.
GreenWasReadTwice == scene = "drafts" => Drafts!GreenWasReadTwice
=============================================================================
