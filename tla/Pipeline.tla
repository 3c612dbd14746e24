------------------------------ MODULE Pipeline ------------------------------
(***************************************************************************)
(* What happens to a claim's data: ingestion, evidence bundles, admission  *)
(* of sources, the probe of their urls, recommendations, the public pages  *)
(* and the rate limiter.  As in Office these parts share no state, so each *)
(* has a scene of its own: the first state chooses a scene, its component  *)
(* alone moves, and every property is about one scene.                     *)
(***************************************************************************)
EXTENDS Naturals, Sequences

CONSTANTS
  Names, Contexts, Texts, Hostile, SeedTexts, SentencesOf, Features,  \* of Ingestion
  Candidates, Roster, Statements, Processes,    \* with requests under way
  RowIds, WholeRoster, StatementIds, Process,   \* scripts by themselves
  BundleUrls, StatementUrl, Requests, Resync,   \* of EvidenceBundle
  Claims, Urls, PageType, Social, PartisanDomains, Publishers,
  PartisanPublishers, Reviewers, Inputs, Batches, Seeds, Legacy,
  Bulks,                                        \* of SourceAdmission
  Templates, Records, Bills, AnchorSets, MaxLimit,    \* of Recommendations
  PublicClaims, CandidateOf, IssueOf, SaidAt, Settled,
  LimitIssues,                                  \* of PublicPages
  Keys, Threads, Limit, Window, Second, MaxClock,     \* of RateLimiter
  Targets, MaxRequests,                         \* of UrlProbe
  None

VARIABLES
  scene,                                       \* the component that moves
  candidate, statement, claims, proc,          \* of Ingestion
  sources, bundle, links, txn,                 \* of EvidenceBundle
  rows, bulk, audit, script, backfill, batch, gone,
  cleaned,                                     \* of SourceAdmission
  about, attached, limit, pos, out, last,      \* of Recommendations
  claim, evidence, page, withdrawn,            \* of PublicPages
  clock, windows, thread, admitted, told,      \* of RateLimiter
  web, start, at, method, hop, asked, result   \* of UrlProbe

ingestionVars == <<candidate, statement, claims, proc>>
bundleVars == <<sources, bundle, links, txn>>
admissionVars == <<rows, bulk, audit, script, backfill, batch, gone, cleaned>>
linkVars == <<about, attached, limit, pos, out, last>>
pageVars == <<claim, evidence, page, withdrawn>>
limiterVars == <<clock, windows, thread, admitted, told>>
probeVars == <<web, start, at, method, hop, asked, result>>

vars == <<scene, ingestionVars, bundleVars, admissionVars, linkVars, pageVars,
          limiterVars, probeVars>>

-----------------------------------------------------------------------------
\* Admin requests of every kind beside scripts that may meet.
Intake == INSTANCE Ingestion WITH
  Seeds <- SeedTexts, Api <- {"create", "update", "statement", "extract"}

\* Scripts one after another, that die anywhere; ids for rows too many.
Scripts == INSTANCE Ingestion WITH
  Candidates <- RowIds, Roster <- WholeRoster, Statements <- StatementIds,
  Seeds <- SeedTexts, Processes <- {Process}, Api <- {}

\* One session after another, and requests that the backfill overlaps.
Bundle == INSTANCE EvidenceBundle WITH
  Urls <- BundleUrls, Script <- Resync, Overlap <- FALSE

Overlapped == INSTANCE EvidenceBundle WITH
  Urls <- BundleUrls, Script <- Resync, Overlap <- TRUE

Admission == INSTANCE SourceAdmission WITH Crashes <- TRUE

Links == INSTANCE Recommendations WITH claim <- about

Pages == INSTANCE PublicPages WITH
  Claims <- PublicClaims, Flags <- TRUE, sources <- evidence

Limiter == INSTANCE RateLimiter

Probe == INSTANCE UrlProbe

ASSUME PipelineAssumption ==
  /\ Intake!IngestionAssumption /\ Scripts!IngestionAssumption
  /\ Bundle!BundleAssumption /\ Overlapped!BundleAssumption
  /\ Admission!AdmissionAssumption /\ Links!LinksAssumption
  /\ Pages!PagesAssumption /\ Limiter!LimiterAssumption /\ Probe!ProbeAssumption

-----------------------------------------------------------------------------
Scenes == {"intake", "scripts", "bundle", "overlapped", "admission", "links",
           "pages", "limiter", "probe"}

\* The variables of a scene that was not chosen have no value.
NoRows ==
  candidate = None /\ statement = None /\ claims = None /\ proc = None

NoBundle == sources = None /\ bundle = None /\ links = None /\ txn = None

NoSources ==
  /\ rows = None /\ bulk = None /\ audit = None /\ script = None
  /\ backfill = None /\ batch = None /\ gone = None /\ cleaned = None

NoLinks ==
  /\ about = None /\ attached = None /\ limit = None /\ pos = None
  /\ out = None /\ last = None

NoPages ==
  claim = None /\ evidence = None /\ page = None /\ withdrawn = None

NoWindows ==
  /\ clock = None /\ windows = None /\ thread = None /\ admitted = None
  /\ told = None

NoProbe ==
  /\ web = None /\ start = None /\ at = None /\ method = None /\ hop = None
  /\ asked = None /\ result = None

Init ==
  /\ scene \in Scenes
  /\ CASE scene = "intake" -> Intake!Init
       [] scene = "scripts" -> Scripts!Init
       [] OTHER -> NoRows
  /\ CASE scene = "bundle" -> Bundle!Init
       [] scene = "overlapped" -> Overlapped!Init
       [] OTHER -> NoBundle
  /\ IF scene = "admission" THEN Admission!Init ELSE NoSources
  /\ IF scene = "links" THEN Links!Init ELSE NoLinks
  /\ IF scene = "pages" THEN Pages!Init ELSE NoPages
  /\ IF scene = "limiter" THEN Limiter!Init ELSE NoWindows
  /\ IF scene = "probe" THEN Probe!Init ELSE NoProbe

\* Scenes whose ids, clock, templates, extractions or requests come to their end.
Ended ==
  /\ scene \in {"intake", "scripts", "links", "pages", "limiter", "probe"}
  /\ UNCHANGED vars

Next ==
  \/ /\ scene = "intake" /\ Intake!Next
     /\ UNCHANGED <<scene, bundleVars, admissionVars, linkVars, pageVars, limiterVars,
                    probeVars>>
  \/ /\ scene = "scripts" /\ Scripts!Next
     /\ UNCHANGED <<scene, bundleVars, admissionVars, linkVars, pageVars, limiterVars,
                    probeVars>>
  \/ /\ scene = "bundle" /\ Bundle!Next
     /\ UNCHANGED <<scene, ingestionVars, admissionVars, linkVars, pageVars, limiterVars,
                    probeVars>>
  \/ /\ scene = "overlapped" /\ Overlapped!Next
     /\ UNCHANGED <<scene, ingestionVars, admissionVars, linkVars, pageVars, limiterVars,
                    probeVars>>
  \/ /\ scene = "admission" /\ Admission!Next
     /\ UNCHANGED <<scene, ingestionVars, bundleVars, linkVars, pageVars, limiterVars,
                    probeVars>>
  \/ /\ scene = "links" /\ Links!Next
     /\ UNCHANGED <<scene, ingestionVars, bundleVars, admissionVars, pageVars, limiterVars,
                    probeVars>>
  \/ /\ scene = "pages" /\ Pages!Next
     /\ UNCHANGED <<scene, ingestionVars, bundleVars, admissionVars, linkVars, limiterVars,
                    probeVars>>
  \/ /\ scene = "limiter" /\ Limiter!Next
     /\ UNCHANGED <<scene, ingestionVars, bundleVars, admissionVars, linkVars, pageVars,
                    probeVars>>
  \/ /\ scene = "probe" /\ Probe!Next
     /\ UNCHANGED <<scene, ingestionVars, bundleVars, admissionVars, linkVars, pageVars,
                    limiterVars>>
  \/ Ended

Spec == Init /\ [][Next]_vars

-----------------------------------------------------------------------------
\* Every component's variables have their types.
TypeOK ==
  /\ scene = "intake" => Intake!TypeOK
  /\ scene = "scripts" => Scripts!TypeOK
  /\ scene = "bundle" => Bundle!TypeOK
  /\ scene = "overlapped" => Overlapped!TypeOK
  /\ scene = "admission" => Admission!TypeOK
  /\ scene = "links" => Links!TypeOK
  /\ scene = "pages" => Pages!TypeOK
  /\ scene = "limiter" => Limiter!TypeOK
  /\ scene = "probe" => Probe!TypeOK

\* Scripts that start, die and start again insert nothing twice.
ScriptsAreIdempotent == scene = "scripts" => Scripts!ScriptsAreIdempotent

\* A bundle that is not curated holds what statement and sources call for; and
\* where the backfill overlaps a request, no link outlives its source, and no
\* candidate's own material is shown as verification.
BundleFollowsSources ==
  /\ scene = "bundle" => Bundle!BundleIsCurrent
  /\ scene = "overlapped" => Overlapped!LinksAreBacked

\* Evidence is on neutral ground by the publisher and host it is stored with,
\* but for rows that came round the policy; and after a backfill they do not
\* count where publisher or host is partisan.
EvidenceIsAdmissible == scene = "admission" => Admission!EvidenceIsAdmissible

\* A verification source that a bulk request attached has two reviewers.
BulkHasTwoReviewers == scene = "admission" => Admission!BulkHasTwoReviewers

\* The event of a bulk request accounts for the rows it made, those deleted
\* since included.
AuditCountsRows == scene = "admission" => Admission!AuditCountsRows

\* A suggestion that one click attaches was settled and is not there already.
AttachableIsCertain == scene = "links" => Links!AttachableIsCertain

\* What a public page shows and misses has its reasons.
GapsHaveReasons == scene = "pages" => Pages!GapsHaveReasons

\* The roundings of a score do not move it by more than one millionth.
ScoreIsExact == scene = "pages" => Pages!ScoreIsExact

\* Threads that are held up exceed the limit by one each at most, and who waits
\* as long as told is let through.
LimitHolds == scene = "limiter" => Limiter!LimitHolds

\* The verdict on a url is the one its pages deserve, and only pages that were
\* accepted were asked.
ProbeAgrees == scene = "probe" => Probe!ProbeAgrees
=============================================================================
