----------------------------- MODULE ClaimReview -----------------------------
(***************************************************************************)
(* Adjudication of claims: evaluation, publication and the evidence rows   *)
(* they rest on (evaluation_service.py, source_service.py).                *)
(*                                                                         *)
(* A request is one database session.  Its transaction starts when the     *)
(* reviewer is authenticated, before the handler runs, and Postgres gives  *)
(* every row it inserts that start time as created_at.  A handler then     *)
(* takes the claim's row lock (SELECT ... FOR UPDATE), validates, and      *)
(* commits; an error at any point rolls the transaction back.  So a        *)
(* request is three steps: Authenticate, one of the ...Check actions       *)
(* (lock, reads and every raise of the handler), and the matching          *)
(* ...Commit (the writes, which become visible together).  The operator    *)
(* scripts at the end write without the claim lock.                        *)
(***************************************************************************)
EXTENDS Naturals, Sequences, FiniteSets

CONSTANTS
  Claims,      \* rows of claims
  Reviewers,   \* accounts whose role is reviewer or admin
  Admins,      \* those whose role is admin
  Bootstrap,   \* the reviewer_id the bootstrap script writes: not an account
  Payloads,    \* admissible AddSourceRequest bodies: url, class, origin
  Sessions,    \* database sessions that may be open at once
  Background,  \* which of the unlocked writers run: see BackgroundKinds
  MaxStarts,   \* bound on transactions started
  None         \* no value

BackgroundKinds == {"accounts", "flags", "reviewability", "bootstrap"}

ASSUME ReviewAssumption ==
  /\ Admins \subseteq Reviewers
  /\ None \notin Reviewers /\ None \notin Sessions
  /\ Bootstrap \notin Reviewers \cup {None}
  /\ \A p \in Payloads : /\ p.class \in {"primary", "secondary"}
                         /\ p.origin \in {"candidate", "verification"}
  /\ Background \subseteq BackgroundKinds
  /\ MaxStarts \in Nat
  /\ None \notin [factual : BOOLEAN, cited : BOOLEAN,
                  by : Reviewers \cup {Bootstrap}]

VARIABLES
  active,   \* reviewer_users.is_active
  claim,    \* claims: is_published, status, published_by, fact_checkable
  evals,    \* claim_evaluations of each claim, in commit order
  sources,  \* sources of each claim
  audit,    \* admin_audit_events of publish, unpublish and overwrite
  sess,     \* what each session is doing
  lock,     \* the session holding each claim's row lock, or None
  now       \* clock: transactions started so far

tables == <<claim, evals, sources, audit>>
vars == <<active, claim, evals, sources, audit, sess, lock, now>>

-----------------------------------------------------------------------------
(* Rows.  "supported" stands for supported, mixed and unsupported, which    *)
(* every rule of the code treats alike.                                     *)

Verdicts == {"supported", "insufficient"}

\* `at` is created_at; `approver` records the reviewer behind the approval
\* token of an overwrite (the audit event's metadata), None otherwise.
Evaluation == [verdict : Verdicts, cited : BOOLEAN,
               by : Reviewers \cup {Bootstrap},
               approver : Reviewers \cup {None}, at : Nat]

SourceRow == [body : Payloads, flagged : BOOLEAN]

ClaimRow == [published : BOOLEAN,
             status : {"draft", "reviewed", "published"},
             by : Reviewers \cup {None},
             checkable : BOOLEAN]

AuditRow == [action : {"claim_published", "claim_unpublished",
                       "claim_evaluation_overwritten"},
             claim : Claims,
             actor : Reviewers,
             approver : Reviewers \cup {Bootstrap}]

Mutations == {"evaluate", "publish", "unpublish", "add", "delete"}

SessionState == [pc : {"idle", "open", "bootstrap"} \cup Mutations,
                 who : Reviewers \cup {None},
                 approver : Reviewers \cup {Bootstrap, None},
                 start : Nat,
                 claim : Claims \cup {None},
                 verdict : Verdicts,
                 cited : BOOLEAN,
                 body : Payloads \cup {None}]

Idle == [pc |-> "idle", who |-> None, approver |-> None, start |-> 0,
         claim |-> None, verdict |-> "insufficient", cited |-> FALSE,
         body |-> None]

-----------------------------------------------------------------------------
(* Queries. *)

\* ORDER BY created_at DESC LIMIT 1: the row whose TRANSACTION started last,
\* whatever the order the rows were committed in.
Latest(c) ==
  evals[c][CHOOSE i \in DOMAIN evals[c] :
             \A j \in DOMAIN evals[c] : evals[c][j].at <= evals[c][i].at]

\* Some verification source of this class, flagged rows excluded.
HasVerification(c, class) ==
  \E row \in sources[c] : /\ row.body.origin = "verification"
                          /\ row.body.class = class
                          /\ ~row.flagged

HasMinimumEvidence(c) ==
  HasVerification(c, "primary") /\ HasVerification(c, "secondary")

\* Mutant: a publication needs no citation.
PublishGateUncited(c) ==
  /\ claim[c].checkable
  /\ evals[c] # <<>>
  /\ Latest(c).verdict = "supported"
  /\ HasMinimumEvidence(c)

\* _publish_gate_failures is empty.  Rationale presence is enforced by the
\* request schema; fetch_status is never stored as http_4xx, so the
\* dead-source check never fails.
PublishGate(c) ==
  /\ claim[c].checkable
  /\ evals[c] # <<>>
  /\ Latest(c).verdict = "supported"
  /\ Latest(c).cited
  /\ HasMinimumEvidence(c)

\* resolve_active_reviewer_id returns an id for both reviewers, and they
\* differ.
OverwriteControl(s) ==
  /\ sess[s].who \in active
  /\ sess[s].approver \in active
  /\ sess[s].approver # sess[s].who

\* The approval identity of publish and unpublish: who wrote the latest
\* evaluation; unpublish falls back on who published.
PublishApprover(c, fallback) ==
  IF evals[c] = <<>> THEN fallback ELSE Latest(c).by

\* Mutant: the missing approval reviewer is not refused.
DualControlNoneAccepted(s, approver) == approver # sess[s].who

\* Mutant: one reviewer may approve and apply.
DualControlOff(s, approver) == approver # None

DualControl(s, approver) == approver \notin {None, sess[s].who}

-----------------------------------------------------------------------------
(* Requests. *)

\* get_current_identity: the account must be active; so must the one behind
\* an approval token, if the request carries one.  Opens the transaction.
Authenticate(s) ==
  /\ sess[s].pc = "idle"
  /\ now < MaxStarts
  /\ now' = now + 1
  /\ \E who \in active, approver \in active \cup {None} :
       sess' = [sess EXCEPT ![s] = [Idle EXCEPT !.pc = "open", !.who = who,
                                      !.approver = approver,
                                      !.start = now + 1]]
  /\ UNCHANGED <<active, tables, lock>>

\* Mutant: the claim is read without FOR UPDATE.
ReadClaimUnlocked(s, c) == lock' = [lock EXCEPT ![c] = s]

\* SELECT ... FROM claims WHERE id = c FOR UPDATE.
TakeClaimLock(s, c) ==
  /\ lock[c] = None
  /\ lock' = [lock EXCEPT ![c] = s]

\* The session once its handler has validated a mutation of c.
Holding(s, c, pc, approver) ==
  [sess[s] EXCEPT !.pc = pc, !.claim = c, !.approver = approver]

\* A request that stops holding a lock ends its transaction.
Finish(s) ==
  /\ sess' = [sess EXCEPT ![s] = Idle]
  /\ lock' = [lock EXCEPT ![sess[s].claim] = None]
  /\ UNCHANGED <<active, now>>

EvaluateCheck(s, c) ==
  /\ sess[s].pc = "open"
  /\ TakeClaimLock(s, c)
  /\ \E verdict \in Verdicts, cited \in BOOLEAN :
       /\ verdict = "supported" => HasMinimumEvidence(c)
       /\ evals[c] # <<>> => OverwriteControl(s)
       /\ sess' = [sess EXCEPT ![s] =
            [Holding(s, c, "evaluate",
                     IF evals[c] = <<>> THEN None ELSE sess[s].approver)
               EXCEPT !.verdict = verdict, !.cited = cited]]
  /\ UNCHANGED <<active, tables, now>>

EvaluateCommit(s) ==
  LET q == sess[s]
  IN  /\ q.pc = "evaluate"
      /\ evals' = [evals EXCEPT ![q.claim] =
                     Append(@, [verdict |-> q.verdict, cited |-> q.cited,
                                by |-> q.who, approver |-> q.approver,
                                at |-> q.start])]
      /\ claim' = [claim EXCEPT ![q.claim].status = "reviewed"]
      /\ audit' = IF q.approver = None THEN audit
                  ELSE audit \cup {[action |-> "claim_evaluation_overwritten",
                                    claim |-> q.claim, actor |-> q.who,
                                    approver |-> q.approver]}
      /\ Finish(s)
      /\ UNCHANGED sources

PublishCheck(s, c) ==
  /\ sess[s].pc = "open"
  /\ sess[s].who \in Admins
  /\ TakeClaimLock(s, c)
  /\ PublishGate(c)
  /\ DualControl(s, PublishApprover(c, None))
  /\ sess' = [sess EXCEPT ![s] =
                Holding(s, c, "publish", PublishApprover(c, None))]
  /\ UNCHANGED <<active, tables, now>>

PublishCommit(s) ==
  LET q == sess[s]
  IN  /\ q.pc = "publish"
      /\ claim' = [claim EXCEPT ![q.claim] =
            [@ EXCEPT !.published = TRUE, !.status = "published",
                      !.by = q.who]]
      /\ audit' = audit \cup {[action |-> "claim_published",
                               claim |-> q.claim, actor |-> q.who,
                               approver |-> q.approver]}
      /\ Finish(s)
      /\ UNCHANGED <<evals, sources>>

UnpublishCheck(s, c) ==
  /\ sess[s].pc = "open"
  /\ sess[s].who \in Admins
  /\ TakeClaimLock(s, c)
  /\ DualControl(s, PublishApprover(c, claim[c].by))
  /\ sess' = [sess EXCEPT ![s] =
                Holding(s, c, "unpublish", PublishApprover(c, claim[c].by))]
  /\ UNCHANGED <<active, tables, now>>

UnpublishCommit(s) ==
  LET q == sess[s]
  IN  /\ q.pc = "unpublish"
      /\ claim' = [claim EXCEPT ![q.claim] =
            [@ EXCEPT !.published = FALSE, !.status = "reviewed",
                      !.by = None]]
      /\ audit' = audit \cup {[action |-> "claim_unpublished",
                               claim |-> q.claim, actor |-> q.who,
                               approver |-> q.approver]}
      /\ Finish(s)
      /\ UNCHANGED <<evals, sources>>

\* The admission rules that reject a payload leave no trace: Payloads holds
\* the admissible ones.  A URL already on the claim is a duplicate.
AddCheck(s, c) ==
  /\ sess[s].pc = "open"
  /\ TakeClaimLock(s, c)
  /\ \E p \in Payloads :
       /\ \A row \in sources[c] : row.body.url # p.url
       /\ sess' = [sess EXCEPT ![s] =
                     [Holding(s, c, "add", None) EXCEPT !.body = p]]
  /\ UNCHANGED <<active, tables, now>>

AddCommit(s) ==
  LET q == sess[s]
  IN  /\ q.pc = "add"
      /\ sources' = [sources EXCEPT ![q.claim] =
                       @ \cup {[body |-> q.body, flagged |-> FALSE]}]
      /\ Finish(s)
      /\ UNCHANGED <<claim, evals, audit>>

\* Mutant: deletion does not look at is_published.
DeleteCheckAnyClaim(s, c) ==
  /\ sess[s].pc = "open"
  /\ TakeClaimLock(s, c)
  /\ \E row \in sources[c] :
       sess' = [sess EXCEPT ![s] =
                  [Holding(s, c, "delete", None) EXCEPT !.body = row.body]]
  /\ UNCHANGED <<active, tables, now>>

DeleteCheck(s, c) ==
  /\ sess[s].pc = "open"
  /\ TakeClaimLock(s, c)
  /\ ~claim[c].published
  /\ \E row \in sources[c] :
       sess' = [sess EXCEPT ![s] =
                  [Holding(s, c, "delete", None) EXCEPT !.body = row.body]]
  /\ UNCHANGED <<active, tables, now>>

DeleteCommit(s) ==
  LET q == sess[s]
  IN  /\ q.pc = "delete"
      /\ sources' = [sources EXCEPT ![q.claim] =
                       {row \in @ : row.body # q.body}]
      /\ Finish(s)
      /\ UNCHANGED <<claim, evals, audit>>

\* A handler raises before it holds the lock: the session closes.
Refuse(s) ==
  /\ sess[s].pc \in {"open", "bootstrap"}
  /\ sess' = [sess EXCEPT ![s] = Idle]
  /\ UNCHANGED <<active, tables, lock, now>>

\* A handler that holds the lock raises, or its process dies: rollback.
Rollback(s) ==
  /\ sess[s].pc \in Mutations
  /\ Finish(s)
  /\ UNCHANGED tables

-----------------------------------------------------------------------------
(* Writers that take no claim lock. *)

\* Accounts are activated by scripts and deactivated in the database.
SetActive(r) ==
  /\ "accounts" \in Background
  /\ active' = IF r \in active THEN active \ {r} ELSE active \cup {r}
  /\ UNCHANGED <<tables, sess, lock, now>>

\* The policy backfill flags verification rows; it never clears a flag.
FlagSource(c) ==
  /\ "flags" \in Background
  /\ \E row \in sources[c] :
       /\ row.body.origin = "verification"
       /\ ~row.flagged
       /\ sources' = [sources EXCEPT ![c] =
                        (@ \ {row}) \cup {[row EXCEPT !.flagged = TRUE]}]
  /\ UNCHANGED <<active, claim, evals, audit, sess, lock, now>>

\* The reviewability backfill; its UPDATE waits for the row lock.
SetCheckable(c) ==
  /\ "reviewability" \in Background
  /\ lock[c] = None
  /\ \E b \in BOOLEAN : claim' = [claim EXCEPT ![c].checkable = b]
  /\ UNCHANGED <<active, evals, sources, audit, sess, lock, now>>

\* bootstrap_tx_2026_claim_reviews for one claim: reads that it has no
\* evaluation, then inserts one at the end of its own transaction (the
\* foreign key makes the insert wait for the row lock).  `at` is the start
\* of that transaction, before or after the evaluations committed meanwhile.
BootstrapRead(s, c) ==
  /\ "bootstrap" \in Background
  /\ sess[s].pc = "idle"
  /\ now < MaxStarts
  /\ evals[c] = <<>>
  /\ now' = now + 1
  /\ sess' = [sess EXCEPT ![s] = [Idle EXCEPT !.pc = "bootstrap", !.claim = c,
                                    !.start = now + 1]]
  /\ UNCHANGED <<active, tables, lock>>

BootstrapWrite(s) ==
  LET c == sess[s].claim
  IN  /\ sess[s].pc = "bootstrap"
      /\ lock[c] = None
      /\ evals' = [evals EXCEPT ![c] =
                     Append(@, [verdict |-> "insufficient", cited |-> TRUE,
                                by |-> Bootstrap, approver |-> None,
                                at |-> sess[s].start])]
      /\ claim' = [claim EXCEPT ![c] =
            [@ EXCEPT !.status = "reviewed", !.checkable = TRUE]]
      /\ sess' = [sess EXCEPT ![s] = Idle]
      /\ UNCHANGED <<active, sources, audit, lock, now>>

-----------------------------------------------------------------------------
\* Claims begin unjudged, with evidence attached earlier (or none).
Gathered == {[body |-> p, flagged |-> FALSE] : p \in Payloads}

DistinctUrls(rows) ==
  \A row1, row2 \in rows : row1.body.url = row2.body.url => row1 = row2

Init ==
  /\ active = Reviewers
  /\ claim = [c \in Claims |-> [published |-> FALSE, status |-> "draft",
                                by |-> None, checkable |-> TRUE]]
  /\ evals = [c \in Claims |-> <<>>]
  /\ sources \in [Claims -> SUBSET Gathered]
  /\ \A c \in Claims : DistinctUrls(sources[c])
  /\ audit = {}
  /\ sess = [s \in Sessions |-> Idle]
  /\ lock = [c \in Claims |-> None]
  /\ now = 0

Request(s) ==
  \/ Authenticate(s)
  \/ \E c \in Claims : \/ EvaluateCheck(s, c)
                       \/ PublishCheck(s, c)
                       \/ UnpublishCheck(s, c)
                       \/ AddCheck(s, c)
                       \/ DeleteCheck(s, c)
  \/ EvaluateCommit(s)
  \/ PublishCommit(s)
  \/ UnpublishCommit(s)
  \/ AddCommit(s)
  \/ DeleteCommit(s)
  \/ Refuse(s)
  \/ Rollback(s)

Script ==
  \/ \E r \in Reviewers : SetActive(r)
  \/ \E c \in Claims : FlagSource(c) \/ SetCheckable(c)
  \/ \E s \in Sessions : \/ \E c \in Claims : BootstrapRead(s, c)
                          \/ BootstrapWrite(s)

Next == (\E s \in Sessions : Request(s)) \/ Script

Spec == Init /\ [][Next]_vars

-----------------------------------------------------------------------------
TypeOK ==
  /\ active \subseteq Reviewers
  /\ claim \in [Claims -> ClaimRow]
  /\ evals \in [Claims -> Seq(Evaluation)]
  /\ sources \in [Claims -> SUBSET SourceRow]
  /\ audit \subseteq AuditRow
  /\ sess \in [Sessions -> SessionState]
  /\ lock \in [Claims -> Sessions \cup {None}]
  /\ now \in Nat

HasRow(c, class) ==
  \E row \in sources[c] : /\ row.body.origin = "verification"
                          /\ row.body.class = class

\* A published claim always shows a primary and a secondary verification
\* source: the publish gate required them and delete_source refuses a
\* published claim, even when the two requests overlap.
PublishedEvidence ==
  \A c \in Claims : claim[c].published => /\ HasRow(c, "primary")
                                          /\ HasRow(c, "secondary")

\* A published claim names its publisher, and some other reviewer gave it a
\* factual verdict with citation notes; the audit log has both identities.
PublishedProvenance ==
  \A c \in Claims : claim[c].published =>
    \E i \in DOMAIN evals[c] :
      LET e == evals[c][i]
      IN  /\ e.verdict = "supported" /\ e.cited
          /\ e.by \in Reviewers \ {claim[c].by}
          /\ [action |-> "claim_published", claim |-> c,
              actor |-> claim[c].by, approver |-> e.by] \in audit

\* Every evaluation row but a claim's first was countersigned by a reviewer
\* other than its author, however requests overlap, and the audit log has
\* the two identities.
OverwritesCountersigned ==
  \A c \in Claims : \A i \in DOMAIN evals[c] : i > 1 =>
    LET e == evals[c][i]
    IN  /\ e.approver \in Reviewers \ {e.by}
        /\ [action |-> "claim_evaluation_overwritten", claim |-> c,
            actor |-> e.by, approver |-> e.approver] \in audit

\* The tables, seen through the verdict in force, the payloads attached and
\* the publisher, follow the abstract policy.
Policy == INSTANCE ReviewPolicy WITH
  Judges <- Reviewers \cup {Bootstrap},
  standing <- [c \in Claims |->
    IF evals[c] = <<>> THEN None
    ELSE [factual |-> Latest(c).verdict = "supported",
          cited |-> Latest(c).cited, by |-> Latest(c).by]],
  evidence <- [c \in Claims |-> {row.body : row \in sources[c]}],
  publisher <- [c \in Claims |->
    IF claim[c].published THEN claim[c].by ELSE None]

\* Requests that overlap, roll back or race a script show the public nothing
\* the one-step policy does not allow: the verdict that is published is the
\* one that stands at that moment, by another reviewer and corroborated, and
\* no evidence leaves a published claim.
PolicySpec == Policy!Spec

-----------------------------------------------------------------------------
(* What the documentation says and the code does not do. *)

\* docs/DATA_MODEL.md: the latest evaluation is used, prior rows are
\* history.  The row the queries pick is the one committed last.
LatestIsLastCommitted ==
  \A c \in Claims : evals[c] # <<>> => Latest(c) = evals[c][Len(evals[c])]
=============================================================================
