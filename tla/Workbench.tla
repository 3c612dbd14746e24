------------------------------ MODULE Workbench ------------------------------
(***************************************************************************)
(* What the claim workbench and the two queues tell a reviewer             *)
(* (claim_workbench_service.py, the queues of evaluation_service.py).      *)
(* They read what ClaimReview writes and keep no state of their own: a     *)
(* page is an operator over its tables, and every claim ClaimReview can    *)
(* reach is put to it.  The gate is computed twice in the code, from the   *)
(* tables under lock (PublishGate) and from the row of one joined query    *)
(* (RowGate); the properties hold the second against the first.            *)
(***************************************************************************)
EXTENDS ClaimReview

\* A page lists finitely many rows, and null is no verdict and no action.
ASSUME WorkbenchAssumption ==
  /\ IsFiniteSet(Payloads)
  /\ None \notin Verdicts \cup {"publish_handoff", "overwrite_handoff"}

\* Mutant: the join counts flagged rows too.
CountAll(c, class) ==
  Cardinality({row \in sources[c] : /\ row.body.origin = "verification"
                                    /\ row.body.class = class})

\* SUM(CASE WHEN eligible AND origin AND class THEN 1 ELSE 0).
Count(c, class) ==
  Cardinality({row \in sources[c] : /\ ~row.flagged
                                    /\ row.body.origin = "verification"
                                    /\ row.body.class = class})

\* A row of list_review_queue: row_number() over created_at and id picks the
\* evaluation; a claim without one is kept by the outer join.
ReviewRow(c) ==
  [claim |-> c,
   checkable |-> claim[c].checkable,
   published |-> claim[c].published,
   verdict |-> IF evals[c] = <<>> THEN None ELSE Latest(c).verdict,
   cited |-> evals[c] # <<>> /\ Latest(c).cited,
   by |-> IF evals[c] = <<>> THEN None ELSE Latest(c).by,
   primary |-> Count(c, "primary"),
   secondary |-> Count(c, "secondary")]

\* list_review_queue.  No action of ClaimReview deactivates a candidate.
ReviewQueue(minimum, rhetoric, unpublished) ==
  {ReviewRow(c) : c \in
     {d \in Claims :
        /\ rhetoric \/ claim[d].checkable
        /\ minimum => Count(d, "primary") > 0 /\ Count(d, "secondary") > 0
        /\ unpublished => ~claim[d].published}}

\* _publish_gate_failures_from_review_row is empty.
RowGate(row) ==
  /\ row.checkable
  /\ row.verdict = "supported"
  /\ row.cited
  /\ row.primary > 0
  /\ row.secondary > 0

\* Mutant: the queue keeps claims that are published.
PublishQueueAll == {row \in ReviewQueue(FALSE, FALSE, FALSE) : RowGate(row)}

\* list_publish_queue with only_gate_passed.
PublishQueue == {row \in ReviewQueue(FALSE, FALSE, TRUE) : RowGate(row)}

\* An id is normalised to None unless it is an account's.
Handed(row, actor) == row.by # None /\ row.by # actor

SecondReviewerAction(row, actor) ==
  IF ~row.published /\ RowGate(row) /\ ~Handed(row, actor)
    THEN "publish_handoff"
  ELSE IF ~RowGate(row) /\ row.verdict \notin {None, "insufficient"}
    THEN "overwrite_handoff"
  ELSE None

\* _derive_state: the first of these that applies.
WorkbenchState(row, actor) ==
  IF row.published THEN "Published"
  ELSE IF SecondReviewerAction(row, actor) # None THEN "Needs Second Reviewer"
  ELSE IF RowGate(row) THEN "Ready to Publish"
  ELSE IF row.verdict = "insufficient" THEN "Insufficient Evidence"
  ELSE IF row.primary > 0 /\ row.secondary > 0 /\ row.verdict = None
    THEN "Needs Review"
  ELSE "Needs Evidence"

\* _build_checklist: an item that blocks has not passed.  The handover blocks
\* only once everything else has.
Blocked(row, actor) ==
  \/ ~row.checkable
  \/ row.verdict # "supported"
  \/ ~row.cited
  \/ row.primary = 0 \/ row.secondary = 0
  \/ RowGate(row) /\ ~row.published /\ ~Handed(row, actor)

-----------------------------------------------------------------------------
\* What the publish handler would answer now to an admin: PublishCheck
\* without the wait for the row lock.
Publishable(c, r) == PublishGate(c) /\ Latest(c).by # r

\* The page and the handlers agree on every state requests and scripts reach,
\* though each computes the rules itself.  The code puts the second reviewer
\* before "Ready to Publish" (the docs say the other way round: see
\* ReadyMeansGatePassed); so "Ready to Publish" is said to exactly the reviewers
\* from whom publish would be accepted, of an unpublished claim, and to them
\* alone the whole checklist is ticked; a claim "Needs Review" that has enough
\* evidence for a factual verdict and no evaluation to overwrite.
WorkbenchAgrees ==
  \A c \in Claims, r \in Reviewers :
    LET row == ReviewRow(c)
        ready == WorkbenchState(row, r) = "Ready to Publish"
    IN  /\ ready <=> ~claim[c].published /\ Publishable(c, r)
        /\ ready <=> ~claim[c].published /\ ~Blocked(row, r)
        /\ WorkbenchState(row, r) = "Needs Review"
             <=> /\ ~claim[c].published /\ evals[c] = <<>>
                 /\ HasMinimumEvidence(c)

\* No claim is handed round for ever: a claim the publish queue lists is
\* ready for some reviewer, and one the workbench of every reviewer wants
\* handed over can no longer be published as it is.
SomebodyCanPublish ==
  /\ \A row \in PublishQueue : \E r \in Reviewers :
       WorkbenchState(row, r) = "Ready to Publish"
  /\ \A c \in Claims :
       (\A r \in Reviewers : WorkbenchState(ReviewRow(c), r)
                               = "Needs Second Reviewer")
       => ~PublishGate(c) /\ Latest(c).verdict = "supported"

-----------------------------------------------------------------------------
=============================================================================
