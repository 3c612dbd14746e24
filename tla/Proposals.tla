------------------------------ MODULE Proposals ------------------------------
(***************************************************************************)
(* Proposals about one claim (proposal_service.py): reviewers create them, *)
(* approve or reject them, and apply approved ones, which writes a source  *)
(* row or the claim's issue frame.                                         *)
(*                                                                         *)
(* A request locks the proposal's row (FOR UPDATE), checks and then        *)
(* commits.  Applying a source takes the claim's row lock too, as any      *)
(* other add_source or delete_source does; applying a frame reads the      *)
(* claim without it, and a script sets frames too.  A raise at any point   *)
(* rolls everything back and leaves the proposal to be retried.            *)
(***************************************************************************)
EXTENDS Naturals, Sequences

CONSTANTS
  Proposals,  \* rows of claim_proposals
  KindOf,     \* proposal_type of each
  ValueOf,    \* the URL (its comparison key) or the issue frame of a payload
  Urls,       \* comparison keys of sources
  Frames,     \* issue frames that exist
  Matched,    \* the one that the mapping script finds for the claim
  Reviewers,  \* reviewer accounts
  Sessions,   \* concurrent requests
  None        \* no value

Kinds == {"issue_frame_mapping", "candidate_source_capture",
          "verification_source_suggestion", "draft_verdict"}

ASSUME ProposalsAssumption ==
  /\ KindOf \in [Proposals -> Kinds]
  /\ None \notin Reviewers /\ None \notin Proposals
  /\ None \notin Urls /\ None \notin Frames /\ Matched \in Frames
  /\ \A p \in Proposals :
       KindOf[p] \in {"candidate_source_capture", "verification_source_suggestion"}
         => ValueOf[p] \in Urls

VARIABLES
  proposal,  \* claim_proposals: status, proposed_by and reviewed_by
  rows,      \* the claim's source rows, with the proposal each came from
  frame,     \* claims.issue_frame_id
  replaced,  \* history: approved mappings the claim had, and lost again
  audit,     \* the audit events of each proposal, oldest first
  sess       \* the requests under way

vars == <<proposal, rows, frame, replaced, audit, sess>>

-----------------------------------------------------------------------------
Statuses == {"absent", "proposed", "approved", "rejected", "applied"}

ProposalRow == [status : Statuses, proposedBy : Reviewers \cup {None},
                reviewedBy : Reviewers \cup {None}]

SourceRow == [url : Urls, by : Proposals \cup {None}]

Event == [action : {"approved", "rejected", "applied"}, actor : Reviewers,
          approver : Reviewers \cup {None}]

Request == [pc : {"idle", "locked", "attached"},
            op : {"approved", "rejected", "applied", None},
            p : Proposals \cup {None},
            by : Reviewers \cup {None},
            read : Frames \cup {None}]

Idle == [pc |-> "idle", op |-> None, p |-> None, by |-> None, read |-> None]

AddsSource(p) == KindOf[p] \in {"candidate_source_capture",
                                "verification_source_suggestion"}

Maps(p) == KindOf[p] = "issue_frame_mapping"

\* Mutant: the row is read without FOR UPDATE.
RowReadable(p) == p \in Proposals

\* Nobody else holds the row a request asks for with FOR UPDATE.
RowFree(p) == \A s \in Sessions : sess[s].p # p

\* Mutant: the claim is read without FOR UPDATE.
ClaimReadable == \A s \in Sessions : sess[s].pc \in {"idle", "locked", "attached"}

\* Nobody holds the claim's row.
ClaimFree == \A s \in Sessions : sess[s].pc # "attached"

\* _is_verification_source_apply_target and proposal_dual_control_required; a
\* candidate_source_capture never has source_origin=verification, since it is
\* validated before.
SecondReviewer(p, r) ==
  KindOf[p] = "verification_source_suggestion" =>
    proposal[p].reviewedBy \notin {None, r}

-----------------------------------------------------------------------------
\* create_proposal, for a payload that validates.
Create(p, r) ==
  /\ proposal[p].status = "absent"
  /\ proposal' = [proposal EXCEPT ![p] =
       [status |-> "proposed", proposedBy |-> r, reviewedBy |-> None]]
  /\ UNCHANGED <<rows, frame, replaced, audit, sess>>

\* _get_proposal_for_transition and the check of the status.
BeginReview(s, p, r, op) ==
  /\ sess[s].pc = "idle" /\ RowFree(p)
  /\ op \in {"approved", "rejected"}
  /\ proposal[p].status = "proposed"
  /\ sess' = [sess EXCEPT ![s] =
       [pc |-> "locked", op |-> op, p |-> p, by |-> r, read |-> None]]
  /\ UNCHANGED <<proposal, rows, frame, replaced, audit>>

\* The new status, its reviewer and its event in one commit.
CommitReview(s) ==
  LET p == sess[s].p IN
  /\ sess[s].pc = "locked" /\ sess[s].op \in {"approved", "rejected"}
  /\ proposal' = [proposal EXCEPT ![p].status = sess[s].op,
                                  ![p].reviewedBy = sess[s].by]
  /\ audit' = [audit EXCEPT ![p] = Append(@,
       [action |-> sess[s].op, actor |-> sess[s].by, approver |-> None])]
  /\ sess' = [sess EXCEPT ![s] = Idle]
  /\ UNCHANGED <<rows, frame, replaced>>

\* apply_proposal up to its effect; it reads the claim, and locks only the
\* proposal.
BeginApply(s, p, r) ==
  /\ sess[s].pc = "idle" /\ RowFree(p)
  /\ proposal[p].status = "approved"
  /\ SecondReviewer(p, r)
  /\ sess' = [sess EXCEPT ![s] =
       [pc |-> "locked", op |-> "applied", p |-> p, by |-> r,
        read |-> IF Maps(p) THEN frame ELSE None]]
  /\ UNCHANGED <<proposal, rows, frame, replaced, audit>>

\* add_source(commit=False): the claim's lock, then the duplicate check; the
\* row is visible to others with the commit.
Attach(s) ==
  LET p == sess[s].p IN
  /\ sess[s].pc = "locked" /\ sess[s].op = "applied" /\ AddsSource(p)
  /\ ClaimFree
  /\ \A row \in rows : row.url # ValueOf[p]
  /\ sess' = [sess EXCEPT ![s].pc = "attached"]
  /\ UNCHANGED <<proposal, rows, frame, replaced, audit>>

\* A frame that does not exist is issue_frame_not_found; a draft verdict
\* changes nothing.
EffectReady(s) ==
  LET p == sess[s].p IN
  IF AddsSource(p) THEN sess[s].pc = "attached"
  ELSE /\ sess[s].pc = "locked"
       /\ Maps(p) => ValueOf[p] \in Frames

EffectRows(p, held) ==
  IF \E row \in held : row.url = ValueOf[p] THEN held
  ELSE held \cup {[url |-> ValueOf[p], by |-> p]}

\* The claim gets a frame, and approved mappings to the one it had lose it.
SetFrame(f) ==
  /\ frame' = f
  /\ replaced' = replaced \cup
       {p \in Proposals : /\ Maps(p) /\ proposal[p].status = "approved"
                         /\ ValueOf[p] = frame /\ f # frame}

\* The column is written if it differs from what was read of the claim: a frame
\* that others have set since stays, if the claim had the right one then.
ApplyFrame(s) ==
  LET p == sess[s].p IN
  IF ~Maps(p) \/ sess[s].read = ValueOf[p] THEN UNCHANGED <<frame, replaced>>
  ELSE ClaimFree /\ SetFrame(ValueOf[p])

\* The effect, the status and the event in one commit.
CommitApply(s) ==
  LET p == sess[s].p IN
  /\ sess[s].op = "applied" /\ EffectReady(s)
  /\ rows' = IF AddsSource(p) THEN EffectRows(p, rows) ELSE rows
  /\ ApplyFrame(s)
  /\ audit' = [audit EXCEPT ![p] = Append(@,
       [action |-> "applied", actor |-> sess[s].by,
        approver |-> proposal[p].reviewedBy])]
  /\ proposal' = [proposal EXCEPT ![p].status = "applied",
                                  ![p].reviewedBy = sess[s].by]
  /\ sess' = [sess EXCEPT ![s] = Idle]

\* run_mapping of map_tx_2026_claim_issue_frames, which reads the claim without
\* a lock as well.
MapFrame ==
  /\ ClaimFree
  /\ SetFrame(Matched)
  /\ UNCHANGED <<proposal, rows, audit, sess>>

\* Any raise after the row's lock, or the death of the process.
Rollback(s) ==
  /\ sess[s].pc # "idle"
  /\ sess' = [sess EXCEPT ![s] = Idle]
  /\ UNCHANGED <<proposal, rows, frame, replaced, audit>>

\* add_source and delete_source for the same claim by the other routes.
AddDirectly(u) ==
  /\ ClaimFree
  /\ \A row \in rows : row.url # u
  /\ rows' = rows \cup {[url |-> u, by |-> None]}
  /\ UNCHANGED <<proposal, frame, replaced, audit, sess>>

Delete(row) ==
  /\ ClaimFree
  /\ rows' = rows \ {row}
  /\ UNCHANGED <<proposal, frame, replaced, audit, sess>>

-----------------------------------------------------------------------------
Init ==
  /\ proposal = [p \in Proposals |-> [status |-> "absent", proposedBy |-> None,
                                      reviewedBy |-> None]]
  /\ rows = {} /\ frame = None /\ replaced = {}
  /\ audit = [p \in Proposals |-> << >>]
  /\ sess = [s \in Sessions |-> Idle]

Next ==
  \/ \E p \in Proposals, r \in Reviewers : Create(p, r)
  \/ \E s \in Sessions, p \in Proposals, r \in Reviewers :
       \/ \E op \in {"approved", "rejected"} : BeginReview(s, p, r, op)
       \/ BeginApply(s, p, r)
  \/ \E s \in Sessions :
       \/ CommitReview(s)
       \/ Attach(s)
       \/ CommitApply(s)
       \/ Rollback(s)
  \/ MapFrame
  \/ \E u \in Urls : AddDirectly(u)
  \/ \E row \in rows : Delete(row)

Spec == Init /\ [][Next]_vars

-----------------------------------------------------------------------------
\* The rows and requests have the shapes of the schema.
TypeOK ==
  /\ proposal \in [Proposals -> ProposalRow]
  /\ rows \subseteq SourceRow
  /\ frame \in Frames \cup {None} /\ replaced \subseteq Proposals
  /\ audit \in [Proposals -> Seq(Event)]
  /\ sess \in [Sessions -> Request]

Actions(p) == [i \in 1..Len(audit[p]) |-> audit[p][i].action]

\* However requests overlap, fail and are repeated, a proposal is reviewed once
\* and applied at most once, its audit trail tells its status, and what it left
\* on the claim is there only if it was applied: apply_proposal and the two
\* transitions commit everything together under the row's lock.
TrailTellsStatus ==
  /\ \A row \in rows : row.by # None => proposal[row.by].status = "applied"
  /\ \A p \in Proposals :
       Actions(p) = CASE proposal[p].status = "approved" -> <<"approved">>
                      [] proposal[p].status = "rejected" -> <<"rejected">>
                      [] proposal[p].status = "applied" -> <<"approved", "applied">>
                      [] OTHER -> << >>

\* An applied verification source had two reviewers, and the apply event names
\* the one who approved, although apply_proposal overwrites reviewed_by
\* (docs/REVIEW_WORKFLOW.md: approved_by != applying_reviewer).
TwoReviewers ==
  \A p \in Proposals :
    KindOf[p] = "verification_source_suggestion" /\ Len(audit[p]) = 2 =>
      /\ audit[p][2].approver = audit[p][1].actor
      /\ audit[p][2].actor # audit[p][1].actor

\* Who reviewed and who applied a proposal is told by its trail: the row keeps
\* the last of the two only.
Signer(p, i) == IF Len(audit[p]) >= i THEN audit[p][i].actor ELSE None

Credited(p) == IF Len(audit[p]) >= 2 THEN audit[p][2].approver ELSE None

Ledger == INSTANCE ProposalLedger WITH
  Captures <- {p \in Proposals : AddsSource(p)},
  Suggestions <- {p \in Proposals : KindOf[p] = "verification_source_suggestion"},
  Mappings <- {p \in Proposals : Maps(p)},
  status <- [p \in Proposals |-> proposal[p].status],
  reviewer <- [p \in Proposals |-> Signer(p, 1)],
  applier <- [p \in Proposals |-> Signer(p, 2)],
  credited <- [p \in Proposals |-> Credited(p)]

\* Requests that overlap, fail and are repeated do what a ledger does in single
\* steps: a source that others add between the duplicate check and the commit
\* is not applied over; a mapping is applied without giving the claim its frame
\* only if the claim had that frame after the approval and lost it to another
\* mapping, of a second request or of the script; and the trail alone tells who
\* did what: two people, for a verification source, both named in the event of
\* its application.
LedgerSpec == Ledger!Spec
=============================================================================
