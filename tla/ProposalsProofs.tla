--------------------------- MODULE ProposalsProofs ---------------------------
(***************************************************************************)
(* Proofs about Proposals: type correctness, the trail of a proposal, and  *)
(* the two reviewers of an applied verification source, for any numbers of *)
(* proposals, reviewers and concurrent requests.                           *)
(***************************************************************************)
EXTENDS Proposals, TLAPS

\* A request that is under way holds the lock of the one row it read, and what
\* it checked of that row still holds.
Holds(s) ==
  LET q == sess[s] IN
  q.pc # "idle" =>
    /\ q.p \in Proposals /\ q.by \in Reviewers
    /\ q.op \in {"approved", "rejected", "applied"}
    /\ q.pc = "attached" => q.op = "applied"
    /\ q.op \in {"approved", "rejected"} => proposal[q.p].status = "proposed"
    /\ q.op = "applied" => /\ proposal[q.p].status = "approved"
                           /\ SecondReviewer(q.p, q.by)

RequestsHold == \A s \in Sessions : Holds(s)

\* No two requests hold one row.
OneHolder ==
  \A s, t \in Sessions :
    s # t /\ sess[s].pc # "idle" /\ sess[t].pc # "idle" => sess[s].p # sess[t].p

\* The events of a proposal, and whom they name, by its status.
Trail(p) ==
  LET q == proposal[p]
      e == audit[p]
  IN  /\ q.status \in {"absent", "proposed"} => e = << >>
      /\ q.status \in {"approved", "rejected"} =>
           Len(e) = 1 /\ e[1].action = q.status /\ e[1].actor = q.reviewedBy
      /\ q.status = "applied" =>
           /\ Len(e) = 2 /\ e[1].action = "approved" /\ e[2].action = "applied"
           /\ KindOf[p] = "verification_source_suggestion" =>
                e[2].approver = e[1].actor /\ e[2].actor # e[1].actor

Trails == \A p \in Proposals : Trail(p)

\* What a proposal left on the claim is there only if it was applied.
RowsApplied == \A row \in rows : row.by # None => proposal[row.by].status = "applied"

IInv == TypeOK /\ RequestsHold /\ OneHolder /\ Trails /\ RowsApplied

-----------------------------------------------------------------------------
LEMMA IdleType == Idle \in Request
  BY DEF Idle, Request

LEMMA InitIInv == ASSUME ProposalsAssumption, Init PROVE IInv
  <1>1. TypeOK
    BY IdleType DEF Init, TypeOK, ProposalRow, Statuses
  <1>2. RequestsHold /\ OneHolder
    BY DEF Init, RequestsHold, Holds, OneHolder, Idle
  <1>3. Trails /\ RowsApplied
    BY DEF Init, Trails, Trail, RowsApplied
  <1>4. QED
    BY <1>1, <1>2, <1>3 DEF IInv

\* A request takes a row that nobody holds, for an operation it may be used for.
Takes(s, p, r, op, read) ==
  /\ sess[s].pc = "idle" /\ RowFree(p)
  /\ op \in {"approved", "rejected"} => proposal[p].status = "proposed"
  /\ op = "applied" => proposal[p].status = "approved" /\ SecondReviewer(p, r)
  /\ sess' = [sess EXCEPT ![s] = [pc |-> "locked", op |-> op, p |-> p, by |-> r,
                                      read |-> read]]
  /\ UNCHANGED <<proposal, rows, frame, replaced, audit>>

LEMMA CreateStep ==
  ASSUME ProposalsAssumption, IInv, NEW p \in Proposals, NEW r \in Reviewers,
         Create(p, r)
  PROVE  IInv'
  <1>1. /\ proposal[p].status = "absent"
        /\ proposal' \in [Proposals -> ProposalRow]
        /\ proposal'[p].status = "proposed"
        /\ \A q \in Proposals \ {p} : proposal'[q] = proposal[q]
    BY DEF IInv, TypeOK, Create, ProposalRow, Statuses
  <1>2. UNCHANGED <<rows, frame, replaced, audit, sess>>
    BY DEF Create
  <1>3. TypeOK'
    BY <1>1, <1>2 DEF IInv, TypeOK
  <1>4. RequestsHold'
    <2> SUFFICES ASSUME NEW s \in Sessions PROVE Holds(s)'
      BY DEF RequestsHold
    <2>1. Holds(s) /\ sess[s] \in Request
      BY DEF IInv, RequestsHold, TypeOK
    <2>2. sess[s].pc # "idle" => sess[s].p # p
      BY <2>1, <1>1 DEF Holds, Request
    <2>3. QED
      BY <2>1, <2>2, <1>1, <1>2 DEF Holds, SecondReviewer
  <1>5. OneHolder'
    BY <1>2 DEF IInv, OneHolder
  <1>6. Trails'
    BY <1>1, <1>2 DEF IInv, Trails, Trail
  <1>7. RowsApplied'
    BY <1>1, <1>2 DEF IInv, RowsApplied, TypeOK, SourceRow
  <1>8. QED
    BY <1>3, <1>4, <1>5, <1>6, <1>7 DEF IInv

LEMMA TakesStep ==
  ASSUME ProposalsAssumption, IInv, NEW s \in Sessions, NEW p \in Proposals,
         NEW r \in Reviewers, NEW op \in {"approved", "rejected", "applied"},
         NEW read \in Frames \cup {None}, Takes(s, p, r, op, read)
  PROVE  IInv'
  <1> DEFINE new == [pc |-> "locked", op |-> op, p |-> p, by |-> r, read |-> read]
  <1>1. /\ new \in Request
        /\ sess' \in [Sessions -> Request] /\ sess'[s] = new
        /\ \A t \in Sessions \ {s} : sess'[t] = sess[t]
    BY DEF IInv, TypeOK, Takes, Request
  <1>2. UNCHANGED <<proposal, rows, frame, replaced, audit>>
    BY DEF Takes
  <1>3. TypeOK'
    BY <1>1, <1>2 DEF IInv, TypeOK
  <1>4. RequestsHold'
    <2>1. Holds(s)'
      BY <1>1, <1>2 DEF Takes, Holds, SecondReviewer, ProposalsAssumption
    <2>2. \A t \in Sessions \ {s} : Holds(t)'
      BY <1>1, <1>2 DEF IInv, RequestsHold, Holds, SecondReviewer
    <2>3. QED
      BY <2>1, <2>2 DEF RequestsHold
  <1>5. OneHolder'
    BY <1>1 DEF IInv, OneHolder, Takes, RowFree
  <1>6. Trails' /\ RowsApplied'
    BY <1>2 DEF IInv, Trails, Trail, RowsApplied
  <1>7. QED
    BY <1>3, <1>4, <1>5, <1>6 DEF IInv

\* A session ends, or goes on to the effect; nothing else changes.
LEMMA SessionStep ==
  ASSUME ProposalsAssumption, IInv, NEW s \in Sessions, Attach(s) \/ Rollback(s)
  PROVE  IInv'
  <1>1. /\ sess' \in [Sessions -> Request]
        /\ \A t \in Sessions \ {s} : sess'[t] = sess[t]
        /\ \/ sess'[s] = Idle
           \/ /\ sess'[s] = [sess[s] EXCEPT !.pc = "attached"]
              /\ sess[s].pc = "locked" /\ sess[s].op = "applied"
    <2>1. sess \in [Sessions -> Request] /\ sess[s] \in Request
      BY DEF IInv, TypeOK
    <2>2. CASE Attach(s)
      <3>1. /\ sess' = [sess EXCEPT ![s].pc = "attached"]
            /\ sess[s].pc = "locked" /\ sess[s].op = "applied"
        BY <2>2 DEF Attach
      <3>2. [sess[s] EXCEPT !.pc = "attached"] \in Request
        BY <2>1 DEF Request
      <3>3. QED
        BY <2>1, <3>1, <3>2
    <2>3. CASE Rollback(s)
      BY <2>1, <2>3, IdleType DEF Rollback
    <2>4. QED
      BY <2>2, <2>3
  <1>2. UNCHANGED <<proposal, rows, frame, replaced, audit>>
    BY DEF Attach, Rollback
  <1>3. TypeOK'
    BY <1>1, <1>2 DEF IInv, TypeOK
  <1>4. RequestsHold'
    <2>1. Holds(s)'
      BY SMTT(30), <1>1, <1>2 DEF IInv, TypeOK, Request, RequestsHold, Holds, SecondReviewer, Idle
    <2>2. \A t \in Sessions \ {s} : Holds(t)'
      BY <1>1, <1>2 DEF IInv, RequestsHold, Holds, SecondReviewer
    <2>3. QED
      BY <2>1, <2>2 DEF RequestsHold
  <1>5. OneHolder'
    BY <1>1 DEF IInv, TypeOK, Request, OneHolder, Idle
  <1>6. Trails' /\ RowsApplied'
    BY <1>2 DEF IInv, Trails, Trail, RowsApplied
  <1>7. QED
    BY <1>3, <1>4, <1>5, <1>6 DEF IInv

\* What CommitReview and CommitApply have in common: the proposal the session
\* holds gets its status, its reviewer and one event, and the session is over.
Commits(s, status, event) ==
  LET p == sess[s].p IN
  /\ sess[s].pc # "idle"
  /\ proposal' = [proposal EXCEPT ![p].status = status,
                                  ![p].reviewedBy = sess[s].by]
  /\ audit' = [audit EXCEPT ![p] = Append(@, event)]
  /\ sess' = [sess EXCEPT ![s] = Idle]

LEMMA CommitsStep ==
  ASSUME ProposalsAssumption, IInv, NEW s \in Sessions, NEW event \in Event,
         NEW status \in {"approved", "rejected", "applied"},
         Commits(s, status, event)
  PROVE  LET p == sess[s].p IN
         /\ p \in Proposals
         /\ proposal' \in [Proposals -> ProposalRow]
         /\ proposal'[p].status = status /\ proposal'[p].reviewedBy = sess[s].by
         /\ \A q \in Proposals \ {p} : proposal'[q] = proposal[q]
         /\ audit' \in [Proposals -> Seq(Event)]
         /\ audit'[p] = Append(audit[p], event)
         /\ \A q \in Proposals \ {p} : audit'[q] = audit[q]
         /\ sess' \in [Sessions -> Request]
         /\ RequestsHold' /\ OneHolder'
  <1> DEFINE p == sess[s].p
  <1>1. Holds(s) /\ sess[s] \in Request
    BY DEF IInv, RequestsHold, TypeOK
  <1>2. p \in Proposals /\ sess[s].by \in Reviewers
    BY <1>1 DEF Holds, Commits
  <1>3. /\ proposal' \in [Proposals -> ProposalRow]
        /\ proposal'[p].status = status /\ proposal'[p].reviewedBy = sess[s].by
        /\ \A q \in Proposals \ {p} : proposal'[q] = proposal[q]
    <2> DEFINE new == [proposal[p] EXCEPT !.status = status,
                                          !.reviewedBy = sess[s].by]
    <2>1. proposal \in [Proposals -> ProposalRow] /\ proposal[p] \in ProposalRow
      BY <1>2 DEF IInv, TypeOK
    <2>2. /\ new \in ProposalRow
          /\ new.status = status /\ new.reviewedBy = sess[s].by
      BY <1>2, <2>1 DEF ProposalRow, Statuses
    <2>3. proposal' = [proposal EXCEPT ![p] = new]
      BY <1>2, <2>1 DEF Commits
    <2> HIDE DEF new
    <2>4. QED
      BY <1>2, <2>1, <2>2, <2>3
  <1>4. /\ audit' \in [Proposals -> Seq(Event)]
        /\ audit'[p] = Append(audit[p], event)
        /\ \A q \in Proposals \ {p} : audit'[q] = audit[q]
    BY <1>2 DEF IInv, TypeOK, Commits
  <1>5. /\ sess' \in [Sessions -> Request] /\ sess'[s] = Idle
        /\ \A t \in Sessions \ {s} : sess'[t] = sess[t]
    BY IdleType DEF IInv, TypeOK, Commits
  <1>6. RequestsHold'
    <2> SUFFICES ASSUME NEW t \in Sessions PROVE Holds(t)'
      BY DEF RequestsHold
    <2>1. CASE t = s
      BY <2>1, <1>5 DEF Holds, Idle
    <2>2. CASE t # s
      <3>1. sess'[t] = sess[t] /\ Holds(t)
        BY <2>2, <1>5 DEF IInv, RequestsHold
      <3>2. sess[t].pc # "idle" => sess[t].p \in Proposals \ {p}
        BY <2>2, <3>1 DEF IInv, OneHolder, Commits, Holds
      <3>3. QED
        BY <3>1, <3>2, <1>3 DEF Holds, SecondReviewer
    <2>3. QED
      BY <2>1, <2>2
  <1>7. OneHolder'
    BY <1>5 DEF IInv, OneHolder, Idle
  <1>8. QED
    BY <1>2, <1>3, <1>4, <1>5, <1>6, <1>7

LEMMA CommitReviewStep ==
  ASSUME ProposalsAssumption, IInv, NEW s \in Sessions, CommitReview(s)
  PROVE  IInv'
  <1>0. PICK p \in Proposals : p = sess[s].p
    BY DEF IInv, RequestsHold, Holds, CommitReview
  <1> DEFINE event == [action |-> sess[s].op, actor |-> sess[s].by,
                       approver |-> None]
  <1>1. /\ Holds(s) /\ sess[s].op \in {"approved", "rejected"}
        /\ sess[s].pc = "locked"
    BY DEF IInv, RequestsHold, CommitReview
  <1>2. sess[s].by \in Reviewers /\ proposal[p].status = "proposed"
    BY <1>0, <1>1 DEF Holds
  <1>3. event \in Event
    BY <1>1, <1>2 DEF Event
  <1>4. Commits(s, sess[s].op, event)
    BY <1>0, <1>1 DEF CommitReview, Commits
  <1>5. UNCHANGED <<rows, frame, replaced>>
    BY DEF CommitReview
  <1> HIDE DEF event
  <1>6. /\ proposal' \in [Proposals -> ProposalRow]
        /\ proposal'[p].status = sess[s].op
        /\ proposal'[p].reviewedBy = sess[s].by
        /\ \A q \in Proposals \ {p} : proposal'[q] = proposal[q]
        /\ audit' \in [Proposals -> Seq(Event)]
        /\ audit'[p] = Append(audit[p], event)
        /\ \A q \in Proposals \ {p} : audit'[q] = audit[q]
        /\ sess' \in [Sessions -> Request]
        /\ RequestsHold' /\ OneHolder'
    BY <1>0, <1>1, <1>3, <1>4, CommitsStep
  <1>7. TypeOK'
    BY <1>5, <1>6 DEF IInv, TypeOK
  <1>8. Trails'
    <2>1. Trail(p)'
      <3>1. audit[p] = << >>
        BY <1>2, <1>6 DEF IInv, Trails, Trail
      <3>2. audit'[p] = <<event>>
        BY <3>1, <1>6
      <3>3. event.action = sess[s].op /\ event.actor = sess[s].by
        BY DEF event
      <3>4. QED
        BY <3>2, <3>3, <1>1, <1>6 DEF Trail
    <2>2. \A q \in Proposals \ {p} : Trail(q)'
      BY SMTT(30), <1>6 DEF IInv, Trails, Trail
    <2>3. QED
      BY <2>1, <2>2 DEF Trails
  <1>9. RowsApplied'
    BY <1>2, <1>5, <1>6 DEF IInv, RowsApplied, TypeOK, SourceRow
  <1>10. QED
    BY <1>6, <1>7, <1>8, <1>9 DEF IInv

\* A second event leaves the first where it is.
LEMMA SecondEvent ==
  ASSUME NEW S, NEW e \in Seq(S), NEW event \in S
  PROVE  /\ Len(Append(e, event)) = Len(e) + 1
         /\ \A i \in 1 .. Len(e) : Append(e, event)[i] = e[i]
         /\ Append(e, event)[Len(e) + 1] = event
  OBVIOUS

LEMMA CommitApplyStep ==
  ASSUME ProposalsAssumption, IInv, NEW s \in Sessions, CommitApply(s)
  PROVE  IInv'
  <1>0. PICK p \in Proposals : p = sess[s].p
    BY DEF IInv, RequestsHold, Holds, CommitApply, EffectReady
  <1> DEFINE event == [action |-> "applied", actor |-> sess[s].by,
                       approver |-> proposal[p].reviewedBy]
  <1>1. Holds(s) /\ sess[s].op = "applied" /\ sess[s].pc # "idle"
    BY DEF IInv, RequestsHold, CommitApply, EffectReady
  <1>2. /\ sess[s].by \in Reviewers
        /\ proposal[p].status = "approved" /\ SecondReviewer(p, sess[s].by)
    BY <1>0, <1>1 DEF Holds
  <1>3. event \in Event
    BY <1>2 DEF Event, IInv, TypeOK, ProposalRow
  <1>4. Commits(s, "applied", event)
    BY <1>0, <1>1 DEF CommitApply, Commits
  <1>5. /\ event.action = "applied" /\ event.actor = sess[s].by
        /\ event.approver = proposal[p].reviewedBy
    OBVIOUS
  <1> HIDE DEF event
  <1>6. /\ proposal' \in [Proposals -> ProposalRow]
        /\ proposal'[p].status = "applied"
        /\ \A q \in Proposals \ {p} : proposal'[q] = proposal[q]
        /\ audit' \in [Proposals -> Seq(Event)]
        /\ audit'[p] = Append(audit[p], event)
        /\ \A q \in Proposals \ {p} : audit'[q] = audit[q]
        /\ sess' \in [Sessions -> Request]
        /\ RequestsHold' /\ OneHolder'
    BY <1>0, <1>1, <1>3, <1>4, CommitsStep
  <1>7. /\ rows' \subseteq SourceRow
        /\ \A row \in rows' : row \in rows \/ row.by = p
    <2>1. AddsSource(p) => [url |-> ValueOf[p], by |-> p] \in SourceRow
      <3> SUFFICES ASSUME AddsSource(p) PROVE ValueOf[p] \in Urls
        BY <1>2 DEF SourceRow
      <3> QED
        BY DEF ProposalsAssumption, AddsSource
    <2>2. QED
      BY <1>0, <2>1 DEF CommitApply, EffectRows, IInv, TypeOK
  <1>8. frame' \in Frames \cup {None} /\ replaced' \subseteq Proposals
    BY <1>0, <1>2 DEF CommitApply, EffectReady, AddsSource, Maps, ApplyFrame,
       SetFrame, IInv, TypeOK
  <1>9. TypeOK'
    BY <1>6, <1>7, <1>8 DEF TypeOK
  <1>10. Trails'
    <2>1. Trail(p)'
      <3>1. /\ audit[p] \in Seq(Event) /\ Len(audit[p]) = 1
            /\ audit[p][1].action = "approved"
            /\ audit[p][1].actor = proposal[p].reviewedBy
        BY <1>2 DEF IInv, Trails, Trail, TypeOK
      <3>2. /\ Len(audit'[p]) = 2 /\ audit'[p][1] = audit[p][1]
            /\ audit'[p][2] = event
        <4>1. 1 \in 1 .. Len(audit[p]) /\ Len(audit[p]) + 1 = 2
          BY <3>1
        <4>2. /\ Len(Append(audit[p], event)) = Len(audit[p]) + 1
              /\ \A i \in 1 .. Len(audit[p]) :
                   Append(audit[p], event)[i] = audit[p][i]
              /\ Append(audit[p], event)[Len(audit[p]) + 1] = event
          BY ZenonT(60), <3>1, <1>3, SecondEvent
        <4>3. audit'[p] = Append(audit[p], event)
          BY <1>6
        <4>4. Len(audit'[p]) = 2
          BY <4>1, <4>2, <4>3
        <4>5. audit'[p][1] = audit[p][1]
          BY <4>1, <4>2, <4>3
        <4>6. audit'[p][2] = event
          BY <4>1, <4>2, <4>3
        <4>7. QED
          BY <4>4, <4>5, <4>6
      <3>3. KindOf[p] = "verification_source_suggestion" =>
              proposal[p].reviewedBy # sess[s].by
        BY <1>2 DEF SecondReviewer
      <3>4. QED
        BY <3>1, <3>2, <3>3, <1>5, <1>6 DEF Trail
    <2>2. \A q \in Proposals \ {p} : Trail(q)'
      BY <1>6 DEF IInv, Trails, Trail
    <2>3. QED
      BY <2>1, <2>2 DEF Trails
  <1>11. RowsApplied'
    BY <1>6, <1>7 DEF IInv, RowsApplied, TypeOK, SourceRow
  <1>12. QED
    BY <1>6, <1>9, <1>10, <1>11 DEF IInv

\* The other routes of the claim's sources touch rows alone, and the script the
\* claim's frame.
LEMMA MapStep == ASSUME ProposalsAssumption, IInv, MapFrame PROVE IInv'
  <1>1. /\ UNCHANGED <<proposal, rows, audit, sess>>
        /\ frame' \in Frames \cup {None} /\ replaced' \subseteq Proposals
    BY DEF MapFrame, SetFrame, ProposalsAssumption, IInv, TypeOK
  <1>2. QED
    BY <1>1 DEF IInv, TypeOK, RequestsHold, OneHolder, Holds, SecondReviewer, Trails,
       Trail, RowsApplied

LEMMA DirectStep ==
  ASSUME ProposalsAssumption, IInv,
         \/ \E u \in Urls : AddDirectly(u)
         \/ \E row \in rows : Delete(row)
  PROVE  IInv'
  <1>1. UNCHANGED <<proposal, frame, replaced, audit, sess>>
    BY DEF AddDirectly, Delete
  <1>2. /\ rows' \subseteq SourceRow
        /\ \A row \in rows' : row \in rows \/ row.by = None
    BY DEF AddDirectly, Delete, IInv, TypeOK, SourceRow
  <1>3. TypeOK'
    BY <1>1, <1>2 DEF IInv, TypeOK
  <1>4. RequestsHold' /\ OneHolder'
    BY <1>1 DEF IInv, RequestsHold, OneHolder, Holds, SecondReviewer
  <1>5. Trails' /\ RowsApplied'
    BY <1>1, <1>2 DEF IInv, Trails, Trail, RowsApplied
  <1>6. QED
    BY <1>3, <1>4, <1>5 DEF IInv

LEMMA NextIInv == ASSUME ProposalsAssumption, IInv, [Next]_vars PROVE IInv'
  <1>1. CASE UNCHANGED vars
    BY <1>1 DEF vars, IInv, TypeOK, RequestsHold, OneHolder, Trails, RowsApplied,
       Holds, SecondReviewer, Trail
  <1>2. ASSUME NEW p \in Proposals, NEW r \in Reviewers, Create(p, r) PROVE IInv'
    BY <1>2, CreateStep
  <1>3. ASSUME NEW s \in Sessions, NEW p \in Proposals, NEW r \in Reviewers,
               NEW op \in {"approved", "rejected"}, BeginReview(s, p, r, op)
        PROVE  IInv'
    <2>1. Takes(s, p, r, op, None)
      BY <1>3 DEF BeginReview, Takes
    <2>2. QED
      BY <2>1, TakesStep
  <1>4. ASSUME NEW s \in Sessions, NEW p \in Proposals, NEW r \in Reviewers,
               BeginApply(s, p, r)
        PROVE  IInv'
    <2>1. /\ Takes(s, p, r, "applied", IF Maps(p) THEN frame ELSE None)
          /\ (IF Maps(p) THEN frame ELSE None) \in Frames \cup {None}
      BY <1>4 DEF BeginApply, Takes, IInv, TypeOK
    <2>2. QED
      BY <2>1, TakesStep
  <1>5. ASSUME NEW s \in Sessions, Attach(s) \/ Rollback(s) PROVE IInv'
    BY <1>5, SessionStep
  <1>6. ASSUME NEW s \in Sessions, CommitReview(s) PROVE IInv'
    BY <1>6, CommitReviewStep
  <1>7. ASSUME NEW s \in Sessions, CommitApply(s) PROVE IInv'
    BY <1>7, CommitApplyStep
  <1>8. CASE \/ \E u \in Urls : AddDirectly(u)
             \/ \E row \in rows : Delete(row)
    BY <1>8, DirectStep
  <1>9. CASE MapFrame
    BY <1>9, MapStep
  <1>10. QED
    BY <1>1, <1>2, <1>3, <1>4, <1>5, <1>6, <1>7, <1>8, <1>9, Zenon DEF Next

\* The inductive invariant holds in every state.
LEMMA Inductive == Spec => []IInv
  <1>1. Init => IInv
    BY InitIInv, ProposalsAssumption
  <1>2. IInv /\ [Next]_vars => IInv'
    BY NextIInv, ProposalsAssumption
  <1>3. QED
    BY <1>1, <1>2, PTL DEF Spec

-----------------------------------------------------------------------------
\* Rows, events and requests keep the shapes of the schema.
THEOREM TypesAreKept == Spec => []TypeOK
  <1>1. IInv => TypeOK
    BY DEF IInv
  <1>2. QED
    BY <1>1, Inductive, PTL

LEMMA TrailImplies == ASSUME IInv PROVE TrailTellsStatus
  <1>1. ASSUME NEW p \in Proposals
        PROVE  Actions(p) =
                 CASE proposal[p].status = "approved" -> <<"approved">>
                   [] proposal[p].status = "rejected" -> <<"rejected">>
                   [] proposal[p].status = "applied" -> <<"approved", "applied">>
                   [] OTHER -> << >>
    <2>1. Trail(p) /\ audit[p] \in Seq(Event) /\ proposal[p].status \in Statuses
      BY DEF IInv, Trails, TypeOK, ProposalRow
    <2>2. CASE proposal[p].status \in {"absent", "proposed"}
      <3>1. Len(audit[p]) = 0
        BY <2>1, <2>2 DEF Trail
      <3>2. Actions(p) = << >>
        BY <3>1 DEF Actions
      <3>3. QED
        BY <2>2, <3>2
    <2>3. CASE proposal[p].status = "approved"
      <3>1. Len(audit[p]) = 1 /\ audit[p][1].action = "approved"
        BY <2>1, <2>3 DEF Trail
      <3>2. Actions(p) = <<"approved">>
        BY <3>1 DEF Actions
      <3>3. QED
        BY <2>3, <3>2
    <2>4. CASE proposal[p].status = "rejected"
      <3>1. Len(audit[p]) = 1 /\ audit[p][1].action = "rejected"
        BY <2>1, <2>4 DEF Trail
      <3>2. Actions(p) = <<"rejected">>
        BY <3>1 DEF Actions
      <3>3. QED
        BY <2>4, <3>2
    <2>5. CASE proposal[p].status = "applied"
      <3>1. /\ Len(audit[p]) = 2 /\ audit[p][1].action = "approved"
            /\ audit[p][2].action = "applied"
        BY <2>1, <2>5 DEF Trail
      <3>2. Actions(p) = <<"approved", "applied">>
        BY <3>1 DEF Actions
      <3>3. QED
        BY <2>5, <3>2
    <2>6. QED
      BY <2>1, <2>2, <2>3, <2>4, <2>5 DEF Statuses
  <1>2. QED
    BY <1>1 DEF IInv, RowsApplied, TrailTellsStatus

\* However requests overlap, fail and are repeated, a proposal is reviewed once
\* and applied at most once, its trail tells its status, and what it left on
\* the claim is there only if it was applied.
THEOREM TrailIsTrue == Spec => []TrailTellsStatus
  <1>1. IInv => TrailTellsStatus
    BY TrailImplies
  <1>2. QED
    BY <1>1, Inductive, PTL

\* An applied verification source had two reviewers, whom its events name.
THEOREM TwoReviewersApply == Spec => []TwoReviewers
  <1>1. ASSUME IInv PROVE TwoReviewers
    <2> SUFFICES ASSUME NEW p \in Proposals,
                        KindOf[p] = "verification_source_suggestion",
                        Len(audit[p]) = 2
                 PROVE  /\ audit[p][2].approver = audit[p][1].actor
                        /\ audit[p][2].actor # audit[p][1].actor
      BY DEF TwoReviewers
    <2>1. Trail(p) /\ proposal[p].status \in Statuses
      BY <1>1 DEF IInv, Trails, TypeOK, ProposalRow
    <2>2. proposal[p].status = "applied"
      <3>1. proposal[p].status \notin {"absent", "proposed"}
        BY <2>1 DEF Trail
      <3>2. proposal[p].status \notin {"approved", "rejected"}
        <4>1. Len(audit[p]) # 1
          OBVIOUS
        <4>2. QED
          BY <2>1, <4>1 DEF Trail
      <3>3. QED
        BY <2>1, <3>1, <3>2 DEF Statuses
    <2>3. QED
      BY <2>1, <2>2 DEF Trail
  <1>2. IInv => TwoReviewers
    BY <1>1
  <1>3. QED
    BY <1>2, Inductive, PTL

-----------------------------------------------------------------------------
(* The requests implement the ledger: a proposal is reviewed and applied in *)
(* the step that commits it, and every other step of a request is hidden.   *)

\* One request at a time is between the duplicate check and the commit, and
\* nobody has added the source since.
ClaimHeld ==
  \A s \in Sessions : sess[s].pc = "attached" =>
    /\ AddsSource(sess[s].p)
    /\ \A row \in rows : row.url # ValueOf[sess[s].p]
    /\ \A t \in Sessions : sess[t].pc = "attached" => t = s

\* A step that leaves the sources alone and lets no request attach.
LEMMA HeldStays ==
  ASSUME ClaimHeld, rows' = rows,
         \A t \in Sessions : sess'[t].pc = "attached" => sess'[t] = sess[t]
  PROVE  ClaimHeld'
  BY DEF ClaimHeld, AddsSource

LEMMA AttachHeld ==
  ASSUME IInv, ClaimHeld, NEW s \in Sessions, Attach(s) PROVE ClaimHeld'
  <1>1. /\ sess' = [sess EXCEPT ![s].pc = "attached"] /\ rows' = rows
        /\ ClaimFree /\ AddsSource(sess[s].p)
        /\ \A row \in rows : row.url # ValueOf[sess[s].p]
    BY DEF Attach
  <1>2. sess \in [Sessions -> Request] /\ sess[s] \in Request
    BY DEF IInv, TypeOK
  <1>3. /\ sess'[s].p = sess[s].p
        /\ \A t \in Sessions \ {s} : sess'[t] = sess[t]
    BY <1>1, <1>2 DEF Request
  <1>4. \A t \in Sessions : sess'[t].pc = "attached" => t = s
    BY <1>1, <1>3 DEF ClaimFree
  <1>5. QED
    BY <1>1, <1>3, <1>4 DEF ClaimHeld, AddsSource

\* The request that ends is the one that had the claim, or had nothing of it.
LEMMA CommitApplyHeld ==
  ASSUME IInv, ClaimHeld, NEW s \in Sessions, CommitApply(s) PROVE ClaimHeld'
  <1>1. sess' = [sess EXCEPT ![s] = Idle] /\ EffectReady(s)
    BY DEF CommitApply
  <1>2. /\ sess'[s].pc = "idle"
        /\ \A t \in Sessions \ {s} : sess'[t] = sess[t]
    BY <1>1 DEF IInv, TypeOK, Idle
  <1>3. CASE AddsSource(sess[s].p)
    <2>1. sess[s].pc = "attached"
      BY <1>1, <1>3 DEF EffectReady
    <2>2. \A t \in Sessions : sess'[t].pc # "attached"
      BY <1>2, <2>1 DEF ClaimHeld
    <2>3. QED
      BY <2>2 DEF ClaimHeld
  <1>4. CASE ~AddsSource(sess[s].p)
    <2>1. rows' = rows
      BY <1>4 DEF CommitApply
    <2>2. QED
      BY <1>2, <2>1, HeldStays
  <1>5. QED
    BY <1>3, <1>4

LEMMA NextHeld == ASSUME IInv, ClaimHeld, [Next]_vars PROVE ClaimHeld'
  <1> USE DEF IInv, TypeOK
  <1>1. CASE UNCHANGED vars
    BY <1>1, HeldStays DEF vars
  <1>2. ASSUME NEW p \in Proposals, NEW r \in Reviewers, Create(p, r)
        PROVE  ClaimHeld'
    BY <1>2, HeldStays DEF Create
  <1>3. ASSUME NEW s \in Sessions, NEW p \in Proposals, NEW r \in Reviewers,
               NEW op \in {"approved", "rejected"}, BeginReview(s, p, r, op)
        PROVE  ClaimHeld'
    BY <1>3, HeldStays DEF BeginReview
  <1>4. ASSUME NEW s \in Sessions, NEW p \in Proposals, NEW r \in Reviewers,
               BeginApply(s, p, r)
        PROVE  ClaimHeld'
    BY <1>4, HeldStays DEF BeginApply
  <1>5. ASSUME NEW s \in Sessions, CommitReview(s) \/ Rollback(s)
        PROVE  ClaimHeld'
    BY <1>5, HeldStays DEF CommitReview, Rollback, Idle
  <1>6. ASSUME NEW s \in Sessions, Attach(s) PROVE ClaimHeld'
    BY <1>6, AttachHeld
  <1>7. ASSUME NEW s \in Sessions, CommitApply(s) PROVE ClaimHeld'
    BY <1>7, CommitApplyHeld
  <1>8. CASE \/ \E u \in Urls : AddDirectly(u)
             \/ \E row \in rows : Delete(row)
    BY <1>8 DEF AddDirectly, Delete, ClaimFree, ClaimHeld
  <1>9. CASE MapFrame
    BY <1>9, HeldStays DEF MapFrame
  <1>10. QED
    BY <1>1, <1>2, <1>3, <1>4, <1>5, <1>6, <1>7, <1>8, <1>9, Zenon DEF Next

\* A request that will write no frame read the right one, which the claim has
\* still, or has lost to another mapping.
Reads(s) ==
  LET q == sess[s] IN
  q.pc # "idle" /\ q.op = "applied" /\ Maps(q.p) /\ q.read = ValueOf[q.p] =>
    frame = ValueOf[q.p] \/ q.p \in replaced

ReadHeld == \A s \in Sessions : Reads(s)

\* A step that leaves the claim's frame alone, or sets it with its history.
FrameStep ==
  UNCHANGED <<frame, replaced>> \/ \E f \in Frames : SetFrame(f)

LEMMA ReadStays ==
  ASSUME IInv, ReadHeld, FrameStep,
         \A t \in Sessions :
           \/ sess'[t].pc = "idle" \/ sess'[t].op # "applied"
           \/ sess[t].pc # "idle" /\ sess'[t].op = sess[t].op
                /\ sess'[t].p = sess[t].p /\ sess'[t].read = sess[t].read
  PROVE  ReadHeld'
  <1> SUFFICES ASSUME NEW s \in Sessions, sess'[s].pc # "idle",
                      sess'[s].op = "applied", Maps(sess'[s].p),
                      sess'[s].read = ValueOf[sess'[s].p]
               PROVE  frame' = ValueOf[sess'[s].p] \/ sess'[s].p \in replaced'
    BY DEF ReadHeld, Reads, Maps
  <1>1. /\ sess[s].pc # "idle" /\ sess[s].op = "applied"
        /\ sess'[s].p = sess[s].p /\ sess'[s].read = sess[s].read
    OBVIOUS
  <1>2. frame = ValueOf[sess[s].p] \/ sess[s].p \in replaced
    BY <1>1 DEF ReadHeld, Reads
  <1>3. sess[s].p \in Proposals /\ proposal[sess[s].p].status = "approved"
    BY <1>1 DEF IInv, RequestsHold, Holds
  <1>4. QED
    BY <1>1, <1>2, <1>3 DEF FrameStep, SetFrame

LEMMA BeginApplyReads ==
  ASSUME IInv, ReadHeld, NEW s \in Sessions, NEW p \in Proposals,
         NEW r \in Reviewers, BeginApply(s, p, r)
  PROVE  ReadHeld'
  <1>1. /\ UNCHANGED <<frame, replaced>>
        /\ sess'[s].p = p /\ sess'[s].read = IF Maps(p) THEN frame ELSE None
        /\ \A t \in Sessions \ {s} : sess'[t] = sess[t]
    BY DEF BeginApply, IInv, TypeOK
  <1>2. Reads(s)'
    BY <1>1 DEF Reads, Maps
  <1>3. \A t \in Sessions \ {s} : Reads(t)'
    BY <1>1 DEF ReadHeld, Reads, Maps
  <1>4. QED
    BY <1>2, <1>3 DEF ReadHeld

LEMMA AttachReads ==
  ASSUME IInv, ReadHeld, NEW s \in Sessions, Attach(s) PROVE ReadHeld'
  <1>1. sess' = [sess EXCEPT ![s].pc = "attached"] /\ UNCHANGED <<frame, replaced>>
    BY DEF Attach
  <1>2. sess \in [Sessions -> Request] /\ sess[s] \in Request /\ sess[s].pc = "locked"
    BY DEF IInv, TypeOK, Attach
  <1>3. /\ sess'[s].op = sess[s].op /\ sess'[s].p = sess[s].p
        /\ sess'[s].read = sess[s].read /\ sess[s].pc # "idle"
    BY <1>1, <1>2 DEF Request
  <1>4. \A t \in Sessions \ {s} : sess'[t] = sess[t]
    BY <1>1, <1>2
  <1>5. QED
    BY <1>1, <1>3, <1>4, ReadStays DEF FrameStep

LEMMA CommitApplyReads ==
  ASSUME IInv, ReadHeld, NEW s \in Sessions, CommitApply(s) PROVE ReadHeld'
  <1>1. FrameStep
    BY DEF CommitApply, EffectReady, ApplyFrame, FrameStep, AddsSource, Maps
  <1>2. /\ sess'[s].pc = "idle"
        /\ \A t \in Sessions \ {s} : sess'[t] = sess[t]
    BY DEF CommitApply, IInv, TypeOK, Idle
  <1>3. QED
    BY <1>1, <1>2, ReadStays

LEMMA NextReads ==
  ASSUME ProposalsAssumption, IInv, ReadHeld, [Next]_vars PROVE ReadHeld'
  <1> USE DEF IInv, TypeOK
  <1>1. CASE UNCHANGED vars
    BY <1>1, ReadStays DEF vars, FrameStep
  <1>2. ASSUME NEW p \in Proposals, NEW r \in Reviewers, Create(p, r)
        PROVE  ReadHeld'
    BY <1>2, ReadStays DEF Create, FrameStep
  <1>3. ASSUME NEW s \in Sessions, NEW p \in Proposals, NEW r \in Reviewers,
               NEW op \in {"approved", "rejected"}, BeginReview(s, p, r, op)
        PROVE  ReadHeld'
    BY <1>3, ReadStays DEF BeginReview, FrameStep
  <1>4. ASSUME NEW s \in Sessions, NEW p \in Proposals, NEW r \in Reviewers,
               BeginApply(s, p, r)
        PROVE  ReadHeld'
    BY <1>4, BeginApplyReads
  <1>5. ASSUME NEW s \in Sessions, CommitReview(s) \/ Rollback(s)
        PROVE  ReadHeld'
    BY <1>5, ReadStays DEF CommitReview, Rollback, Idle, FrameStep
  <1>6. ASSUME NEW s \in Sessions, Attach(s) PROVE ReadHeld'
    BY <1>6, AttachReads
  <1>7. ASSUME NEW s \in Sessions, CommitApply(s) PROVE ReadHeld'
    BY <1>7, CommitApplyReads
  <1>8. CASE \/ \E u \in Urls : AddDirectly(u)
             \/ \E row \in rows : Delete(row)
    BY <1>8, ReadStays DEF AddDirectly, Delete, FrameStep
  <1>9. CASE MapFrame
    BY <1>9, ReadStays DEF MapFrame, FrameStep, ProposalsAssumption
  <1>10. QED
    BY <1>1, <1>2, <1>3, <1>4, <1>5, <1>6, <1>7, <1>8, <1>9 DEF Next

-----------------------------------------------------------------------------
\* What a proposal's trail says of who reviewed and applied it.
LEMMA Signers ==
  ASSUME IInv, NEW p \in Proposals
  PROVE  /\ proposal[p].status = "proposed" => audit[p] = << >>
         /\ proposal[p].status = "approved" =>
              Len(audit[p]) = 1 /\ Signer(p, 1) = proposal[p].reviewedBy
  BY DEF IInv, Trails, Trail, Signer

\* A new event adds one signer and takes none away.
LEMMA SignersAfter ==
  ASSUME IInv, NEW p \in Proposals, NEW event \in Event, NEW n \in {0, 1},
         Len(audit[p]) = n, audit'[p] = Append(audit[p], event)
  PROVE  /\ n = 0 => /\ Signer(p, 1)' = event.actor
                     /\ Signer(p, 2)' = Signer(p, 2) /\ Credited(p)' = Credited(p)
         /\ n = 1 => /\ Signer(p, 1)' = Signer(p, 1)
                     /\ Signer(p, 2)' = event.actor /\ Credited(p)' = event.approver
  <1>1. audit[p] \in Seq(Event)
    BY DEF IInv, TypeOK
  <1>2. /\ Len(audit'[p]) = n + 1 /\ audit'[p][n + 1] = event
        /\ \A i \in 1 .. n : audit'[p][i] = audit[p][i]
    BY <1>1, SecondEvent
  <1>3. CASE n = 0
    BY <1>2, <1>3 DEF Signer, Credited
  <1>4. CASE n = 1
    BY <1>2, <1>4 DEF Signer, Credited
  <1>5. QED
    BY <1>3, <1>4

LEMMA HiddenStep ==
  ASSUME \A p \in Proposals : proposal'[p].status = proposal[p].status,
         UNCHANGED <<audit, rows, frame, replaced>>
  PROVE  UNCHANGED Ledger!vars
  BY DEF Ledger!vars, Signer, Credited

LEMMA CreateLedger ==
  ASSUME IInv, NEW p \in Proposals, NEW r \in Reviewers, Create(p, r)
  PROVE  Ledger!Next
  <1>1. /\ proposal[p].status = "absent" /\ proposal'[p].status = "proposed"
        /\ \A q \in Proposals \ {p} : proposal'[q] = proposal[q]
        /\ UNCHANGED <<rows, frame, replaced, audit>>
    BY DEF IInv, TypeOK, Create
  <1>2. Ledger!Propose(p)
    BY <1>1, Zenon DEF Ledger!Propose, Ledger!Goes, Signer, Credited
  <1>3. QED
    BY <1>2 DEF Ledger!Next

LEMMA ReviewLedger ==
  ASSUME ProposalsAssumption, IInv, NEW s \in Sessions, CommitReview(s)
  PROVE  Ledger!Next
  <1>0. PICK p \in Proposals, r \in Reviewers, verdict \in {"approved", "rejected"} :
          p = sess[s].p /\ r = sess[s].by /\ verdict = sess[s].op
    BY DEF IInv, RequestsHold, Holds, CommitReview
  <1> DEFINE event == [action |-> verdict, actor |-> r, approver |-> None]
  <1>1. proposal[p].status = "proposed" /\ event \in Event
    BY <1>0 DEF IInv, RequestsHold, Holds, CommitReview, Event
  <1>2. event.actor = r
    OBVIOUS
  <1>3. UNCHANGED <<rows, frame, replaced>> /\ Commits(s, verdict, event)
    BY <1>0 DEF CommitReview, Commits
  <1> HIDE DEF event
  <1>4. /\ proposal'[p].status = verdict
        /\ \A q \in Proposals \ {p} : proposal'[q] = proposal[q]
        /\ audit'[p] = Append(audit[p], event)
        /\ \A q \in Proposals \ {p} : audit'[q] = audit[q]
    BY <1>0, <1>1, <1>3, CommitsStep
  <1>5. Len(audit[p]) = 0
    BY <1>1, Signers
  <1>6. /\ Signer(p, 1)' = r /\ Signer(p, 2)' = Signer(p, 2)
        /\ Credited(p)' = Credited(p)
    BY <1>1, <1>2, <1>4, <1>5, SignersAfter
  <1>7. /\ [q \in Proposals |-> proposal[q].status]'
             = [[q \in Proposals |-> proposal[q].status] EXCEPT ![p] = verdict]
        /\ [q \in Proposals |-> Signer(q, 1)]'
             = [[q \in Proposals |-> Signer(q, 1)] EXCEPT ![p] = r]
        /\ UNCHANGED [q \in Proposals |-> Signer(q, 2)]
        /\ UNCHANGED [q \in Proposals |-> Credited(q)]
    <2>1. \A q \in Proposals \ {p} : /\ proposal'[q].status = proposal[q].status
                                     /\ audit'[q] = audit[q]
      BY <1>4
    <2>2. proposal'[p].status = verdict
      BY <1>4
    <2>3. /\ \A q \in Proposals \ {p} : Signer(q, 1)' = Signer(q, 1)
          /\ \A q \in Proposals : Signer(q, 2)' = Signer(q, 2)
          /\ \A q \in Proposals : Credited(q)' = Credited(q)
      BY <1>6, <2>1 DEF Signer, Credited
    <2>4. [q \in Proposals |-> proposal[q].status]'
            = [[q \in Proposals |-> proposal[q].status] EXCEPT ![p] = verdict]
      BY <2>1, <2>2
    <2>5. [q \in Proposals |-> Signer(q, 1)]'
            = [[q \in Proposals |-> Signer(q, 1)] EXCEPT ![p] = r]
      BY <1>6, <2>3
    <2>6. /\ UNCHANGED [q \in Proposals |-> Signer(q, 2)]
          /\ UNCHANGED [q \in Proposals |-> Credited(q)]
      BY <2>3
    <2>7. QED
      BY <2>4, <2>5, <2>6
  <1>8. [q \in Proposals |-> proposal[q].status][p] = "proposed"
    BY <1>1
  <1>9. Ledger!Review(p, r, verdict)
    BY <1>3, <1>7, <1>8, Zenon DEF Ledger!Review, Ledger!Goes
  <1>10. QED
    BY <1>9 DEF Ledger!Next

LEMMA SetsTheFrame == ASSUME NEW f, SetFrame(f) PROVE Ledger!Sets(f)
  <1>1. {p \in Proposals : /\ Maps(p) /\ proposal[p].status = "approved"
                           /\ ValueOf[p] = frame /\ f # frame}
          = {p \in {q \in Proposals : Maps(q)} :
               /\ [q \in Proposals |-> proposal[q].status][p] = "approved"
               /\ ValueOf[p] = frame /\ f # frame}
    OBVIOUS
  <1>2. QED
    BY <1>1 DEF SetFrame, Ledger!Sets

LEMMA ApplyLedger ==
  ASSUME ProposalsAssumption, IInv, ClaimHeld, ReadHeld, NEW s \in Sessions,
         CommitApply(s)
  PROVE  Ledger!Next
  <1>0. PICK p \in Proposals, r \in Reviewers : p = sess[s].p /\ r = sess[s].by
    BY DEF IInv, RequestsHold, Holds, CommitApply, EffectReady
  <1> DEFINE event == [action |-> "applied", actor |-> r,
                       approver |-> proposal[p].reviewedBy]
  <1>1. /\ proposal[p].status = "approved" /\ SecondReviewer(p, r)
        /\ sess[s].pc # "idle"
    BY <1>0 DEF IInv, RequestsHold, Holds, CommitApply, EffectReady
  <1>2. event \in Event
    BY DEF Event, IInv, TypeOK, ProposalRow
  <1>3. /\ event.actor = r /\ event.approver = proposal[p].reviewedBy
        /\ Commits(s, "applied", event)
    BY <1>0, <1>1 DEF CommitApply, Commits
  <1> HIDE DEF event
  <1>4. /\ proposal'[p].status = "applied"
        /\ \A q \in Proposals \ {p} : proposal'[q] = proposal[q]
        /\ audit'[p] = Append(audit[p], event)
        /\ \A q \in Proposals \ {p} : audit'[q] = audit[q]
    BY <1>0, <1>2, <1>3, CommitsStep
  <1>5. Len(audit[p]) = 1 /\ Signer(p, 1) = proposal[p].reviewedBy
    BY <1>1, Signers
  <1>6. /\ Signer(p, 1)' = Signer(p, 1) /\ Signer(p, 2)' = r
        /\ Credited(p)' = Signer(p, 1)
    BY <1>2, <1>3, <1>4, <1>5, SignersAfter
  <1>7. KindOf[p] = "verification_source_suggestion" => Signer(p, 1) # r
    BY <1>1, <1>5 DEF SecondReviewer
  <1>8. IF AddsSource(p) THEN Ledger!Added(ValueOf[p], p) ELSE UNCHANGED rows
    <2>1. AddsSource(p) => \A row \in rows : row.url # ValueOf[p]
      BY <1>0 DEF ClaimHeld, CommitApply, EffectReady
    <2>2. rows' = IF AddsSource(p) THEN EffectRows(p, rows) ELSE rows
      BY <1>0 DEF CommitApply
    <2>3. QED
      BY <2>1, <2>2 DEF EffectRows, Ledger!Added
  <1>9. /\ Maps(p) => ValueOf[p] \in Frames
        /\ \/ Maps(p) /\ SetFrame(ValueOf[p])
           \/ /\ Maps(p) => frame = ValueOf[p] \/ p \in replaced
              /\ UNCHANGED <<frame, replaced>>
    <2>1. /\ Maps(p) => ValueOf[p] \in Frames
          /\ IF ~Maps(p) \/ sess[s].read = ValueOf[p]
             THEN UNCHANGED <<frame, replaced>> ELSE SetFrame(ValueOf[p])
      BY <1>0 DEF CommitApply, EffectReady, ApplyFrame, AddsSource, Maps
    <2>2. Reads(s) /\ sess[s].op = "applied"
      BY DEF ReadHeld, CommitApply
    <2>3. QED
      BY <1>0, <1>1, <2>1, <2>2 DEF Reads
  <1>10. /\ [q \in Proposals |-> proposal[q].status]'
              = [[q \in Proposals |-> proposal[q].status] EXCEPT ![p] = "applied"]
         /\ UNCHANGED [q \in Proposals |-> Signer(q, 1)]
         /\ [q \in Proposals |-> Signer(q, 2)]'
              = [[q \in Proposals |-> Signer(q, 2)] EXCEPT ![p] = r]
         /\ [q \in Proposals |-> Credited(q)]'
              = [[q \in Proposals |-> Credited(q)] EXCEPT
                   ![p] = [q \in Proposals |-> Signer(q, 1)][p]]
    <2>1. \A q \in Proposals \ {p} : /\ proposal'[q].status = proposal[q].status
                                     /\ audit'[q] = audit[q]
      BY <1>4
    <2>2. proposal'[p].status = "applied"
      BY <1>4
    <2>3. /\ \A q \in Proposals : Signer(q, 1)' = Signer(q, 1)
          /\ \A q \in Proposals \ {p} : Signer(q, 2)' = Signer(q, 2)
          /\ \A q \in Proposals \ {p} : Credited(q)' = Credited(q)
      BY <1>6, <2>1 DEF Signer, Credited
    <2>4. [q \in Proposals |-> proposal[q].status]'
            = [[q \in Proposals |-> proposal[q].status] EXCEPT ![p] = "applied"]
      BY <2>1, <2>2
    <2>5. UNCHANGED [q \in Proposals |-> Signer(q, 1)]
      BY <2>3
    <2>6. [q \in Proposals |-> Signer(q, 2)]'
            = [[q \in Proposals |-> Signer(q, 2)] EXCEPT ![p] = r]
      BY <1>6, <2>3
    <2>7. [q \in Proposals |-> Credited(q)]'
            = [[q \in Proposals |-> Credited(q)] EXCEPT
                 ![p] = [q \in Proposals |-> Signer(q, 1)][p]]
      <3>1. [q \in Proposals |-> Signer(q, 1)][p] = Signer(p, 1)
        OBVIOUS
      <3>2. [q \in Proposals |-> Credited(q)]'
              = [[q \in Proposals |-> Credited(q)] EXCEPT ![p] = Signer(p, 1)]
        BY <1>6, <2>3
      <3>3. QED
        BY <3>1, <3>2
    <2>8. QED
      BY <2>4, <2>5, <2>6, <2>7
  <1>11. /\ [q \in Proposals |-> proposal[q].status][p] = "approved"
         /\ [q \in Proposals |-> Signer(q, 1)][p] = Signer(p, 1)
    BY <1>1
  <1>12. Ledger!Apply(p, r)
    <2>1. Ledger!Goes(p, "approved", "applied")
      BY <1>10, <1>11, Zenon DEF Ledger!Goes
    <2>2. p \in {q \in Proposals : KindOf[q] = "verification_source_suggestion"}
            => [q \in Proposals |-> Signer(q, 1)][p] # r
      BY <1>7, <1>11, Zenon
    <2>3. /\ p \in {q \in Proposals : AddsSource(q)} <=> AddsSource(p)
          /\ p \in {q \in Proposals : Maps(q)} <=> Maps(p)
      OBVIOUS
    <2>4. SetFrame(ValueOf[p]) => Ledger!Sets(ValueOf[p])
      BY SetsTheFrame
    <2>5. QED
      BY <1>8, <1>9, <1>10, <2>1, <2>2, <2>3, <2>4, Zenon DEF Ledger!Apply
  <1>13. QED
    BY <1>12 DEF Ledger!Next

LEMMA LedgerStep ==
  ASSUME ProposalsAssumption, IInv, ClaimHeld, ReadHeld, [Next]_vars
  PROVE  [Ledger!Next]_(Ledger!vars)
  <1> DEFINE Goal == [Ledger!Next]_(Ledger!vars)
  <1>1. CASE UNCHANGED vars
    BY <1>1, HiddenStep DEF vars
  <1>2. ASSUME NEW p \in Proposals, NEW r \in Reviewers, Create(p, r) PROVE Goal
    BY <1>2, CreateLedger
  <1>3. ASSUME NEW s \in Sessions, NEW p \in Proposals, NEW r \in Reviewers,
               NEW op \in {"approved", "rejected"}, BeginReview(s, p, r, op)
        PROVE  Goal
    BY <1>3, HiddenStep DEF BeginReview
  <1>4. ASSUME NEW s \in Sessions, NEW p \in Proposals, NEW r \in Reviewers,
               BeginApply(s, p, r)
        PROVE  Goal
    BY <1>4, HiddenStep DEF BeginApply
  <1>5. ASSUME NEW s \in Sessions, Attach(s) \/ Rollback(s) PROVE Goal
    BY <1>5, HiddenStep DEF Attach, Rollback
  <1>6. ASSUME NEW s \in Sessions, CommitReview(s) PROVE Goal
    BY <1>6, ReviewLedger
  <1>7. ASSUME NEW s \in Sessions, CommitApply(s) PROVE Goal
    BY <1>7, ApplyLedger
  <1>8. ASSUME NEW u \in Urls, AddDirectly(u) PROVE Goal
    <2>1. Ledger!Add(u)
      BY <1>8 DEF AddDirectly, Ledger!Add, Ledger!Added, Signer, Credited
    <2>2. QED
      BY <2>1 DEF Ledger!Next
  <1>9. ASSUME NEW row \in rows, Delete(row) PROVE Goal
    <2>1. Ledger!Remove(row)
      BY <1>9 DEF Delete, Ledger!Remove, Signer, Credited
    <2>2. QED
      BY <2>1 DEF Ledger!Next
  <1>10. CASE MapFrame
    <2>1. Ledger!Sets(Matched)
      BY <1>10, SetsTheFrame DEF MapFrame
    <2>2. Ledger!Map
      BY <1>10, <2>1 DEF MapFrame, Ledger!Map, Signer, Credited
    <2>3. QED
      BY <2>2 DEF Ledger!Next
  <1>11. QED
    BY <1>1, <1>2, <1>3, <1>4, <1>5, <1>6, <1>7, <1>8, <1>9, <1>10 DEF Next

LEMMA LedgerInit == Init => Ledger!Init
  BY DEF Init, Ledger!Init, Signer, Credited

\* The requests together do what the ledger does in single steps: no proposal
\* is applied over a source that came in between, a mapping is applied without
\* giving its frame only to a claim that had the frame since its approval, and
\* the trail alone tells who reviewed and who applied a proposal, whatever the
\* row says.
THEOREM ImplementsLedger == Spec => LedgerSpec
  <1> DEFINE Inv == IInv /\ ClaimHeld /\ ReadHeld
  <1>1. Init => Inv /\ Ledger!Init
    BY InitIInv, LedgerInit, ProposalsAssumption
       DEF Init, ClaimHeld, ReadHeld, Reads, Idle
  <1>2. Inv /\ [Next]_vars => Inv'
    BY NextIInv, NextHeld, NextReads, ProposalsAssumption
  <1>3. Inv /\ [Next]_vars => [Ledger!Next]_(Ledger!vars)
    BY LedgerStep, ProposalsAssumption
  <1>4. QED
    BY <1>1, <1>2, <1>3, PTL DEF Spec, LedgerSpec, Ledger!Spec
=============================================================================
