------------------------- MODULE ClaimReviewProofs -------------------------
(***************************************************************************)
(* Proofs about ClaimReview and Workbench: type correctness, the evidence  *)
(* and the provenance of published claims, countersigned overwrites, the   *)
(* refinement of ReviewPolicy, and what the workbench tells reviewers.     *)
(***************************************************************************)
EXTENDS Workbench, FiniteSetTheorems, TLAPS

Evidenced(c) == HasRow(c, "primary") /\ HasRow(c, "secondary")

\* What a session that passed its checks still knows when it commits.
Sound(s) ==
  LET q == sess[s]
      c == q.claim
  IN  /\ q.pc \in {"open"} \cup Mutations => q.who \in Reviewers
      /\ q.pc \in {"open", "evaluate"} => q.approver # Bootstrap
      /\ q.pc \in {"bootstrap"} \cup Mutations => c \in Claims
      /\ q.pc \in Mutations => lock[c] = s
      /\ q.pc = "evaluate" => IF evals[c] = <<>> THEN q.approver = None
                              ELSE q.approver \in Reviewers \ {q.who}
      /\ q.pc = "evaluate" /\ q.verdict = "supported" => Evidenced(c)
      /\ q.pc = "publish" =>
           /\ Evidenced(c)
           /\ q.approver \in Reviewers \ {q.who}
           /\ evals[c] # <<>>
           /\ Latest(c).verdict = "supported"
           /\ Latest(c).cited
           /\ Latest(c).by = q.approver
      /\ q.pc = "unpublish" =>
           /\ q.approver = PublishApprover(c, claim[c].by)
           /\ q.approver \notin {None, q.who}
      /\ q.pc = "add" => /\ q.body \in Payloads
                         /\ \A row \in sources[c] : row.body.url # q.body.url
      /\ q.pc = "delete" => /\ ~claim[c].published
                            /\ \E row \in sources[c] : row.body = q.body

\* A claim's evaluations have a latest one, and the bootstrap reviewer
\* gives no factual verdict.
EvaluationsSound ==
  \A c \in Claims :
    /\ evals[c] # <<>> =>
         \E i \in DOMAIN evals[c] :
           \A j \in DOMAIN evals[c] : evals[c][j].at <= evals[c][i].at
    /\ \A i \in DOMAIN evals[c] :
         evals[c][i].verdict = "supported" => evals[c][i].by \in Reviewers

SessionsSound == \A s \in Sessions : Sound(s)

IInv == /\ TypeOK
        /\ SessionsSound
        /\ EvaluationsSound
        /\ PublishedEvidence
        /\ PublishedProvenance

-----------------------------------------------------------------------------
\* The row the queries pick is one of the claim's evaluations.
LEMMA LatestIsARow ==
  ASSUME TypeOK, EvaluationsSound, NEW c \in Claims, evals[c] # <<>>
  PROVE  \E i \in DOMAIN evals[c] : Latest(c) = evals[c][i]
  BY DEF EvaluationsSound, Latest

LEMMA ApproverType ==
  ASSUME TypeOK, EvaluationsSound, NEW c \in Claims,
         NEW fallback \in Reviewers \cup {None}
  PROVE  PublishApprover(c, fallback) \in Reviewers \cup {Bootstrap, None}
  <1>1. CASE evals[c] = <<>>
    BY <1>1 DEF PublishApprover
  <1>2. CASE evals[c] # <<>>
    <2>1. PICK i \in DOMAIN evals[c] : Latest(c) = evals[c][i]
      BY <1>2, LatestIsARow
    <2>2. evals[c][i] \in Evaluation
      BY DEF TypeOK
    <2>3. QED
      BY <1>2, <2>1, <2>2 DEF PublishApprover, Evaluation
  <1>3. QED
    BY <1>1, <1>2

LEMMA IdleType == Idle \in SessionState
  BY DEF Idle, SessionState, Verdicts, Mutations

\* Holding builds a session record.
LEMMA HoldingType ==
  ASSUME TypeOK, NEW s \in Sessions, NEW c \in Claims, NEW pc \in Mutations,
         NEW a \in Reviewers \cup {Bootstrap, None}
  PROVE  Holding(s, c, pc, a) \in SessionState
  BY DEF TypeOK, Holding, SessionState

\* The updates of a claim row, and of a source row, are rows.
LEMMA RowUpdates ==
  /\ \A q \in ClaimRow, r \in Reviewers \cup {None} :
       \A published \in BOOLEAN,
          status \in {"draft", "reviewed", "published"} :
         [q EXCEPT !.published = published, !.status = status, !.by = r]
           \in ClaimRow
  /\ \A q \in ClaimRow :
       [q EXCEPT !.status = "reviewed", !.checkable = TRUE] \in ClaimRow
  /\ \A q \in ClaimRow, b \in BOOLEAN : [q EXCEPT !.checkable = b] \in ClaimRow
  /\ \A row \in SourceRow : [row EXCEPT !.flagged = TRUE] \in SourceRow
  BY DEF ClaimRow, SourceRow

\* What EvaluateCheck writes into its session.
LEMMA EvaluateCheckSession ==
  ASSUME NEW s, NEW c, EvaluateCheck(s, c)
  PROVE  \E verdict \in Verdicts, cited \in BOOLEAN :
           /\ verdict = "supported" => HasMinimumEvidence(c)
           /\ sess' = [sess EXCEPT ![s] =
                [Holding(s, c, "evaluate",
                         IF evals[c] = <<>> THEN None ELSE sess[s].approver)
                   EXCEPT !.verdict = verdict, !.cited = cited]]
  BY Zenon DEF EvaluateCheck

LEMMA InitIInv == ReviewAssumption /\ Init => IInv
  <1> SUFFICES ASSUME ReviewAssumption, Init PROVE IInv
    OBVIOUS
  <1>1. TypeOK
    <2>1. claim \in [Claims -> ClaimRow]
      BY DEF Init, ClaimRow
    <2>2. sources \in [Claims -> SUBSET SourceRow]
      <3>1. ASSUME NEW row \in Gathered PROVE row \in SourceRow
        <4>1. PICK p \in Payloads : row = [body |-> p, flagged |-> FALSE]
          BY DEF Gathered
        <4>2. QED
          BY <4>1 DEF SourceRow
      <3>2. SUBSET Gathered \subseteq SUBSET SourceRow
        BY <3>1
      <3>3. QED
        BY <3>2 DEF Init
    <2>3. sess \in [Sessions -> SessionState]
      BY IdleType DEF Init
    <2>4. /\ evals \in [Claims -> Seq(Evaluation)]
          /\ lock \in [Claims -> Sessions \cup {None}]
          /\ active \subseteq Reviewers /\ audit \subseteq AuditRow
          /\ now \in Nat
      BY DEF Init
    <2>5. QED
      BY <2>1, <2>2, <2>3, <2>4 DEF TypeOK
  <1>2. SessionsSound
    BY DEF Init, SessionsSound, Sound, Idle, Mutations
  <1>3. EvaluationsSound
    BY DEF Init, EvaluationsSound
  <1>4. PublishedEvidence /\ PublishedProvenance
    BY DEF Init, PublishedEvidence, PublishedProvenance
  <1>5. QED
    BY <1>1, <1>2, <1>3, <1>4 DEF IInv

-----------------------------------------------------------------------------
(* Steps. *)

LEMMA TypeStep == ReviewAssumption /\ IInv /\ [Next]_vars => TypeOK'
  <1> SUFFICES ASSUME ReviewAssumption, TypeOK, SessionsSound,
                      EvaluationsSound, [Next]_vars
               PROVE  TypeOK'
    BY DEF IInv
  <1> USE DEF TypeOK
  <1>t. ASSUME NEW s \in Sessions, NEW q \in SessionState,
               sess' = [sess EXCEPT ![s] = q]
        PROVE  sess' \in [Sessions -> SessionState]
    BY <1>t
  <1>l. ASSUME NEW s \in Sessions, NEW c \in Claims, TakeClaimLock(s, c)
        PROVE  lock' \in [Claims -> Sessions \cup {None}]
    BY <1>l DEF TakeClaimLock
  <1>1. ASSUME NEW s \in Sessions, Authenticate(s) PROVE TypeOK'
    <2>1. PICK who \in active, approver \in active \cup {None} :
            sess' = [sess EXCEPT ![s] =
                       [Idle EXCEPT !.pc = "open", !.who = who,
                          !.approver = approver, !.start = now + 1]]
      BY <1>1 DEF Authenticate
    <2>2. /\ who \in Reviewers /\ approver \in Reviewers \cup {None}
          /\ now + 1 \in Nat
      OBVIOUS
    <2>3. [Idle EXCEPT !.pc = "open", !.who = who, !.approver = approver,
             !.start = now + 1] \in SessionState
      BY <2>2, IdleType DEF SessionState
    <2>4. sess' \in [Sessions -> SessionState]
      BY <1>t, <2>1, <2>3
    <2>5. QED
      BY <1>1, <2>4 DEF Authenticate, tables
  <1>2. ASSUME NEW s \in Sessions, NEW c \in Claims, EvaluateCheck(s, c)
        PROVE  TypeOK'
    <2> DEFINE a == IF evals[c] = <<>> THEN None ELSE sess[s].approver
    <2>1. PICK verdict \in Verdicts, cited \in BOOLEAN :
            /\ verdict = "supported" => HasMinimumEvidence(c)
            /\ sess' = [sess EXCEPT ![s] =
                 [Holding(s, c, "evaluate", a)
                    EXCEPT !.verdict = verdict, !.cited = cited]]
      BY <1>2, EvaluateCheckSession, Zenon
    <2>2. a \in Reviewers \cup {Bootstrap, None}
      BY DEF SessionState
    <2> HIDE DEF a
    <2>3. Holding(s, c, "evaluate", a) \in SessionState
      BY <2>2, HoldingType DEF Mutations
    <2>4. [Holding(s, c, "evaluate", a)
             EXCEPT !.verdict = verdict, !.cited = cited] \in SessionState
      BY <2>3 DEF SessionState
    <2>5. sess' \in [Sessions -> SessionState]
      BY <1>t, <2>1, <2>4
    <2>6. QED
      BY <1>2, <1>l, <2>5 DEF EvaluateCheck, tables
  <1>3. ASSUME NEW s \in Sessions, NEW c \in Claims, PublishCheck(s, c)
        PROVE  TypeOK'
    <2>1. PublishApprover(c, None) \in Reviewers \cup {Bootstrap, None}
      BY ApproverType
    <2>2. Holding(s, c, "publish", PublishApprover(c, None)) \in SessionState
      BY <2>1, HoldingType DEF Mutations
    <2>3. sess' \in [Sessions -> SessionState]
      BY <1>t, <1>3, <2>2 DEF PublishCheck
    <2>4. QED
      BY <1>3, <1>l, <2>3 DEF PublishCheck, tables
  <1>4. ASSUME NEW s \in Sessions, NEW c \in Claims, UnpublishCheck(s, c)
        PROVE  TypeOK'
    <2>1. PublishApprover(c, claim[c].by) \in Reviewers \cup {Bootstrap, None}
      BY ApproverType DEF ClaimRow
    <2>2. Holding(s, c, "unpublish", PublishApprover(c, claim[c].by))
            \in SessionState
      BY <2>1, HoldingType DEF Mutations
    <2>3. sess' \in [Sessions -> SessionState]
      BY <1>t, <1>4, <2>2 DEF UnpublishCheck
    <2>4. QED
      BY <1>4, <1>l, <2>3 DEF UnpublishCheck, tables
  <1>5. ASSUME NEW s \in Sessions, NEW c \in Claims, AddCheck(s, c)
        PROVE  TypeOK'
    <2>1. PICK p \in Payloads :
            sess' = [sess EXCEPT ![s] =
                       [Holding(s, c, "add", None) EXCEPT !.body = p]]
      BY <1>5 DEF AddCheck
    <2>2. Holding(s, c, "add", None) \in SessionState
      BY HoldingType DEF Mutations
    <2>3. [Holding(s, c, "add", None) EXCEPT !.body = p] \in SessionState
      BY <2>2 DEF SessionState
    <2>4. sess' \in [Sessions -> SessionState]
      BY <1>t, <2>1, <2>3
    <2>5. QED
      BY <1>5, <1>l, <2>4 DEF AddCheck, tables
  <1>6. ASSUME NEW s \in Sessions, NEW c \in Claims, DeleteCheck(s, c)
        PROVE  TypeOK'
    <2>1. PICK row \in sources[c] :
            sess' = [sess EXCEPT ![s] =
                       [Holding(s, c, "delete", None)
                          EXCEPT !.body = row.body]]
      BY <1>6 DEF DeleteCheck
    <2>2. Holding(s, c, "delete", None) \in SessionState
      BY HoldingType DEF Mutations
    <2>3. row.body \in Payloads
      BY DEF SourceRow
    <2>4. [Holding(s, c, "delete", None) EXCEPT !.body = row.body]
            \in SessionState
      BY <2>2, <2>3 DEF SessionState
    <2>5. sess' \in [Sessions -> SessionState]
      BY <1>t, <2>1, <2>4
    <2>6. QED
      BY <1>6, <1>l, <2>5 DEF DeleteCheck, tables
  <1>f. ASSUME NEW s \in Sessions, Finish(s), sess[s].claim \in Claims
        PROVE  /\ sess' \in [Sessions -> SessionState]
               /\ lock' \in [Claims -> Sessions \cup {None}]
               /\ active' \subseteq Reviewers
               /\ now' \in Nat
    BY <1>f, IdleType DEF Finish
  <1>m. \A s \in Sessions : sess[s].pc \in Mutations =>
          sess[s].claim \in Claims /\ sess[s].who \in Reviewers
    BY DEF SessionsSound, Sound
  <1>7. ASSUME NEW s \in Sessions, EvaluateCommit(s) PROVE TypeOK'
    <2>1. sess[s].claim \in Claims /\ sess[s].who \in Reviewers
      BY <1>7, <1>m DEF EvaluateCommit, Mutations
    <2>2. sess[s].approver \in Reviewers \cup {None}
      BY <1>7 DEF EvaluateCommit, SessionsSound, Sound, Mutations
    <2>3. [verdict |-> sess[s].verdict, cited |-> sess[s].cited,
           by |-> sess[s].who, approver |-> sess[s].approver,
           at |-> sess[s].start] \in Evaluation
      BY <2>1, <2>2 DEF Evaluation, SessionState
    <2>4. evals' \in [Claims -> Seq(Evaluation)]
      BY <1>7, <2>1, <2>3 DEF EvaluateCommit
    <2>5. claim' \in [Claims -> ClaimRow]
      <3>1. claim' = [claim EXCEPT ![sess[s].claim].status = "reviewed"]
        BY <1>7 DEF EvaluateCommit
      <3>2. claim[sess[s].claim] \in ClaimRow
        BY <2>1
      <3>3. [claim[sess[s].claim] EXCEPT !.status = "reviewed"] \in ClaimRow
        BY <3>2 DEF ClaimRow
      <3>4. QED
        BY <2>1, <3>1, <3>3
    <2>6. audit' \subseteq AuditRow
      BY <1>7, <2>1, <2>2 DEF EvaluateCommit, AuditRow
    <2>7. QED
      BY <1>7, <1>f, <2>1, <2>4, <2>5, <2>6 DEF EvaluateCommit
  <1>8. ASSUME NEW s \in Sessions, PublishCommit(s) PROVE TypeOK'
    <2>1. /\ sess[s].claim \in Claims /\ sess[s].who \in Reviewers
          /\ sess[s].approver \in Reviewers
      BY <1>8 DEF PublishCommit, SessionsSound, Sound, Mutations
    <2>2. claim' \in [Claims -> ClaimRow]
      <3>1. [claim[sess[s].claim] EXCEPT !.published = TRUE,
               !.status = "published", !.by = sess[s].who] \in ClaimRow
        BY <2>1, RowUpdates
      <3>2. QED
        BY <1>8, <2>1, <3>1 DEF PublishCommit
    <2>3. audit' \subseteq AuditRow
      BY <1>8, <2>1 DEF PublishCommit, AuditRow
    <2>4. QED
      BY <1>8, <1>f, <2>1, <2>2, <2>3 DEF PublishCommit
  <1>9. ASSUME NEW s \in Sessions, UnpublishCommit(s) PROVE TypeOK'
    <2>1. /\ sess[s].claim \in Claims /\ sess[s].who \in Reviewers
          /\ sess[s].approver \in Reviewers \cup {Bootstrap}
      BY <1>9 DEF UnpublishCommit, SessionsSound, Sound, Mutations,
                  SessionState
    <2>2. claim' \in [Claims -> ClaimRow]
      <3>1. [claim[sess[s].claim] EXCEPT !.published = FALSE,
               !.status = "reviewed", !.by = None] \in ClaimRow
        BY <2>1, RowUpdates
      <3>2. QED
        BY <1>9, <2>1, <3>1 DEF UnpublishCommit
    <2>3. audit' \subseteq AuditRow
      BY <1>9, <2>1 DEF UnpublishCommit, AuditRow
    <2>4. QED
      BY <1>9, <1>f, <2>1, <2>2, <2>3 DEF UnpublishCommit
  <1>10. ASSUME NEW s \in Sessions, AddCommit(s) PROVE TypeOK'
    <2>1. sess[s].claim \in Claims /\ sess[s].body \in Payloads
      BY <1>10 DEF AddCommit, SessionsSound, Sound, Mutations
    <2>2. sources' \in [Claims -> SUBSET SourceRow]
      <3>1. [body |-> sess[s].body, flagged |-> FALSE] \in SourceRow
        BY <2>1 DEF SourceRow
      <3>2. QED
        BY <1>10, <2>1, <3>1 DEF AddCommit
    <2>3. QED
      BY <1>10, <1>f, <2>1, <2>2 DEF AddCommit
  <1>11. ASSUME NEW s \in Sessions, DeleteCommit(s) PROVE TypeOK'
    <2>1. sess[s].claim \in Claims
      BY <1>11, <1>m DEF DeleteCommit, Mutations
    <2>2. sources' \in [Claims -> SUBSET SourceRow]
      BY <1>11, <2>1 DEF DeleteCommit
    <2>3. QED
      BY <1>11, <1>f, <2>1, <2>2 DEF DeleteCommit
  <1>12. ASSUME NEW s \in Sessions, Refuse(s) PROVE TypeOK'
    BY <1>12, IdleType DEF Refuse, tables
  <1>13. ASSUME NEW s \in Sessions, Rollback(s) PROVE TypeOK'
    BY <1>13, <1>f, <1>m DEF Rollback, tables
  <1>14. ASSUME NEW r \in Reviewers, SetActive(r) PROVE TypeOK'
    BY <1>14 DEF SetActive, tables
  <1>15. ASSUME NEW c \in Claims, FlagSource(c) PROVE TypeOK'
    <2>1. PICK row \in sources[c] :
            sources' = [sources EXCEPT ![c] =
                          (@ \ {row}) \cup {[row EXCEPT !.flagged = TRUE]}]
      BY <1>15 DEF FlagSource
    <2>2. [row EXCEPT !.flagged = TRUE] \in SourceRow
      BY RowUpdates
    <2>3. sources' \in [Claims -> SUBSET SourceRow]
      BY <2>1, <2>2
    <2>4. QED
      BY <1>15, <2>3 DEF FlagSource
  <1>16. ASSUME NEW c \in Claims, SetCheckable(c) PROVE TypeOK'
    <2>1. PICK b \in BOOLEAN : claim' = [claim EXCEPT ![c].checkable = b]
      BY <1>16 DEF SetCheckable
    <2>2. claim' \in [Claims -> ClaimRow]
      BY <2>1, RowUpdates
    <2>3. QED
      BY <1>16, <2>2 DEF SetCheckable
  <1>17. ASSUME NEW s \in Sessions, NEW c \in Claims, BootstrapRead(s, c)
         PROVE  TypeOK'
    <2>1. [Idle EXCEPT !.pc = "bootstrap", !.claim = c, !.start = now + 1]
            \in SessionState
      <3>1. now + 1 \in Nat
        OBVIOUS
      <3>2. QED
        BY <3>1, IdleType DEF SessionState
    <2>2. sess' \in [Sessions -> SessionState]
      BY <1>t, <1>17, <2>1 DEF BootstrapRead
    <2>3. QED
      BY <1>17, <2>2 DEF BootstrapRead, tables
  <1>18. ASSUME NEW s \in Sessions, BootstrapWrite(s) PROVE TypeOK'
    <2>1. sess[s].claim \in Claims
      BY <1>18 DEF BootstrapWrite, SessionsSound, Sound
    <2>2. [verdict |-> "insufficient", cited |-> TRUE, by |-> Bootstrap,
           approver |-> None, at |-> sess[s].start] \in Evaluation
      BY DEF Evaluation, Verdicts, SessionState
    <2>3. evals' \in [Claims -> Seq(Evaluation)]
      BY <1>18, <2>1, <2>2 DEF BootstrapWrite
    <2>4. claim' \in [Claims -> ClaimRow]
      <3>1. [claim[sess[s].claim] EXCEPT !.status = "reviewed",
               !.checkable = TRUE] \in ClaimRow
        BY <2>1, RowUpdates
      <3>2. QED
        BY <1>18, <2>1, <3>1 DEF BootstrapWrite
    <2>5. QED
      BY <1>18, <2>3, <2>4, IdleType DEF BootstrapWrite
  <1>19. CASE UNCHANGED vars
    BY <1>19 DEF vars, tables
  <1>20. QED
    BY <1>1, <1>2, <1>3, <1>4, <1>5, <1>6, <1>7, <1>8, <1>9, <1>10, <1>11,
       <1>12, <1>13, <1>14, <1>15, <1>16, <1>17, <1>18, <1>19
       DEF Next, Request, Script

-----------------------------------------------------------------------------
(* What sessions know survives the steps of the others. *)

SameBodies(d) ==
  /\ \A row \in sources[d] : \E row2 \in sources'[d] : row2.body = row.body
  /\ \A row \in sources'[d] : \E row2 \in sources[d] : row2.body = row.body

\* d looks the same to the session that holds its lock, but for flags.
Unchanged(d) ==
  /\ lock'[d] = lock[d]
  /\ evals'[d] = evals[d]
  /\ claim'[d].published = claim[d].published
  /\ claim'[d].by = claim[d].by
  /\ SameBodies(d)

\* The row with the highest created_at.
LatestOf(rows) ==
  rows[CHOOSE i \in DOMAIN rows :
         \A j \in DOMAIN rows : rows[j].at <= rows[i].at]

LEMMA Frame ==
  ASSUME NEW t, Sound(t), sess'[t] = sess[t],
         sess[t].pc \in Mutations => Unchanged(sess[t].claim)
  PROVE  Sound(t)'
  <1>1. CASE sess[t].pc \notin Mutations
    BY <1>1 DEF Sound, Mutations
  <1>2. CASE sess[t].pc \in Mutations
    <2> DEFINE d == sess[t].claim
    <2>1. Evidenced(d) => Evidenced(d)'
      BY <1>2 DEF Unchanged, SameBodies, HasRow, Evidenced
    <2>2. evals'[d'] = evals[d] /\ claim'[d'].by = claim[d].by
      BY <1>2 DEF Unchanged
    <2>3. /\ Latest(d) = LatestOf(evals[d])
          /\ Latest(d)' = LatestOf(evals'[d'])
      BY DEF Latest, LatestOf
    <2>4. Latest(d)' = Latest(d)
      BY <2>2, <2>3
    <2>5. PublishApprover(d, claim[d].by)' = PublishApprover(d, claim[d].by)
      BY <2>2, <2>4 DEF PublishApprover
    <2>6. ASSUME NEW p
          PROVE  /\ (\A row \in sources[d] : row.body.url # p.url) =>
                      \A row \in sources'[d'] : row.body.url # p.url
                 /\ (\E row \in sources[d] : row.body = p) =>
                      \E row \in sources'[d'] : row.body = p
      BY <1>2 DEF Unchanged, SameBodies
    <2>7. /\ claim'[d'].published = claim[d].published
          /\ lock'[d'] = lock[d]
      BY <1>2 DEF Unchanged
    <2> USE DEF Sound, Mutations
    <2>8. CASE sess[t].pc = "evaluate"
      BY <2>1, <2>2, <2>7, <2>8
    <2>9. CASE sess[t].pc = "publish"
      <3>1. /\ d' = d /\ evals'[d] = evals[d] /\ lock'[d] = lock[d]
        BY <2>2, <2>7
      <3> HIDE DEF d
      <3>2. QED
        BY <2>1, <2>4, <2>9, <3>1 DEF d
    <2>10. CASE sess[t].pc = "unpublish"
      BY <2>5, <2>7, <2>10
    <2>11. CASE sess[t].pc = "add"
      BY <2>6, <2>7, <2>11
    <2>12. CASE sess[t].pc = "delete"
      <3>1. \E row \in sources[d] : row.body = sess[t].body
        BY <2>12
      <3>2. \E row \in sources'[d'] : row.body = sess[t].body
        BY <2>6, <3>1
      <3>3. QED
        BY <2>7, <2>12, <3>2
    <2>13. QED
      BY <1>2, <2>8, <2>9, <2>10, <2>11, <2>12
  <1>3. QED
    BY <1>1, <1>2

\* A step of s that touches the tables of c only, while no other session
\* holds c, leaves what the others know.
LEMMA OthersSound ==
  ASSUME SessionsSound, NEW s \in Sessions, NEW c,
         \A d \in Claims \ {c} : Unchanged(d),
         \A t \in Sessions \ {s} : sess'[t] = sess[t],
         lock[c] \in {s, None}, None \notin Sessions
  PROVE  \A t \in Sessions \ {s} : Sound(t)'
  <1> SUFFICES ASSUME NEW t \in Sessions \ {s} PROVE Sound(t)'
    OBVIOUS
  <1>1. Sound(t)
    BY DEF SessionsSound
  <1>2. sess[t].pc \in Mutations =>
          sess[t].claim \in Claims /\ lock[sess[t].claim] = t
    BY <1>1 DEF Sound
  <1>3. QED
    BY <1>1, <1>2, Frame

LEMMA IdleSound ==
  ASSUME NEW s, sess'[s] = Idle
  PROVE  Sound(s)'
  BY DEF Sound, Idle, Mutations

LEMMA RowsOfEvidence ==
  ASSUME NEW c, NEW class, HasVerification(c, class)
  PROVE  HasRow(c, class)
  BY DEF HasVerification, HasRow

LEMMA SessionsStep ==
  ReviewAssumption /\ IInv /\ [Next]_vars => SessionsSound'
  <1> SUFFICES ASSUME ReviewAssumption, TypeOK, SessionsSound,
                      EvaluationsSound, [Next]_vars
               PROVE  SessionsSound'
    BY DEF IInv
  <1> USE DEF TypeOK
  <1>n. None \notin Sessions /\ None \notin Reviewers
        /\ Bootstrap \notin Reviewers /\ Bootstrap # None
    BY DEF ReviewAssumption
  <1>q. ASSUME NEW s \in Sessions, \A t \in Sessions \ {s} : Sound(t)',
               Sound(s)'
        PROVE  SessionsSound'
    BY <1>q DEF SessionsSound
  \* a session that opens or closes without touching a lock or a table
  <1>o. ASSUME NEW s \in Sessions, UNCHANGED <<claim, evals, sources, lock>>,
               \A t \in Sessions \ {s} : sess'[t] = sess[t]
        PROVE  \A t \in Sessions \ {s} : Sound(t)'
    <2> SUFFICES ASSUME NEW t \in Sessions \ {s} PROVE Sound(t)'
      OBVIOUS
    <2>1. \A d : Unchanged(d)
      BY <1>o DEF Unchanged, SameBodies
    <2>2. Sound(t) /\ sess'[t] = sess[t]
      BY <1>o DEF SessionsSound
    <2>3. QED
      BY <2>1, <2>2, Frame
  \* a session that takes the lock of c
  <1>c. ASSUME NEW s \in Sessions, NEW c \in Claims, NEW q,
               TakeClaimLock(s, c), UNCHANGED <<claim, evals, sources>>,
               sess' = [sess EXCEPT ![s] = q]
        PROVE  /\ \A t \in Sessions \ {s} : Sound(t)'
               /\ sess'[s] = q
               /\ lock'[c] = s
    <2>1. /\ lock[c] = None
          /\ lock'[c] = s
          /\ \A d \in Claims \ {c} : lock'[d] = lock[d]
      BY <1>c DEF TakeClaimLock
    <2>2. \A d \in Claims \ {c} : Unchanged(d)
      BY <1>c, <2>1 DEF Unchanged, SameBodies
    <2>3. \A t \in Sessions \ {s} : sess'[t] = sess[t]
      BY <1>c
    <2>4. \A t \in Sessions \ {s} : Sound(t)'
      BY <1>n, <2>1, <2>2, <2>3, OthersSound
    <2>5. QED
      BY <1>c, <2>1, <2>4
  \* a session that commits to c, or rolls back
  <1>d. ASSUME NEW s \in Sessions, sess[s].pc \in Mutations, Finish(s),
               \A d \in Claims \ {sess[s].claim} :
                 /\ evals'[d] = evals[d]
                 /\ claim'[d] = claim[d]
                 /\ sources'[d] = sources[d]
        PROVE  SessionsSound'
    <2> DEFINE c == sess[s].claim
    <2>1. c \in Claims /\ lock[c] = s
      BY <1>d DEF SessionsSound, Sound
    <2>2. \A d \in Claims \ {c} : Unchanged(d)
      BY <1>d, <2>1 DEF Finish, Unchanged, SameBodies
    <2>3. \A t \in Sessions \ {s} : sess'[t] = sess[t]
      BY <1>d DEF Finish
    <2>4. \A t \in Sessions \ {s} : Sound(t)'
      BY <1>n, <2>1, <2>2, <2>3, OthersSound
    <2>5. Sound(s)'
      BY <1>d, IdleSound DEF Finish
    <2>6. QED
      BY <1>q, <2>4, <2>5
  <1>1. ASSUME NEW s \in Sessions, Authenticate(s) PROVE SessionsSound'
    <2>1. PICK who \in active, approver \in active \cup {None} :
            sess' = [sess EXCEPT ![s] =
                       [Idle EXCEPT !.pc = "open", !.who = who,
                          !.approver = approver, !.start = now + 1]]
      BY <1>1 DEF Authenticate
    <2>2. /\ sess'[s].pc = "open"
          /\ sess'[s].who = who
          /\ sess'[s].approver = approver
      BY <2>1 DEF Idle
    <2>3. Sound(s)'
      BY <1>n, <2>2 DEF Sound, Mutations
    <2>4. QED
      BY <1>1, <1>o, <1>q, <2>1, <2>3 DEF Authenticate, tables
  <1>2. ASSUME NEW s \in Sessions, NEW c \in Claims, EvaluateCheck(s, c)
        PROVE  SessionsSound'
    <2> DEFINE a == IF evals[c] = <<>> THEN None ELSE sess[s].approver
    <2>1. PICK verdict \in Verdicts, cited \in BOOLEAN :
            /\ verdict = "supported" => HasMinimumEvidence(c)
            /\ sess' = [sess EXCEPT ![s] =
                 [Holding(s, c, "evaluate", a)
                    EXCEPT !.verdict = verdict, !.cited = cited]]
      BY <1>2, EvaluateCheckSession, Zenon
    <2> DEFINE q == [Holding(s, c, "evaluate", a)
                       EXCEPT !.verdict = verdict, !.cited = cited]
    <2>q. /\ q.pc = "evaluate" /\ q.claim = c
          /\ q.who = sess[s].who /\ q.approver = a
          /\ q.verdict = verdict
      BY DEF Holding, SessionState
    <2>u. /\ TakeClaimLock(s, c) /\ UNCHANGED <<claim, evals, sources>>
          /\ sess' = [sess EXCEPT ![s] = q]
      BY <1>2, <2>1 DEF EvaluateCheck, tables
    <2> HIDE DEF a, q
    <2>2. /\ \A t \in Sessions \ {s} : Sound(t)'
          /\ lock'[c] = s
          /\ sess'[s] = q
      BY <1>c, <2>u
    <2>3. /\ sess'[s].pc = "evaluate"
          /\ sess'[s].claim = c
          /\ sess'[s].who = sess[s].who
          /\ sess'[s].approver = a
          /\ sess'[s].verdict = verdict
      BY <2>2, <2>q
    <2>4. sess[s].who \in Reviewers /\ evals'[c] = evals[c]
      BY <1>2 DEF EvaluateCheck, SessionsSound, Sound, tables
    <2>5. evals[c] # <<>> => a \in Reviewers \ {sess[s].who}
      BY <1>2 DEF EvaluateCheck, OverwriteControl, a
    <2>e. evals[c] = <<>> => a = None
      BY DEF a
    <2>v. verdict = "supported" => Evidenced(c)'
      BY <2>1, <2>u, RowsOfEvidence DEF HasMinimumEvidence, Evidenced, HasRow
    <2>6. Sound(s)'
      BY <1>n, <2>2, <2>3, <2>4, <2>5, <2>e, <2>v DEF Sound, Mutations
    <2>7. QED
      BY <1>q, <2>2, <2>6
  <1>3. ASSUME NEW s \in Sessions, NEW c \in Claims, PublishCheck(s, c)
        PROVE  SessionsSound'
    <2> DEFINE a == PublishApprover(c, None)
    <2>1. /\ \A t \in Sessions \ {s} : Sound(t)'
          /\ lock'[c] = s
          /\ sess'[s] = Holding(s, c, "publish", a)
      BY <1>3, <1>c DEF PublishCheck, tables
    <2>2. /\ sess'[s].pc = "publish"
          /\ sess'[s].claim = c
          /\ sess'[s].who = sess[s].who
          /\ sess'[s].approver = a
      BY <2>1 DEF Holding, SessionState
    <2>3. sess[s].who \in Reviewers /\ UNCHANGED <<evals, sources>>
      BY <1>3 DEF PublishCheck, SessionsSound, Sound, tables
    <2>4. PICK i \in DOMAIN evals[c] : Latest(c) = evals[c][i]
      BY <1>3, LatestIsARow DEF PublishCheck, PublishGate
    <2>5. /\ evals[c] # <<>>
          /\ Latest(c).verdict = "supported"
          /\ Latest(c).cited
          /\ Latest(c).by = a
          /\ a # sess[s].who
      BY <1>3 DEF PublishCheck, PublishGate, PublishApprover, DualControl
    <2>6. a \in Reviewers
      BY <2>4, <2>5 DEF EvaluationsSound
    <2>l. evals'[c] # <<>> /\ Latest(c)' = Latest(c)
      BY <2>3, <2>5 DEF Latest
    <2>7. Evidenced(c)
      BY <1>3, RowsOfEvidence DEF PublishCheck, PublishGate,
                                  HasMinimumEvidence, Evidenced
    <2>8. Evidenced(c)'
      BY <2>3, <2>7 DEF HasRow, Evidenced
    <2> HIDE DEF a
    <2>9. Sound(s)'
      BY <2>1, <2>2, <2>3, <2>5, <2>6, <2>8, <2>l DEF Sound, Mutations
    <2>10. QED
      BY <1>q, <2>1, <2>9
  <1>4. ASSUME NEW s \in Sessions, NEW c \in Claims, UnpublishCheck(s, c)
        PROVE  SessionsSound'
    <2> DEFINE a == PublishApprover(c, claim[c].by)
    <2>1. /\ \A t \in Sessions \ {s} : Sound(t)'
          /\ lock'[c] = s
          /\ sess'[s] = Holding(s, c, "unpublish", a)
      <3>1. /\ TakeClaimLock(s, c) /\ UNCHANGED <<claim, evals, sources>>
            /\ sess' = [sess EXCEPT ![s] = Holding(s, c, "unpublish", a)]
        BY <1>4 DEF UnpublishCheck, tables
      <3>2. PICK q : q = Holding(s, c, "unpublish", a)
        OBVIOUS
      <3> HIDE DEF a
      <3>3. QED
        BY <1>c, <3>1, <3>2
    <2>2. /\ sess'[s].pc = "unpublish"
          /\ sess'[s].claim = c
          /\ sess'[s].who = sess[s].who
          /\ sess'[s].approver = a
      BY <2>1 DEF Holding, SessionState
    <2>3. sess[s].who \in Reviewers /\ a \notin {None, sess[s].who}
      BY <1>4 DEF UnpublishCheck, SessionsSound, Sound, DualControl
    <2>u. PublishApprover(c, claim[c].by)' = a
      BY <1>4 DEF UnpublishCheck, tables, PublishApprover, Latest
    <2> HIDE DEF a
    <2>4. Sound(s)'
      BY <2>1, <2>2, <2>3, <2>u DEF Sound, Mutations
    <2>5. QED
      BY <1>q, <2>1, <2>4
  <1>5. ASSUME NEW s \in Sessions, NEW c \in Claims, AddCheck(s, c)
        PROVE  SessionsSound'
    <2>1. PICK p \in Payloads :
            /\ \A row \in sources[c] : row.body.url # p.url
            /\ sess' = [sess EXCEPT ![s] =
                          [Holding(s, c, "add", None) EXCEPT !.body = p]]
      BY <1>5 DEF AddCheck
    <2>a. TakeClaimLock(s, c) /\ UNCHANGED <<claim, evals, sources>>
      BY <1>5 DEF AddCheck, tables
    <2>2. /\ \A t \in Sessions \ {s} : Sound(t)'
          /\ lock'[c] = s
          /\ sess'[s] = [Holding(s, c, "add", None) EXCEPT !.body = p]
      BY <1>c, <2>1, <2>a
    <2>3. /\ sess'[s].pc = "add"
          /\ sess'[s].claim = c
          /\ sess'[s].who = sess[s].who
          /\ sess'[s].body = p
      BY <2>2 DEF Holding, SessionState
    <2>4. sess[s].who \in Reviewers /\ UNCHANGED sources
      BY <1>5 DEF AddCheck, SessionsSound, Sound, tables
    <2>5. Sound(s)'
      BY <2>1, <2>2, <2>3, <2>4 DEF Sound, Mutations
    <2>6. QED
      BY <1>q, <2>2, <2>5
  <1>6. ASSUME NEW s \in Sessions, NEW c \in Claims, DeleteCheck(s, c)
        PROVE  SessionsSound'
    <2>1. PICK row \in sources[c] :
            sess' = [sess EXCEPT ![s] =
                       [Holding(s, c, "delete", None)
                          EXCEPT !.body = row.body]]
      BY <1>6 DEF DeleteCheck
    <2>a. TakeClaimLock(s, c) /\ UNCHANGED <<claim, evals, sources>>
      BY <1>6 DEF DeleteCheck, tables
    <2> DEFINE q == [Holding(s, c, "delete", None) EXCEPT !.body = row.body]
    <2>b. sess' = [sess EXCEPT ![s] = q]
      BY <2>1
    <2> HIDE DEF q
    <2>2. /\ \A t \in Sessions \ {s} : Sound(t)'
          /\ lock'[c] = s
          /\ sess'[s] = q
      BY <1>c, <2>a, <2>b
    <2>3. /\ sess'[s].pc = "delete"
          /\ sess'[s].claim = c
          /\ sess'[s].who = sess[s].who
          /\ sess'[s].body = row.body
      BY <2>2 DEF Holding, SessionState, q
    <2>4. /\ sess[s].who \in Reviewers
          /\ ~claim'[c].published
          /\ row \in sources'[c]
      BY <1>6 DEF DeleteCheck, SessionsSound, Sound, tables
    <2>5. Sound(s)'
      BY <2>2, <2>3, <2>4 DEF Sound, Mutations
    <2>6. QED
      BY <1>q, <2>2, <2>5
  <1>7. ASSUME NEW s \in Sessions, EvaluateCommit(s) PROVE SessionsSound'
    BY <1>7, <1>d DEF EvaluateCommit, Mutations
  <1>8. ASSUME NEW s \in Sessions, PublishCommit(s) PROVE SessionsSound'
    BY <1>8, <1>d DEF PublishCommit, Mutations
  <1>9. ASSUME NEW s \in Sessions, UnpublishCommit(s) PROVE SessionsSound'
    BY <1>9, <1>d DEF UnpublishCommit, Mutations
  <1>10. ASSUME NEW s \in Sessions, AddCommit(s) PROVE SessionsSound'
    BY <1>10, <1>d DEF AddCommit, Mutations
  <1>11. ASSUME NEW s \in Sessions, DeleteCommit(s) PROVE SessionsSound'
    BY <1>11, <1>d DEF DeleteCommit, Mutations
  <1>12. ASSUME NEW s \in Sessions, Refuse(s) PROVE SessionsSound'
    BY <1>12, <1>o, <1>q, IdleSound DEF Refuse, tables
  <1>13. ASSUME NEW s \in Sessions, Rollback(s) PROVE SessionsSound'
    BY <1>13, <1>d DEF Rollback, tables
  \* a writer that holds no session
  <1>w. ASSUME UNCHANGED sess, \A d \in Claims : lock[d] # None => Unchanged(d)
        PROVE  SessionsSound'
    <2> SUFFICES ASSUME NEW t \in Sessions PROVE Sound(t)'
      BY DEF SessionsSound
    <2>1. Sound(t) /\ sess'[t] = sess[t]
      BY <1>w DEF SessionsSound
    <2>2. sess[t].pc \in Mutations => Unchanged(sess[t].claim)
      BY <1>n, <1>w, <2>1 DEF Sound
    <2>3. QED
      BY <2>1, <2>2, Frame
  <1>14. ASSUME NEW r \in Reviewers, SetActive(r) PROVE SessionsSound'
    BY <1>14, <1>w DEF SetActive, tables, Unchanged, SameBodies
  <1>15. ASSUME NEW c \in Claims, FlagSource(c) PROVE SessionsSound'
    <2>1. PICK row \in sources[c] :
            sources' = [sources EXCEPT ![c] =
                          (@ \ {row}) \cup {[row EXCEPT !.flagged = TRUE]}]
      BY <1>15 DEF FlagSource
    <2>2. row \in SourceRow
      OBVIOUS
    <2>3. [row EXCEPT !.flagged = TRUE].body = row.body
      BY <2>2 DEF SourceRow
    <2>4. \A d \in Claims : Unchanged(d)
      BY <1>15, <2>1, <2>3 DEF FlagSource, Unchanged, SameBodies
    <2>5. QED
      BY <1>15, <1>w, <2>4 DEF FlagSource
  <1>16. ASSUME NEW c \in Claims, SetCheckable(c) PROVE SessionsSound'
    <2>1. PICK b \in BOOLEAN : claim' = [claim EXCEPT ![c].checkable = b]
      BY <1>16 DEF SetCheckable
    <2>2. \A d \in Claims : lock[d] # None => Unchanged(d)
      BY <1>16, <2>1 DEF SetCheckable, Unchanged, SameBodies, ClaimRow
    <2>3. QED
      BY <1>16, <1>w, <2>2 DEF SetCheckable
  <1>17. ASSUME NEW s \in Sessions, NEW c \in Claims, BootstrapRead(s, c)
         PROVE  SessionsSound'
    <2>1. /\ sess'[s].pc = "bootstrap"
          /\ sess'[s].claim = c
      BY <1>17 DEF BootstrapRead, Idle
    <2>2. Sound(s)'
      BY <2>1 DEF Sound, Mutations
    <2>3. QED
      BY <1>17, <1>o, <1>q, <2>2 DEF BootstrapRead, tables
  <1>18. ASSUME NEW s \in Sessions, BootstrapWrite(s) PROVE SessionsSound'
    <2> DEFINE c == sess[s].claim
    <2>1. c \in Claims /\ lock[c] = None
      BY <1>18 DEF BootstrapWrite, SessionsSound, Sound
    <2>2. \A d \in Claims \ {c} : Unchanged(d)
      BY <1>18, <2>1 DEF BootstrapWrite, Unchanged, SameBodies
    <2>3. \A t \in Sessions \ {s} : sess'[t] = sess[t]
      BY <1>18 DEF BootstrapWrite
    <2>4. \A t \in Sessions \ {s} : Sound(t)'
      BY <1>n, <2>1, <2>2, <2>3, OthersSound
    <2>5. Sound(s)'
      BY <1>18, IdleSound DEF BootstrapWrite
    <2>6. QED
      BY <1>q, <2>4, <2>5
  <1>19. CASE UNCHANGED vars
    BY <1>19, <1>w DEF vars, Unchanged, SameBodies
  <1>20. QED
    BY <1>1, <1>2, <1>3, <1>4, <1>5, <1>6, <1>7, <1>8, <1>9, <1>10, <1>11,
       <1>12, <1>13, <1>14, <1>15, <1>16, <1>17, <1>18, <1>19
       DEF Next, Request, Script

-----------------------------------------------------------------------------
(* The tables.  Most steps leave them alone. *)

LEMMA TableWriters ==
  ASSUME [Next]_vars
  PROVE  \/ UNCHANGED tables
         \/ \E s \in Sessions : \/ EvaluateCommit(s)
                                \/ PublishCommit(s)
                                \/ UnpublishCommit(s)
                                \/ AddCommit(s)
                                \/ DeleteCommit(s)
                                \/ BootstrapWrite(s)
         \/ \E c \in Claims : FlagSource(c) \/ SetCheckable(c)
  <1>1. CASE \E s \in Sessions : Request(s)
    <2>1. PICK s \in Sessions : Request(s)
      BY <1>1
    <2>2. CASE Authenticate(s) \/ Refuse(s) \/ Rollback(s)
      BY <2>2 DEF Authenticate, Refuse, Rollback
    <2>3. ASSUME NEW c \in Claims,
                 \/ EvaluateCheck(s, c)
                 \/ PublishCheck(s, c)
                 \/ UnpublishCheck(s, c)
                 \/ AddCheck(s, c)
                 \/ DeleteCheck(s, c)
          PROVE  UNCHANGED tables
      BY <2>3, Zenon DEF EvaluateCheck, PublishCheck, UnpublishCheck,
                         AddCheck, DeleteCheck
    <2>4. QED
      BY <2>1, <2>2, <2>3 DEF Request
  <1>2. CASE Script
    BY <1>2 DEF Script, SetActive, BootstrapRead
  <1>3. CASE UNCHANGED vars
    BY <1>3 DEF vars, tables
  <1>4. QED
    BY <1>1, <1>2, <1>3 DEF Next

\* Appending a row to rows that have a latest one leaves a latest one.
LEMMA AppendLatest ==
  ASSUME NEW rows \in Seq(Evaluation), NEW e \in Evaluation,
         rows # <<>> => \E i \in DOMAIN rows :
           \A j \in DOMAIN rows : rows[j].at <= rows[i].at
  PROVE  \E i \in DOMAIN Append(rows, e) :
           \A j \in DOMAIN Append(rows, e) :
             Append(rows, e)[j].at <= Append(rows, e)[i].at
  <1> DEFINE n == Len(rows) + 1
             new == Append(rows, e)
  <1>1. /\ DOMAIN new = 1 .. n
        /\ new[n] = e
        /\ \A j \in DOMAIN rows : new[j] = rows[j]
        /\ DOMAIN rows = 1 .. Len(rows)
        /\ Len(rows) \in Nat
    OBVIOUS
  <1>2. e.at \in Nat /\ \A j \in DOMAIN rows : rows[j].at \in Nat
    <2>1. \A row \in Evaluation : row.at \in Nat
      BY DEF Evaluation
    <2>2. \A j \in DOMAIN rows : rows[j] \in Evaluation
      OBVIOUS
    <2>3. QED
      BY <2>1, <2>2
  <1> SUFFICES \E i \in 1 .. n : \A j \in 1 .. n : new[j].at <= new[i].at
    BY <1>1
  <1> HIDE DEF new
  <1>3. CASE rows = <<>>
    BY <1>1, <1>2, <1>3
  <1>4. CASE rows # <<>>
    <2>1. PICK i \in DOMAIN rows :
            \A j \in DOMAIN rows : rows[j].at <= rows[i].at
      BY <1>4
    <2>2. \A j \in 1 .. n : j = n \/ j \in DOMAIN rows
      BY <1>1
    <2>3. CASE rows[i].at <= e.at
      <3>1. \A j \in DOMAIN rows : rows[j].at <= e.at
        BY <1>2, <2>1, <2>3
      <3>2. \A j \in 1 .. n : new[j].at <= new[n].at
        BY <1>1, <1>2, <2>2, <3>1
      <3>3. n \in 1 .. n
        BY <1>1
      <3> HIDE DEF n
      <3>4. QED
        BY <3>2, <3>3
    <2>4. CASE ~(rows[i].at <= e.at)
      <3>1. e.at <= rows[i].at
        BY <1>2, <2>4
      <3>2. \A j \in 1 .. n : new[j].at <= new[i].at
        BY <1>1, <1>2, <2>1, <2>2, <3>1
      <3>3. i \in 1 .. n
        BY <1>1
      <3> HIDE DEF n
      <3>4. QED
        BY <3>2, <3>3
    <2>5. QED
      BY <2>3, <2>4
  <1>5. QED
    BY <1>3, <1>4

\* A commit of e on c keeps EvaluationsSound.
LEMMA EvaluationAppended ==
  ASSUME TypeOK, EvaluationsSound, NEW c \in Claims, NEW e \in Evaluation,
         evals' = [evals EXCEPT ![c] = Append(@, e)],
         e.verdict = "supported" => e.by \in Reviewers
  PROVE  EvaluationsSound'
  <1> SUFFICES ASSUME NEW d \in Claims
      PROVE /\ evals'[d] # <<>> =>
                 \E i \in DOMAIN evals'[d] :
                   \A j \in DOMAIN evals'[d] :
                     evals'[d][j].at <= evals'[d][i].at
            /\ \A i \in DOMAIN evals'[d] :
                 evals'[d][i].verdict = "supported" =>
                   evals'[d][i].by \in Reviewers
    BY DEF EvaluationsSound
  <1>1. CASE d # c
    BY <1>1 DEF EvaluationsSound, TypeOK
  <1>2. CASE d = c
    <2>1. evals[c] \in Seq(Evaluation) /\ evals'[c] = Append(evals[c], e)
      BY DEF TypeOK
    <2>2. evals[c] # <<>> => \E i \in DOMAIN evals[c] :
            \A j \in DOMAIN evals[c] : evals[c][j].at <= evals[c][i].at
      BY DEF EvaluationsSound
    <2>3. \E i \in DOMAIN evals'[c] :
            \A j \in DOMAIN evals'[c] : evals'[c][j].at <= evals'[c][i].at
      BY <2>1, <2>2, AppendLatest
    <2>4. \A i \in DOMAIN evals[c] :
            evals[c][i].verdict = "supported" => evals[c][i].by \in Reviewers
      BY DEF EvaluationsSound
    <2>5. \A i \in DOMAIN evals'[c] : evals'[c][i] = e \/
            (i \in DOMAIN evals[c] /\ evals'[c][i] = evals[c][i])
      BY <2>1
    <2>6. QED
      BY <1>2, <2>3, <2>4, <2>5
  <1>3. QED
    BY <1>1, <1>2

LEMMA EvaluationsStep ==
  ReviewAssumption /\ IInv /\ [Next]_vars => EvaluationsSound'
  <1> SUFFICES ASSUME ReviewAssumption, TypeOK, SessionsSound,
                      EvaluationsSound, [Next]_vars
               PROVE  EvaluationsSound'
    BY DEF IInv
  <1>1. ASSUME NEW s \in Sessions, EvaluateCommit(s) PROVE EvaluationsSound'
    <2>1. Sound(s) /\ sess[s] \in SessionState /\ sess[s].pc = "evaluate"
      BY <1>1 DEF SessionsSound, TypeOK, EvaluateCommit
    <2>2. /\ sess[s].claim \in Claims /\ sess[s].who \in Reviewers
          /\ sess[s].approver \in Reviewers \cup {None}
      BY <2>1 DEF Sound, Mutations, SessionState
    <2> DEFINE e == [verdict |-> sess[s].verdict, cited |-> sess[s].cited,
                     by |-> sess[s].who, approver |-> sess[s].approver,
                     at |-> sess[s].start]
    <2>3. e \in Evaluation /\ e.by \in Reviewers
      BY <2>1, <2>2 DEF Evaluation, SessionState
    <2>4. evals' = [evals EXCEPT ![sess[s].claim] = Append(@, e)]
      BY <1>1 DEF EvaluateCommit
    <2> HIDE DEF e
    <2>5. QED
      BY <2>2, <2>3, <2>4, EvaluationAppended
  <1>2. ASSUME NEW s \in Sessions, BootstrapWrite(s) PROVE EvaluationsSound'
    <2>1. Sound(s) /\ sess[s] \in SessionState /\ sess[s].pc = "bootstrap"
      BY <1>2 DEF SessionsSound, TypeOK, BootstrapWrite
    <2>2. sess[s].claim \in Claims
      BY <2>1 DEF Sound
    <2> DEFINE e == [verdict |-> "insufficient", cited |-> TRUE,
                     by |-> Bootstrap, approver |-> None,
                     at |-> sess[s].start]
    <2>3. e \in Evaluation /\ e.verdict # "supported"
      BY <2>1 DEF Evaluation, SessionState, Verdicts
    <2>4. evals' = [evals EXCEPT ![sess[s].claim] = Append(@, e)]
      BY <1>2 DEF BootstrapWrite
    <2> HIDE DEF e
    <2>5. QED
      BY <2>2, <2>3, <2>4, EvaluationAppended
  <1>3. CASE UNCHANGED evals
    BY <1>3 DEF EvaluationsSound
  <1>4. QED
    BY <1>1, <1>2, <1>3, TableWriters
       DEF tables, PublishCommit, UnpublishCommit, AddCommit, DeleteCommit,
           FlagSource, SetCheckable

\* A claim that a step neither publishes nor strips of a row keeps its
\* evidence.
LEMMA EvidenceKept ==
  ASSUME PublishedEvidence, NEW d \in Claims,
         claim'[d].published => claim[d].published,
         claim'[d].published =>
           \A row \in sources[d] : \E row2 \in sources'[d] :
             row2.body = row.body
  PROVE  claim'[d].published =>
           HasRow(d, "primary")' /\ HasRow(d, "secondary")'
  BY DEF PublishedEvidence, HasRow

LEMMA EvidenceStep ==
  ReviewAssumption /\ IInv /\ [Next]_vars => PublishedEvidence'
  <1> SUFFICES ASSUME ReviewAssumption, TypeOK, SessionsSound,
                      PublishedEvidence, [Next]_vars, NEW d \in Claims
               PROVE  claim'[d].published =>
                        HasRow(d, "primary")' /\ HasRow(d, "secondary")'
    BY DEF IInv, PublishedEvidence
  <1> DEFINE Goal == claim'[d].published =>
                       HasRow(d, "primary")' /\ HasRow(d, "secondary")'
  <1>a. \A s \in Sessions : sess[s].pc \in Mutations \cup {"bootstrap"} =>
          sess[s].claim \in Claims
    BY DEF SessionsSound, Sound
  <1>b. ASSUME UNCHANGED sources, claim'[d].published => claim[d].published
        PROVE  Goal
    BY <1>b, EvidenceKept
  <1>1. ASSUME NEW s \in Sessions, EvaluateCommit(s) PROVE Goal
    <2>1. sess[s].claim \in Claims
      BY <1>1, <1>a DEF EvaluateCommit, Mutations
    <2>2. claim'[d].published = claim[d].published
      BY <1>1, <2>1 DEF EvaluateCommit, TypeOK, ClaimRow
    <2>3. QED
      BY <1>1, <1>b, <2>2 DEF EvaluateCommit
  <1>2. ASSUME NEW s \in Sessions, PublishCommit(s) PROVE Goal
    <2> PICK c \in Claims : c = sess[s].claim
      BY <1>2, <1>a DEF PublishCommit, Mutations
    <2>1. HasRow(c, "primary") /\ HasRow(c, "secondary")
      BY <1>2 DEF PublishCommit, SessionsSound, Sound, Mutations, Evidenced
    <2>2. HasRow(c, "primary")' /\ HasRow(c, "secondary")'
      BY <1>2, <2>1 DEF PublishCommit, HasRow
    <2>3. d # c => claim'[d] = claim[d]
      BY <1>2, <2>1 DEF PublishCommit, TypeOK
    <2>4. CASE d = c
      BY <2>2, <2>4 DEF HasRow
    <2>5. CASE d # c
      BY <1>2, <1>b, <2>3, <2>5 DEF PublishCommit
    <2>6. QED
      BY <2>4, <2>5
  <1>3. ASSUME NEW s \in Sessions, UnpublishCommit(s) PROVE Goal
    <2>1. sess[s].claim \in Claims
      BY <1>3, <1>a DEF UnpublishCommit, Mutations
    <2>2. claim'[d].published => claim[d].published
      BY <1>3, <2>1 DEF UnpublishCommit, TypeOK, ClaimRow
    <2>3. QED
      BY <1>3, <1>b, <2>2 DEF UnpublishCommit
  <1>4. ASSUME NEW s \in Sessions, AddCommit(s) PROVE Goal
    <2>1. sess[s].claim \in Claims
      BY <1>4, <1>a DEF AddCommit, Mutations
    <2>2. UNCHANGED claim /\ sources[d] \subseteq sources'[d]
      BY <1>4, <2>1 DEF AddCommit, TypeOK
    <2>3. QED
      BY <2>2, EvidenceKept
  <1>5. ASSUME NEW s \in Sessions, DeleteCommit(s) PROVE Goal
    <2> DEFINE c == sess[s].claim
    <2>1. c \in Claims /\ ~claim[c].published
      BY <1>5 DEF DeleteCommit, SessionsSound, Sound, Mutations
    <2>2. UNCHANGED claim /\ (d # c => sources'[d] = sources[d])
      BY <1>5, <2>1 DEF DeleteCommit, TypeOK
    <2>3. QED
      BY <2>1, <2>2, EvidenceKept
  <1>6. ASSUME NEW s \in Sessions, BootstrapWrite(s) PROVE Goal
    <2>1. sess[s].claim \in Claims
      BY <1>6, <1>a DEF BootstrapWrite
    <2>2. claim'[d].published = claim[d].published
      BY <1>6, <2>1 DEF BootstrapWrite, TypeOK, ClaimRow
    <2>3. QED
      BY <1>6, <1>b, <2>2 DEF BootstrapWrite
  <1>7. ASSUME NEW c \in Claims, FlagSource(c) PROVE Goal
    <2>1. PICK row \in sources[c] :
            sources' = [sources EXCEPT ![c] =
                          (@ \ {row}) \cup {[row EXCEPT !.flagged = TRUE]}]
      BY <1>7 DEF FlagSource
    <2>2. [row EXCEPT !.flagged = TRUE].body = row.body
      BY DEF TypeOK, SourceRow
    <2>3. \A row1 \in sources[d] : \E row2 \in sources'[d] :
            row2.body = row1.body
      BY <2>1, <2>2 DEF TypeOK
    <2>4. UNCHANGED claim
      BY <1>7 DEF FlagSource
    <2>5. QED
      BY <2>3, <2>4, EvidenceKept
  <1>8. ASSUME NEW c \in Claims, SetCheckable(c) PROVE Goal
    <2>1. PICK b \in BOOLEAN : claim' = [claim EXCEPT ![c].checkable = b]
      BY <1>8 DEF SetCheckable
    <2>2. claim'[d].published = claim[d].published
      BY <2>1 DEF TypeOK, ClaimRow
    <2>3. QED
      BY <1>8, <1>b, <2>2 DEF SetCheckable
  <1>9. CASE UNCHANGED tables
    BY <1>9, <1>b DEF tables
  <1>10. QED
    BY <1>1, <1>2, <1>3, <1>4, <1>5, <1>6, <1>7, <1>8, <1>9, TableWriters

\* What stands behind the publication of c by r.
Provenance(c, r) ==
  \E i \in DOMAIN evals[c] :
    /\ evals[c][i].verdict = "supported"
    /\ evals[c][i].cited
    /\ evals[c][i].by \in Reviewers \ {r}
    /\ [action |-> "claim_published", claim |-> c,
        actor |-> r, approver |-> evals[c][i].by] \in audit

LEMMA ProvenanceDef ==
  PublishedProvenance <=>
    \A c \in Claims : claim[c].published => Provenance(c, claim[c].by)
  BY DEF PublishedProvenance, Provenance

\* Evaluations and audit events are never changed or removed.
LEMMA HistoryGrows ==
  ASSUME ReviewAssumption, TypeOK, SessionsSound, [Next]_vars,
         NEW c \in Claims, NEW i \in DOMAIN evals[c]
  PROVE  /\ i \in DOMAIN evals'[c]
         /\ evals'[c][i] = evals[c][i]
         /\ audit \subseteq audit'
  <1> DEFINE Goal == /\ i \in DOMAIN evals'[c]
                     /\ evals'[c][i] = evals[c][i]
                     /\ audit \subseteq audit'
  <1>1. ASSUME NEW rows \in Seq(Evaluation), NEW e, NEW j \in DOMAIN rows
        PROVE  j \in DOMAIN Append(rows, e) /\ Append(rows, e)[j] = rows[j]
    OBVIOUS
  <1>2. ASSUME NEW d, NEW e, audit \subseteq audit',
               evals' = [evals EXCEPT ![d] = Append(@, e)]
        PROVE  Goal
    <2>1. evals'[c] \in {evals[c], Append(evals[c], e)}
      BY <1>2 DEF TypeOK
    <2>2. evals[c] \in Seq(Evaluation)
      BY DEF TypeOK
    <2>3. QED
      BY <1>1, <1>2, <2>1, <2>2
  <1>3. ASSUME NEW s \in Sessions, EvaluateCommit(s) PROVE Goal
    BY <1>2, <1>3 DEF EvaluateCommit
  <1>4. ASSUME NEW s \in Sessions, BootstrapWrite(s) PROVE Goal
    BY <1>2, <1>4 DEF BootstrapWrite
  <1>5. CASE UNCHANGED evals /\ audit \subseteq audit'
    BY <1>5
  <1>7. QED
    BY <1>3, <1>4, <1>5, TableWriters
       DEF tables, PublishCommit, UnpublishCommit, AddCommit, DeleteCommit,
           FlagSource, SetCheckable

LEMMA ProvenanceGrows ==
  ASSUME ReviewAssumption, TypeOK, SessionsSound, [Next]_vars,
         NEW c \in Claims, NEW r, Provenance(c, r)
  PROVE  Provenance(c, r)'
  <1>1. PICK i \in DOMAIN evals[c] :
          /\ evals[c][i].verdict = "supported"
          /\ evals[c][i].cited
          /\ evals[c][i].by \in Reviewers \ {r}
          /\ [action |-> "claim_published", claim |-> c,
              actor |-> r, approver |-> evals[c][i].by] \in audit
    BY DEF Provenance
  <1>2. /\ i \in DOMAIN evals'[c]
        /\ evals'[c][i] = evals[c][i]
        /\ audit \subseteq audit'
    BY HistoryGrows
  <1>3. QED
    BY <1>1, <1>2 DEF Provenance

\* A change of status or of checkable is no change of publication.
LEMMA PublisherKept ==
  ASSUME NEW q \in ClaimRow, NEW b
  PROVE  /\ [q EXCEPT !.status = "reviewed"].by = q.by
         /\ [q EXCEPT !.status = "reviewed", !.checkable = TRUE].by = q.by
         /\ [q EXCEPT !.checkable = b].by = q.by
         /\ [q EXCEPT !.status = "reviewed"].published = q.published
         /\ [q EXCEPT !.status = "reviewed", !.checkable = TRUE].published
              = q.published
         /\ [q EXCEPT !.checkable = b].published = q.published
  BY DEF ClaimRow

LEMMA ProvenanceStep ==
  ReviewAssumption /\ IInv /\ [Next]_vars => PublishedProvenance'
  <1> SUFFICES ASSUME ReviewAssumption, TypeOK, SessionsSound,
                      EvaluationsSound, PublishedProvenance, [Next]_vars
               PROVE  PublishedProvenance'
    BY DEF IInv
  <1> SUFFICES ASSUME NEW d \in Claims, claim'[d].published
               PROVE  Provenance(d, claim[d].by)'
    BY DEF PublishedProvenance, Provenance
  <1> DEFINE Goal == Provenance(d, claim[d].by)'
  <1>a. \A s \in Sessions : sess[s].pc \in Mutations \cup {"bootstrap"} =>
          sess[s].claim \in Claims
    BY DEF SessionsSound, Sound
  <1>b. ASSUME claim[d].published, claim'[d].by = claim[d].by
        PROVE  Goal
    <2> PICK r : r = claim[d].by
      OBVIOUS
    <2>1. Provenance(d, r)
      BY <1>b, ProvenanceDef
    <2>2. Provenance(d, r)'
      BY <2>1, ProvenanceGrows
    <2>3. QED
      BY <1>b, <2>2 DEF Provenance
  <1>1. ASSUME NEW s \in Sessions, EvaluateCommit(s) PROVE Goal
    <2>1. sess[s].claim \in Claims
      BY <1>1, <1>a DEF EvaluateCommit, Mutations
    <2>2. claim[d].published
      BY <1>1, <2>1, PublisherKept DEF EvaluateCommit, TypeOK
    <2>3. claim'[d].by = claim[d].by
      BY <1>1, <2>1, PublisherKept DEF EvaluateCommit, TypeOK
    <2>4. QED
      BY <1>b, <2>2, <2>3
  <1>2. ASSUME NEW s \in Sessions, PublishCommit(s) PROVE Goal
    <2> DEFINE c == sess[s].claim
               a == sess[s].approver
    <2>2. c \in Claims /\ a \in Reviewers \ {sess[s].who}
      BY <1>2 DEF PublishCommit, SessionsSound, Sound, Mutations
    <2>1. PICK i \in DOMAIN evals[c] : /\ evals[c][i].verdict = "supported"
                                       /\ evals[c][i].cited
                                       /\ evals[c][i].by = a
      BY <1>2, <2>2, LatestIsARow DEF PublishCommit, SessionsSound, Sound
    <2>3. d # c => claim'[d] = claim[d]
      BY <1>2, <2>2 DEF PublishCommit, TypeOK
    <2>4. CASE d = c
      <3>1. claim'[d].by = sess[s].who
        BY <1>2, <2>2, <2>4 DEF PublishCommit, TypeOK, ClaimRow
      <3>2. UNCHANGED evals /\ [action |-> "claim_published", claim |-> c,
              actor |-> sess[s].who, approver |-> a] \in audit'
        BY <1>2 DEF PublishCommit
      <3>3. QED
        BY <2>1, <2>2, <2>4, <3>1, <3>2 DEF Provenance
    <2>5. CASE d # c
      BY <1>b, <2>3, <2>5
    <2>6. QED
      BY <2>4, <2>5
  <1>3. ASSUME NEW s \in Sessions, UnpublishCommit(s) PROVE Goal
    <2>1. sess[s].claim \in Claims
      BY <1>3, <1>a DEF UnpublishCommit, Mutations
    <2>2. claim[d].published /\ claim'[d].by = claim[d].by
      BY <1>3, <2>1 DEF UnpublishCommit, TypeOK, ClaimRow
    <2>3. QED
      BY <1>b, <2>2
  <1>4. ASSUME NEW s \in Sessions, BootstrapWrite(s) PROVE Goal
    <2>1. sess[s].claim \in Claims
      BY <1>4, <1>a DEF BootstrapWrite
    <2>2. claim[d].published
      BY <1>4, <2>1, PublisherKept DEF BootstrapWrite, TypeOK
    <2>3. claim'[d].by = claim[d].by
      BY <1>4, <2>1, PublisherKept DEF BootstrapWrite, TypeOK
    <2>4. QED
      BY <1>b, <2>2, <2>3
  <1>5. ASSUME NEW c \in Claims, SetCheckable(c) PROVE Goal
    <2>1. PICK b \in BOOLEAN : claim' = [claim EXCEPT ![c].checkable = b]
      BY <1>5 DEF SetCheckable
    <2>2. claim[d].published
      BY <2>1, PublisherKept DEF TypeOK
    <2>3. claim'[d].by = claim[d].by
      BY <2>1, PublisherKept DEF TypeOK
    <2>4. QED
      BY <1>b, <2>2, <2>3
  <1>6. CASE UNCHANGED claim
    BY <1>6, <1>b
  <1>8. QED
    BY <1>1, <1>2, <1>3, <1>4, <1>5, <1>6, TableWriters
       DEF tables, AddCommit, DeleteCommit, FlagSource

-----------------------------------------------------------------------------
(* The inductive invariant, and what it gives. *)

LEMMA Inductive == Spec => []IInv
  <1>1. Init => IInv
    BY ReviewAssumption, InitIInv
  <1>2. IInv /\ [Next]_vars => IInv'
    BY ReviewAssumption, TypeStep, SessionsStep, EvaluationsStep,
       EvidenceStep, ProvenanceStep DEF IInv
  <1>3. QED
    BY <1>1, <1>2, PTL DEF Spec

\* Every row, session and lock keeps its type under any interleaving of
\* requests and scripts.
THEOREM TypeCorrect == Spec => []TypeOK
  <1>1. IInv => TypeOK
    BY DEF IInv
  <1>2. QED
    BY <1>1, Inductive, PTL

\* A published claim always shows a primary and a secondary verification
\* source: publish_claim requires both and delete_source refuses a published
\* claim, whatever else runs between their checks and their commits.
THEOREM PublishedShowsEvidence == Spec => []PublishedEvidence
  <1>1. IInv => PublishedEvidence
    BY DEF IInv
  <1>2. QED
    BY <1>1, Inductive, PTL

\* A published claim has a cited factual verdict by a reviewer other than
\* its publisher, and publish_claim's audit event names the two.
THEOREM PublishedHasProvenance == Spec => []PublishedProvenance
  <1>1. IInv => PublishedProvenance
    BY DEF IInv
  <1>2. QED
    BY <1>1, Inductive, PTL

-----------------------------------------------------------------------------
(* Overwrites.  They are countersigned as long as the bootstrap script,    *)
(* which checks nobody's approval, does not run beside the requests.       *)

CountersignInv ==
  "bootstrap" \notin Background =>
    /\ \A s \in Sessions : sess[s].pc # "bootstrap"
    /\ OverwritesCountersigned

LEMMA NoBootstrapStep ==
  ASSUME ReviewAssumption, IInv, [Next]_vars, "bootstrap" \notin Background,
         \A s \in Sessions : sess[s].pc # "bootstrap"
  PROVE  \A s \in Sessions : sess'[s].pc # "bootstrap"
  <1> DEFINE Goal == \A t \in Sessions : sess'[t].pc # "bootstrap"
  <1> USE DEF IInv, TypeOK
  <1>a. ASSUME NEW s \in Sessions, NEW q, sess' = [sess EXCEPT ![s] = q],
               q.pc # "bootstrap"
        PROVE  Goal
    BY <1>a
  <1>b. Idle.pc = "idle"
    BY DEF Idle
  <1>1. ASSUME NEW s \in Sessions, Authenticate(s) PROVE Goal
    <2>1. PICK who \in active, approver \in active \cup {None} :
            sess' = [sess EXCEPT ![s] =
                       [Idle EXCEPT !.pc = "open", !.who = who,
                          !.approver = approver, !.start = now + 1]]
      BY <1>1 DEF Authenticate
    <2>2. [Idle EXCEPT !.pc = "open", !.who = who,
             !.approver = approver, !.start = now + 1].pc = "open"
      BY DEF Idle
    <2>3. QED
      BY <1>a, <2>1, <2>2
  <1>h. ASSUME NEW s \in Sessions, NEW c, NEW pc, NEW a
        PROVE  /\ Holding(s, c, pc, a).pc = pc
               /\ \A v, cited : [Holding(s, c, pc, a) EXCEPT
                    !.verdict = v, !.cited = cited].pc = pc
               /\ \A p : [Holding(s, c, pc, a) EXCEPT !.body = p].pc = pc
    BY DEF Holding, SessionState
  <1>2. ASSUME NEW s \in Sessions, NEW c \in Claims, EvaluateCheck(s, c)
        PROVE  Goal
    <2> DEFINE a == IF evals[c] = <<>> THEN None ELSE sess[s].approver
    <2>1. PICK verdict \in Verdicts, cited \in BOOLEAN :
            /\ verdict = "supported" => HasMinimumEvidence(c)
            /\ sess' = [sess EXCEPT ![s] =
                 [Holding(s, c, "evaluate", a)
                    EXCEPT !.verdict = verdict, !.cited = cited]]
      BY <1>2, EvaluateCheckSession, Zenon
    <2> HIDE DEF a
    <2>2. QED
      BY <1>a, <1>h, <2>1
  <1>3. ASSUME NEW s \in Sessions, NEW c \in Claims,
               PublishCheck(s, c) \/ UnpublishCheck(s, c)
        PROVE  Goal
    <2>1. PICK pc, a : /\ pc \in {"publish", "unpublish"}
                       /\ sess' = [sess EXCEPT ![s] = Holding(s, c, pc, a)]
      BY <1>3 DEF PublishCheck, UnpublishCheck
    <2>2. QED
      BY <1>a, <1>h, <2>1
  <1>4. ASSUME NEW s \in Sessions, NEW c \in Claims, AddCheck(s, c)
        PROVE  Goal
    <2>1. PICK p \in Payloads :
            sess' = [sess EXCEPT ![s] =
                       [Holding(s, c, "add", None) EXCEPT !.body = p]]
      BY <1>4 DEF AddCheck
    <2>2. QED
      BY <1>a, <1>h, <2>1
  <1>5. ASSUME NEW s \in Sessions, NEW c \in Claims, DeleteCheck(s, c)
        PROVE  Goal
    <2>1. PICK row \in sources[c] :
            sess' = [sess EXCEPT ![s] =
                       [Holding(s, c, "delete", None)
                          EXCEPT !.body = row.body]]
      BY <1>5 DEF DeleteCheck
    <2>2. QED
      BY <1>a, <1>h, <2>1
  <1>6. ASSUME NEW s \in Sessions, sess' = [sess EXCEPT ![s] = Idle]
        PROVE  Goal
    BY <1>6, <1>a, <1>b
  <1>7. CASE UNCHANGED sess
    BY <1>7
  <1>8. ASSUME NEW s \in Sessions, Request(s) PROVE Goal
    <2>1. CASE \/ EvaluateCommit(s) \/ PublishCommit(s) \/ UnpublishCommit(s)
               \/ AddCommit(s) \/ DeleteCommit(s) \/ Refuse(s) \/ Rollback(s)
      BY <1>6, <2>1 DEF EvaluateCommit, PublishCommit, UnpublishCommit,
                        AddCommit, DeleteCommit, Refuse, Rollback, Finish
    <2>2. QED
      BY <1>1, <1>2, <1>3, <1>4, <1>5, <1>8, <2>1 DEF Request
  <1>9. CASE Script
    BY <1>6, <1>7, <1>9
       DEF Script, SetActive, FlagSource, SetCheckable, BootstrapRead,
           BootstrapWrite
  <1>10. QED
    BY <1>7, <1>8, <1>9 DEF Next, vars

\* The approval behind row i of claim c.
Countersigned(c, i) ==
  /\ evals[c][i].approver \in Reviewers \ {evals[c][i].by}
  /\ [action |-> "claim_evaluation_overwritten", claim |-> c,
      actor |-> evals[c][i].by, approver |-> evals[c][i].approver] \in audit

LEMMA CountersignStep ==
  ASSUME ReviewAssumption, IInv, [Next]_vars,
         \A s \in Sessions : sess[s].pc # "bootstrap",
         OverwritesCountersigned
  PROVE  OverwritesCountersigned'
  <1> USE DEF IInv
  <1> SUFFICES ASSUME NEW c \in Claims, NEW i \in DOMAIN evals'[c], i > 1
               PROVE  Countersigned(c, i)'
    BY DEF OverwritesCountersigned, Countersigned
  <1>1. CASE i \in DOMAIN evals[c]
    <2>1. Countersigned(c, i)
      BY <1>1 DEF OverwritesCountersigned, Countersigned
    <2>2. evals'[c][i] = evals[c][i] /\ audit \subseteq audit'
      BY <1>1, HistoryGrows
    <2>3. QED
      BY <2>1, <2>2 DEF Countersigned
  <1>2. CASE i \notin DOMAIN evals[c]
    <2>1. PICK s \in Sessions : EvaluateCommit(s)
      <3>1. ~ UNCHANGED evals
        BY <1>2
      <3>2. \A s \in Sessions : ~ BootstrapWrite(s)
        BY DEF BootstrapWrite
      <3>3. QED
        BY <3>1, <3>2, TableWriters
           DEF tables, PublishCommit, UnpublishCommit, AddCommit,
               DeleteCommit, FlagSource, SetCheckable
    <2> DEFINE q == sess[s]
               e == [verdict |-> q.verdict, cited |-> q.cited, by |-> q.who,
                     approver |-> q.approver, at |-> q.start]
    <2>2. evals' = [evals EXCEPT ![q.claim] = Append(@, e)]
      BY <2>1 DEF EvaluateCommit
    <2>3. e.by = q.who /\ e.approver = q.approver
      OBVIOUS
    <2>4. q.pc = "evaluate" /\ q.claim \in Claims /\ Sound(s)
      BY <2>1 DEF EvaluateCommit, SessionsSound, Sound, Mutations
    <2> HIDE DEF e
    <2>5. c = q.claim /\ evals'[c] = Append(evals[c], e)
      BY <1>2, <2>2, <2>4 DEF TypeOK
    <2>6. evals[c] \in Seq(Evaluation)
      BY DEF TypeOK
    <2>7. i = Len(evals[c]) + 1 /\ evals'[c][i] = e /\ evals[c] # <<>>
      BY <1>2, <2>5, <2>6
    <2>8. q.approver \in Reviewers \ {q.who}
      BY <2>4, <2>5, <2>7 DEF Sound
    <2>9. [action |-> "claim_evaluation_overwritten", claim |-> c,
           actor |-> q.who, approver |-> q.approver] \in audit'
      BY <2>1, <2>5, <2>8 DEF EvaluateCommit, ReviewAssumption
    <2>10. QED
      BY <2>3, <2>7, <2>8, <2>9 DEF Countersigned
  <1>3. QED
    BY <1>1, <1>2

\* No evaluation but a claim's first stands without a second reviewer's
\* approval, however requests overlap, as long as the bootstrap script is
\* not running beside them.
THEOREM CountersignedOverwrites ==
  ASSUME "bootstrap" \notin Background
  PROVE  Spec => []OverwritesCountersigned
  <1>1. Init => CountersignInv
    BY DEF Init, CountersignInv, OverwritesCountersigned, Idle
  <1>2. IInv /\ CountersignInv /\ [Next]_vars => CountersignInv'
    BY ReviewAssumption, NoBootstrapStep, CountersignStep DEF CountersignInv
  <1>3. CountersignInv => OverwritesCountersigned
    BY DEF CountersignInv
  <1>4. QED
    BY <1>1, <1>2, <1>3, Inductive, PTL DEF Spec

-----------------------------------------------------------------------------
(* Transactions have distinct start times, so the latest row is one row.    *)

Started == {s \in Sessions : sess[s].pc # "idle"}

StartsUnique ==
  /\ \A s \in Started : sess[s].start <= now
  /\ \A s, t \in Started : sess[s].start = sess[t].start => s = t
  /\ \A c \in Claims : \A i \in DOMAIN evals[c] :
       /\ evals[c][i].at <= now
       /\ \A s \in Started : sess[s].start # evals[c][i].at
       /\ \A j \in DOMAIN evals[c] : evals[c][i].at = evals[c][j].at => i = j

\* The row EvaluateCommit inserts.
LEMMA EvaluateRow ==
  ASSUME TypeOK, SessionsSound, NEW s \in Sessions, EvaluateCommit(s)
  PROVE  /\ [verdict |-> sess[s].verdict, cited |-> sess[s].cited,
             by |-> sess[s].who, approver |-> sess[s].approver,
             at |-> sess[s].start] \in Evaluation
         /\ sess[s].who \in Reviewers
  <1>1. Sound(s) /\ sess[s] \in SessionState /\ sess[s].pc = "evaluate"
    BY DEF SessionsSound, TypeOK, EvaluateCommit
  <1>2. /\ sess[s].who \in Reviewers
        /\ sess[s].approver \in Reviewers \cup {None}
    BY <1>1 DEF Sound, Mutations, SessionState
  <1>3. QED
    BY <1>1, <1>2 DEF Evaluation, SessionState

\* What a step does to the sessions and the evaluations.
LEMMA SessionKinds ==
  ASSUME ReviewAssumption, TypeOK, SessionsSound, EvaluationsSound, [Next]_vars
  PROVE  \/ UNCHANGED <<sess, evals, now>>
         \/ \E s \in Sessions, q \in SessionState :
              /\ sess' = [sess EXCEPT ![s] = q]
              /\ q.start = now + 1 /\ now' = now + 1 /\ UNCHANGED evals
         \/ \E s \in Started, q \in SessionState :
              /\ sess' = [sess EXCEPT ![s] = q]
              /\ q.start = sess[s].start /\ UNCHANGED <<evals, now>>
         \/ \E s \in Started :
              sess' = [sess EXCEPT ![s] = Idle] /\ UNCHANGED <<evals, now>>
         \/ \E s \in Started, c \in Claims, e \in Evaluation :
              /\ sess' = [sess EXCEPT ![s] = Idle]
              /\ evals' = [evals EXCEPT ![c] = Append(@, e)]
              /\ e.at = sess[s].start
              /\ UNCHANGED now
  <1> DEFINE Opens == \E s \in Sessions, q \in SessionState :
               /\ sess' = [sess EXCEPT ![s] = q]
               /\ q.start = now + 1 /\ now' = now + 1 /\ UNCHANGED evals
             Checks == \E s \in Started, q \in SessionState :
               /\ sess' = [sess EXCEPT ![s] = q]
               /\ q.start = sess[s].start /\ UNCHANGED <<evals, now>>
             Closes == \E s \in Started :
               sess' = [sess EXCEPT ![s] = Idle] /\ UNCHANGED <<evals, now>>
             Inserts == \E s \in Started, c \in Claims, e \in Evaluation :
               /\ sess' = [sess EXCEPT ![s] = Idle]
               /\ evals' = [evals EXCEPT ![c] = Append(@, e)]
               /\ e.at = sess[s].start
               /\ UNCHANGED now
             Goal == UNCHANGED <<sess, evals, now>> \/ Opens \/ Checks
                       \/ Closes \/ Inserts
  <1> SUFFICES Goal
    OBVIOUS
  <1>w. now \in Nat /\ now + 1 \in Nat /\ sess \in [Sessions -> SessionState]
    BY DEF TypeOK
  <1>o. ASSUME NEW s \in Sessions, NEW q, q \in SessionState,
               sess' = [sess EXCEPT ![s] = q], q.start = now + 1,
               now' = now + 1, UNCHANGED evals
        PROVE  Goal
    BY <1>o
  <1>k. ASSUME NEW s \in Sessions, NEW q, q \in SessionState,
               sess[s].pc = "open", UNCHANGED <<evals, now>>,
               sess' = [sess EXCEPT ![s] = q], q.start = sess[s].start
        PROVE  Goal
    BY <1>k DEF Started
  <1>h. ASSUME NEW s \in Sessions, NEW c \in Claims, NEW pc \in Mutations,
               NEW a \in Reviewers \cup {Bootstrap, None}
        PROVE  /\ Holding(s, c, pc, a) \in SessionState
               /\ Holding(s, c, pc, a).start = sess[s].start
    <2>1. Holding(s, c, pc, a) \in SessionState
      BY HoldingType
    <2>2. QED
      BY <1>w, <2>1 DEF Holding, SessionState
  <1>1. ASSUME NEW s \in Sessions, Authenticate(s) PROVE Goal
    <2>1. PICK who \in active, approver \in active \cup {None} :
            sess' = [sess EXCEPT ![s] =
                       [Idle EXCEPT !.pc = "open", !.who = who,
                          !.approver = approver, !.start = now + 1]]
      BY <1>1 DEF Authenticate
    <2> DEFINE q == [Idle EXCEPT !.pc = "open", !.who = who,
                       !.approver = approver, !.start = now + 1]
    <2>2. who \in Reviewers /\ approver \in Reviewers \cup {None}
      BY DEF TypeOK
    <2>3. q \in SessionState /\ q.start = now + 1
      BY <1>w, <2>2, IdleType DEF SessionState
    <2>4. QED
      BY <1>1, <1>o, <2>1, <2>3 DEF Authenticate, tables
  <1>2. ASSUME NEW s \in Sessions, NEW c \in Claims, EvaluateCheck(s, c)
        PROVE  Goal
    <2> DEFINE a == IF evals[c] = <<>> THEN None ELSE sess[s].approver
    <2>1. PICK verdict \in Verdicts, cited \in BOOLEAN :
            /\ verdict = "supported" => HasMinimumEvidence(c)
            /\ sess' = [sess EXCEPT ![s] =
                 [Holding(s, c, "evaluate", a)
                    EXCEPT !.verdict = verdict, !.cited = cited]]
      BY <1>2, EvaluateCheckSession, Zenon
    <2>2. a \in Reviewers \cup {Bootstrap, None}
      BY <1>w DEF SessionState
    <2> HIDE DEF a
    <2> DEFINE q == [Holding(s, c, "evaluate", a)
                       EXCEPT !.verdict = verdict, !.cited = cited]
    <2>h. /\ Holding(s, c, "evaluate", a) \in SessionState
          /\ Holding(s, c, "evaluate", a).start = sess[s].start
      BY <1>h, <2>2 DEF Mutations
    <2>3. q \in SessionState /\ q.start = sess[s].start
      BY <2>h DEF SessionState
    <2>4. sess[s].pc = "open" /\ UNCHANGED <<evals, now>>
      BY <1>2 DEF EvaluateCheck, tables
    <2>5. sess' = [sess EXCEPT ![s] = q]
      BY <2>1
    <2> HIDE DEF q
    <2>6. QED
      BY <1>k, <2>3, <2>4, <2>5
  <1>3. ASSUME NEW s \in Sessions, NEW c \in Claims, PublishCheck(s, c)
        PROVE  Goal
    <2>1. PublishApprover(c, None) \in Reviewers \cup {Bootstrap, None}
      BY ApproverType
    <2>2. QED
      BY <1>3, <1>h, <1>k, <2>1 DEF PublishCheck, tables, Mutations
  <1>4. ASSUME NEW s \in Sessions, NEW c \in Claims, UnpublishCheck(s, c)
        PROVE  Goal
    <2>1. PublishApprover(c, claim[c].by) \in Reviewers \cup {Bootstrap, None}
      BY ApproverType DEF TypeOK, ClaimRow
    <2>2. QED
      BY <1>4, <1>h, <1>k, <2>1 DEF UnpublishCheck, tables, Mutations
  <1>5. ASSUME NEW s \in Sessions, NEW c \in Claims,
               AddCheck(s, c) \/ DeleteCheck(s, c)
        PROVE  Goal
    <2>1. PICK pc \in {"add", "delete"}, p \in Payloads :
            sess' = [sess EXCEPT ![s] =
                       [Holding(s, c, pc, None) EXCEPT !.body = p]]
      <3>1. \A row \in sources[c] : row.body \in Payloads
        BY DEF TypeOK, SourceRow
      <3>2. QED
        BY <1>5, <3>1 DEF AddCheck, DeleteCheck
    <2> DEFINE q == [Holding(s, c, pc, None) EXCEPT !.body = p]
    <2>2. q \in SessionState /\ q.start = sess[s].start
      BY <1>h DEF SessionState, Mutations
    <2>3. sess[s].pc = "open" /\ UNCHANGED <<evals, now>>
      BY <1>5 DEF AddCheck, DeleteCheck, tables
    <2>4. sess' = [sess EXCEPT ![s] = q]
      BY <2>1
    <2> HIDE DEF q
    <2>5. QED
      BY <1>k, <2>2, <2>3, <2>4
  <1>m. \A s \in Sessions : sess[s].pc \in Mutations \cup {"bootstrap"} =>
          sess[s].claim \in Claims /\ s \in Started
    BY DEF SessionsSound, Sound, Started, Mutations
  <1>6. ASSUME NEW s \in Sessions, EvaluateCommit(s) PROVE Goal
    <2> DEFINE e == [verdict |-> sess[s].verdict, cited |-> sess[s].cited,
                     by |-> sess[s].who, approver |-> sess[s].approver,
                     at |-> sess[s].start]
    <2>1. e \in Evaluation /\ e.at = sess[s].start
      BY <1>6, EvaluateRow
    <2>2. sess[s].claim \in Claims /\ s \in Started
      BY <1>6, <1>m DEF EvaluateCommit, Mutations
    <2>3. /\ sess' = [sess EXCEPT ![s] = Idle]
          /\ evals' = [evals EXCEPT ![sess[s].claim] = Append(@, e)]
          /\ UNCHANGED now
      BY <1>6 DEF EvaluateCommit, Finish
    <2> HIDE DEF e
    <2>4. Inserts
      BY <2>1, <2>2, <2>3
    <2>5. QED
      BY <2>4
  <1>7. ASSUME NEW s \in Sessions, BootstrapWrite(s) PROVE Goal
    <2> DEFINE e == [verdict |-> "insufficient", cited |-> TRUE,
                     by |-> Bootstrap, approver |-> None,
                     at |-> sess[s].start]
    <2>1. e \in Evaluation /\ e.at = sess[s].start
      BY <1>w DEF Evaluation, Verdicts, SessionState
    <2>2. sess[s].claim \in Claims /\ s \in Started
      BY <1>7, <1>m DEF BootstrapWrite
    <2>3. /\ sess' = [sess EXCEPT ![s] = Idle]
          /\ evals' = [evals EXCEPT ![sess[s].claim] = Append(@, e)]
          /\ UNCHANGED now
      BY <1>7 DEF BootstrapWrite
    <2> HIDE DEF e
    <2>4. Inserts
      BY <2>1, <2>2, <2>3
    <2>5. QED
      BY <2>4
  <1>8. ASSUME NEW s \in Sessions,
               \/ PublishCommit(s) \/ UnpublishCommit(s) \/ AddCommit(s)
               \/ DeleteCommit(s) \/ Rollback(s) \/ Refuse(s)
        PROVE  Goal
    <2>1. s \in Started
      BY <1>8 DEF PublishCommit, UnpublishCommit, AddCommit, DeleteCommit,
                  Rollback, Refuse, Started, Mutations
    <2>2. sess' = [sess EXCEPT ![s] = Idle] /\ UNCHANGED <<evals, now>>
      BY <1>8 DEF PublishCommit, UnpublishCommit, AddCommit, DeleteCommit,
                  Rollback, Refuse, Finish, tables
    <2>3. QED
      BY <2>1, <2>2
  <1>9. ASSUME NEW s \in Sessions, NEW c \in Claims, BootstrapRead(s, c)
        PROVE  Goal
    <2> DEFINE q == [Idle EXCEPT !.pc = "bootstrap", !.claim = c,
                       !.start = now + 1]
    <2>1. q \in SessionState /\ q.start = now + 1
      BY <1>w, IdleType DEF SessionState
    <2>2. QED
      BY <1>9, <1>o, <2>1 DEF BootstrapRead, tables
  <1>10. CASE \/ \E r \in Reviewers : SetActive(r)
              \/ \E c \in Claims : FlagSource(c) \/ SetCheckable(c)
              \/ UNCHANGED vars
    BY <1>10 DEF SetActive, FlagSource, SetCheckable, vars, tables
  <1>11. QED
    BY <1>1, <1>2, <1>3, <1>4, <1>5, <1>6, <1>7, <1>8, <1>9, <1>10
       DEF Next, Request, Script

LEMMA StartsStep ==
  ASSUME ReviewAssumption, TypeOK, SessionsSound, EvaluationsSound,
         StartsUnique, [Next]_vars
  PROVE  StartsUnique'
  <1> USE DEF StartsUnique, Started, TypeOK
  <1>0. /\ now \in Nat
        /\ \A s \in Sessions : sess[s].start \in Nat
        /\ Idle.pc = "idle"
        /\ \A c \in Claims : evals[c] \in Seq(Evaluation)
        /\ \A e \in Evaluation : e.at \in Nat
    BY DEF SessionState, Evaluation, Idle
  <1>a. \A c \in Claims : \A i \in DOMAIN evals[c] : evals[c][i].at \in Nat
    <2>1. \A c \in Claims : \A i \in DOMAIN evals[c] :
            evals[c][i] \in Evaluation
      BY <1>0
    <2>2. QED
      BY <1>0, <2>1
  <1>1. CASE UNCHANGED <<sess, evals, now>>
    BY <1>1
  <1>2. ASSUME NEW s \in Sessions, NEW q \in SessionState,
               sess' = [sess EXCEPT ![s] = q],
               q.start = now + 1, now' = now + 1, UNCHANGED evals
        PROVE  StartsUnique'
    <2>1. /\ sess'[s].start = now + 1
          /\ \A t \in Sessions \ {s} : sess'[t] = sess[t]
      BY <1>2
    <2>2. \A t \in Started \ {s} : sess[t].start <= now
      OBVIOUS
    <2>3. QED
      BY <1>0, <1>2, <1>a, <2>1, <2>2
  <1>3. ASSUME NEW s \in Started, NEW q \in SessionState,
               sess' = [sess EXCEPT ![s] = q],
               q.start = sess[s].start, UNCHANGED <<evals, now>>
        PROVE  StartsUnique'
    <2>1. /\ sess'[s].start = sess[s].start
          /\ \A t \in Sessions \ {s} : sess'[t] = sess[t]
      BY <1>3
    <2>2. /\ \A t \in Sessions : sess'[t].start = sess[t].start
          /\ Started' \subseteq Started
      BY <2>1
    <2>3. QED
      BY <1>3, <2>2
  <1>4. ASSUME NEW s \in Started, sess' = [sess EXCEPT ![s] = Idle],
               UNCHANGED <<evals, now>>
        PROVE  StartsUnique'
    BY <1>0, <1>4
  <1>5. ASSUME NEW s \in Started, NEW c \in Claims, NEW e \in Evaluation,
               sess' = [sess EXCEPT ![s] = Idle],
               evals' = [evals EXCEPT ![c] = Append(@, e)],
               e.at = sess[s].start, UNCHANGED now
        PROVE  StartsUnique'
    <2>1. /\ Started' = Started \ {s}
          /\ \A t \in Started' : sess'[t] = sess[t]
      BY <1>0, <1>5
    <2>2. ASSUME NEW d \in Claims
          PROVE  \A i \in DOMAIN evals'[d] :
                   \/ i \in DOMAIN evals[d] /\ evals'[d][i] = evals[d][i]
                   \/ i = Len(evals[d]) + 1 /\ evals'[d][i] = e /\ d = c
      <3>1. CASE d = c
        <4>1. evals'[d] = Append(evals[d], e)
          BY <1>5, <3>1
        <4>2. QED
          BY <1>0, <3>1, <4>1
      <3>2. CASE d # c
        BY <1>5, <3>2
      <3>3. QED
        BY <3>1, <3>2
    <2>3. e.at <= now /\ \A t \in Started' : sess[t].start # e.at
      BY <1>5, <2>1
    <2>4. \A d \in Claims : \A i \in DOMAIN evals[d] : evals[d][i].at # e.at
      BY <1>5
    <2>5. \A d \in Claims : \A i \in DOMAIN evals'[d] :
            /\ evals'[d][i].at <= now'
            /\ \A t \in Started' : sess'[t].start # evals'[d][i].at
      BY <1>5, <2>1, <2>2, <2>3
    <2>6. ASSUME NEW d \in Claims, NEW i \in DOMAIN evals'[d],
                 NEW j \in DOMAIN evals'[d],
                 evals'[d][i].at = evals'[d][j].at
          PROVE  i = j
      <3>1. CASE i \in DOMAIN evals[d] /\ j \in DOMAIN evals[d]
        <4>1. evals'[d][i] = evals[d][i] /\ evals'[d][j] = evals[d][j]
          BY <1>0, <2>2, <3>1
        <4>2. QED
          BY <2>6, <3>1, <4>1
      <3>2. CASE i \notin DOMAIN evals[d] /\ j \notin DOMAIN evals[d]
        BY <2>2, <3>2
      <3>3. CASE i \notin DOMAIN evals[d] /\ j \in DOMAIN evals[d]
        <4>1. evals'[d][i] = e
          BY <2>2, <3>3
        <4>2. evals'[d][j] = evals[d][j]
          BY <1>0, <2>2, <3>3
        <4>3. QED
          BY <2>4, <2>6, <3>3, <4>1, <4>2
      <3>4. CASE i \in DOMAIN evals[d] /\ j \notin DOMAIN evals[d]
        <4>1. evals'[d][j] = e
          BY <2>2, <3>4
        <4>2. evals'[d][i] = evals[d][i]
          BY <1>0, <2>2, <3>4
        <4>3. QED
          BY <2>4, <2>6, <3>4, <4>1, <4>2
      <3>5. QED
        BY <3>1, <3>2, <3>3, <3>4
    <2>7. QED
      BY <1>5, <2>1, <2>5, <2>6
  <1> HIDE DEF StartsUnique, Started, TypeOK
  <1>6. QED
    BY <1>1, <1>2, <1>3, <1>4, <1>5, SessionKinds

\* Appending a row that started at another time changes the latest row, if
\* at all, to the new one.
LEMMA LatestAppended ==
  ASSUME NEW rows \in Seq(Evaluation), NEW e \in Evaluation,
         rows # <<>> => \E i \in DOMAIN rows :
           \A j \in DOMAIN rows : rows[j].at <= rows[i].at,
         \A i, j \in DOMAIN rows : rows[i].at = rows[j].at => i = j
  PROVE  /\ rows = <<>> => LatestOf(Append(rows, e)) = e
         /\ LatestOf(Append(rows, e)) \in {LatestOf(rows), e}
  <1> DEFINE new == Append(rows, e)
             n == Len(rows) + 1
             IsMax(i) == \A j \in DOMAIN new : new[j].at <= new[i].at
             IsOldMax(i) == \A j \in DOMAIN rows : rows[j].at <= rows[i].at
             k == CHOOSE i \in DOMAIN new : IsMax(i)
             m == CHOOSE i \in DOMAIN rows : IsOldMax(i)
  <1>1. /\ DOMAIN new = 1 .. n
        /\ new[n] = e
        /\ \A j \in DOMAIN rows : j \in DOMAIN new /\ new[j] = rows[j]
        /\ DOMAIN rows = 1 .. Len(rows)
        /\ Len(rows) \in Nat
        /\ rows = <<>> => Len(rows) = 0
    OBVIOUS
  <1>2. \A j \in DOMAIN rows : rows[j].at \in Nat
    <2>1. \A row \in Evaluation : row.at \in Nat
      BY DEF Evaluation
    <2>2. \A j \in DOMAIN rows : rows[j] \in Evaluation
      OBVIOUS
    <2>3. QED
      BY <2>1, <2>2
  <1>3. \E i \in DOMAIN new : IsMax(i)
    BY AppendLatest
  <1>4. LatestOf(new) = new[k] /\ LatestOf(rows) = rows[m]
    BY DEF LatestOf
  <1>5. k \in DOMAIN new /\ IsMax(k)
    <2> HIDE DEF IsMax, new
    <2>1. QED
      BY <1>3
  <1> HIDE DEF k, m
  <1>6. CASE k = n
    BY <1>1, <1>4, <1>6
  <1>7. CASE k # n
    <2>1. k \in DOMAIN rows
      BY <1>1, <1>5, <1>7
    <2>2. IsOldMax(k)
      BY <1>1, <1>5, <2>1
    <2>3. m \in DOMAIN rows /\ IsOldMax(m)
      <3> HIDE DEF IsOldMax
      <3>1. QED
        BY <2>1, <2>2 DEF m
    <2>4. rows[m].at = rows[k].at
      BY <1>2, <2>1, <2>2, <2>3
    <2>5. m = k
      BY <2>1, <2>3, <2>4
    <2>6. rows # <<>>
      BY <1>1, <2>1
    <2>7. QED
      BY <1>1, <1>4, <2>1, <2>5, <2>6
  <1>8. QED
    BY <1>6, <1>7

\* Two functions that agree but at c.
LEMMA ExceptAt ==
  ASSUME NEW S, NEW f, NEW g, NEW c \in S, NEW v,
         f = [d \in S |-> f[d]], g = [d \in S |-> g[d]],
         \A d \in S : g[d] = IF d = c THEN v ELSE f[d]
  PROVE  g = [f EXCEPT ![c] = v]
  OBVIOUS

-----------------------------------------------------------------------------
(* The refinement mapping, claim by claim. *)

Standing(c) ==
  IF evals[c] = <<>> THEN None
  ELSE [factual |-> Latest(c).verdict = "supported",
        cited |-> Latest(c).cited, by |-> Latest(c).by]

Bodies(c) == {row.body : row \in sources[c]}

Publisher(c) == IF claim[c].published THEN claim[c].by ELSE None

\* A step that changes no claim's image stutters.
LEMMA Stutters ==
  ASSUME \A c \in Claims : /\ Standing(c)' = Standing(c)
                           /\ Bodies(c)' = Bodies(c)
                           /\ Publisher(c)' = Publisher(c)
  PROVE  UNCHANGED Policy!vars
  <1>1. [c \in Claims |-> Standing(c)'] = [c \in Claims |-> Standing(c)]
    BY Zenon
  <1>2. [c \in Claims |-> Bodies(c)'] = [c \in Claims |-> Bodies(c)]
    BY Zenon
  <1>3. [c \in Claims |-> Publisher(c)'] = [c \in Claims |-> Publisher(c)]
    BY Zenon
  <1>4. QED
    BY <1>1, <1>2, <1>3 DEF Policy!vars, Standing, Bodies, Publisher

LEMMA MapsToJudge ==
  ASSUME NEW c \in Claims, NEW v \in Policy!Verdict,
         v.factual => Evidenced(c),
         \A d \in Claims : /\ Standing(d)' = IF d = c THEN v ELSE Standing(d)
                           /\ Bodies(d)' = Bodies(d)
                           /\ Publisher(d)' = Publisher(d)
  PROVE  Policy!Next
  <1> DEFINE f == [d \in Claims |-> Standing(d)]
             g == [d \in Claims |-> Standing(d)']
  <1>f. /\ f = [d \in Claims |-> f[d]] /\ g = [d \in Claims |-> g[d]]
        /\ \A d \in Claims : f[d] = Standing(d) /\ g[d] = Standing(d)'
    BY Zenon
  <1>g. \A d \in Claims : g[d] = IF d = c THEN v ELSE f[d]
    BY <1>f
  <1> HIDE DEF f, g
  <1>e. g = [f EXCEPT ![c] = v]
    BY <1>f, <1>g, ExceptAt
  <1>1. [d \in Claims |-> Standing(d)'] =
          [[d \in Claims |-> Standing(d)] EXCEPT ![c] = v]
    BY <1>e, <1>f DEF f, g
  <1>2. /\ [d \in Claims |-> Bodies(d)'] = [d \in Claims |-> Bodies(d)]
        /\ [d \in Claims |-> Publisher(d)'] = [d \in Claims |-> Publisher(d)]
    BY Zenon
  <1>3. v.factual => Policy!Corroborated(c)
    BY DEF Evidenced, HasRow, Policy!Corroborated, Policy!Shows
  <1>4. Policy!Judge(c)
    BY <1>1, <1>2, <1>3 DEF Policy!Judge, Standing, Bodies, Publisher
  <1>5. QED
    BY <1>4 DEF Policy!Next

LEMMA MapsToPublish ==
  ASSUME NEW c \in Claims, NEW r \in Reviewers, Evidenced(c),
         Standing(c) # None, Standing(c).factual, Standing(c).cited,
         Standing(c).by # r,
         \A d \in Claims : /\ Standing(d)' = Standing(d)
                           /\ Bodies(d)' = Bodies(d)
                           /\ Publisher(d)' = IF d = c THEN r ELSE Publisher(d)
  PROVE  Policy!Next
  <1> DEFINE f == [d \in Claims |-> Publisher(d)]
             g == [d \in Claims |-> Publisher(d)']
  <1>f. /\ f = [d \in Claims |-> f[d]] /\ g = [d \in Claims |-> g[d]]
        /\ \A d \in Claims : f[d] = Publisher(d) /\ g[d] = Publisher(d)'
    BY Zenon
  <1>g. \A d \in Claims : g[d] = IF d = c THEN r ELSE f[d]
    BY <1>f
  <1> HIDE DEF f, g
  <1>e. g = [f EXCEPT ![c] = r]
    BY <1>f, <1>g, ExceptAt
  <1>1. [d \in Claims |-> Publisher(d)'] =
          [[d \in Claims |-> Publisher(d)] EXCEPT ![c] = r]
    BY <1>e, <1>f DEF f, g
  <1>2. /\ [d \in Claims |-> Bodies(d)'] = [d \in Claims |-> Bodies(d)]
        /\ [d \in Claims |-> Standing(d)'] = [d \in Claims |-> Standing(d)]
    BY Zenon
  <1>3. Policy!Corroborated(c)
    BY DEF Evidenced, HasRow, Policy!Corroborated, Policy!Shows
  <1>4. Policy!Publish(c, r)
    BY <1>1, <1>2, <1>3 DEF Policy!Publish, Standing, Bodies, Publisher
  <1>5. QED
    BY <1>4 DEF Policy!Next

LEMMA MapsToUnpublish ==
  ASSUME NEW c \in Claims, NEW r \in Reviewers,
         r # (IF Standing(c) = None THEN Publisher(c) ELSE Standing(c).by),
         \A d \in Claims : /\ Standing(d)' = Standing(d)
                           /\ Bodies(d)' = Bodies(d)
                           /\ Publisher(d)' = IF d = c THEN None
                                              ELSE Publisher(d)
  PROVE  Policy!Next
  <1> DEFINE f == [d \in Claims |-> Publisher(d)]
             g == [d \in Claims |-> Publisher(d)']
  <1>f. /\ f = [d \in Claims |-> f[d]] /\ g = [d \in Claims |-> g[d]]
        /\ \A d \in Claims : f[d] = Publisher(d) /\ g[d] = Publisher(d)'
    BY Zenon
  <1>g. \A d \in Claims : g[d] = IF d = c THEN None ELSE f[d]
    BY <1>f
  <1> HIDE DEF f, g
  <1>e. g = [f EXCEPT ![c] = None]
    BY <1>f, <1>g, ExceptAt
  <1>1. [d \in Claims |-> Publisher(d)'] =
          [[d \in Claims |-> Publisher(d)] EXCEPT ![c] = None]
    BY <1>e, <1>f DEF f, g
  <1>2. /\ [d \in Claims |-> Bodies(d)'] = [d \in Claims |-> Bodies(d)]
        /\ [d \in Claims |-> Standing(d)'] = [d \in Claims |-> Standing(d)]
    BY Zenon
  <1>3. Policy!Unpublish(c, r)
    BY <1>1, <1>2 DEF Policy!Unpublish, Standing, Bodies, Publisher
  <1>4. QED
    BY <1>3 DEF Policy!Next

LEMMA MapsToAttach ==
  ASSUME NEW c \in Claims, NEW p \in Payloads,
         \A q \in Bodies(c) : q.url # p.url,
         \A d \in Claims : /\ Standing(d)' = Standing(d)
                           /\ Bodies(d)' = IF d = c THEN Bodies(c) \cup {p}
                                           ELSE Bodies(d)
                           /\ Publisher(d)' = Publisher(d)
  PROVE  Policy!Next
  <1> DEFINE f == [d \in Claims |-> Bodies(d)]
             g == [d \in Claims |-> Bodies(d)']
  <1>f. /\ f = [d \in Claims |-> f[d]] /\ g = [d \in Claims |-> g[d]]
        /\ \A d \in Claims : f[d] = Bodies(d) /\ g[d] = Bodies(d)'
    BY Zenon
  <1>g. \A d \in Claims : g[d] = IF d = c THEN Bodies(c) \cup {p} ELSE f[d]
    BY <1>f
  <1> HIDE DEF f, g
  <1>e. g = [f EXCEPT ![c] = Bodies(c) \cup {p}]
    BY <1>f, <1>g, ExceptAt
  <1>1. [d \in Claims |-> Bodies(d)'] =
          [[d \in Claims |-> Bodies(d)] EXCEPT ![c] = @ \cup {p}]
    BY <1>e, <1>f DEF f, g
  <1>2. /\ [d \in Claims |-> Standing(d)'] = [d \in Claims |-> Standing(d)]
        /\ [d \in Claims |-> Publisher(d)'] = [d \in Claims |-> Publisher(d)]
    BY Zenon
  <1>3. Policy!Attach(c)
    BY <1>1, <1>2 DEF Policy!Attach, Standing, Bodies, Publisher
  <1>4. QED
    BY <1>3 DEF Policy!Next

LEMMA MapsToDetach ==
  ASSUME NEW c \in Claims, NEW p \in Bodies(c), Publisher(c) = None,
         \A d \in Claims : /\ Standing(d)' = Standing(d)
                           /\ Bodies(d)' = IF d = c THEN Bodies(c) \ {p}
                                           ELSE Bodies(d)
                           /\ Publisher(d)' = Publisher(d)
  PROVE  Policy!Next
  <1> DEFINE f == [d \in Claims |-> Bodies(d)]
             g == [d \in Claims |-> Bodies(d)']
  <1>f. /\ f = [d \in Claims |-> f[d]] /\ g = [d \in Claims |-> g[d]]
        /\ \A d \in Claims : f[d] = Bodies(d) /\ g[d] = Bodies(d)'
    BY Zenon
  <1>g. \A d \in Claims : g[d] = IF d = c THEN Bodies(c) \ {p} ELSE f[d]
    BY <1>f
  <1> HIDE DEF f, g
  <1>e. g = [f EXCEPT ![c] = Bodies(c) \ {p}]
    BY <1>f, <1>g, ExceptAt
  <1>1. [d \in Claims |-> Bodies(d)'] =
          [[d \in Claims |-> Bodies(d)] EXCEPT ![c] = @ \ {p}]
    BY <1>e, <1>f DEF f, g
  <1>2. /\ [d \in Claims |-> Standing(d)'] = [d \in Claims |-> Standing(d)]
        /\ [d \in Claims |-> Publisher(d)'] = [d \in Claims |-> Publisher(d)]
    BY Zenon
  <1>3. Policy!Detach(c)
    BY <1>1, <1>2 DEF Policy!Detach, Standing, Bodies, Publisher
  <1>4. QED
    BY <1>3 DEF Policy!Next

-----------------------------------------------------------------------------
(* Each step is a step of the policy, or none. *)

\* What a row says of its claim when it is the latest.
Says(e) == [factual |-> e.verdict = "supported",
            cited |-> e.cited, by |-> e.by]

LEMMA StandingSays ==
  ASSUME NEW c
  PROVE  /\ Standing(c) = IF evals[c] = <<>> THEN None
                          ELSE Says(LatestOf(evals[c]))
         /\ Standing(c)' = IF evals'[c] = <<>> THEN None
                           ELSE Says(LatestOf(evals'[c]))
  <1>1. Latest(c) = LatestOf(evals[c]) /\ Latest(c)' = LatestOf(evals'[c])
    BY DEF Latest, LatestOf
  <1>2. QED
    BY <1>1 DEF Standing, Says

LEMMA VerdictType ==
  ASSUME NEW e \in Evaluation
  PROVE  Says(e) \in Policy!Verdict
  BY DEF Evaluation, Says, Policy!Verdict

\* An inserted row becomes the verdict that stands, or changes nothing.
LEMMA StandingAppended ==
  ASSUME TypeOK, EvaluationsSound, StartsUnique,
         NEW c \in Claims, NEW e \in Evaluation,
         evals' = [evals EXCEPT ![c] = Append(@, e)]
  PROVE  /\ \A d \in Claims \ {c} : Standing(d)' = Standing(d)
         /\ Standing(c)' \in {Standing(c), Says(e)}
  <1>1. \A d \in Claims \ {c} : evals'[d] = evals[d]
    OBVIOUS
  <1>2. \A d \in Claims \ {c} : Standing(d)' = Standing(d)
    BY <1>1, StandingSays
  <1>3. evals[c] \in Seq(Evaluation) /\ evals'[c] = Append(evals[c], e)
    BY DEF TypeOK
  <1>4. /\ evals[c] # <<>> => \E i \in DOMAIN evals[c] :
             \A j \in DOMAIN evals[c] : evals[c][j].at <= evals[c][i].at
        /\ \A i, j \in DOMAIN evals[c] :
             evals[c][i].at = evals[c][j].at => i = j
    BY DEF EvaluationsSound, StartsUnique
  <1>5. /\ evals[c] = <<>> => LatestOf(evals'[c]) = e
        /\ LatestOf(evals'[c]) \in {LatestOf(evals[c]), e}
    BY <1>3, <1>4, LatestAppended
  <1>6. evals'[c] # <<>>
    BY <1>3
  <1>7. Standing(c)' \in {Standing(c), Says(e)}
    BY <1>5, <1>6, StandingSays
  <1>8. QED
    BY <1>2, <1>7

\* An insertion into the evaluations of c, of a verdict that its evidence
\* allows, is a judgement or a stutter.
LEMMA InsertionMaps ==
  ASSUME TypeOK, EvaluationsSound, StartsUnique,
         NEW c \in Claims, NEW e \in Evaluation,
         evals' = [evals EXCEPT ![c] = Append(@, e)],
         e.verdict = "supported" => Evidenced(c),
         \A d \in Claims : /\ Bodies(d)' = Bodies(d)
                           /\ Publisher(d)' = Publisher(d)
  PROVE  [Policy!Next]_(Policy!vars)
  <1>1. /\ \A d \in Claims \ {c} : Standing(d)' = Standing(d)
        /\ Standing(c)' \in {Standing(c), Says(e)}
    BY StandingAppended
  <1>2. CASE Standing(c)' = Standing(c)
    BY <1>1, <1>2, Stutters
  <1>3. CASE Standing(c)' = Says(e)
    <2>1. Says(e) \in Policy!Verdict
      BY VerdictType
    <2>2. Says(e).factual => Evidenced(c)
      BY DEF Says
    <2>3. \A d \in Claims : Standing(d)' = IF d = c THEN Says(e)
                                           ELSE Standing(d)
      BY <1>1, <1>3
    <2>4. QED
      BY <2>1, <2>2, <2>3, MapsToJudge
  <1>4. QED
    BY <1>1, <1>2, <1>3

LEMMA SameImages ==
  /\ UNCHANGED evals => \A d \in Claims : Standing(d)' = Standing(d)
  /\ UNCHANGED sources => \A d \in Claims : Bodies(d)' = Bodies(d)
  /\ \A d : /\ claim'[d].published = claim[d].published
            /\ claim'[d].by = claim[d].by
            => Publisher(d)' = Publisher(d)
  <1>1. UNCHANGED evals => \A d \in Claims : Standing(d)' = Standing(d)
    BY StandingSays
  <1>2. UNCHANGED sources => \A d \in Claims : Bodies(d)' = Bodies(d)
    BY DEF Bodies
  <1>3. QED
    BY <1>1, <1>2 DEF Publisher

LEMMA PolicyStep ==
  ASSUME ReviewAssumption, TypeOK, SessionsSound, EvaluationsSound,
         StartsUnique, [Next]_vars
  PROVE  [Policy!Next]_(Policy!vars)
  <1> DEFINE Goal == [Policy!Next]_(Policy!vars)
  <1>m. \A s \in Sessions : sess[s].pc \in Mutations \cup {"bootstrap"} =>
          sess[s].claim \in Claims /\ Sound(s)
    BY DEF SessionsSound, Sound
  <1>1. CASE UNCHANGED tables
    BY <1>1, SameImages, Stutters DEF tables
  <1>2. ASSUME NEW s \in Sessions, EvaluateCommit(s) PROVE Goal
    <2> DEFINE e == [verdict |-> sess[s].verdict, cited |-> sess[s].cited,
                     by |-> sess[s].who, approver |-> sess[s].approver,
                     at |-> sess[s].start]
    <2> PICK c \in Claims : c = sess[s].claim
      BY <1>2, <1>m DEF EvaluateCommit, Mutations
    <2>1. e \in Evaluation
      BY <1>2, EvaluateRow
    <2>2. evals' = [evals EXCEPT ![c] = Append(@, e)]
      BY <1>2 DEF EvaluateCommit
    <2>3. e.verdict = "supported" => Evidenced(c)
      BY <1>2, <1>m DEF EvaluateCommit, Sound, Mutations
    <2>4. \A d \in Claims : /\ claim'[d].published = claim[d].published
                            /\ claim'[d].by = claim[d].by
      BY <1>2, PublisherKept DEF EvaluateCommit, TypeOK
    <2>5. \A d \in Claims : /\ Bodies(d)' = Bodies(d)
                            /\ Publisher(d)' = Publisher(d)
      BY <1>2, <2>4, SameImages DEF EvaluateCommit
    <2> HIDE DEF e
    <2>6. QED
      BY <2>1, <2>2, <2>3, <2>5, InsertionMaps
  <1>3. ASSUME NEW s \in Sessions, BootstrapWrite(s) PROVE Goal
    <2> DEFINE e == [verdict |-> "insufficient", cited |-> TRUE,
                     by |-> Bootstrap, approver |-> None,
                     at |-> sess[s].start]
    <2> PICK c \in Claims : c = sess[s].claim
      BY <1>3, <1>m DEF BootstrapWrite
    <2>1. e \in Evaluation
      BY DEF Evaluation, Verdicts, SessionState, TypeOK
    <2>2. evals' = [evals EXCEPT ![c] = Append(@, e)]
      BY <1>3 DEF BootstrapWrite
    <2>3. e.verdict # "supported"
      OBVIOUS
    <2>4. \A d \in Claims : /\ claim'[d].published = claim[d].published
                            /\ claim'[d].by = claim[d].by
      BY <1>3, PublisherKept DEF BootstrapWrite, TypeOK
    <2>5. \A d \in Claims : /\ Bodies(d)' = Bodies(d)
                            /\ Publisher(d)' = Publisher(d)
      BY <1>3, <2>4, SameImages DEF BootstrapWrite
    <2> HIDE DEF e
    <2>6. QED
      BY <2>1, <2>2, <2>3, <2>5, InsertionMaps
  <1>4. ASSUME NEW s \in Sessions, PublishCommit(s) PROVE Goal
    <2> PICK c \in Claims : c = sess[s].claim
      BY <1>4, <1>m DEF PublishCommit, Mutations
    <2> PICK r : r = sess[s].who
      OBVIOUS
    <2>1. /\ Sound(s) /\ sess[s].pc = "publish"
          /\ claim' = [claim EXCEPT ![c] =
               [@ EXCEPT !.published = TRUE, !.status = "published", !.by = r]]
          /\ UNCHANGED <<evals, sources>>
      BY <1>4, <1>m DEF PublishCommit, Mutations
    <2>2. /\ Evidenced(c) /\ evals[c] # <<>> /\ r \in Reviewers
          /\ Latest(c).verdict = "supported" /\ Latest(c).cited
          /\ Latest(c).by \in Reviewers \ {r}
      BY <2>1 DEF Sound, Mutations
    <2>3. /\ Standing(c) # None /\ Standing(c).factual /\ Standing(c).cited
          /\ Standing(c).by # r
      <3>1. PICK i \in DOMAIN evals[c] : Latest(c) = evals[c][i]
        BY <2>2, LatestIsARow
      <3>2. Latest(c) \in Evaluation
        BY <3>1 DEF TypeOK
      <3>3. Standing(c) = Says(Latest(c))
        BY <2>2 DEF Standing, Says
      <3>4. Standing(c) \in [factual : BOOLEAN, cited : BOOLEAN,
                             by : Reviewers \cup {Bootstrap}]
        BY <3>2, <3>3 DEF Says, Evaluation
      <3>5. Standing(c) # None
        BY <3>4 DEF ReviewAssumption
      <3>6. /\ Standing(c).factual = (Latest(c).verdict = "supported")
            /\ Standing(c).cited = Latest(c).cited
            /\ Standing(c).by = Latest(c).by
        BY <3>3 DEF Says
      <3>7. QED
        BY <2>2, <3>5, <3>6
    <2>4. \A d \in Claims : Publisher(d)' = IF d = c THEN r ELSE Publisher(d)
      <3>1. claim'[c].published /\ claim'[c].by = r
        BY <2>1 DEF TypeOK, ClaimRow
      <3>2. \A d \in Claims \ {c} : claim'[d] = claim[d]
        BY <2>1
      <3>3. QED
        BY <3>1, <3>2 DEF Publisher
    <2>5. QED
      BY <2>1, <2>2, <2>3, <2>4, SameImages, MapsToPublish
  <1>5. ASSUME NEW s \in Sessions, UnpublishCommit(s) PROVE Goal
    <2> PICK c \in Claims : c = sess[s].claim
      BY <1>5, <1>m DEF UnpublishCommit, Mutations
    <2> PICK r : r = sess[s].who
      OBVIOUS
    <2>1. /\ Sound(s) /\ sess[s].pc = "unpublish"
          /\ claim' = [claim EXCEPT ![c] =
               [@ EXCEPT !.published = FALSE, !.status = "reviewed",
                         !.by = None]]
          /\ UNCHANGED <<evals, sources>>
      BY <1>5, <1>m DEF UnpublishCommit, Mutations
    <2>2. /\ r \in Reviewers
          /\ PublishApprover(c, claim[c].by) # r
      BY <2>1 DEF Sound, Mutations
    <2>3. r # (IF Standing(c) = None THEN Publisher(c) ELSE Standing(c).by)
      <3>1. CASE evals[c] = <<>>
        <4>1. r # claim[c].by /\ Standing(c) = None
          BY <2>2, <3>1 DEF PublishApprover, Standing
        <4>2. r # Publisher(c)
          BY <2>2, <4>1 DEF Publisher, ReviewAssumption
        <4>3. QED
          BY <4>1, <4>2
      <3>2. CASE evals[c] # <<>>
        <4>1. PICK i \in DOMAIN evals[c] : Latest(c) = evals[c][i]
          BY <3>2, LatestIsARow
        <4>2. Latest(c) \in Evaluation
          BY <4>1 DEF TypeOK
        <4>3. Standing(c) = Says(Latest(c))
          BY <3>2 DEF Standing, Says
        <4>4. Standing(c) \in [factual : BOOLEAN, cited : BOOLEAN,
                               by : Reviewers \cup {Bootstrap}]
          BY <4>2, <4>3 DEF Says, Evaluation
        <4>5. Standing(c) # None
          BY <4>4 DEF ReviewAssumption
        <4>6. Standing(c).by # r
          BY <2>2, <3>2, <4>3 DEF Says, PublishApprover
        <4>7. QED
          BY <4>5, <4>6
      <3>3. QED
        BY <3>1, <3>2
    <2>4. \A d \in Claims : Publisher(d)' = IF d = c THEN None
                                           ELSE Publisher(d)
      <3>1. ~ claim'[c].published
        BY <2>1 DEF TypeOK, ClaimRow
      <3>2. \A d \in Claims \ {c} : claim'[d] = claim[d]
        BY <2>1
      <3>3. QED
        BY <3>1, <3>2 DEF Publisher
    <2>5. QED
      BY <2>1, <2>2, <2>3, <2>4, SameImages, MapsToUnpublish
  <1>6. ASSUME NEW s \in Sessions, AddCommit(s) PROVE Goal
    <2> PICK c \in Claims : c = sess[s].claim
      BY <1>6, <1>m DEF AddCommit, Mutations
    <2> PICK p : p = sess[s].body
      OBVIOUS
    <2>1. /\ p \in Payloads /\ \A row \in sources[c] : row.body.url # p.url
          /\ sources' = [sources EXCEPT ![c] =
                           @ \cup {[body |-> p, flagged |-> FALSE]}]
          /\ UNCHANGED <<claim, evals>>
      BY <1>6, <1>m DEF AddCommit, Sound, Mutations
    <2>2. \A q \in Bodies(c) : q.url # p.url
      BY <2>1 DEF Bodies
    <2>3. \A d \in Claims : Bodies(d)' = IF d = c THEN Bodies(c) \cup {p}
                                        ELSE Bodies(d)
      <3>1. /\ sources'[c] = sources[c] \cup {[body |-> p, flagged |-> FALSE]}
            /\ \A d \in Claims \ {c} : sources'[d] = sources[d]
        BY <2>1 DEF TypeOK
      <3>p. PICK new : new = [body |-> p, flagged |-> FALSE]
        OBVIOUS
      <3>2. Bodies(c)' = Bodies(c) \cup {p}
        <4>1. new.body = p /\ sources'[c] = sources[c] \cup {new}
          BY <3>1, <3>p
        <4>2. QED
          BY <4>1 DEF Bodies
      <3>3. \A d \in Claims \ {c} : Bodies(d)' = Bodies(d)
        BY <3>1 DEF Bodies
      <3>4. QED
        BY <3>2, <3>3
    <2>4. QED
      BY <2>1, <2>2, <2>3, SameImages, MapsToAttach
  <1>7. ASSUME NEW s \in Sessions, DeleteCommit(s) PROVE Goal
    <2> PICK c \in Claims : c = sess[s].claim
      BY <1>7, <1>m DEF DeleteCommit, Mutations
    <2> PICK p : p = sess[s].body
      OBVIOUS
    <2>1. /\ ~claim[c].published /\ \E row \in sources[c] : row.body = p
          /\ sources' = [sources EXCEPT ![c] = {row \in @ : row.body # p}]
          /\ UNCHANGED <<claim, evals>>
      BY <1>7, <1>m DEF DeleteCommit, Sound, Mutations
    <2>2. p \in Bodies(c) /\ Publisher(c) = None
      BY <2>1 DEF Bodies, Publisher
    <2>3. \A d \in Claims : Bodies(d)' = IF d = c THEN Bodies(c) \ {p}
                                        ELSE Bodies(d)
      <3>1. /\ sources'[c] = {row \in sources[c] : row.body # p}
            /\ \A d \in Claims \ {c} : sources'[d] = sources[d]
        BY <2>1 DEF TypeOK
      <3>2. Bodies(c)' = Bodies(c) \ {p}
        BY <3>1 DEF Bodies
      <3>3. \A d \in Claims \ {c} : Bodies(d)' = Bodies(d)
        BY <3>1 DEF Bodies
      <3>4. QED
        BY <3>2, <3>3
    <2>4. QED
      BY <2>1, <2>2, <2>3, SameImages, MapsToDetach
  <1>8. ASSUME NEW c \in Claims, FlagSource(c) PROVE Goal
    <2>1. PICK row \in sources[c] :
            sources' = [sources EXCEPT ![c] =
                          (@ \ {row}) \cup {[row EXCEPT !.flagged = TRUE]}]
      BY <1>8 DEF FlagSource
    <2>2. row \in SourceRow
      BY DEF TypeOK
    <2>3. [row EXCEPT !.flagged = TRUE].body = row.body
      BY <2>2 DEF SourceRow
    <2>4. /\ sources'[c] =
               (sources[c] \ {row}) \cup {[row EXCEPT !.flagged = TRUE]}
          /\ \A d \in Claims \ {c} : sources'[d] = sources[d]
      BY <2>1 DEF TypeOK
    <2>p. PICK new : new = [row EXCEPT !.flagged = TRUE]
      OBVIOUS
    <2>5. Bodies(c)' = Bodies(c)
      <3>1. /\ new.body = row.body
            /\ sources'[c] = (sources[c] \ {row}) \cup {new}
        BY <2>3, <2>4, <2>p
      <3>2. QED
        BY <3>1 DEF Bodies
    <2>6. \A d \in Claims \ {c} : Bodies(d)' = Bodies(d)
      BY <2>4 DEF Bodies
    <2>7. UNCHANGED <<claim, evals>>
      BY <1>8 DEF FlagSource
    <2>8. QED
      BY <2>5, <2>6, <2>7, SameImages, Stutters
  <1>9. ASSUME NEW c \in Claims, SetCheckable(c) PROVE Goal
    <2>1. PICK b \in BOOLEAN : claim' = [claim EXCEPT ![c].checkable = b]
      BY <1>9 DEF SetCheckable
    <2>2. \A d \in Claims : /\ claim'[d].published = claim[d].published
                            /\ claim'[d].by = claim[d].by
      BY <2>1, PublisherKept DEF TypeOK
    <2>3. UNCHANGED <<sources, evals>>
      BY <1>9 DEF SetCheckable
    <2>4. QED
      BY <2>2, <2>3, SameImages, Stutters
  <1>10. QED
    BY <1>1, <1>2, <1>3, <1>4, <1>5, <1>6, <1>7, <1>8, <1>9, TableWriters

LEMMA PolicyInit == Init => Policy!Init
  <1> SUFFICES ASSUME Init PROVE Policy!Init
    OBVIOUS
  <1>1. [c \in Claims |-> Standing(c)] = [c \in Claims |-> None]
    BY DEF Init, Standing
  <1>2. [c \in Claims |-> Publisher(c)] = [c \in Claims |-> None]
    BY DEF Init, Publisher
  <1>3. [c \in Claims |-> Bodies(c)] \in [Claims -> SUBSET Payloads]
    <2>1. \A c \in Claims : Bodies(c) \in SUBSET Payloads
      BY DEF Init, Bodies, Gathered
    <2>2. QED
      BY <2>1, Zenon
  <1>4. QED
    BY <1>1, <1>2, <1>3 DEF Policy!Init, Standing, Bodies, Publisher

\* Seen through the verdict in force, the payloads attached and the publisher,
\* every behaviour of the requests and scripts is one of ReviewPolicy: what
\* publish_claim shows the public is the verdict that stands at that moment,
\* given by somebody else, cited and still corroborated.
THEOREM ImplementsPolicy == Spec => PolicySpec
  <1>1. Init => StartsUnique
    BY DEF Init, StartsUnique, Started, Idle
  <1>2. IInv /\ StartsUnique /\ [Next]_vars => StartsUnique'
    BY ReviewAssumption, StartsStep DEF IInv
  <1>3. Spec => []StartsUnique
    BY <1>1, <1>2, Inductive, PTL DEF Spec
  <1>4. IInv /\ StartsUnique /\ [Next]_vars => [Policy!Next]_(Policy!vars)
    BY ReviewAssumption, PolicyStep DEF IInv
  <1>5. Init => Policy!Init
    BY PolicyInit
  <1>6. QED
    BY <1>3, <1>4, <1>5, Inductive, PTL DEF Spec, PolicySpec, Policy!Spec

-----------------------------------------------------------------------------
(* The workbench and the queues. *)

LEMMA SourcesFinite ==
  ASSUME WorkbenchAssumption, TypeOK, NEW c \in Claims
  PROVE  IsFiniteSet(sources[c])
  <1> DEFINE S == Payloads \X ({TRUE} \cup {FALSE})
             f == [x \in S |-> [body |-> x[1], flagged |-> x[2]]]
  <1>1. IsFiniteSet({TRUE} \cup {FALSE})
    BY FS_Singleton, FS_Union
  <1>2. IsFiniteSet(S)
    BY <1>1, FS_Product DEF WorkbenchAssumption
  <1>3. f \in Surjection(S, SourceRow)
    <2>1. ASSUME NEW row \in SourceRow PROVE \E x \in S : f[x] = row
      <3>1. <<row.body, row.flagged>> \in S
        BY DEF SourceRow
      <3>2. f[<<row.body, row.flagged>>] = row
        BY <3>1 DEF SourceRow
      <3>3. QED
        BY <3>1, <3>2
    <2>2. f \in [S -> SourceRow]
      BY DEF SourceRow
    <2> HIDE DEF f, S
    <2>3. QED
      BY <2>1, <2>2 DEF Surjection
  <1> HIDE DEF f, S
  <1>4. IsFiniteSet(SourceRow)
    BY <1>2, <1>3, FS_Surjection
  <1>5. QED
    BY <1>4, FS_Subset DEF TypeOK

\* A count is positive just when there is a row to count.
LEMMA CountPositive ==
  ASSUME WorkbenchAssumption, TypeOK, NEW c \in Claims, NEW class
  PROVE  /\ Count(c, class) \in Nat
         /\ Count(c, class) > 0 <=> HasVerification(c, class)
  <1> DEFINE S == {row \in sources[c] : /\ ~row.flagged
                                        /\ row.body.origin = "verification"
                                        /\ row.body.class = class}
  <1>1. IsFiniteSet(S)
    BY SourcesFinite, FS_Subset
  <1>2. Cardinality(S) \in Nat /\ (Cardinality(S) = 0 <=> S = {})
    BY <1>1, FS_CardinalityType, FS_EmptySet
  <1>3. Count(c, class) = Cardinality(S)
    BY DEF Count
  <1>4. HasVerification(c, class) <=> S # {}
    BY DEF HasVerification
  <1>5. QED
    BY <1>2, <1>3, <1>4

\* The gate computed from the joined row is the gate computed under lock.
LEMMA GatesAgree ==
  ASSUME WorkbenchAssumption, TypeOK, NEW c \in Claims
  PROVE  /\ RowGate(ReviewRow(c)) <=> PublishGate(c)
         /\ HasMinimumEvidence(c) <=> /\ ReviewRow(c).primary > 0
                                      /\ ReviewRow(c).secondary > 0
         /\ ReviewRow(c).primary \in Nat /\ ReviewRow(c).secondary \in Nat
         /\ ReviewRow(c).published = claim[c].published
         /\ ReviewRow(c).checkable = claim[c].checkable
         /\ ReviewRow(c).verdict =
              IF evals[c] = <<>> THEN None ELSE Latest(c).verdict
         /\ ReviewRow(c).cited = (evals[c] # <<>> /\ Latest(c).cited)
         /\ ReviewRow(c).by = IF evals[c] = <<>> THEN None ELSE Latest(c).by
  <1>1. /\ ReviewRow(c).primary = Count(c, "primary")
        /\ ReviewRow(c).secondary = Count(c, "secondary")
        /\ ReviewRow(c).published = claim[c].published
        /\ ReviewRow(c).checkable = claim[c].checkable
        /\ ReviewRow(c).verdict =
              IF evals[c] = <<>> THEN None ELSE Latest(c).verdict
        /\ ReviewRow(c).cited = (evals[c] # <<>> /\ Latest(c).cited)
        /\ ReviewRow(c).by = IF evals[c] = <<>> THEN None ELSE Latest(c).by
    BY DEF ReviewRow
  <1>2. \A class : /\ Count(c, class) \in Nat
                   /\ Count(c, class) > 0 <=> HasVerification(c, class)
    BY CountPositive
  <1>3. HasMinimumEvidence(c) <=> /\ ReviewRow(c).primary > 0
                                  /\ ReviewRow(c).secondary > 0
    BY <1>1, <1>2 DEF HasMinimumEvidence
  <1>4. None # "supported"
    BY DEF WorkbenchAssumption, Verdicts
  <1>5. RowGate(ReviewRow(c)) <=> PublishGate(c)
    BY <1>1, <1>3, <1>4 DEF RowGate, PublishGate
  <1>6. QED
    BY <1>1, <1>2, <1>3, <1>5

\* The latest row is an evaluation, and nobody's is None.
LEMMA LatestType ==
  ASSUME ReviewAssumption, TypeOK, EvaluationsSound, NEW c \in Claims,
         evals[c] # <<>>
  PROVE  /\ Latest(c) \in Evaluation
         /\ Latest(c).by # None
         /\ Latest(c).verdict \in Verdicts
         /\ Latest(c).verdict = "supported" => Latest(c).by \in Reviewers
  <1>1. PICK i \in DOMAIN evals[c] : Latest(c) = evals[c][i]
    BY LatestIsARow
  <1>2. Latest(c) \in Evaluation
    BY <1>1 DEF TypeOK
  <1>3. QED
    BY <1>1, <1>2 DEF Evaluation, ReviewAssumption, EvaluationsSound

\* What the workbench says, in the terms of the handlers.
LEMMA StatesMean ==
  ASSUME WorkbenchAssumption, ReviewAssumption, TypeOK, EvaluationsSound,
         NEW c \in Claims, NEW r \in Reviewers
  PROVE  LET row == ReviewRow(c)
             state == WorkbenchState(row, r)
         IN  /\ state = "Ready to Publish"
                  <=> ~claim[c].published /\ Publishable(c, r)
             /\ ~claim[c].published /\ Publishable(c, r)
                  <=> ~claim[c].published /\ ~Blocked(row, r)
             /\ state = "Needs Review"
                  <=> /\ ~claim[c].published /\ evals[c] = <<>>
                      /\ HasMinimumEvidence(c)
             /\ state = "Needs Second Reviewer" =>
                  /\ ~claim[c].published
                  /\ PublishGate(c) => Latest(c).by = r
                  /\ ~PublishGate(c) => Latest(c).verdict = "supported"
  <1> DEFINE row == ReviewRow(c)
             action == SecondReviewerAction(row, r)
  <1>1. /\ RowGate(row) <=> PublishGate(c)
        /\ HasMinimumEvidence(c) <=> row.primary > 0 /\ row.secondary > 0
        /\ row.primary \in Nat /\ row.secondary \in Nat
        /\ row.published = claim[c].published
        /\ row.checkable = claim[c].checkable
        /\ row.verdict = IF evals[c] = <<>> THEN None ELSE Latest(c).verdict
        /\ row.cited = (evals[c] # <<>> /\ Latest(c).cited)
        /\ row.by = IF evals[c] = <<>> THEN None ELSE Latest(c).by
    BY GatesAgree
  <1> HIDE DEF row
  <1>2. /\ None \notin {"supported", "insufficient"}
        /\ None \notin {"publish_handoff", "overwrite_handoff"}
    BY DEF WorkbenchAssumption, Verdicts
  <1>3. evals[c] # <<>> => /\ Latest(c).by # None
                           /\ Latest(c).verdict
                                \in {"supported", "insufficient"}
    BY LatestType DEF Verdicts
  <1>4. PublishGate(c) => evals[c] # <<>> /\ row.verdict = "supported"
    BY <1>1 DEF PublishGate
  <1>5. PublishGate(c) => (Handed(row, r) <=> Latest(c).by # r)
    BY <1>1, <1>3, <1>4 DEF Handed
  <1>6. /\ action = "publish_handoff" <=>
             ~claim[c].published /\ PublishGate(c) /\ Latest(c).by = r
        /\ action = "overwrite_handoff" <=>
             ~PublishGate(c) /\ row.verdict = "supported"
        /\ action \in {None, "publish_handoff", "overwrite_handoff"}
    BY <1>1, <1>2, <1>3, <1>4, <1>5 DEF SecondReviewerAction
  <1> HIDE DEF action
  <1>7. WorkbenchState(row, r) =
          IF claim[c].published THEN "Published"
          ELSE IF action # None THEN "Needs Second Reviewer"
          ELSE IF PublishGate(c) THEN "Ready to Publish"
          ELSE IF row.verdict = "insufficient" THEN "Insufficient Evidence"
          ELSE IF HasMinimumEvidence(c) /\ row.verdict = None
            THEN "Needs Review"
          ELSE "Needs Evidence"
    BY <1>1 DEF WorkbenchState, action
  <1>8. Blocked(row, r) <=> \/ ~PublishGate(c)
                            \/ PublishGate(c) /\ ~claim[c].published
                                 /\ Latest(c).by = r
    <2>1. RowGate(row) <=> /\ row.checkable /\ row.verdict = "supported"
                           /\ row.cited
                           /\ row.primary # 0 /\ row.secondary # 0
      BY <1>1 DEF RowGate
    <2>2. Blocked(row, r) <=>
            \/ ~RowGate(row)
            \/ RowGate(row) /\ ~row.published /\ ~Handed(row, r)
      BY <2>1 DEF Blocked
    <2>3. QED
      BY <1>1, <1>5, <2>2
  <1>9. row.verdict = None <=> evals[c] = <<>>
    BY <1>1, <1>2, <1>3
  <1>10. row.verdict = "supported" =>
           evals[c] # <<>> /\ row.verdict = Latest(c).verdict
    BY <1>1, <1>2
  <1>11. WorkbenchState(row, r) = "Ready to Publish"
           <=> ~claim[c].published /\ Publishable(c, r)
    BY <1>2, <1>6, <1>7, <1>4 DEF Publishable
  <1>12. ~claim[c].published /\ Publishable(c, r)
           <=> ~claim[c].published /\ ~Blocked(row, r)
    BY <1>8 DEF Publishable
  <1>13. WorkbenchState(row, r) = "Needs Review"
           <=> /\ ~claim[c].published /\ evals[c] = <<>>
               /\ HasMinimumEvidence(c)
    BY <1>2, <1>4, <1>6, <1>7, <1>9
  <1>14. WorkbenchState(row, r) = "Needs Second Reviewer" =>
           /\ ~claim[c].published
           /\ PublishGate(c) => Latest(c).by = r
           /\ ~PublishGate(c) => Latest(c).verdict = "supported"
    BY <1>2, <1>6, <1>7, <1>10
  <1>15. QED
    BY <1>11, <1>12, <1>13, <1>14 DEF row

\* The state the workbench gives a claim, its checklist and the handlers agree
\* for every reviewer, in every state requests and scripts can reach.
THEOREM WorkbenchIsRight == Spec => []WorkbenchAgrees
  <1>1. IInv => WorkbenchAgrees
    BY ReviewAssumption, WorkbenchAssumption, StatesMean
       DEF IInv, WorkbenchAgrees
  <1>2. QED
    BY <1>1, Inductive, PTL

\* Where there are two reviewers, what the publish queue lists can be published
\* by one of them, and what everyone is told to hand over cannot be published.
THEOREM SomebodyAlwaysCan ==
  ASSUME \E q, r \in Reviewers : q # r
  PROVE  Spec => []SomebodyCanPublish
  <1>1. ASSUME IInv, NEW c \in Claims, ~claim[c].published, PublishGate(c)
        PROVE  \E r \in Reviewers :
                 WorkbenchState(ReviewRow(c), r) = "Ready to Publish"
    <2>1. PICK r \in Reviewers : Latest(c).by # r
      OBVIOUS
    <2>2. ~claim[c].published /\ Publishable(c, r)
      BY <1>1, <2>1 DEF Publishable
    <2>3. QED
      BY <1>1, <2>2, StatesMean, ReviewAssumption, WorkbenchAssumption DEF IInv
  <1>2. IInv => SomebodyCanPublish
    <2> SUFFICES ASSUME IInv PROVE SomebodyCanPublish
      OBVIOUS
    <2>1. ASSUME NEW row \in PublishQueue
          PROVE  \E r \in Reviewers :
                   WorkbenchState(row, r) = "Ready to Publish"
      <3>1. PICK c \in Claims : row = ReviewRow(c) /\ ~claim[c].published
        BY <2>1 DEF PublishQueue, ReviewQueue
      <3>2. PublishGate(c)
        BY <2>1, <3>1, GatesAgree, WorkbenchAssumption DEF PublishQueue, IInv
      <3>3. QED
        BY <1>1, <3>1, <3>2
    <2>2. ASSUME NEW c \in Claims,
                 \A r \in Reviewers : WorkbenchState(ReviewRow(c), r)
                                        = "Needs Second Reviewer"
          PROVE  ~PublishGate(c) /\ Latest(c).verdict = "supported"
      <3>1. \A r \in Reviewers :
              /\ PublishGate(c) => Latest(c).by = r
              /\ ~PublishGate(c) => Latest(c).verdict = "supported"
        BY <2>2, StatesMean, ReviewAssumption, WorkbenchAssumption DEF IInv
      <3>2. QED
        BY <3>1
    <2>3. QED
      BY <2>1, <2>2 DEF SomebodyCanPublish
  <1>3. QED
    BY <1>2, Inductive, PTL
=============================================================================
