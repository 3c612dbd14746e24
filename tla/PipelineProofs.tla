---------------------------- MODULE PipelineProofs ----------------------------
(***************************************************************************)
(* Proofs about Pipeline: each scene keeps the invariant of its component, *)
(* and so every property of the run holds for any values of the constants. *)
(* Ingestion and EvidenceBundle have their proofs in modules of their own, *)
(* instantiated here as Pipeline instantiates the components; those about  *)
(* the components with one instance are below.                             *)
(***************************************************************************)
EXTENDS Pipeline, Integers, FiniteSetTheorems, WellFoundedInduction, TLAPS

IntakeP == INSTANCE IngestionProofs WITH
  Seeds <- SeedTexts, Api <- {"create", "update", "statement", "extract"}

ScriptsP == INSTANCE IngestionProofs WITH
  Candidates <- RowIds, Roster <- WholeRoster, Statements <- StatementIds,
  Seeds <- SeedTexts, Processes <- {Process}, Api <- {}

BundleP == INSTANCE EvidenceBundleProofs WITH
  Urls <- BundleUrls, Script <- Resync, Overlap <- FALSE

OverlappedP == INSTANCE EvidenceBundleProofs WITH
  Urls <- BundleUrls, Script <- Resync, Overlap <- TRUE

-----------------------------------------------------------------------------
\* Instances of FiniteSets count alike.
LEMMA CountAlike ==
  /\ \A S : Admission!IsFiniteSet(S) <=> IsFiniteSet(S)
  /\ \A S : Admission!Cardinality(S) = Cardinality(S)
  /\ \A S : Links!IsFiniteSet(S) <=> IsFiniteSet(S)
  /\ \A S : Links!Cardinality(S) = Cardinality(S)
  /\ \A S : Pages!IsFiniteSet(S) <=> IsFiniteSet(S)
  /\ \A S : Pages!Cardinality(S) = Cardinality(S)
  /\ \A S : Limiter!IsFiniteSet(S) <=> IsFiniteSet(S)
  /\ \A S : Limiter!Cardinality(S) = Cardinality(S)
  BY DEF IsFiniteSet, Cardinality, Admission!IsFiniteSet, Admission!Cardinality,
     Links!IsFiniteSet, Links!Cardinality, Pages!IsFiniteSet, Pages!Cardinality,
     Limiter!IsFiniteSet, Limiter!Cardinality

\* Both instances of a component say the same, definition by definition.
LEMMA IntakeSame ==
  /\ Intake!IngestionAssumption <=> IntakeP!IngestionAssumption
  /\ Intake!Init <=> IntakeP!Init
  /\ Intake!Next <=> IntakeP!Next
  /\ Intake!TypeOK <=> IntakeP!TypeOK
  <1>1. Intake!IngestionAssumption <=> IntakeP!IngestionAssumption
    BY DEF Intake!IngestionAssumption, IntakeP!IngestionAssumption,
       Intake!CandidateRow, Intake!Races, IntakeP!CandidateRow, IntakeP!Races, Intake!StatementRow,
       IntakeP!StatementRow, Intake!IsFiniteSet, IntakeP!IsFiniteSet
  <1>2. Intake!Init <=> IntakeP!Init
    BY DEF Intake!Init, IntakeP!Init, Intake!Idle, IntakeP!Idle
  <1>3. Intake!Next <=> IntakeP!Next
    BY DEF Intake!Next, IntakeP!Next, Intake!Races, IntakeP!Races, Intake!RosterRead, IntakeP!RosterRead,
       Intake!RosterCommit, IntakeP!RosterCommit, Intake!StatementsRead,
       IntakeP!StatementsRead, Intake!StatementsCommit,
       IntakeP!StatementsCommit, Intake!ListUnextracted,
       IntakeP!ListUnextracted, Intake!ExtractNext, IntakeP!ExtractNext,
       Intake!Die, IntakeP!Die, Intake!UpdateRead, IntakeP!UpdateRead,
       Intake!UpdateCommit, Intake!Changed, IntakeP!UpdateCommit, IntakeP!Changed, Intake!Backfill,
       IntakeP!Backfill, Intake!CreateCandidate, IntakeP!CreateCandidate,
       Intake!CreateStatement, IntakeP!CreateStatement, Intake!ExtractDirectly,
       IntakeP!ExtractDirectly, Intake!Existing, IntakeP!Existing,
       Intake!Unused, IntakeP!Unused, Intake!Idle, IntakeP!Idle, Intake!Said,
       IntakeP!Said, Intake!Extracted, IntakeP!Extracted, Intake!Extract,
       IntakeP!Extract, Intake!FactCheckable, IntakeP!FactCheckable,
       Intake!Cardinality, IntakeP!Cardinality
  <1>4. Intake!TypeOK <=> IntakeP!TypeOK
    BY DEF Intake!TypeOK, IntakeP!TypeOK, Intake!CandidateRow, Intake!Races,
       IntakeP!CandidateRow, IntakeP!Races, Intake!StatementRow, IntakeP!StatementRow,
       Intake!FactCheckable, IntakeP!FactCheckable
  <1>5. QED
    BY <1>1, <1>2, <1>3, <1>4

\* Likewise for the scripts, one after another.
LEMMA ScriptsSame ==
  /\ Scripts!IngestionAssumption <=> ScriptsP!IngestionAssumption
  /\ Scripts!Init <=> ScriptsP!Init
  /\ Scripts!Next <=> ScriptsP!Next
  /\ Scripts!TypeOK <=> ScriptsP!TypeOK
  /\ Scripts!ScriptsAreIdempotent <=> ScriptsP!ScriptsAreIdempotent
  <1>1. Scripts!IngestionAssumption <=> ScriptsP!IngestionAssumption
    BY DEF Scripts!IngestionAssumption, ScriptsP!IngestionAssumption,
       Scripts!CandidateRow, Scripts!Races, ScriptsP!CandidateRow, ScriptsP!Races, Scripts!StatementRow,
       ScriptsP!StatementRow, Scripts!IsFiniteSet, ScriptsP!IsFiniteSet
  <1>2. Scripts!Init <=> ScriptsP!Init
    BY DEF Scripts!Init, ScriptsP!Init, Scripts!Idle, ScriptsP!Idle
  <1>3. Scripts!Next <=> ScriptsP!Next
    BY DEF Scripts!Next, ScriptsP!Next, Scripts!Races, ScriptsP!Races, Scripts!RosterRead, ScriptsP!RosterRead,
       Scripts!RosterCommit, ScriptsP!RosterCommit, Scripts!StatementsRead,
       ScriptsP!StatementsRead, Scripts!StatementsCommit,
       ScriptsP!StatementsCommit, Scripts!ListUnextracted,
       ScriptsP!ListUnextracted, Scripts!ExtractNext, ScriptsP!ExtractNext,
       Scripts!Die, ScriptsP!Die, Scripts!UpdateRead, ScriptsP!UpdateRead,
       Scripts!UpdateCommit, Scripts!Changed, ScriptsP!UpdateCommit, ScriptsP!Changed, Scripts!Backfill,
       ScriptsP!Backfill, Scripts!CreateCandidate, ScriptsP!CreateCandidate,
       Scripts!CreateStatement, ScriptsP!CreateStatement,
       Scripts!ExtractDirectly, ScriptsP!ExtractDirectly, Scripts!Existing,
       ScriptsP!Existing, Scripts!Unused, ScriptsP!Unused, Scripts!Idle,
       ScriptsP!Idle, Scripts!Said, ScriptsP!Said, Scripts!Extracted,
       ScriptsP!Extracted, Scripts!Extract, ScriptsP!Extract,
       Scripts!FactCheckable, ScriptsP!FactCheckable, Scripts!Cardinality,
       ScriptsP!Cardinality
  <1>4. Scripts!TypeOK <=> ScriptsP!TypeOK
    BY DEF Scripts!TypeOK, ScriptsP!TypeOK, Scripts!CandidateRow, Scripts!Races,
       ScriptsP!CandidateRow, ScriptsP!Races, Scripts!StatementRow, ScriptsP!StatementRow,
       Scripts!FactCheckable, ScriptsP!FactCheckable
  <1>5. Scripts!ScriptsAreIdempotent <=> ScriptsP!ScriptsAreIdempotent
    BY DEF Scripts!ScriptsAreIdempotent, ScriptsP!ScriptsAreIdempotent
  <1>6. QED
    BY <1>1, <1>2, <1>3, <1>4, <1>5

\* Likewise for bundles, one session after another.
LEMMA BundleSame ==
  /\ Bundle!BundleAssumption <=> BundleP!BundleAssumption
  /\ Bundle!Init <=> BundleP!Init
  /\ Bundle!Next <=> BundleP!Next
  /\ Bundle!TypeOK <=> BundleP!TypeOK
  /\ Bundle!BundleIsCurrent <=> BundleP!BundleIsCurrent
  <1>1. Bundle!BundleAssumption <=> BundleP!BundleAssumption
    BY DEF Bundle!BundleAssumption, BundleP!BundleAssumption
  <1>2. Bundle!Init <=> BundleP!Init
    BY DEF Bundle!Init, BundleP!Init, Bundle!Origins, BundleP!Origins,
       Bundle!TypeFor, BundleP!TypeFor, Bundle!Sessions, BundleP!Sessions,
       Bundle!Done, BundleP!Done
  <1>3. Bundle!Next <=> BundleP!Next
    BY DEF Bundle!Next, BundleP!Next, Bundle!Origins, BundleP!Origins,
       Bundle!AddSource, BundleP!AddSource, Bundle!DeleteSource,
       BundleP!DeleteSource, Bundle!Backfill, BundleP!Backfill,
       Bundle!Sessions, BundleP!Sessions, Bundle!ReadLinks, BundleP!ReadLinks,
       Bundle!Write, BundleP!Write, Bundle!WriteRefused, BundleP!WriteRefused,
       Bundle!FreshSource, BundleP!FreshSource, Bundle!MayStart,
       BundleP!MayStart, Bundle!Begin, BundleP!Begin, Bundle!Refers,
       BundleP!Refers, Bundle!Waits, BundleP!Waits, Bundle!Accepted,
       BundleP!Accepted, Bundle!Changed, BundleP!Changed, Bundle!Remaining,
       BundleP!Remaining, Bundle!SameRow, BundleP!SameRow, Bundle!Inserted,
       BundleP!Inserted, Bundle!SourcesAfter, BundleP!SourcesAfter,
       Bundle!Done, BundleP!Done, Bundle!Least, BundleP!Least, Bundle!Ids,
       BundleP!Ids, Bundle!Open, BundleP!Open, Bundle!Locked, BundleP!Locked,
       Bundle!Missing, BundleP!Missing, Bundle!Extra, BundleP!Extra,
       Bundle!SameKey, BundleP!SameKey, Bundle!Statement, BundleP!Statement,
       Bundle!Curated, BundleP!Curated, Bundle!Final, BundleP!Final,
       Bundle!DesiredOf, BundleP!DesiredOf, Bundle!FreshLink,
       BundleP!FreshLink, Bundle!Desired, BundleP!Desired, Bundle!TypeFor,
       BundleP!TypeFor
  <1>4. Bundle!TypeOK <=> BundleP!TypeOK
    BY DEF Bundle!TypeOK, BundleP!TypeOK, Bundle!Source, BundleP!Source,
       Bundle!Link, BundleP!Link, Bundle!Sessions, BundleP!Sessions,
       Bundle!Txn, BundleP!Txn, Bundle!SameKey, BundleP!SameKey, Bundle!Ids,
       BundleP!Ids, Bundle!Origins, BundleP!Origins, Bundle!LinkTypes,
       BundleP!LinkTypes, Bundle!Statement, BundleP!Statement
  <1>5. Bundle!BundleIsCurrent <=> BundleP!BundleIsCurrent
    BY DEF Bundle!BundleIsCurrent, BundleP!BundleIsCurrent, Bundle!Final,
       BundleP!Final, Bundle!Desired, BundleP!Desired, Bundle!Statement,
       BundleP!Statement, Bundle!SameKey, BundleP!SameKey, Bundle!TypeFor,
       BundleP!TypeFor
  <1>6. QED
    BY <1>1, <1>2, <1>3, <1>4, <1>5

\* Likewise for bundles where the backfill overlaps requests.
LEMMA OverlappedSame ==
  /\ Overlapped!BundleAssumption <=> OverlappedP!BundleAssumption
  /\ Overlapped!Init <=> OverlappedP!Init
  /\ Overlapped!Next <=> OverlappedP!Next
  /\ Overlapped!TypeOK <=> OverlappedP!TypeOK
  /\ Overlapped!LinksAreBacked <=> OverlappedP!LinksAreBacked
  <1>1. Overlapped!BundleAssumption <=> OverlappedP!BundleAssumption
    BY DEF Overlapped!BundleAssumption, OverlappedP!BundleAssumption
  <1>2. Overlapped!Init <=> OverlappedP!Init
    BY DEF Overlapped!Init, OverlappedP!Init, Overlapped!Origins,
       OverlappedP!Origins, Overlapped!TypeFor, OverlappedP!TypeFor,
       Overlapped!Sessions, OverlappedP!Sessions, Overlapped!Done,
       OverlappedP!Done
  <1>3. Overlapped!Next <=> OverlappedP!Next
    BY DEF Overlapped!Next, OverlappedP!Next, Overlapped!Origins,
       OverlappedP!Origins, Overlapped!AddSource, OverlappedP!AddSource,
       Overlapped!DeleteSource, OverlappedP!DeleteSource, Overlapped!Backfill,
       OverlappedP!Backfill, Overlapped!Sessions, OverlappedP!Sessions,
       Overlapped!ReadLinks, OverlappedP!ReadLinks, Overlapped!Write,
       OverlappedP!Write, Overlapped!WriteRefused, OverlappedP!WriteRefused,
       Overlapped!FreshSource, OverlappedP!FreshSource, Overlapped!MayStart,
       OverlappedP!MayStart, Overlapped!Begin, OverlappedP!Begin,
       Overlapped!Refers, OverlappedP!Refers, Overlapped!Waits,
       OverlappedP!Waits, Overlapped!Accepted, OverlappedP!Accepted,
       Overlapped!Changed, OverlappedP!Changed, Overlapped!Remaining,
       OverlappedP!Remaining, Overlapped!SameRow, OverlappedP!SameRow,
       Overlapped!Inserted, OverlappedP!Inserted, Overlapped!SourcesAfter,
       OverlappedP!SourcesAfter, Overlapped!Done, OverlappedP!Done,
       Overlapped!Least, OverlappedP!Least, Overlapped!Ids, OverlappedP!Ids,
       Overlapped!Open, OverlappedP!Open, Overlapped!Locked,
       OverlappedP!Locked, Overlapped!Missing, OverlappedP!Missing,
       Overlapped!Extra, OverlappedP!Extra, Overlapped!SameKey,
       OverlappedP!SameKey, Overlapped!Statement, OverlappedP!Statement,
       Overlapped!Curated, OverlappedP!Curated, Overlapped!Final,
       OverlappedP!Final, Overlapped!DesiredOf, OverlappedP!DesiredOf,
       Overlapped!FreshLink, OverlappedP!FreshLink, Overlapped!Desired,
       OverlappedP!Desired, Overlapped!TypeFor, OverlappedP!TypeFor
  <1>4. Overlapped!TypeOK <=> OverlappedP!TypeOK
    BY DEF Overlapped!TypeOK, OverlappedP!TypeOK, Overlapped!Source,
       OverlappedP!Source, Overlapped!Link, OverlappedP!Link,
       Overlapped!Sessions, OverlappedP!Sessions, Overlapped!Txn,
       OverlappedP!Txn, Overlapped!SameKey, OverlappedP!SameKey,
       Overlapped!Ids, OverlappedP!Ids, Overlapped!Origins,
       OverlappedP!Origins, Overlapped!LinkTypes, OverlappedP!LinkTypes,
       Overlapped!Statement, OverlappedP!Statement
  <1>5. Overlapped!LinksAreBacked <=> OverlappedP!LinksAreBacked
    BY DEF Overlapped!LinksAreBacked, OverlappedP!LinksAreBacked,
       Overlapped!StanceLinks, OverlappedP!StanceLinks, Overlapped!Statement,
       OverlappedP!Statement, Overlapped!Refers, OverlappedP!Refers,
       Overlapped!VerificationLinks, OverlappedP!VerificationLinks
  <1>6. QED
    BY <1>1, <1>2, <1>3, <1>4, <1>5

-----------------------------------------------------------------------------
(* Admission of sources. *)

Placed == Claims \X Urls

RowsTyped ==
  /\ rows \subseteq Admission!Row
  /\ \A q, r \in rows : q.claim = r.claim /\ q.url = r.url => q = r

BulksTyped ==
  /\ bulk \in [Bulks -> Admission!Bulk]
  /\ \A b \in Bulks :
       /\ bulk[b].pc = "idle" => bulk[b].results = <<>>
       /\ Len(bulk[b].results) <= Len(bulk[b].items)
       /\ bulk[b].pc = "done" => Len(bulk[b].results) = Len(bulk[b].items)

HandsTyped ==
  /\ batch \in [Placed -> Admission!Hand]
  /\ \A k \in Placed :
       batch[k].by # None => \E r \in rows : <<r.claim, r.url>> = k
  /\ gone \in [Bulks -> Nat]

ScriptTyped ==
  /\ script \in [pc : {"idle", "running"},
                 todo : SUBSET (Claims \X Admission!Classes)]

\* What the backfill has to flag is in what it has read: nothing the policy
\* matches becomes verification evidence under it.
BackfillSound ==
  /\ backfill \in [pc : {"idle", "read"}, seen : SUBSET Admission!Row]
  /\ cleaned \in BOOLEAN
  /\ backfill.pc = "read" =>
       \A r \in rows : r.origin = "verification" /\ Admission!Match(r) /\ ~r.flagged
                        => r \in backfill.seen

RowsOf(b) == {k \in Placed : batch[k].by = b}

RowsCounted ==
  \A b \in Bulks :
    /\ IsFiniteSet(RowsOf(b))
    /\ Cardinality(RowsOf(b)) + gone[b] = Admission!CountAttached(bulk[b].results)

EventOf(b) ==
  [bulk |-> b, attached |-> Admission!CountAttached(bulk[b].results),
   failed |-> Len(bulk[b].results) - Admission!CountAttached(bulk[b].results)]

EventsCounted ==
  \A b \in Bulks :
    {e \in audit : e.bulk = b} =
      IF bulk[b].pc = "done" /\ bulk[b].applying # None THEN {EventOf(b)} ELSE {}

AdmissionInv ==
  /\ RowsTyped /\ BulksTyped /\ HandsTyped /\ ScriptTyped /\ BackfillSound
  /\ Admission!EvidenceIsAdmissible /\ Admission!BulkHasTwoReviewers
  /\ RowsCounted /\ EventsCounted

-----------------------------------------------------------------------------
\* How add_source may end for an item.
LEMMA Judgements ==
  ASSUME Admission!AdmissionAssumption, NEW i \in Admission!Item,
         NEW j \in Admission!Judged(i)
  PROVE  /\ j.outcome \in Admission!Outcome
         /\ \/ j.outcome # "attached" /\ j.row = {}
            \/ /\ j.outcome = "attached" /\ j.row = {Admission!NewRow(i)}
               /\ Admission!PolicyAllows(i) /\ ~Admission!Attached(i)
  BY DEF Admission!Judged, Admission!Outcome, Admission!PolicyError

\* What a stored row leaves: at most the item's place has a new hand.
LEMMA Stored ==
  ASSUME Admission!AdmissionAssumption, RowsTyped, HandsTyped, BackfillSound,
         Admission!EvidenceIsAdmissible, backfill' = backfill,
         NEW i \in Admission!Item, NEW j \in Admission!Judged(i),
         NEW hand \in Admission!Hand,
         Admission!Store(j.row, hand)
  PROVE  /\ RowsTyped' /\ HandsTyped' /\ Admission!EvidenceIsAdmissible'
         /\ BackfillSound' /\ UNCHANGED <<gone, cleaned>>
         /\ \/ j.outcome # "attached" /\ rows' = rows /\ batch' = batch
            \/ /\ j.outcome = "attached" /\ rows' = rows \cup {Admission!NewRow(i)}
               /\ <<i.claim, i.url>> \in Placed
               /\ ~Admission!Attached(i) /\ batch[<<i.claim, i.url>>].by = None
               /\ batch' = [batch EXCEPT ![<<i.claim, i.url>>] = hand]
  <1>0. UNCHANGED <<gone, cleaned>>
    BY DEF Admission!Store
  <1>1. CASE j.outcome # "attached" /\ j.row = {}
    <2>1. rows' = rows
      BY <1>1 DEF Admission!Store
    <2>2. batch' = batch
      BY <1>1 DEF Admission!Store, HandsTyped
    <2>3. QED
      BY <1>0, <1>1, <2>1, <2>2 DEF RowsTyped, HandsTyped, BackfillSound,
         Admission!EvidenceIsAdmissible
  <1>2. CASE /\ j.outcome = "attached" /\ j.row = {Admission!NewRow(i)}
             /\ Admission!PolicyAllows(i) /\ ~Admission!Attached(i)
    <2>1. /\ i.claim \in Claims /\ i.url \in Urls /\ i.class \in Admission!Classes
          /\ i.origin \in Admission!Origins
          /\ i.publisher \in Publishers \cup {None}
      BY DEF Admission!Item
    <2>. DEFINE spot == <<i.claim, i.url>>
    <2>2. spot \in Placed
      BY <2>1 DEF Placed
    <2>3. batch[spot].by = None
      <3>1. SUFFICES ASSUME batch[spot].by # None PROVE FALSE
        OBVIOUS
      <3>2. PICK r \in rows : <<r.claim, r.url>> = spot
        BY <3>1, <2>2 DEF HandsTyped
      <3>3. QED
        BY <1>2, <3>2 DEF Admission!Attached
    <2>4. rows' = rows \cup {Admission!NewRow(i)}
      BY <1>2 DEF Admission!Store
    <2>5. batch' = [batch EXCEPT ![spot] = hand]
      <3>1. ASSUME NEW k
            PROVE  (\E r \in j.row : <<r.claim, r.url>> = k) <=> k = spot
        BY <1>2 DEF Admission!NewRow
      <3>2. batch' = [k \in DOMAIN batch |->
                        IF \E r \in j.row : <<r.claim, r.url>> = k
                        THEN hand ELSE batch[k]]
        BY DEF Admission!Store
      <3>. HIDE DEF spot
      <3>3. batch' = [k \in DOMAIN batch |-> IF k = spot THEN hand ELSE batch[k]]
        BY <3>1, <3>2
      <3>4. QED
        BY <3>3
    <2>6. Admission!NewRow(i) \in Admission!Row
      BY <2>1 DEF Admission!NewRow, Admission!Row
    <2>7. RowsTyped'
      <3>1. Admission!NewRow(i).claim = i.claim /\ Admission!NewRow(i).url = i.url
        BY DEF Admission!NewRow
      <3>2. \A r \in rows : ~(r.claim = i.claim /\ r.url = i.url)
        BY <1>2 DEF Admission!Attached
      <3>3. QED
        BY <2>4, <2>6, <3>1, <3>2 DEF RowsTyped
    <2>8. HandsTyped'
      <3>1. batch' \in [Placed -> Admission!Hand]
        BY <2>2, <2>5 DEF HandsTyped
      <3>2. ASSUME NEW k \in Placed, batch'[k].by # None
            PROVE  \E r \in rows' : <<r.claim, r.url>> = k
        <4>1. /\ Admission!NewRow(i) \in rows'
              /\ <<Admission!NewRow(i).claim, Admission!NewRow(i).url>> = spot
          BY <2>4 DEF Admission!NewRow
        <4>2. rows \subseteq rows'
          BY <2>4
        <4>. HIDE DEF spot
        <4>3. CASE k # spot
          BY <4>2, <4>3, <3>2, <2>5 DEF HandsTyped
        <4>4. QED
          BY <4>1, <4>3
      <3>3. QED
        BY <1>0, <3>1, <3>2 DEF HandsTyped
    <2>9. LET r == Admission!NewRow(i) IN
          /\ r.origin = "verification" =>
               /\ PageType[r.url] = "content" /\ r.url \notin Social
               /\ ~Admission!Match(r)
          /\ r.origin = "candidate" /\ Admission!Match(r) => r.url \in Social
      BY <1>2, <2>1 DEF Admission!PolicyAllows, Admission!NewRow,
         Admission!Match, Admission!Origins
    <2>10. Admission!EvidenceIsAdmissible'
      BY <1>0, <2>4, <2>9 DEF Admission!EvidenceIsAdmissible
    <2>11. BackfillSound'
      BY <1>0, <2>4, <2>9 DEF BackfillSound
    <2>12. QED
      BY <1>0, <1>2, <2>10, <2>11, <2>2, <2>3, <2>4, <2>5, <2>7, <2>8
  <1>3. QED
    BY <1>1, <1>2, Judgements

\* The count of outcomes grows by the attached ones.
LEMMA Counts ==
  ASSUME NEW s \in Seq(Admission!Outcome), NEW o \in Admission!Outcome
  PROVE  Admission!CountAttached(Append(s, o)) =
           Admission!CountAttached(s) + IF o = "attached" THEN 1 ELSE 0
  <1>. DEFINE Of(q) == {n \in DOMAIN q : q[n] = "attached"}
  <1>1. IsFiniteSet(Of(s)) /\ Cardinality(Of(s)) \in Nat
    <2>1. Of(s) \subseteq 1 .. Len(s) /\ Len(s) \in Nat
      OBVIOUS
    <2>. HIDE DEF Of
    <2>2. IsFiniteSet(1 .. Len(s))
      BY <2>1, FS_Interval
    <2>3. IsFiniteSet(Of(s))
      BY <2>1, <2>2, FS_Subset
    <2>4. QED
      BY <2>3, FS_CardinalityType
  <1>2. /\ DOMAIN Append(s, o) = 1 .. Len(s) + 1 /\ DOMAIN s = 1 .. Len(s)
        /\ \A n \in 1 .. Len(s) : Append(s, o)[n] = s[n]
        /\ Append(s, o)[Len(s) + 1] = o
        /\ Len(s) \in Nat
    OBVIOUS
  <1>3. Len(s) + 1 \notin Of(s)
    BY <1>2
  <1>4. CASE o = "attached"
    <2>1. Of(Append(s, o)) = Of(s) \cup {Len(s) + 1}
      BY <1>2, <1>4
    <2>2. Cardinality(Of(s) \cup {Len(s) + 1}) = Cardinality(Of(s)) + 1
      BY <1>1, <1>3, FS_AddElement
    <2>3. QED
      BY <1>4, <2>1, <2>2, CountAlike DEF Admission!CountAttached
  <1>5. CASE o # "attached"
    <2>1. Of(Append(s, o)) = Of(s)
      BY <1>2, <1>5
    <2>. HIDE DEF Of
    <2>2. Cardinality(Of(Append(s, o))) = Cardinality(Of(s)) + 0
      BY <1>1, <2>1
    <2>3. QED
      BY <1>5, <2>2, CountAlike DEF Admission!CountAttached, Of
  <1>6. QED
    BY <1>4, <1>5

\* Only rows from before, no event, and nothing approved.
LEMMA AdmissionInit ==
  ASSUME Admission!AdmissionAssumption, Admission!Init
  PROVE  AdmissionInv
  <1>1. /\ rows \subseteq Legacy /\ cleaned = FALSE /\ audit = {}
        /\ backfill = [pc |-> "idle", seen |-> {}] /\ gone = [b \in Bulks |-> 0]
        /\ bulk = [b \in Bulks |-> Admission!NoBulk]
        /\ batch = [k \in Placed |-> Admission!ByNobody]
    BY DEF Admission!Init, Placed
  <1>0. RowsTyped /\ BackfillSound
    BY <1>1 DEF RowsTyped, BackfillSound, Admission!AdmissionAssumption
  <1>6. Admission!EvidenceIsAdmissible
    BY <1>1 DEF Admission!EvidenceIsAdmissible, Admission!WasLegacy
  <1>7. Admission!BulkHasTwoReviewers
    <2>1. \A r \in rows : <<r.claim, r.url>> \in Placed
      BY <1>0 DEF RowsTyped, Admission!Row, Placed
    <2>2. QED
      BY <1>1, <2>1 DEF Admission!BulkHasTwoReviewers, Admission!ByNobody
  <1>8. EventsCounted
    BY <1>1 DEF EventsCounted, Admission!NoBulk
  <1>2. BulksTyped
    BY DEF Admission!Init, BulksTyped, Admission!NoBulk, Admission!Bulk
  <1>3. HandsTyped
    BY <1>1 DEF HandsTyped, Admission!ByNobody, Admission!Hand
  <1>4. ScriptTyped
    BY DEF Admission!Init, ScriptTyped
  <1>5. RowsCounted
    <2>. SUFFICES ASSUME NEW b \in Bulks
                  PROVE  /\ IsFiniteSet(RowsOf(b))
                         /\ Cardinality(RowsOf(b)) + gone[b]
                                  = Admission!CountAttached(bulk[b].results)
      BY DEF RowsCounted
    <2>1. RowsOf(b) = {} /\ gone[b] = 0
      BY <1>1 DEF RowsOf, Admission!ByNobody, Admission!AdmissionAssumption
    <2>2. {n \in DOMAIN bulk[b].results : bulk[b].results[n] = "attached"} = {}
      BY DEF Admission!Init, Admission!NoBulk
    <2>3. QED
      BY <2>1, <2>2, FS_EmptySet, CountAlike DEF Admission!CountAttached
  <1>9. QED
    BY <1>0, <1>2, <1>3, <1>4, <1>5, <1>6, <1>7, <1>8 DEF AdmissionInv

\* A step of the script and of a request by hand leaves the bulk requests alone.
LEMMA ByHand ==
  ASSUME Admission!AdmissionAssumption, AdmissionInv,
         UNCHANGED <<bulk, audit, backfill>>,
         NEW i \in Admission!Item, NEW j \in Admission!Judged(i),
         Admission!Store(j.row, Admission!ByNobody)
  PROVE  /\ RowsTyped' /\ HandsTyped' /\ Admission!EvidenceIsAdmissible'
         /\ BulksTyped' /\ Admission!BulkHasTwoReviewers' /\ RowsCounted'
         /\ EventsCounted' /\ BackfillSound'
  <1>. USE DEF AdmissionInv
  <1>1. Admission!ByNobody \in Admission!Hand /\ Admission!ByNobody.by = None
    BY DEF Admission!ByNobody, Admission!Hand
  <1>. DEFINE spot == <<i.claim, i.url>>
  <1>2. /\ RowsTyped' /\ HandsTyped' /\ Admission!EvidenceIsAdmissible'
        /\ BackfillSound' /\ UNCHANGED <<gone, cleaned>>
        /\ \/ rows' = rows /\ batch' = batch
           \/ /\ rows' = rows \cup {Admission!NewRow(i)} /\ spot \in Placed
              /\ batch[spot].by = None
              /\ batch' = [batch EXCEPT ![spot] = Admission!ByNobody]
    BY <1>1, Stored
  <1>3. \A k \in Placed : batch'[k].by = batch[k].by
    <2>. HIDE DEF spot
    <2>1. QED
      BY <1>1, <1>2 DEF HandsTyped
  <1>4. BulksTyped' /\ EventsCounted'
    BY DEF BulksTyped, EventsCounted, EventOf
  <1>5. RowsCounted'
    <2>1. \A b \in Bulks : RowsOf(b)' = RowsOf(b)
      BY <1>3 DEF RowsOf
    <2>2. QED
      BY <1>2, <2>1 DEF RowsCounted
  <1>6. Admission!BulkHasTwoReviewers'
    <2>. SUFFICES ASSUME NEW r \in rows', r.origin = "verification",
                         batch'[<<r.claim, r.url>>].by # None
                  PROVE  LET h == batch'[<<r.claim, r.url>>] IN
                         /\ h.approval # None /\ h.applying # None
                         /\ h.approval # h.applying
      BY DEF Admission!BulkHasTwoReviewers
    <2>1. <<r.claim, r.url>> \in Placed
      BY <1>2 DEF RowsTyped, Admission!Row, Placed
    <2>2. /\ <<r.claim, r.url>> # spot \/ batch' = batch
          /\ batch'[<<r.claim, r.url>>] = batch[<<r.claim, r.url>>]
      <3>. DEFINE k == <<r.claim, r.url>>
      <3>0. k \in Placed /\ batch'[k].by # None
        BY <2>1
      <3>. HIDE DEF spot, k
      <3>1. k # spot \/ batch' = batch
        BY <1>1, <1>2, <3>0 DEF HandsTyped
      <3>2. batch'[k] = batch[k]
        BY <1>2, <3>0, <3>1 DEF HandsTyped
      <3>3. QED
        BY <3>1, <3>2 DEF k
    <2>3. r \in rows
      <3>1. CASE rows' = rows
        BY <3>1
      <3>2. CASE rows' = rows \cup {Admission!NewRow(i)} /\ batch' # batch
        BY <3>2, <2>2 DEF Admission!NewRow
      <3>3. CASE batch' = batch
        <4>1. PICK q \in rows : <<q.claim, q.url>> = <<r.claim, r.url>>
          BY <2>1, <2>2 DEF HandsTyped
        <4>2. q \in rows'
          BY <1>2
        <4>3. QED
          BY <1>2, <4>1, <4>2 DEF RowsTyped
      <3>4. QED
        BY <1>2, <3>1, <3>2, <3>3
    <2>4. QED
      BY <2>2, <2>3 DEF Admission!BulkHasTwoReviewers
  <1>7. QED
    BY <1>2, <1>4, <1>5, <1>6

\* One item of a bulk request.
LEMMA ItemStep ==
  ASSUME Admission!AdmissionAssumption, AdmissionInv, NEW b \in Bulks,
         Admission!BulkItem(b)
  PROVE  AdmissionInv'
  <1>. USE DEF AdmissionInv
  <1>. DEFINE hand == [by |-> b, approval |-> bulk[b].approval,
                       applying |-> bulk[b].applying]
              i == Admission!Current(b)
              spot == <<i.claim, i.url>>
              s == bulk[b].results
  <1>1. /\ bulk[b].pc = "running" /\ Len(s) < Len(bulk[b].items)
        /\ bulk[b] \in Admission!Bulk /\ s \in Seq(Admission!Outcome)
        /\ bulk[b].items \in Seq(Admission!Item)
        /\ bulk[b].applying \in Reviewers \cup {None}
        /\ bulk[b].approval \in Reviewers \cup {None}
        /\ UNCHANGED <<audit, script, backfill>>
    BY DEF Admission!BulkItem, BulksTyped, Admission!Bulk
  <1>2. i \in Admission!Item
    BY <1>1 DEF Admission!Current, Admission!Next1
  <1>3. hand \in Admission!Hand /\ hand.by = b /\ b # None
    BY <1>1 DEF Admission!Hand, Admission!AdmissionAssumption
  <1>4. PICK o \in Admission!Outcome :
          /\ Admission!Report(b, o)
          /\ RowsTyped' /\ HandsTyped' /\ Admission!EvidenceIsAdmissible'
          /\ BackfillSound' /\ UNCHANGED <<gone, cleaned>>
          /\ \/ o # "attached" /\ rows' = rows /\ batch' = batch
             \/ /\ o = "attached" /\ rows' = rows \cup {Admission!NewRow(i)}
                /\ spot \in Placed /\ ~Admission!Attached(i) /\ batch[spot].by = None
                /\ batch' = [batch EXCEPT ![spot] = hand]
                /\ i.origin = "verification" => Admission!DualControl(b)
    <2>1. CASE i.origin = "verification" /\ ~Admission!DualControl(b)
      <3>1. /\ Admission!Report(b, "error") /\ rows' = rows /\ batch' = batch
            /\ UNCHANGED <<gone, cleaned>>
        BY <2>1 DEF Admission!BulkItem
      <3>2. /\ RowsTyped' /\ HandsTyped' /\ Admission!EvidenceIsAdmissible'
            /\ BackfillSound'
        BY <1>1, <3>1 DEF RowsTyped, HandsTyped, BackfillSound,
           Admission!EvidenceIsAdmissible
      <3>3. QED
        BY <3>1, <3>2 DEF Admission!Outcome
    <2>2. CASE ~(i.origin = "verification" /\ ~Admission!DualControl(b))
      <3>1. PICK j \in Admission!Judged(i) :
               Admission!Store(j.row, hand) /\ Admission!Report(b, j.outcome)
        BY <2>2 DEF Admission!BulkItem
      <3>2. j.outcome \in Admission!Outcome
        BY <1>2, Judgements
      <3>. HIDE DEF i, hand
      <3>3. /\ RowsTyped' /\ HandsTyped' /\ Admission!EvidenceIsAdmissible'
            /\ BackfillSound' /\ UNCHANGED <<gone, cleaned>>
            /\ \/ j.outcome # "attached" /\ rows' = rows /\ batch' = batch
               \/ /\ j.outcome = "attached"
                  /\ rows' = rows \cup {Admission!NewRow(i)}
                  /\ spot \in Placed
                  /\ ~Admission!Attached(i) /\ batch[spot].by = None
                  /\ batch' = [batch EXCEPT ![spot] = hand]
        BY <1>1, <1>2, <1>3, <3>1, Stored
      <3>4. QED
        BY <2>2, <3>1, <3>2, <3>3
    <2>3. QED
      BY <2>1, <2>2
  <1>5. /\ bulk' = [bulk EXCEPT ![b] = [bulk[b] EXCEPT !.results = Append(s, o)]]
        /\ Append(s, o) \in Seq(Admission!Outcome) /\ Len(Append(s, o)) = Len(s) + 1
    BY <1>1, <1>4 DEF Admission!Report
  <1>6. /\ bulk'[b].results = Append(s, o) /\ bulk'[b].pc = "running"
        /\ bulk'[b].applying = bulk[b].applying /\ bulk'[b].items = bulk[b].items
        /\ bulk'[b] \in Admission!Bulk
        /\ \A c \in Bulks : c # b => bulk'[c] = bulk[c]
        /\ bulk' \in [Bulks -> Admission!Bulk]
    BY <1>1, <1>5 DEF BulksTyped, Admission!Bulk
  <1>7. BulksTyped'
    BY <1>1, <1>5, <1>6 DEF BulksTyped
  <1>8. ScriptTyped' /\ EventsCounted'
    <2>1. UNCHANGED <<audit, script>> /\ bulk[b].pc = "running"
      BY <1>1
    <2>2. ASSUME NEW c \in Bulks
          PROVE  {e \in audit' : e.bulk = c} =
                   (IF bulk[c].pc = "done" /\ bulk[c].applying # None
                      THEN {EventOf(c)} ELSE {})'
      <3>1. {e \in audit : e.bulk = c} =
              IF bulk[c].pc = "done" /\ bulk[c].applying # None
                THEN {EventOf(c)} ELSE {}
        BY DEF AdmissionInv, EventsCounted
      <3>2. CASE c = b
        BY <1>6, <2>1, <3>1, <3>2
      <3>3. CASE c # b
        BY <1>6, <2>1, <3>1, <3>3 DEF EventOf
      <3>4. QED
        BY <3>2, <3>3
    <2>3. QED
      BY <1>1, <2>1, <2>2 DEF ScriptTyped, EventsCounted
  <1>9. RowsCounted'
    <2>. SUFFICES ASSUME NEW c \in Bulks
                  PROVE  /\ IsFiniteSet(RowsOf(c)')
                         /\ Cardinality(RowsOf(c)') + gone[c]
                                  = Admission!CountAttached(bulk'[c].results)
      BY <1>4 DEF RowsCounted
    <2>0. gone[c] \in Nat
      BY DEF HandsTyped
    <2>1. /\ IsFiniteSet(RowsOf(c)) /\ Cardinality(RowsOf(c)) \in Nat
          /\ Cardinality(RowsOf(c)) + gone[c] = Admission!CountAttached(bulk[c].results)
      BY FS_CardinalityType DEF RowsCounted
    <2>2. CASE c = b /\ o = "attached"
      <3>1. RowsOf(b)' = RowsOf(b) \cup {spot} /\ spot \notin RowsOf(b)
        <4>. HIDE DEF spot, hand
        <4>1. QED
          BY <1>3, <1>4, <2>2 DEF RowsOf, HandsTyped
      <3>2. /\ Cardinality(RowsOf(b)') = Cardinality(RowsOf(b)) + 1
            /\ IsFiniteSet(RowsOf(b)')
        BY <2>1, <2>2, <3>1, FS_AddElement
      <3>3. Admission!CountAttached(Append(s, o)) = Admission!CountAttached(s) + 1
        BY <1>1, <2>2, Counts
      <3>4. Admission!CountAttached(bulk'[b].results)
              = Admission!CountAttached(bulk[b].results) + 1
        BY <1>6, <2>2, <3>3
      <3>5. QED
        <4>. HIDE DEF s, i, spot, hand
        <4>1. QED
          BY <2>0, <2>1, <2>2, <3>2, <3>4
    <2>3. CASE c = b /\ o # "attached"
      <3>1. RowsOf(c)' = RowsOf(c)
        BY <1>4, <2>3 DEF RowsOf
      <3>2. Admission!CountAttached(Append(s, o)) = Admission!CountAttached(s) + 0
        BY <1>1, <2>3, Counts
      <3>3. Admission!CountAttached(Append(s, o)) = Cardinality(RowsOf(c)) + gone[c]
        BY <2>0, <2>1, <2>3, <3>2
      <3>4. QED
        BY <1>6, <2>1, <2>3, <3>1, <3>3
    <2>4. CASE c # b
      <3>1. RowsOf(c)' = RowsOf(c)
        <4>. HIDE DEF spot, hand
        <4>1. QED
          BY <1>3, <1>4, <2>4, c # None DEF RowsOf, HandsTyped,
             Admission!AdmissionAssumption
      <3>2. QED
        BY <1>6, <2>1, <2>4, <3>1
    <2>5. QED
      BY <2>2, <2>3, <2>4
  <1>10. Admission!BulkHasTwoReviewers'
    <2>1. CASE rows' = rows /\ batch' = batch
      BY <2>1 DEF Admission!BulkHasTwoReviewers
    <2>2. CASE rows' # rows \/ batch' # batch
      <3>. SUFFICES ASSUME NEW r \in rows', r.origin = "verification",
                           batch'[<<r.claim, r.url>>].by # None
                    PROVE  LET h == batch'[<<r.claim, r.url>>] IN
                           /\ h.approval # None /\ h.applying # None
                           /\ h.approval # h.applying
        BY DEF Admission!BulkHasTwoReviewers
      <3>1. CASE r = Admission!NewRow(i)
        <4>1. batch'[<<r.claim, r.url>>] = hand /\ i.origin = "verification"
          BY <1>4, <2>2, <3>1 DEF Admission!NewRow, HandsTyped
        <4>2. Admission!DualControl(b)
          BY <1>4, <2>2, <4>1
        <4>3. QED
          BY <4>1, <4>2 DEF Admission!DualControl
      <3>2. CASE r \in rows
        <4>1. <<r.claim, r.url>> # spot
          BY <1>4, <2>2, <3>2 DEF Admission!Attached
        <4>2. batch'[<<r.claim, r.url>>] = batch[<<r.claim, r.url>>]
          <5>1. <<r.claim, r.url>> \in Placed
            BY <3>2 DEF RowsTyped, Admission!Row, Placed
          <5>. HIDE DEF spot, hand
          <5>2. QED
            BY <1>4, <2>2, <4>1, <5>1 DEF HandsTyped
        <4>3. QED
          BY <3>2, <4>2 DEF Admission!BulkHasTwoReviewers
      <3>3. QED
        BY <1>4, <2>2, <3>1, <3>2
    <2>3. QED
      BY <2>1, <2>2
  <1>11. QED
    BY <1>4, <1>7, <1>8, <1>9, <1>10

\* A row that is deleted is counted as one that is gone of the request it came by.
LEMMA DeleteStep ==
  ASSUME Admission!AdmissionAssumption, AdmissionInv, NEW r \in rows,
         Admission!DeleteSource(r)
  PROVE  AdmissionInv'
  <1>. USE DEF AdmissionInv
  <1>1. PICK k : k = <<r.claim, r.url>>
    OBVIOUS
  <1>2. PICK b : b = batch[k].by
    OBVIOUS
  <1>3. /\ rows' = rows \ {r} /\ batch' = [batch EXCEPT ![k] = Admission!ByNobody]
        /\ gone' = IF b = None THEN gone ELSE [gone EXCEPT ![b] = gone[b] + 1]
        /\ UNCHANGED <<bulk, audit, script, backfill, cleaned>>
    BY <1>1, <1>2 DEF Admission!DeleteSource
  <1>4. k \in Placed /\ b \in Bulks \cup {None} /\ None \notin Bulks
    BY <1>1, <1>2 DEF RowsTyped, HandsTyped, Admission!Row, Placed,
       Admission!Hand, Admission!AdmissionAssumption
  <1>5. Admission!ByNobody \in Admission!Hand /\ Admission!ByNobody.by = None
    BY DEF Admission!ByNobody, Admission!Hand
  <1>6. \A q \in rows' : q \in rows /\ <<q.claim, q.url>> # k
    BY <1>1, <1>3 DEF RowsTyped
  <1>7. /\ RowsTyped' /\ BulksTyped' /\ ScriptTyped' /\ BackfillSound'
        /\ Admission!EvidenceIsAdmissible' /\ EventsCounted'
    BY <1>3 DEF RowsTyped, BulksTyped, ScriptTyped, BackfillSound,
       Admission!EvidenceIsAdmissible, EventsCounted, EventOf
  <1>8. HandsTyped'
    <2>1. batch' \in [Placed -> Admission!Hand] /\ gone' \in [Bulks -> Nat]
      BY <1>3, <1>4, <1>5 DEF HandsTyped
    <2>2. ASSUME NEW j \in Placed, batch'[j].by # None
          PROVE  \E q \in rows' : <<q.claim, q.url>> = j
      <3>1. j # k /\ batch[j].by # None
        BY <1>3, <1>5, <2>2 DEF HandsTyped
      <3>2. PICK q \in rows : <<q.claim, q.url>> = j
        BY <3>1 DEF HandsTyped
      <3>3. q # r
        BY <1>1, <3>1, <3>2
      <3>4. QED
        BY <1>3, <3>2, <3>3
    <2>3. QED
      BY <2>1, <2>2 DEF HandsTyped
  <1>9. Admission!BulkHasTwoReviewers'
    <2>1. \A q \in rows' : batch'[<<q.claim, q.url>>] = batch[<<q.claim, q.url>>]
      <3>1. \A q \in rows' : <<q.claim, q.url>> \in Placed
        BY <1>6 DEF RowsTyped, Admission!Row, Placed
      <3>2. QED
        BY <1>3, <1>6, <3>1 DEF HandsTyped
    <2>2. QED
      BY <1>6, <2>1 DEF Admission!BulkHasTwoReviewers
  <1>10. RowsCounted'
    <2>. SUFFICES ASSUME NEW c \in Bulks
                  PROVE  /\ IsFiniteSet(RowsOf(c)')
                         /\ Cardinality(RowsOf(c)') + gone'[c]
                                  = Admission!CountAttached(bulk[c].results)
      BY <1>3 DEF RowsCounted
    <2>1. /\ IsFiniteSet(RowsOf(c)) /\ Cardinality(RowsOf(c)) \in Nat
          /\ Cardinality(RowsOf(c)) + gone[c] = Admission!CountAttached(bulk[c].results)
          /\ gone[c] \in Nat
      BY FS_CardinalityType DEF RowsCounted, HandsTyped
    <2>2. RowsOf(c)' = RowsOf(c) \ {k}
      BY <1>3, <1>4, <1>5 DEF RowsOf, HandsTyped
    <2>3. CASE c = b
      <3>1. k \in RowsOf(c)
        BY <1>2, <1>4, <2>3 DEF RowsOf
      <3>2. /\ IsFiniteSet(RowsOf(c)')
            /\ Cardinality(RowsOf(c)') = Cardinality(RowsOf(c)) - 1
        BY <2>1, <2>2, <3>1, FS_RemoveElement
      <3>3. gone'[c] = gone[c] + 1
        BY <1>3, <1>4, <2>3 DEF HandsTyped
      <3>4. QED
        BY <2>1, <3>2, <3>3
    <2>4. CASE c # b
      <3>1. k \notin RowsOf(c)
        BY <1>2, <2>4 DEF RowsOf
      <3>2. RowsOf(c)' = RowsOf(c)
        BY <2>2, <3>1
      <3>3. gone'[c] = gone[c]
        BY <1>3, <1>4, <2>4 DEF HandsTyped
      <3>4. QED
        BY <2>1, <3>2, <3>3
    <2>5. QED
      BY <2>3, <2>4
  <1>11. QED
    BY <1>7, <1>8, <1>9, <1>10

\* A backfill that gets through has flagged all that was there to flag.
LEMMA CommitStep ==
  ASSUME Admission!AdmissionAssumption, AdmissionInv, Admission!BackfillCommit
  PROVE  AdmissionInv'
  <1>. USE DEF AdmissionInv
  <1>. DEFINE F(r) == IF r \in backfill.seen THEN [r EXCEPT !.flagged = TRUE] ELSE r
  <1>1. /\ backfill.pc = "read" /\ UNCHANGED <<bulk, audit, script, batch, gone>>
        /\ backfill' = [pc |-> "idle", seen |-> {}]
        /\ \/ rows' = {F(r) : r \in rows} /\ cleaned' = TRUE
           \/ UNCHANGED <<rows, cleaned>>
    BY DEF Admission!BackfillCommit
  <1>2. ASSUME NEW r \in rows
        PROVE  /\ F(r) \in Admission!Row /\ F(r).claim = r.claim /\ F(r).url = r.url
               /\ F(r).origin = r.origin /\ F(r).publisher = r.publisher
               /\ r.flagged => F(r).flagged
               /\ r \in backfill.seen => F(r).flagged
               /\ Admission!WasLegacy(r) => Admission!WasLegacy(F(r))
    <2>1. r \in Admission!Row
      BY DEF RowsTyped
    <2>2. ASSUME NEW q \in Legacy, r \in {q, [q EXCEPT !.flagged = TRUE]}
          PROVE  F(r) \in {q, [q EXCEPT !.flagged = TRUE]}
      <3>1. q \in Admission!Row
        BY DEF Admission!AdmissionAssumption
      <3>2. QED
        BY <2>2, <3>1 DEF Admission!Row
    <2>3. Admission!WasLegacy(r) => Admission!WasLegacy(F(r))
      BY <2>2 DEF Admission!WasLegacy
    <2>4. QED
      BY <2>1, <2>3 DEF Admission!Row
  <1>3. /\ BulksTyped' /\ ScriptTyped' /\ EventsCounted' /\ RowsCounted'
    BY <1>1 DEF BulksTyped, ScriptTyped, EventsCounted, EventOf, RowsCounted, RowsOf
  <1>4. BackfillSound'
    BY <1>1 DEF BackfillSound
  <1>5. CASE UNCHANGED <<rows, cleaned>>
    BY <1>1, <1>3, <1>4, <1>5 DEF RowsTyped, HandsTyped,
       Admission!EvidenceIsAdmissible, Admission!BulkHasTwoReviewers
  <1>6. CASE rows' = {F(r) : r \in rows} /\ cleaned' = TRUE
    <2>. HIDE DEF F
    <2>1. RowsTyped'
      BY <1>2, <1>6 DEF RowsTyped
    <2>2. HandsTyped'
      BY <1>1, <1>2, <1>6 DEF HandsTyped
    <2>3. Admission!EvidenceIsAdmissible'
      <3>. SUFFICES ASSUME NEW r \in rows
                    PROVE
             /\ \/ Admission!WasLegacy(F(r))
                \/ /\ F(r).origin = "verification" =>
                         /\ PageType[F(r).url] = "content"
                         /\ F(r).url \notin Social /\ ~Admission!Match(F(r))
                   /\ F(r).origin = "candidate" /\ Admission!Match(F(r))
                         => F(r).url \in Social
             /\ F(r).origin = "verification" /\ Admission!Match(F(r)) => F(r).flagged
        BY <1>6 DEF Admission!EvidenceIsAdmissible
      <3>1. Admission!Match(F(r)) <=> Admission!Match(r)
        BY <1>2 DEF Admission!Match
      <3>2. r.origin = "verification" /\ Admission!Match(r) /\ ~r.flagged
              => r \in backfill.seen
        BY <1>1 DEF BackfillSound
      <3>3. QED
        BY <1>2, <3>1, <3>2 DEF Admission!EvidenceIsAdmissible
    <2>4. Admission!BulkHasTwoReviewers'
      BY <1>1, <1>2, <1>6 DEF Admission!BulkHasTwoReviewers
    <2>5. QED
      BY <1>3, <1>4, <2>1, <2>2, <2>3, <2>4
  <1>7. QED
    BY <1>1, <1>5, <1>6

\* Every row that is stored is admissible, and is counted by who stores it.
LEMMA AdmissionNext ==
  ASSUME Admission!AdmissionAssumption, AdmissionInv,
         [Admission!Next]_(Admission!vars)
  PROVE  AdmissionInv'
  <1>. USE DEF AdmissionInv
  <1>1. ASSUME NEW i \in Inputs, Admission!AddSource(i) PROVE AdmissionInv'
    <2>1. i \in Admission!Item /\ UNCHANGED <<bulk, audit, script, backfill>>
      BY <1>1 DEF Admission!AdmissionAssumption, Admission!AddSource
    <2>2. PICK j \in Admission!Judged(i) :
             Admission!Store(j.row, Admission!ByNobody)
      BY <1>1 DEF Admission!AddSource
    <2>3. /\ RowsTyped' /\ HandsTyped' /\ Admission!EvidenceIsAdmissible'
          /\ BulksTyped' /\ Admission!BulkHasTwoReviewers' /\ RowsCounted'
          /\ EventsCounted' /\ BackfillSound'
      BY <2>1, <2>2, ByHand
    <2>4. ScriptTyped'
      BY <2>1 DEF ScriptTyped
    <2>5. QED
      BY <2>3, <2>4
  <1>2. ASSUME NEW r \in rows, Admission!DeleteSource(r) PROVE AdmissionInv'
    BY <1>2, DeleteStep
  <1>3. ASSUME NEW b \in Bulks,
               UNCHANGED <<rows, script, backfill, batch, gone, cleaned>>,
               BulksTyped', EventsCounted',
               \A c \in Bulks : bulk'[c].results = bulk[c].results
        PROVE  AdmissionInv'
    <2>1. /\ RowsTyped' /\ HandsTyped' /\ ScriptTyped' /\ BackfillSound'
          /\ Admission!EvidenceIsAdmissible'
      BY <1>3 DEF RowsTyped, HandsTyped, ScriptTyped, BackfillSound,
         Admission!EvidenceIsAdmissible
    <2>2. Admission!BulkHasTwoReviewers'
      BY <1>3 DEF Admission!BulkHasTwoReviewers
    <2>3. RowsCounted'
      BY <1>3 DEF RowsCounted, RowsOf
    <2>4. QED
      BY <1>3, <2>1, <2>2, <2>3
  <1>4. ASSUME NEW b \in Bulks, NEW items \in Batches,
               NEW a \in Reviewers \cup {None}, NEW p \in Reviewers \cup {None},
               Admission!BulkStart(b, items, a, p)
        PROVE  AdmissionInv'
    <2>. DEFINE new == [pc |-> "running", approval |-> a, applying |-> p,
                        items |-> items, results |-> <<>>]
    <2>1. /\ bulk[b].pc = "idle" /\ bulk' = [bulk EXCEPT ![b] = new]
          /\ UNCHANGED <<rows, audit, script, backfill, batch, gone, cleaned>>
      BY <1>4 DEF Admission!BulkStart
    <2>2. new \in Admission!Bulk /\ Len(new.results) = 0 /\ Len(new.items) \in Nat
      BY DEF Admission!Bulk, Admission!AdmissionAssumption
    <2>3. /\ bulk' \in [Bulks -> Admission!Bulk] /\ bulk'[b] = new
          /\ \A c \in Bulks : c # b => bulk'[c] = bulk[c]
      BY <2>1, <2>2 DEF BulksTyped
    <2>4. BulksTyped'
      BY <2>2, <2>3 DEF BulksTyped
    <2>5. \A c \in Bulks : bulk'[c].results = bulk[c].results
      BY <2>1, <2>3 DEF BulksTyped
    <2>6. EventsCounted'
      BY <2>1, <2>2, <2>3 DEF EventsCounted, EventOf
    <2>7. QED
      BY <1>3, <2>1, <2>4, <2>5, <2>6
  <1>5. ASSUME NEW b \in Bulks, NEW pc \in {"done", "dead"},
               bulk[b].pc = "running", bulk' = [bulk EXCEPT ![b].pc = pc],
               pc = "done" => Len(bulk[b].results) = Len(bulk[b].items)
        PROVE  /\ BulksTyped' /\ bulk'[b].pc = pc
               /\ bulk'[b].applying = bulk[b].applying
               /\ \A c \in Bulks : bulk'[c].results = bulk[c].results
               /\ \A c \in Bulks : c # b => bulk'[c] = bulk[c]
    <2>1. /\ bulk' \in [Bulks -> Admission!Bulk]
          /\ bulk'[b].pc = pc /\ bulk'[b].results = bulk[b].results
          /\ bulk'[b].items = bulk[b].items
          /\ bulk'[b].applying = bulk[b].applying
          /\ \A c \in Bulks : c # b => bulk'[c] = bulk[c]
      BY <1>5 DEF BulksTyped, Admission!Bulk
    <2>2. BulksTyped'
      BY <1>5, <2>1 DEF BulksTyped
    <2>3. \A c \in Bulks : bulk'[c].results = bulk[c].results
      BY <2>1
    <2>4. QED
      BY <2>1, <2>2, <2>3
  <1>6. ASSUME NEW b \in Bulks, Admission!BulkEnd(b) PROVE AdmissionInv'
    <2>1. /\ bulk[b].pc = "running" /\ bulk' = [bulk EXCEPT ![b].pc = "done"]
          /\ Len(bulk[b].results) = Len(bulk[b].items)
          /\ UNCHANGED <<rows, script, backfill, batch, gone, cleaned>>
      BY <1>6 DEF Admission!BulkEnd
    <2>2. /\ BulksTyped' /\ bulk'[b].pc = "done"
          /\ bulk'[b].applying = bulk[b].applying
          /\ \A c \in Bulks : bulk'[c].results = bulk[c].results
          /\ \A c \in Bulks : c # b => bulk'[c] = bulk[c]
      BY <1>5, <2>1
    <2>3. audit' = IF bulk[b].applying = None THEN audit ELSE audit \cup {EventOf(b)}
      BY <1>6 DEF Admission!BulkEnd, EventOf
    <2>4. \A c \in Bulks : EventOf(c)' = EventOf(c) /\ EventOf(c).bulk = c
      BY <2>2 DEF EventOf
    <2>5. {e \in audit : e.bulk = b} = {}
      BY <2>1 DEF EventsCounted
    <2>6. EventsCounted'
      <3>. SUFFICES ASSUME NEW c \in Bulks
                    PROVE  {e \in audit' : e.bulk = c} =
                             IF bulk'[c].pc = "done" /\ bulk'[c].applying # None
                             THEN {EventOf(c)} ELSE {}
        BY <2>4 DEF EventsCounted
      <3>1. CASE c = b
        BY <2>2, <2>3, <2>4, <2>5, <3>1
      <3>2. CASE c # b
        <4>1. {e \in audit' : e.bulk = c} = {e \in audit : e.bulk = c}
          BY <2>3, <2>4, <3>2
        <4>2. QED
          BY <2>2, <3>2, <4>1 DEF EventsCounted
      <3>3. QED
        BY <3>1, <3>2
    <2>7. QED
      BY <1>3, <2>1, <2>2, <2>6
  <1>7. ASSUME NEW b \in Bulks, Admission!BulkDies(b) PROVE AdmissionInv'
    <2>1. /\ bulk[b].pc = "running" /\ bulk' = [bulk EXCEPT ![b].pc = "dead"]
          /\ UNCHANGED <<rows, audit, script, backfill, batch, gone, cleaned>>
      BY <1>7 DEF Admission!BulkDies
    <2>2. /\ BulksTyped' /\ bulk'[b].pc = "dead"
          /\ \A c \in Bulks : bulk'[c].results = bulk[c].results
          /\ \A c \in Bulks : c # b => bulk'[c] = bulk[c]
      BY <1>5, <2>1
    <2>3. EventsCounted'
      BY <2>1, <2>2 DEF EventsCounted, EventOf
    <2>4. QED
      BY <1>3, <2>1, <2>2, <2>3
  <1>8. ASSUME UNCHANGED <<rows, bulk, audit, batch, gone, cleaned>>, ScriptTyped',
               BackfillSound'
        PROVE  AdmissionInv'
    BY <1>8 DEF RowsTyped, HandsTyped, BulksTyped,
       Admission!EvidenceIsAdmissible, Admission!BulkHasTwoReviewers,
       RowsCounted, RowsOf, EventsCounted, EventOf
  <1>9. CASE Admission!ScriptStart
    <2>1. UNCHANGED <<rows, bulk, audit, backfill, batch, gone, cleaned>>
      BY <1>9 DEF Admission!ScriptStart
    <2>2. UNION {{<<c, k>> : k \in Admission!Missing(c)} : c \in Claims}
            \subseteq Claims \X Admission!Classes
      BY DEF Admission!Missing
    <2>3. ScriptTyped' /\ BackfillSound'
      BY <1>9, <2>1, <2>2 DEF Admission!ScriptStart, ScriptTyped, BackfillSound
    <2>4. QED
      BY <1>8, <2>1, <2>3
  <1>10. CASE Admission!ScriptEnd
    BY <1>8, <1>10 DEF Admission!ScriptEnd, ScriptTyped, BackfillSound
  <1>11. ASSUME NEW c \in Claims, NEW k \in Admission!Classes,
                Admission!ScriptAttach(c, k)
         PROVE  AdmissionInv'
    <2>. DEFINE i == Admission!Seeded(c, k)
    <2>1. i \in Admission!Item
      BY DEF Admission!Seeded, Admission!Item, Admission!Origins,
         Admission!AdmissionAssumption
    <2>2. PICK j \in Admission!Judged(i) :
            /\ Admission!Store(j.row, Admission!ByNobody)
            /\ script' = IF j.outcome \in {"attached", "duplicate"}
                         THEN [script EXCEPT !.todo = script.todo \ {<<c, k>>}]
                         ELSE [pc |-> "idle", todo |-> {}]
      BY <1>11 DEF Admission!ScriptAttach
    <2>3. UNCHANGED <<bulk, audit, backfill>>
      BY <1>11 DEF Admission!ScriptAttach
    <2>. HIDE DEF i
    <2>4. /\ RowsTyped' /\ HandsTyped' /\ Admission!EvidenceIsAdmissible'
          /\ BulksTyped' /\ Admission!BulkHasTwoReviewers' /\ RowsCounted'
          /\ EventsCounted' /\ BackfillSound'
      BY <2>1, <2>2, <2>3, ByHand
    <2>5. ScriptTyped'
      BY <2>2 DEF ScriptTyped
    <2>6. QED
      BY <2>4, <2>5
  <1>12. CASE Admission!BackfillRead
    <2>1. /\ UNCHANGED <<rows, bulk, audit, script, batch, gone, cleaned>>
          /\ backfill' = [pc |-> "read", seen |->
               {r \in rows : /\ r.origin = "verification" /\ Admission!Match(r)
                             /\ ~r.flagged}]
      BY <1>12 DEF Admission!BackfillRead
    <2>2. BackfillSound' /\ ScriptTyped'
      BY <2>1 DEF BackfillSound, ScriptTyped, RowsTyped
    <2>3. QED
      BY <1>8, <2>1, <2>2
  <1>13. CASE Admission!BackfillCommit
    BY <1>13, CommitStep
  <1>14. CASE UNCHANGED Admission!vars
    BY <1>8, <1>14 DEF Admission!vars, ScriptTyped, BackfillSound
  <1>15. QED
    BY <1>1, <1>2, <1>4, <1>6, <1>7, <1>9, <1>10, <1>11, <1>12, <1>13, <1>14,
       ItemStep DEF Admission!Next

\* The invariant tells the types and the properties.
LEMMA AdmissionSays ==
  ASSUME Admission!AdmissionAssumption, AdmissionInv
  PROVE  /\ Admission!TypeOK /\ Admission!EvidenceIsAdmissible
         /\ Admission!BulkHasTwoReviewers /\ Admission!AuditCountsRows
  <1>. USE DEF AdmissionInv
  <1>1. Admission!TypeOK
    BY DEF Admission!TypeOK, RowsTyped, BulksTyped, Admission!Bulk, HandsTyped,
       ScriptTyped, BackfillSound
  <1>2. Admission!AuditCountsRows
    <2>. SUFFICES ASSUME NEW b \in Bulks, bulk[b].pc = "done"
                  PROVE  LET made == Admission!Cardinality(
                                       {k \in DOMAIN batch : batch[k].by = b}) + gone[b]
                         IN {e \in audit : e.bulk = b} =
                              IF bulk[b].applying = None THEN {}
                              ELSE {[bulk |-> b, attached |-> made,
                                     failed |-> Len(bulk[b].items) - made]}
      BY DEF Admission!AuditCountsRows
    <2>1. Admission!Cardinality({k \in DOMAIN batch : batch[k].by = b}) + gone[b]
            = Admission!CountAttached(bulk[b].results)
      BY CountAlike DEF HandsTyped, RowsCounted, RowsOf
    <2>2. Len(bulk[b].results) = Len(bulk[b].items)
      BY DEF BulksTyped
    <2>3. QED
      BY <2>1, <2>2 DEF EventsCounted, EventOf
  <1>3. QED
    BY <1>1, <1>2

-----------------------------------------------------------------------------
(* Recommendations. *)

\* What the last suggestion rests on.
LastIsSettled ==
  /\ last.role = "attachable" =>
       /\ last.template \in 1 .. Len(Templates)
       /\ Templates[last.template].kind = "register" /\ last.text
            => Links!ContextOK(last.anchors) /\ last.type = "document"
       /\ Templates[last.template].kind = "congress" => Links!OneRecord(last.found)
  /\ last.found \subseteq [bill : about.bills, congress : about.congresses]

SuggestedOnce ==
  /\ \A i \in 1 .. Len(out) : out[i].url \notin attached
  /\ \A i, j \in 1 .. Len(out) : i # j => out[i].url # out[j].url

LinksInv ==
  /\ Links!TypeOK
  /\ out \in Seq([url : STRING \cup Records, template : Nat,
                 role : {"attachable", "discovery"}])
  /\ LastIsSettled /\ SuggestedOnce

\* No template was looked at yet.
LEMMA LinksInit ==
  ASSUME Links!LinksAssumption, Links!Init
  PROVE  LinksInv
  <1>1. Len(Templates) \in Nat /\ Len(Templates) >= 1
    BY DEF Links!LinksAssumption
  <1>2. Links!TypeOK
    BY <1>1 DEF Links!Init, Links!TypeOK, Links!LinksAssumption
  <1>3. LastIsSettled /\ SuggestedOnce
    BY DEF Links!Init, LastIsSettled, SuggestedOnce, Links!NoSuggestion
  <1>4. QED
    BY <1>2, <1>3 DEF LinksInv, Links!Init

\* One template after another, each with at most one suggestion.
LEMMA LinksNext ==
  ASSUME Links!LinksAssumption, LinksInv, [Links!Next]_(Links!vars)
  PROVE  LinksInv'
  <1>. USE DEF LinksInv
  <1>. DEFINE Shown == [url : STRING \cup Records, template : Nat,
                        role : {"attachable", "discovery"}]
  <1>0. /\ Len(Templates) \in Nat /\ pos \in Nat /\ Len(out) \in Nat
        /\ limit \in Nat /\ out \in Seq(Shown)
    BY DEF Links!LinksAssumption, Links!TypeOK
  <1>1. CASE UNCHANGED Links!vars
    BY <1>1 DEF Links!vars, Links!TypeOK, LastIsSettled, SuggestedOnce,
       Links!ContextOK, Links!OneRecord
  <1>2. CASE pos <= Len(Templates) /\ Links!Skip
    BY <1>0, <1>2 DEF Links!Skip, Links!TypeOK, LastIsSettled, SuggestedOnce,
       Links!ContextOK, Links!OneRecord
  <1>3. ASSUME pos <= Len(Templates), Len(out) < limit,
               NEW item \in Links!Items(Templates[pos]),
               NEW found \in Links!Found(Templates[pos]),
               NEW p \in Links!Fetched(Templates[pos]), NEW record \in Records,
               Links!Suggest(Templates[pos], item, found, p, record)
        PROVE  LinksInv'
    <2>. DEFINE t == Templates[pos]
                r == Links!Resolve(t, item, found)
                new == [url |-> Links!Url(t, r, record), template |-> pos,
                    role |-> Links!Role(t, r, p)]
    <2>1. /\ out' = Append(out, new) /\ pos' = pos + 1
          /\ UNCHANGED <<about, attached, limit>>
          /\ ~Links!Taken(new.url)
          /\ last'.template = pos /\ last'.role = Links!Role(t, r, p)
          /\ last'.found = found /\ last'.text = p.text /\ last'.type = p.type
          /\ last'.anchors = p.anchors
      BY <1>3 DEF Links!Suggest
    <2>2. pos \in 1 .. Len(Templates) /\ t.url \in STRING
      <3>1. pos \in 1 .. Len(Templates)
        BY <1>0, <1>3 DEF Links!TypeOK
      <3>2. t \in Links!TemplateRow
        BY <3>1 DEF Links!LinksAssumption
      <3>3. QED
        BY <3>1, <3>2 DEF Links!TemplateRow
    <2>3. Links!Role(t, r, p) \in {"attachable", "discovery"}
      BY DEF Links!Role, Links!RoleIf
    <2>4. new \in Shown
      BY <2>2, <2>3 DEF Links!Url
    <2>. HIDE DEF new, Shown
    <2>5. /\ out' \in Seq(Shown) /\ Len(out') = Len(out) + 1
          /\ \A i \in 1 .. Len(out) : out'[i] = out[i]
          /\ out'[Len(out) + 1] = new
      BY <1>0, <2>1, <2>4
    <2>6. Links!TypeOK'
      <3>1. \A i \in 1 .. Len(out') : out'[i].role \in {"attachable", "discovery"}
        <4>1. \A i \in 1 .. Len(out') : out'[i] \in Shown
          BY <2>5
        <4>2. QED
          BY <4>1 DEF Shown
      <3>2. about' \in Links!ClaimContext /\ limit' \in 1 .. MaxLimit
        BY <2>1 DEF Links!TypeOK
      <3>3. pos' \in 1 .. Len(Templates) + 1
        BY <1>0, <2>1, <2>2
      <3>4. Len(out') <= limit'
        BY <1>0, <1>3, <2>1, <2>5
      <3>5. QED
        BY <3>1, <3>2, <3>3, <3>4 DEF Links!TypeOK
    <2>7. SuggestedOnce'
      <3>1. /\ new.url \notin attached
            /\ \A i \in 1 .. Len(out) : out[i].url # new.url
        BY <2>1 DEF Links!Taken
      <3>2. \A i \in 1 .. Len(out') : i \in 1 .. Len(out) \/ i = Len(out) + 1
        BY <1>0, <2>5
      <3>3. attached' = attached
        BY <2>1
      <3>4. /\ \A i \in 1 .. Len(out) : out[i].url \notin attached
            /\ \A i, j \in 1 .. Len(out) : i # j => out[i].url # out[j].url
        BY DEF SuggestedOnce
      <3>5. \A i \in 1 .. Len(out') : out'[i].url \notin attached'
        BY <2>5, <3>1, <3>2, <3>3, <3>4
      <3>6. ASSUME NEW i \in 1 .. Len(out'), NEW j \in 1 .. Len(out'), i # j
            PROVE  out'[i].url # out'[j].url
        <4>1. CASE i \in 1 .. Len(out) /\ j \in 1 .. Len(out)
          BY <2>5, <3>4, <3>6, <4>1
        <4>2. CASE i = Len(out) + 1 /\ j \in 1 .. Len(out)
          BY <2>5, <3>1, <4>2
        <4>3. CASE i \in 1 .. Len(out) /\ j = Len(out) + 1
          BY <2>5, <3>1, <4>3
        <4>4. QED
          BY <3>2, <3>6, <4>1, <4>2, <4>3
      <3>7. QED
        BY <3>5, <3>6 DEF SuggestedOnce
    <2>8. LastIsSettled'
      <3>1. /\ t.kind = "register" => r \in {"attachable", "discovery"}
            /\ t.kind = "congress" => r = Links!ResolveBill(found)
        BY DEF Links!Resolve, Links!ResolveDocument, Links!RoleIf
      <3>2. ASSUME Links!Role(t, r, p) = "attachable", t.kind = "register", p.text
            PROVE  Links!ContextOK(p.anchors) /\ p.type = "document"
        BY <3>1, <3>2 DEF Links!Role, Links!RoleIf, Links!ResolvedStands
      <3>3. ASSUME Links!Role(t, r, p) = "attachable", t.kind = "congress"
            PROVE  Links!OneRecord(found)
        BY <3>1, <3>3 DEF Links!Role, Links!RoleIf, Links!ResolveBill
      <3>4. ASSUME t.kind # "congress" PROVE found = {}
        BY <3>4 DEF Links!Found
      <3>5. found \subseteq [bill : about.bills, congress : about.congresses]
        BY <3>4 DEF Links!Found
      <3>6. /\ Links!ContextOK(last'.anchors) <=> Links!ContextOK(p.anchors)'
            /\ Links!OneRecord(last'.found) <=> Links!OneRecord(found)
        BY <2>1 DEF Links!ContextOK, Links!OneRecord
      <3>7. QED
        BY <2>1, <2>2, <3>2, <3>3, <3>5, <3>6 DEF LastIsSettled,
           Links!ContextOK, Links!OneRecord
    <2>9. QED
      BY <2>5, <2>6, <2>7, <2>8 DEF Shown
  <1>4. QED
    BY <1>1, <1>2, <1>3 DEF Links!Next, Links!Consider

\* What is attachable was settled when its template was last.
LEMMA LinksSay ==
  ASSUME Links!LinksAssumption, LinksInv
  PROVE  Links!AttachableIsCertain
  <1>. USE DEF LinksInv
  <1>1. ASSUME Links!OneRecord(last.found)
        PROVE  Cardinality(last.found) = 1 /\ Cardinality(about.bills) = 1
    <2>1. IsFiniteSet(about.bills)
      BY FS_Subset, CountAlike DEF Links!TypeOK, Links!ClaimContext, Links!NamedBills,
         Links!LinksAssumption
    <2>2. Cardinality(about.bills) \in Nat
      BY <2>1, FS_CardinalityType
    <2>. DEFINE named == {x.bill : x \in last.found}
    <2>3. Cardinality(last.found) = 1 /\ Cardinality(named) = 1
      BY <1>1, CountAlike DEF Links!OneRecord
    <2>4. ~(Cardinality(about.bills) > 1)
      <3>1. Cardinality(about.bills) > 1 => named = about.bills
        BY <1>1, CountAlike DEF Links!OneRecord
      <3>. HIDE DEF named
      <3>2. QED
        BY <2>2, <2>3, <3>1
    <2>5. about.bills # {}
      BY <1>1, CountAlike DEF Links!OneRecord, LastIsSettled
    <2>6. Cardinality(about.bills) # 0
      BY <2>1, <2>5, FS_EmptySet
    <2>7. QED
      BY <2>2, <2>3, <2>4, <2>6
  <1>2. QED
    BY <1>1, CountAlike DEF Links!AttachableIsCertain, LastIsSettled, SuggestedOnce

-----------------------------------------------------------------------------
(* The public pages. *)

\* A row that a flag may have touched.
Backed(c) == \A class \in Pages!Classes : \E row \in evidence[c] : row.class = class
Flagged(c) == \E row \in evidence[c] : row.flagged

PublishedIsBacked ==
  \A c \in PublicClaims : claim[c].published
      => Backed(c) /\ claim[c].verdict \in Pages!Factual \cup {"insufficient"}

ShownIsPublic ==
  \A item \in page.items :
    claim[item.claim].published \/ item.claim \in withdrawn

GapsAreFlags ==
  /\ page.kind = None => page.items = {} /\ ~page.shown
  /\ page.shown => \A item \in page.items : item.missing # {} =>
       item.claim \in withdrawn \/ Flagged(item.claim)

PagesInv ==
    Pages!TypeOK /\ PublishedIsBacked /\ ShownIsPublic /\ GapsAreFlags

\* Claims as a database may hold them, and no page.
LEMMA PagesInit ==
  ASSUME Pages!PagesAssumption, Pages!Init
  PROVE  PagesInv
  <1>. PICK verdict \in Pages!Factual \cup {"insufficient"} :
         claim = [c \in PublicClaims |->
           [published |-> c \in Settled, checkable |-> TRUE,
            verdict |-> IF c \in Settled THEN verdict ELSE None]]
    BY DEF Pages!Init
  <1>1. Pages!TypeOK
    <2>1. claim \in [PublicClaims -> [published : BOOLEAN, checkable : BOOLEAN,
                      verdict : Pages!Factual \cup {"insufficient", None}]]
      OBVIOUS
    <2>2. \A class \in Pages!Classes :
             Pages!Good(class) \in [class : Pages!Classes, flagged : BOOLEAN]
      BY DEF Pages!Good
    <2>3. evidence
             \in [PublicClaims -> SUBSET [class : Pages!Classes, flagged : BOOLEAN]]
      BY <2>2 DEF Pages!Init
    <2>4. page \in [kind : {"compare", "dashboard", None},
                    items : SUBSET Pages!ItemType, shown : BOOLEAN]
      BY DEF Pages!Init, Pages!NoPage
    <2>5. QED
      BY <2>1, <2>3, <2>4 DEF Pages!TypeOK, Pages!Init
  <1>2. PublishedIsBacked
    <2>1. \A class \in Pages!Classes : Pages!Good(class).class = class
      BY DEF Pages!Good
    <2>2. ASSUME NEW c \in PublicClaims, c \in Settled PROVE Backed(c)
      <3>1. evidence[c] = {Pages!Good(class) : class \in Pages!Classes}
        BY <2>2 DEF Pages!Init
      <3>2. QED
        BY <2>1, <3>1 DEF Backed
    <2>3. \A c \in PublicClaims : claim[c].published
             => c \in Settled /\ claim[c].verdict = verdict
      OBVIOUS
    <2>4. QED
      BY <2>2, <2>3 DEF PublishedIsBacked
  <1>3. ShownIsPublic /\ GapsAreFlags
    BY DEF Pages!Init, Pages!NoPage, ShownIsPublic, GapsAreFlags
  <1>4. QED
    BY <1>1, <1>2, <1>3 DEF PagesInv

\* Steps that leave the page alone: what is published stays so or is counted as
\* withdrawn, and a flag stays on what is published.
LEMMA Meanwhile ==
  ASSUME PagesInv, Pages!TypeOK', PublishedIsBacked', UNCHANGED page,
         withdrawn \subseteq withdrawn' \/ page.kind = None,
         \A c \in PublicClaims : claim[c].published =>
           claim'[c].published \/ c \in withdrawn' \/ page.kind = None,
         \A c \in PublicClaims : claim[c].published /\ Flagged(c) => Flagged(c)'
  PROVE  PagesInv'
  <1>. USE DEF PagesInv
  <1>2. \A item \in page.items : item.claim \in PublicClaims /\ page.kind # None
    BY DEF Pages!TypeOK, Pages!ItemType, GapsAreFlags
  <1>3. ShownIsPublic'
    BY <1>2 DEF ShownIsPublic
  <1>4. GapsAreFlags'
    BY <1>2 DEF GapsAreFlags, ShownIsPublic
  <1>5. QED
    BY <1>3, <1>4

\* The gate of publication looks for one source of each class.
LEMMA BackedByMinimum ==
  ASSUME NEW c, Pages!MinimumEvidence(c) PROVE Backed(c)
  BY DEF Pages!MinimumEvidence, Pages!Has, Backed, Pages!Good

\* Reviewers and pages: what a page read may be gone when it shows it.
LEMMA PagesNext ==
  ASSUME Pages!PagesAssumption, PagesInv, [Pages!Next]_(Pages!vars)
  PROVE  PagesInv'
  <1>. USE DEF PagesInv
  <1>0. /\ claim \in [PublicClaims -> [published : BOOLEAN, checkable : BOOLEAN,
                        verdict : Pages!Factual \cup {"insufficient", None}]]
        /\ evidence \in [PublicClaims -> SUBSET [class : Pages!Classes, flagged : BOOLEAN]]
    BY DEF Pages!TypeOK
  <1>1. ASSUME NEW kind \in {"compare", "dashboard"}, Pages!ReadClaims(kind)
        PROVE  PagesInv'
    <2>0. PICK found \in IF kind = "compare" THEN Pages!Picks
                         ELSE {Pages!DashboardItems} :
            page' = [kind |-> kind, shown |-> FALSE,
                     items |-> {Pages!Item(c, {}) : c \in found}]
      BY <1>1 DEF Pages!ReadClaims
    <2>1. /\ page' = [kind |-> kind, shown |-> FALSE,
                      items |-> {Pages!Item(c, {}) : c \in found}]
          /\ withdrawn' = {} /\ UNCHANGED <<claim, evidence>>
      BY <1>1, <2>0 DEF Pages!ReadClaims
    <2>2. \A c \in found : c \in PublicClaims /\ claim[c].published
      <3>1. found \subseteq Pages!Rows \/ found = Pages!DashboardItems
        BY <2>0 DEF Pages!Picks
      <3>2. QED
        BY <3>1 DEF Pages!DashboardItems, Pages!Rows, Pages!Compared
    <2>3. \A c \in found :
             Pages!Item(c, {}) \in Pages!ItemType /\ Pages!Item(c, {}).claim = c
      BY <1>0, <2>2 DEF Pages!Item, Pages!ItemType
    <2>4. Pages!TypeOK'
      BY <1>0, <2>1, <2>3 DEF Pages!TypeOK
    <2>5. PublishedIsBacked'
      BY <2>1 DEF PublishedIsBacked, Backed
    <2>8. ShownIsPublic'
      BY <2>1, <2>2, <2>3 DEF ShownIsPublic
    <2>9. GapsAreFlags'
      BY <2>1 DEF GapsAreFlags, Pages!PagesAssumption
    <2>10. QED
      BY <2>4, <2>5, <2>8, <2>9
  <1>2. CASE Pages!ReadSources
    <2>. DEFINE seen(item) == [item EXCEPT !.missing = Pages!Missing(item.claim)]
    <2>1. /\ page.kind # None /\ UNCHANGED <<claim, evidence, withdrawn>>
          /\ page' = [page EXCEPT !.shown = TRUE,
                                 !.items = {seen(item) : item \in page.items}]
          /\ page \in [kind : {"compare", "dashboard", None},
                       items : SUBSET Pages!ItemType, shown : BOOLEAN]
      BY <1>2 DEF Pages!ReadSources, Pages!TypeOK
    <2>2. /\ page'.kind = page.kind /\ page'.shown
          /\ page'.items = {seen(item) : item \in page.items}
      BY <2>1
    <2>3. \A item \in page.items :
            /\ item \in Pages!ItemType /\ seen(item) \in Pages!ItemType
            /\ seen(item).claim = item.claim /\ item.claim \in PublicClaims
            /\ seen(item).missing = Pages!Missing(item.claim)
      BY <2>1 DEF Pages!ItemType, Pages!Missing
    <2>. HIDE DEF seen
    <2>4. Pages!TypeOK'
      <3>1. page'.items \in SUBSET Pages!ItemType
        BY <2>2, <2>3
      <3>. HIDE DEF Pages!ItemType
      <3>2. page' \in [kind : {"compare", "dashboard", None},
                       items : SUBSET Pages!ItemType, shown : BOOLEAN]
        BY <2>1, <2>2, <3>1
      <3>3. QED
        BY <2>1, <3>2 DEF Pages!TypeOK
    <2>5. PublishedIsBacked'
      BY <2>1 DEF PublishedIsBacked, Backed
    <2>7. ShownIsPublic'
      BY <2>1, <2>2, <2>3 DEF ShownIsPublic
    <2>8. ASSUME NEW item \in page.items, seen(item).missing # {},
                 item.claim \notin withdrawn
          PROVE  Flagged(item.claim)
      <3>1. PICK class \in Pages!Classes : ~Pages!Has(item.claim, class)
        BY <2>3, <2>8 DEF Pages!Missing
      <3>2. item.claim \in PublicClaims /\ claim[item.claim].published
        BY <2>3, <2>8 DEF ShownIsPublic
      <3>3. PICK row \in evidence[item.claim] : row.class = class
        BY <3>2 DEF PublishedIsBacked, Backed
      <3>4. row \in [class : Pages!Classes, flagged : BOOLEAN]
        BY <1>0, <3>2
      <3>5. ~row.flagged => row = Pages!Good(class)
        BY <3>3, <3>4 DEF Pages!Good
      <3>6. QED
        BY <3>1, <3>5 DEF Pages!Has, Flagged
    <2>9. GapsAreFlags'
      BY <2>1, <2>2, <2>3, <2>8 DEF GapsAreFlags, Flagged
    <2>10. QED
      BY <2>4, <2>5, <2>7, <2>9
  <1>3. CASE Pages!ClosePage
    <2>1. page' = Pages!NoPage /\ withdrawn' = {} /\ UNCHANGED <<claim, evidence>>
      BY <1>3 DEF Pages!ClosePage
    <2>2. Pages!TypeOK' /\ PublishedIsBacked'
      BY <2>1 DEF Pages!NoPage, Pages!TypeOK, PublishedIsBacked, Backed
    <2>3. ShownIsPublic' /\ GapsAreFlags'
      BY <2>1 DEF Pages!NoPage, ShownIsPublic, GapsAreFlags
    <2>4. QED
      BY <2>2, <2>3
  <1>4. CASE UNCHANGED Pages!vars
    BY <1>4 DEF Pages!vars, Pages!TypeOK, PublishedIsBacked, Backed,
       ShownIsPublic, GapsAreFlags, Flagged
  \* A new row of the claim: nothing is unpublished, no source changes.
  <1>5. ASSUME NEW c \in PublicClaims,
               NEW new \in [published : BOOLEAN, checkable : BOOLEAN,
                            verdict : Pages!Factual \cup {"insufficient", None}],
               claim' = [claim EXCEPT ![c] = new],
               UNCHANGED <<evidence, page>>,
               new.published
                   => Backed(c) /\ new.verdict \in Pages!Factual \cup {"insufficient"},
               \/ claim[c].published => new.published
               \/ c \in withdrawn' \/ page.kind = None,
               \/ page.kind = None /\ withdrawn' = {}
               \/ withdrawn' \in {withdrawn, withdrawn \cup {c}}
        PROVE  PagesInv'
    <2>1. /\ claim'[c] = new
          /\ \A d \in PublicClaims : d # c => claim'[d] = claim[d]
      BY <1>0, <1>5
    <2>2. Pages!TypeOK'
      BY <1>0, <1>5 DEF Pages!TypeOK
    <2>3. PublishedIsBacked'
      BY <1>5, <2>1 DEF PublishedIsBacked, Backed
    <2>4. QED
      BY <1>5, <2>1, <2>2, <2>3, Meanwhile DEF Flagged
  <1>6. ASSUME NEW c \in PublicClaims, UNCHANGED <<claim, page, withdrawn>>,
               NEW new \in SUBSET [class : Pages!Classes, flagged : BOOLEAN],
               evidence' = [evidence EXCEPT ![c] = new],
               claim[c].published =>
                 /\ \A row \in evidence[c] : \E s \in new :
                      s.class = row.class /\ (row.flagged => s.flagged)
        PROVE  PagesInv'
    <2>1. /\ evidence'[c] = new
          /\ \A d \in PublicClaims : d # c => evidence'[d] = evidence[d]
      BY <1>0, <1>6
    <2>2. Pages!TypeOK'
      BY <1>0, <1>6 DEF Pages!TypeOK
    <2>3. PublishedIsBacked'
      BY <1>6, <2>1 DEF PublishedIsBacked, Backed
    <2>4. \A d \in PublicClaims : claim[d].published /\ Flagged(d) => Flagged(d)'
      BY <1>6, <2>1 DEF Flagged
    <2>5. QED
      BY <1>6, <2>2, <2>3, <2>4, Meanwhile
  <1>7. ASSUME NEW c \in PublicClaims \ Settled, Pages!Judge(c) PROVE PagesInv'
    <2>1. PICK verdict \in Pages!Factual \cup {"insufficient"} :
            claim' = [claim EXCEPT ![c].verdict = verdict]
      BY <1>7 DEF Pages!Judge
    <2>. DEFINE new == [claim[c] EXCEPT !.verdict = verdict]
    <2>2. /\ claim' = [claim EXCEPT ![c] = new]
          /\ UNCHANGED <<evidence, page, withdrawn>>
      BY <1>7, <2>1 DEF Pages!Judge
    <2>3. /\ new \in [published : BOOLEAN, checkable : BOOLEAN,
                       verdict : Pages!Factual \cup {"insufficient", None}]
          /\ new.published = claim[c].published /\ new.verdict = verdict
      BY <1>0
    <2>4. new.published => Backed(c)
      BY <2>3 DEF PublishedIsBacked
    <2>. HIDE DEF new
    <2>5. QED
      BY <1>5, <2>2, <2>3, <2>4
  <1>8. ASSUME NEW c \in PublicClaims \ Settled, Pages!Publish(c) PROVE PagesInv'
    <2>. DEFINE new == [claim[c] EXCEPT !.published = TRUE]
    <2>1. /\ claim' = [claim EXCEPT ![c] = new]
          /\ UNCHANGED <<evidence, page, withdrawn>>
          /\ claim[c].verdict \in Pages!Factual /\ Pages!MinimumEvidence(c)
      BY <1>8 DEF Pages!Publish
    <2>2. /\ new \in [published : BOOLEAN, checkable : BOOLEAN,
                       verdict : Pages!Factual \cup {"insufficient", None}]
          /\ new.published /\ new.verdict = claim[c].verdict
      BY <1>0
    <2>. HIDE DEF new
    <2>3. QED
      BY <1>5, <2>1, <2>2, BackedByMinimum
  <1>9. ASSUME NEW c \in PublicClaims \ Settled, Pages!Unpublish(c) PROVE PagesInv'
    <2>. DEFINE new == [claim[c] EXCEPT !.published = FALSE]
    <2>1. /\ claim' = [claim EXCEPT ![c] = new] /\ UNCHANGED <<evidence, page>>
          /\ withdrawn' = IF page.kind = None THEN {} ELSE withdrawn \cup {c}
      BY <1>9 DEF Pages!Unpublish
    <2>2. /\ new \in [published : BOOLEAN, checkable : BOOLEAN,
                       verdict : Pages!Factual \cup {"insufficient", None}]
          /\ ~new.published
      BY <1>0
    <2>. HIDE DEF new
    <2>3. QED
      BY <1>5, <2>1, <2>2
  <1>10. ASSUME NEW c \in PublicClaims \ Settled,
                Pages!SetCheckable(c) PROVE PagesInv'
    <2>1. PICK b \in BOOLEAN : claim' = [claim EXCEPT ![c].checkable = b]
      BY <1>10 DEF Pages!SetCheckable
    <2>. DEFINE new == [claim[c] EXCEPT !.checkable = b]
    <2>2. /\ claim' = [claim EXCEPT ![c] = new]
          /\ UNCHANGED <<evidence, page, withdrawn>>
      BY <1>10, <2>1 DEF Pages!SetCheckable
    <2>3. /\ new \in [published : BOOLEAN, checkable : BOOLEAN,
                       verdict : Pages!Factual \cup {"insufficient", None}]
          /\ new.published = claim[c].published /\ new.verdict = claim[c].verdict
      BY <1>0
    <2>. HIDE DEF new
    <2>4. QED
      BY <1>5, <2>2, <2>3 DEF PublishedIsBacked
  <1>11. ASSUME NEW c \in PublicClaims \ Settled, Pages!Attach(c) PROVE PagesInv'
    <2>1. PICK class \in Pages!Classes :
            evidence' = [evidence EXCEPT ![c] = @ \cup {Pages!Good(class)}]
      BY <1>11 DEF Pages!Attach
    <2>. DEFINE new == evidence[c] \cup {Pages!Good(class)}
    <2>2. /\ evidence' = [evidence EXCEPT ![c] = new]
          /\ UNCHANGED <<claim, page, withdrawn>>
      BY <1>11, <2>1 DEF Pages!Attach
    <2>3. /\ new \in SUBSET [class : Pages!Classes, flagged : BOOLEAN]
          /\ evidence[c] \subseteq new
      <3>1. Pages!Good(class) \in [class : Pages!Classes, flagged : BOOLEAN]
        BY DEF Pages!Good
      <3>2. QED
        BY <1>0, <3>1
    <2>. HIDE DEF new
    <2>4. QED
      BY <1>6, <2>2, <2>3
  <1>12. ASSUME NEW c \in PublicClaims \ Settled,
                Pages!DeleteSource(c) PROVE PagesInv'
    <2>1. PICK row \in evidence[c] : evidence' = [evidence EXCEPT ![c] = @ \ {row}]
      BY <1>12 DEF Pages!DeleteSource
    <2>. DEFINE new == evidence[c] \ {row}
    <2>2. /\ evidence' = [evidence EXCEPT ![c] = new]
          /\ UNCHANGED <<claim, page, withdrawn>> /\ ~claim[c].published
      BY <1>12, <2>1 DEF Pages!DeleteSource
    <2>3. new \in SUBSET [class : Pages!Classes, flagged : BOOLEAN]
      BY <1>0
    <2>. HIDE DEF new
    <2>4. QED
      BY <1>6, <2>2, <2>3
  <1>13. ASSUME NEW c \in PublicClaims \ Settled,
                Pages!FlagSource(c) PROVE PagesInv'
    <2>. DEFINE flag(row) == [row EXCEPT !.flagged = TRUE]
    <2>1. PICK row \in evidence[c] :
            evidence' = [evidence EXCEPT ![c] = (@ \ {row}) \cup {flag(row)}]
      BY <1>13 DEF Pages!FlagSource
    <2>. DEFINE new == (evidence[c] \ {row}) \cup {flag(row)}
    <2>2. /\ evidence' = [evidence EXCEPT ![c] = new]
          /\ UNCHANGED <<claim, page, withdrawn>>
      BY <1>13, <2>1 DEF Pages!FlagSource
    <2>3. /\ row \in [class : Pages!Classes, flagged : BOOLEAN]
          /\ flag(row) \in [class : Pages!Classes, flagged : BOOLEAN]
          /\ flag(row).class = row.class /\ flag(row).flagged
      <3>1. evidence[c] \subseteq [class : Pages!Classes, flagged : BOOLEAN]
        BY <1>0
      <3>2. row \in [class : Pages!Classes, flagged : BOOLEAN]
        BY <3>1
      <3>3. QED
        BY <3>2
    <2>. HIDE DEF flag
    <2>4. /\ new \in SUBSET [class : Pages!Classes, flagged : BOOLEAN]
          /\ \A x \in evidence[c] : \E s \in new :
               s.class = x.class /\ (x.flagged => s.flagged)
      BY <1>0, <2>3
    <2>. HIDE DEF new
    <2>5. QED
      BY <1>6, <2>2, <2>4
  <1>14. QED
    BY <1>1, <1>2, <1>3, <1>4, <1>7, <1>8, <1>9, <1>10, <1>11, <1>12, <1>13 DEF
       Pages!Next

\* The invariant tells what gaps there may be.
LEMMA PagesSay ==
  ASSUME Pages!PagesAssumption, PagesInv
  PROVE  Pages!GapsHaveReasons
  BY DEF PagesInv, ShownIsPublic, GapsAreFlags, Flagged, Pages!GapsHaveReasons

\* What round() is off by: half a unit at most.
LEMMA Rounding ==
  ASSUME NEW n \in Int, NEW d \in Nat \ {0}
  PROVE  /\ Pages!Round(n, d) \in Int
         /\ 2 * (d * Pages!Round(n, d)) <= 2 * n + d
         /\ 2 * n - d <= 2 * (d * Pages!Round(n, d))
  <1>. DEFINE q == Pages!Round(n, d)
  <1>1. 2 * d \in Nat \ {0} /\ 2 * n + d \in Int
    OBVIOUS
  <1>2. \A a \in Int, b \in Nat \ {0} :
          /\ a \div b \in Int
          /\ b * (a \div b) <= a /\ a < b * (a \div b) + b
    OBVIOUS
  <1>3. q \in Int /\ (2 * d) * q <= 2 * n + d /\ 2 * n + d < (2 * d) * q + 2 * d
    BY <1>1, <1>2 DEF Pages!Round
  <1>. HIDE DEF q
  <1>4. (2 * d) * q = 2 * (d * q) /\ d * q \in Int
    BY <1>3
  <1>5. QED
    BY <1>3, <1>4 DEF q

\* A factor keeps the order; the product is not linear for the provers.
LEMMA Times ==
  ASSUME NEW d \in Nat, NEW x \in Int, NEW y \in Int, x <= y
  PROVE  d * x <= d * y
  OBVIOUS

\* Three rates and their sum, each rounded.
LEMMA CompositeError ==
  ASSUME NEW d \in Nat \ {0}, NEW a \in Int, NEW b \in Int, NEW c \in Int
  PROVE  LET score ==
           Pages!Composite(Pages!Round(a, d), Pages!Round(b, d), Pages!Round(c, d))
             error == 10 * d * score - (5 * a + 3 * b - 2 * c)
         IN  -10 * d <= error /\ error <= 10 * d
  <1>. DEFINE f == Pages!Round(a, d)
              e == Pages!Round(b, d)
              u == Pages!Round(c, d)
              m == 5 * f + 3 * e - 2 * u
              s == Pages!Round(m, 10)
  <1>1. /\ f \in Int /\ 2 * (d * f) <= 2 * a + d /\ 2 * a - d <= 2 * (d * f)
        /\ e \in Int /\ 2 * (d * e) <= 2 * b + d /\ 2 * b - d <= 2 * (d * e)
        /\ u \in Int /\ 2 * (d * u) <= 2 * c + d /\ 2 * c - d <= 2 * (d * u)
    BY Rounding
  <1>2. /\ s = Pages!Composite(f, e, u)
        /\ m \in Int /\ s \in Int /\ 2 * (10 * s) <= 2 * m + 10
        /\ 2 * m - 10 <= 2 * (10 * s)
    <2>1. m \in Int
      BY <1>1
    <2>. HIDE DEF m
    <2>2. s \in Int /\ 2 * (10 * s) <= 2 * m + 10 /\ 2 * m - 10 <= 2 * (10 * s)
      BY <2>1, Rounding
    <2>3. s = Pages!Composite(f, e, u)
      BY DEF Pages!Composite, m
    <2>4. QED
      BY <2>1, <2>2, <2>3
  <1>3. d * m = 5 * (d * f) + 3 * (d * e) - 2 * (d * u)
    <2>. HIDE DEF f, e, u
    <2>1. QED
      BY <1>1
  <1>. HIDE DEF s, m
  <1>4. d * (10 * s) <= d * (m + 5) /\ d * (m - 5) <= d * (10 * s)
    BY <1>2, Times
  <1>5. /\ d * (10 * s) = 10 * d * s /\ d * (m + 5) = d * m + 5 * d
        /\ d * (m - 5) = d * m - 5 * d
        /\ 10 * d * s \in Int /\ d * m \in Int
    BY <1>2
  <1>6. d * f \in Int /\ d * e \in Int /\ d * u \in Int
    BY <1>1
  <1>. HIDE DEF f, e, u
  <1>7. /\ -10 * d <= 10 * d * s - (5 * a + 3 * b - 2 * c)
        /\ 10 * d * s - (5 * a + 3 * b - 2 * c) <= 10 * d
    BY <1>1, <1>3, <1>4, <1>5, <1>6
  <1>8. QED
    BY <1>2, <1>7 DEF f, e, u

\* The scores of any table of claims.
LEMMA ScoresAreExact ==
  ASSUME Pages!PagesAssumption
  PROVE  Pages!ScoreIsExact
  <1>. SUFFICES ASSUME NEW x, NEW insufficient,
                       Pages!Cardinality(Pages!Evaluated(x, insufficient)) > 0
                PROVE  LET d == Pages!Cardinality(Pages!Evaluated(x, insufficient))
                           exact ==
                             1000000 * (5 * Pages!With(x, insufficient, "supported")
                                        + 3 * Pages!Sufficient(x, insufficient)
                                        - 2 * Pages!With(x, insufficient, "unsupported"))
                           error == 10 * d * Pages!Score(x, insufficient) - exact
                       IN  -10 * d <= error /\ error <= 10 * d
    BY DEF Pages!ScoreIsExact
  <1>. DEFINE d == Pages!Cardinality(Pages!Evaluated(x, insufficient))
              a == Pages!With(x, insufficient, "supported")
              b == Pages!Sufficient(x, insufficient)
              c == Pages!With(x, insufficient, "unsupported")
  <1>1. \A S \in SUBSET PublicClaims : Pages!Cardinality(S) \in Nat
    BY FS_Subset, FS_CardinalityType, CountAlike DEF Pages!PagesAssumption
  <1>2. Pages!Evaluated(x, insufficient) \subseteq PublicClaims
    BY DEF Pages!Evaluated
  <1>3. d \in Nat \ {0}
    BY <1>1, <1>2
  <1>4. a \in Nat /\ b \in Nat /\ c \in Nat
    BY <1>1, <1>2 DEF Pages!With, Pages!Sufficient
  <1>5. Pages!Score(x, insufficient) =
          Pages!Composite(Pages!Round(1000000 * a, d), Pages!Round(1000000 * b, d),
                          Pages!Round(1000000 * c, d))
    BY <1>3 DEF Pages!Score, Pages!Rate
  <1>. HIDE DEF a, b, c, d
  <1>6. LET error == 10 * d * Pages!Score(x, insufficient)
                       - (5 * (1000000 * a) + 3 * (1000000 * b) - 2 * (1000000 * c))
        IN  -10 * d <= error /\ error <= 10 * d
    <2>1. PICK p : p = 1000000 * a
      OBVIOUS
    <2>2. PICK q : q = 1000000 * b
      OBVIOUS
    <2>3. PICK r : r = 1000000 * c
      OBVIOUS
    <2>4. p \in Int /\ q \in Int /\ r \in Int
      BY <1>4, <2>1, <2>2, <2>3
    <2>5. PICK score :
             score =
               Pages!Composite(Pages!Round(p, d), Pages!Round(q, d), Pages!Round(r, d))
      OBVIOUS
    <2>6. -10 * d <= 10 * d * score - (5 * p + 3 * q - 2 * r)
          /\ 10 * d * score - (5 * p + 3 * q - 2 * r) <= 10 * d
      BY <1>3, <2>4, <2>5, CompositeError
    <2>7. Pages!Score(x, insufficient) = score
      BY <1>5, <2>1, <2>2, <2>3, <2>5
    <2>8. QED
      BY <2>1, <2>2, <2>3, <2>6, <2>7
  <1>7. 1000000 * (5 * a + 3 * b - 2 * c)
          = 5 * (1000000 * a) + 3 * (1000000 * b) - 2 * (1000000 * c)
    BY <1>4
  <1>8. QED
    BY <1>6, <1>7 DEF a, b, c, d

-----------------------------------------------------------------------------
(* The rate limiter. *)

\* What a key's window is: the end of what was let through; what has left it
\* is older than the window.
WindowIsEnd(k) ==
  /\ windows[k] \in Seq(Nat) /\ admitted[k] \in Seq(Nat)
  /\ Len(windows[k]) <= Limit /\ Len(windows[k]) <= Len(admitted[k])
  /\ \A i \in 1 .. Len(windows[k]) :
       windows[k][i] = admitted[k][Len(admitted[k]) - Len(windows[k]) + i]
  /\ \A i \in 1 .. Len(admitted[k]) - Len(windows[k]) :
           admitted[k][i] <= clock - Window

AdmittedSound(k) == \A i \in 1 .. Len(admitted[k]) : admitted[k][i] <= clock

\* Of the requests that arrived in the window up to e, those let through (a) and
\* those still held up (th).
Through(a, e) == {i \in DOMAIN a : e - Window < a[i] /\ a[i] <= e}
HeldUp(th, k, e) ==
  {t \in Threads : /\ th[t].pc = "read" /\ th[t].key = k
                   /\ e - Window < th[t].now /\ th[t].now <= e}

Bounded(a, th, k, e) ==
  Cardinality(Through(a, e)) + Cardinality(HeldUp(th, k, e))
    <= Limit + Cardinality(Threads)

WindowsBounded(k) == \A e \in 0 .. clock : Bounded(admitted[k], thread, k, e)

\* A refusal names a time at which the first of the window has left it.
ToldSound(k) ==
  told[k] # Limiter!Never =>
    /\ windows[k] # <<>> /\ told[k].at \in Nat /\ told[k].wait \in Nat
    /\ windows[k][1] + Window < told[k].at + told[k].wait * Second

LimiterInv ==
  /\ clock \in 0 .. MaxClock
  /\ DOMAIN windows = Keys /\ DOMAIN admitted = Keys /\ DOMAIN told = Keys
  /\ thread \in [Threads -> [pc : {"idle", "read"}, key : Keys, now : 0 .. clock]]
  /\ \A k \in Keys : /\ WindowIsEnd(k) /\ AdmittedSound(k) /\ ToldSound(k)
                     /\ WindowsBounded(k)

\* A set of natural numbers has a least one.
LEMMA LeastOf ==
  ASSUME NEW S, S \subseteq Nat, S # {}
  PROVE  \E n \in S : \A m \in S : n <= m
  <1>1. \E R : IsWellFoundedOn(R, Nat) /\ \A a, b \in Nat : a < b => <<a, b>> \in R
    <2>1. \A a, b \in Nat : a < b => <<a, b>> \in OpToRel(<, Nat)
      BY DEF OpToRel
    <2>2. QED
      BY <2>1, NatLessThanWellFounded
  <1>2. PICK R : IsWellFoundedOn(R, Nat) /\ \A a, b \in Nat : a < b
           => <<a, b>> \in R
    BY <1>1
  <1>3. \E x \in S : \A y \in S : ~(<<y, x>> \in R)
    <2>1. IsWellFoundedOn(R, Nat)
      BY <1>2
    <2>2. QED
      BY <2>1, WFMin
  <1>4. PICK x \in S : \A y \in S : ~(<<y, x>> \in R)
    BY <1>3
  <1>5. \A m \in S : ~(m < x)
    BY <1>2, <1>4
  <1>6. QED
    BY <1>5

\* The two sets of a window are finite.
LEMMA WindowSets ==
  ASSUME Limiter!LimiterAssumption, NEW a \in Seq(Nat), NEW th, NEW k, NEW e \in Nat
  PROVE  /\ IsFiniteSet(Through(a, e)) /\ Cardinality(Through(a, e)) \in Nat
         /\ IsFiniteSet(HeldUp(th, k, e)) /\ Cardinality(HeldUp(th, k, e)) \in Nat
         /\ IsFiniteSet(Threads) /\ Cardinality(Threads) \in Nat
         /\ Cardinality(HeldUp(th, k, e)) <= Cardinality(Threads)
  <1>1. IsFiniteSet(Threads)
    BY CountAlike DEF Limiter!LimiterAssumption
  <1>2. HeldUp(th, k, e) \in SUBSET Threads
    BY DEF HeldUp
  <1>3. Through(a, e) \in SUBSET (1 .. Len(a)) /\ Len(a) \in Nat
    BY DEF Through
  <1>4. IsFiniteSet(1 .. Len(a))
    BY <1>3, FS_Interval
  <1>5. IsFiniteSet(Through(a, e))
    BY <1>3, <1>4, FS_Subset
  <1>6. IsFiniteSet(HeldUp(th, k, e))
        /\ Cardinality(HeldUp(th, k, e)) <= Cardinality(Threads)
    BY <1>1, <1>2, FS_Subset
  <1>7. QED
    BY <1>1, <1>5, <1>6, FS_CardinalityType

\* Of those that arrived in the window up to now, the limit at most is through,
\* as all of them are in the key's window still; and each thread holds one.
LEMMA NowIsBounded ==
  ASSUME Limiter!LimiterAssumption, NEW a \in Seq(Nat), NEW m \in Nat, m <= Limit,
         m <= Len(a), NEW c \in Nat, \A i \in 1 .. Len(a) - m : a[i] <= c - Window,
         NEW th, NEW k
  PROVE  Cardinality(Through(a, c)) <= Limit /\ Bounded(a, th, k, c)
  <1>. DEFINE n == Len(a)
  <1>1. /\ n \in Nat /\ Limit \in Nat
        /\ Window \in Nat /\ \A i \in 1 .. n : a[i] \in Nat
    BY DEF Limiter!LimiterAssumption
  <1>2. ASSUME NEW i \in Through(a, c) PROVE i \in n - m + 1 .. n
    <2>1. i \in 1 .. n /\ c - Window < a[i]
      BY DEF Through
    <2>2. i \notin 1 .. n - m
      BY <1>1, <2>1
    <2>. HIDE DEF n
    <2>3. QED
      BY <1>1, <2>1, <2>2
  <1>3. Through(a, c) \in SUBSET (n - m + 1 .. n)
    BY <1>2
  <1>4. m <= n
    OBVIOUS
  <1>. HIDE DEF n
  <1>5. IsFiniteSet(n - m + 1 .. n) /\ Cardinality(n - m + 1 .. n) = m
    <2>1. n - m + 1 \in Int /\ n \in Int /\ (n - m + 1 > n => m = 0)
          /\ n - (n - m + 1) + 1 = m
      BY <1>1
    <2>2. QED
      BY <2>1, FS_Interval
  <1>6. Cardinality(Through(a, c)) <= m
    BY <1>3, <1>5, FS_Subset
  <1>7. /\ Cardinality(Through(a, c)) \in Nat /\ Cardinality(HeldUp(th, k, c)) \in Nat
        /\ Cardinality(HeldUp(th, k, c)) <= Cardinality(Threads)
        /\ Cardinality(Threads) \in Nat
    BY WindowSets
  <1>8. QED
    BY <1>1, <1>6, <1>7 DEF Bounded

\* A request that is let through was held up before: it leaves the one set of its
\* window as it joins the other.
LEMMA ThroughOnce ==
  ASSUME Limiter!LimiterAssumption, NEW a \in Seq(Nat), NEW k, NEW e \in Nat,
         NEW t \in Threads, NEW th, DOMAIN th = Threads, NEW r, r.pc = "idle",
         th[t].pc = "read", th[t].key = k, NEW now \in Nat, th[t].now = now,
         Bounded(a, th, k, e)
  PROVE  Bounded(Append(a, now), [th EXCEPT ![t] = r], k, e)
  <1>. DEFINE b == Append(a, now)
              tk == [th EXCEPT ![t] = r]
  <1>1. HeldUp(tk, k, e) = HeldUp(th, k, e) \ {t}
    BY DEF HeldUp
  <1>2. /\ b \in Seq(Nat) /\ DOMAIN b = 1 .. Len(a) + 1 /\ b[Len(a) + 1] = now
        /\ DOMAIN a = 1 .. Len(a) /\ Len(a) \in Nat
        /\ \A i \in 1 .. Len(a) : b[i] = a[i]
    OBVIOUS
  <1>. HIDE DEF b, tk
  <1>3. Limit \in Nat
    BY DEF Limiter!LimiterAssumption
  <1>4. CASE e - Window < now /\ now <= e
    <2>1. t \in HeldUp(th, k, e)
      BY <1>4 DEF HeldUp
    <2>2. Through(b, e) = Through(a, e) \cup {Len(a) + 1}
      BY SMTT(30), <1>2, <1>4 DEF Through
    <2>3. Len(a) + 1 \notin Through(a, e)
      BY <1>2 DEF Through
    <2>4. Cardinality(Through(b, e)) = Cardinality(Through(a, e)) + 1
      BY <2>2, <2>3, WindowSets, FS_AddElement
    <2>5. Cardinality(HeldUp(tk, k, e)) = Cardinality(HeldUp(th, k, e)) - 1
      <3>1. IsFiniteSet(HeldUp(th, k, e))
        BY WindowSets
      <3>2. QED
        BY ZenonT(60), <1>1, <2>1, <3>1, FS_RemoveElement
    <2>6. /\ Cardinality(Through(a, e)) \in Nat /\ Cardinality(HeldUp(th, k, e)) \in Nat
          /\ Cardinality(Threads) \in Nat
      BY WindowSets
    <2>7. QED
      BY <1>3, <2>4, <2>5, <2>6 DEF Bounded, b, tk
  <1>5. CASE ~(e - Window < now /\ now <= e)
    <2>1. Through(b, e) = Through(a, e)
      BY <1>2, <1>5 DEF Through
    <2>2. HeldUp(tk, k, e) = HeldUp(th, k, e)
      BY <1>1, <1>5 DEF HeldUp
    <2>3. QED
      BY <2>1, <2>2 DEF Bounded, b, tk
  <1>6. QED
    BY <1>4, <1>5

\* A thread that comes to the end takes at most one from those held up.
LEMMA HeldLess ==
  ASSUME Limiter!LimiterAssumption, NEW a \in Seq(Nat), NEW k, NEW e \in Nat,
         NEW t \in Threads, NEW th, DOMAIN th = Threads, NEW r, r.pc = "idle",
         Bounded(a, th, k, e)
  PROVE  Bounded(a, [th EXCEPT ![t] = r], k, e)
  <1>. DEFINE tk == [th EXCEPT ![t] = r]
  <1>1. HeldUp(tk, k, e) \in SUBSET HeldUp(th, k, e)
    BY DEF HeldUp
  <1>. HIDE DEF tk
  <1>2. Cardinality(HeldUp(tk, k, e)) <= Cardinality(HeldUp(th, k, e))
    BY <1>1, WindowSets, FS_Subset
  <1>3. /\ Cardinality(Through(a, e)) \in Nat /\ Cardinality(HeldUp(th, k, e)) \in Nat
        /\ Cardinality(HeldUp(tk, k, e)) \in Nat /\ Cardinality(Threads) \in Nat
        /\ Limit \in Nat
    BY WindowSets DEF Limiter!LimiterAssumption
  <1>4. QED
    BY <1>2, <1>3 DEF Bounded, tk

\* Empty windows.
LEMMA LimiterInit ==
  ASSUME Limiter!LimiterAssumption, Limiter!Init
  PROVE  LimiterInv
  <1>1. clock = 0 /\ clock \in 0 .. MaxClock
    BY DEF Limiter!Init, Limiter!LimiterAssumption
  <1>2. thread
           \in [Threads -> [pc : {"idle", "read"}, key : Keys, now : 0 .. clock]]
    <2>1. PICK k \in Keys :
             thread = [t \in Threads |-> [pc |-> "idle", key |-> k, now |-> 0]]
      BY DEF Limiter!Init
    <2>2. QED
      BY <1>1, <2>1
  <1>3. ASSUME NEW k \in Keys
        PROVE  /\ WindowIsEnd(k) /\ AdmittedSound(k) /\ ToldSound(k)
               /\ WindowsBounded(k)
    <2>1. windows[k] = <<>> /\ admitted[k] = <<>> /\ told[k] = Limiter!Never
      BY DEF Limiter!Init
    <2>2. WindowIsEnd(k) /\ AdmittedSound(k) /\ ToldSound(k)
      BY <2>1 DEF WindowIsEnd, AdmittedSound, ToldSound,
         Limiter!LimiterAssumption
    <2>3. Bounded(<<>>, thread, k, 0)
      <3>1. PICK a, m : a = <<>> /\ m = 0
        OBVIOUS
      <3>2. /\ a \in Seq(Nat) /\ m \in Nat /\ m <= Limit /\ m <= Len(a)
            /\ \A i \in 1 .. Len(a) - m : a[i] <= m - Window
        BY <3>1 DEF Limiter!LimiterAssumption
      <3>3. Bounded(a, thread, k, m)
        BY <3>2, NowIsBounded
      <3>4. QED
        BY <3>1, <3>3
    <2>4. WindowsBounded(k)
      BY <1>1, <2>1, <2>3 DEF WindowsBounded
    <2>5. QED
      BY <2>2, <2>4
  <1>4. QED
    BY <1>1, <1>2, <1>3 DEF Limiter!Init, LimiterInv

\* What is evicted is the beginning, and is outside the window.
LEMMA EvictSays ==
  ASSUME Limiter!LimiterAssumption, NEW q \in Seq(Nat), NEW now \in Nat
  PROVE  /\ Limiter!Evict(q, now) \in Seq(Nat)
         /\ Len(Limiter!Evict(q, now)) <= Len(q)
         /\ \A i \in 1 .. Len(Limiter!Evict(q, now)) :
              Limiter!Evict(q, now)[i] = q[Len(q) - Len(Limiter!Evict(q, now)) + i]
         /\ \A i \in 1 .. Len(q) - Len(Limiter!Evict(q, now)) : q[i] <= now - Window
         /\ q # <<>> /\ q[1] <= now - Window => Len(Limiter!Evict(q, now)) < Len(q)
  <1>. DEFINE inside == {i \in 1 .. Len(q) : q[i] > now - Window}
  <1>1. \A i \in 1 .. Len(q) : q[i] \in Nat
    OBVIOUS
  <1>2. Window \in Nat
    BY DEF Limiter!LimiterAssumption
  <1>3. CASE inside = {}
    <2>1. Limiter!Evict(q, now) = <<>>
      BY <1>3 DEF Limiter!Evict
    <2>2. \A i \in 1 .. Len(q) : q[i] <= now - Window
      BY <1>1, <1>2, <1>3
    <2>. HIDE DEF inside
    <2>3. QED
      BY <2>1, <2>2
  <1>4. CASE inside # {}
    <2>. DEFINE m == CHOOSE i \in inside : \A j \in inside : i <= j
    <2>1. \E i \in inside : \A j \in inside : i <= j
      <3>1. inside \subseteq Nat
        OBVIOUS
      <3>. HIDE DEF inside
      <3>2. QED
        BY <1>4, <3>1, LeastOf
    <2>2. m \in inside /\ \A j \in inside : m <= j
      BY <2>1
    <2>3. Limiter!Evict(q, now) = SubSeq(q, m, Len(q))
      BY <1>4 DEF Limiter!Evict
    <2>. HIDE DEF m
    <2>4. m \in 1 .. Len(q) /\ q[m] > now - Window
      BY <2>2
    <2>5. \A i \in 1 .. m - 1 : q[i] <= now - Window
      BY <1>1, <1>2, <2>2, <2>4
    <2>. HIDE DEF inside
    <2>6. /\ SubSeq(q, m, Len(q)) \in Seq(Nat)
          /\ Len(SubSeq(q, m, Len(q))) = Len(q) - m + 1
          /\ \A i \in 1 .. Len(q) - m + 1 : SubSeq(q, m, Len(q))[i] = q[m + i - 1]
      BY <2>4
    <2>7. q[1] <= now - Window => m # 1
      BY <1>1, <1>2, <2>4
    <2>8. Len(q) \in Nat
      OBVIOUS
    <2>9. Len(q) - (Len(q) - m + 1) = m - 1 /\ Len(q) - m + 1 <= Len(q)
      BY <2>4, <2>8
    <2>10. \A i \in 1 .. Len(q) - m + 1 :
             SubSeq(q, m, Len(q))[i] = q[Len(q) - (Len(q) - m + 1) + i]
      BY <2>4, <2>6, <2>8, <2>9
    <2>11. m # 1 => Len(q) - m + 1 < Len(q)
      BY <2>4, <2>8
    <2>12. QED
      BY <2>3, <2>5, <2>6, <2>7, <2>9, <2>10, <2>11
  <1>5. QED
    BY <1>3, <1>4

\* A window stays the end of what was let through when it is evicted from.
LEMMA EvictedIsEnd ==
  ASSUME Limiter!LimiterAssumption, LimiterInv, NEW k \in Keys,
         NEW now \in 0 .. clock
  PROVE  LET q == Limiter!Evict(windows[k], now)
             a == admitted[k]
         IN  /\ q \in Seq(Nat) /\ Len(q) <= Len(windows[k]) /\ Len(q) <= Len(a)
             /\ \A i \in 1 .. Len(q) : q[i] = a[Len(a) - Len(q) + i]
             /\ \A i \in 1 .. Len(a) - Len(q) : a[i] <= clock - Window
  <1>. DEFINE w == windows[k]
              a == admitted[k]
              q == Limiter!Evict(w, now)
  <1>1. /\ clock \in Nat /\ Window \in Nat /\ now \in Nat /\ now <= clock
        /\ w \in Seq(Nat) /\ a \in Seq(Nat) /\ Len(w) <= Len(a)
        /\ \A i \in 1 .. Len(w) : w[i] = a[Len(a) - Len(w) + i]
        /\ \A i \in 1 .. Len(a) - Len(w) : a[i] <= clock - Window
    BY DEF LimiterInv, WindowIsEnd, Limiter!LimiterAssumption
  <1>2. /\ q \in Seq(Nat) /\ Len(q) <= Len(w)
        /\ \A i \in 1 .. Len(q) : q[i] = w[Len(w) - Len(q) + i]
        /\ \A i \in 1 .. Len(w) - Len(q) : w[i] <= now - Window
    BY <1>1, EvictSays
  <1>. HIDE DEF w, a, q
  <1>w. \A i \in 1 .. Len(w) : w[i] = a[Len(a) - Len(w) + i]
    BY <1>1
  <1>s. w \in Seq(Nat)
    BY <1>1
  <1>n. \A i \in 1 .. Len(w) : w[i] \in Nat
    BY <1>s
  <1>o. \A i \in 1 .. Len(w) - Len(q) : w[i] <= now - Window
    BY <1>2
  <1>3. Len(q) \in Nat /\ Len(w) \in Nat /\ Len(a) \in Nat
    BY <1>1, <1>2
  <1>4. \A i \in 1 .. Len(q) : q[i] = a[Len(a) - Len(q) + i]
    <2>. SUFFICES ASSUME NEW i \in 1 .. Len(q) PROVE q[i] = a[Len(a) - Len(q) + i]
      OBVIOUS
    <2>1. PICK j : j = Len(w) - Len(q) + i
      OBVIOUS
    <2>2. j \in 1 .. Len(w) /\ q[i] = w[j]
      BY <1>2, <1>3, <2>1
    <2>3. w[j] = a[Len(a) - Len(w) + j]
      BY <1>w, <2>2
    <2>4. Len(a) - Len(w) + j = Len(a) - Len(q) + i
      BY <1>3, <2>1
    <2>5. QED
      BY <2>2, <2>3, <2>4
  <1>5. \A i \in 1 .. Len(a) - Len(q) : a[i] <= clock - Window
    <2>. SUFFICES ASSUME NEW i \in 1 .. Len(a) - Len(q) PROVE a[i] <= clock - Window
      OBVIOUS
    <2>1. CASE i <= Len(a) - Len(w)
      BY <1>1, <1>3, <2>1
    <2>2. CASE ~(i <= Len(a) - Len(w))
      <3>1. PICK j : j = i - (Len(a) - Len(w))
        OBVIOUS
      <3>2. /\ j \in 1 .. Len(w) - Len(q) /\ j \in 1 .. Len(w)
            /\ Len(a) - Len(w) + j = i
        BY <1>2, <1>3, <2>2, <3>1
      <3>3. w[j] = a[i] /\ w[j] <= now - Window /\ w[j] \in Nat
        <4>1. j \in 1 .. Len(w) /\ j \in 1 .. Len(w) - Len(q)
          BY <3>2
        <4>2. w[j] = a[Len(a) - Len(w) + j]
          BY <1>w, <4>1
        <4>3. w[j] \in Nat
          BY <1>n, <4>1
        <4>4. w[j] <= now - Window
          BY <1>o, <4>1
        <4>5. QED
          BY <3>2, <4>2, <4>3, <4>4
      <3>4. QED
        BY <1>1, <3>3
    <2>3. QED
      BY <2>1, <2>2
  <1>6. QED
    BY <1>1, <1>2, <1>3, <1>4, <1>5 DEF w, a, q

\* The window up to now is within the limit, whatever threads hold.
LEMMA NowWithin ==
  ASSUME Limiter!LimiterAssumption, LimiterInv, NEW k \in Keys
  PROVE  /\ Cardinality(Through(admitted[k], clock)) <= Limit
         /\ \A th : Bounded(admitted[k], th, k, clock)
  <1>1. PICK a, m : a = admitted[k] /\ m = Len(windows[k])
    OBVIOUS
  <1>2. WindowIsEnd(k) /\ clock \in Nat
    BY DEF LimiterInv
  <1>3. /\ a \in Seq(Nat) /\ m \in Nat /\ m <= Limit /\ m <= Len(a)
        /\ \A i \in 1 .. Len(a) - m : a[i] <= clock - Window
    BY <1>1, <1>2 DEF WindowIsEnd
  <1>4. Cardinality(Through(a, clock)) <= Limit
        /\ \A th : Bounded(a, th, k, clock)
    BY <1>2, <1>3, NowIsBounded
  <1>5. QED
    BY <1>1, <1>4

\* Time passes, and what was told and let through gets older.
LEMMA Ticks ==
  ASSUME Limiter!LimiterAssumption, LimiterInv, Limiter!Tick
  PROVE  LimiterInv'
  <1>. USE DEF LimiterInv
  <1>1. /\ clock' = clock + 1 /\ clock' \in 0 .. MaxClock /\ clock \in Nat
        /\ UNCHANGED <<windows, thread, admitted, told>>
    BY DEF Limiter!Tick, Limiter!LimiterAssumption
  <1>2. thread'
           \in [Threads -> [pc : {"idle", "read"}, key : Keys, now : 0 .. clock']]
    <2>1. 0 .. clock \subseteq 0 .. clock'
      BY <1>1
    <2>2. QED
      BY <1>1, <2>1
  <1>3. ASSUME NEW k \in Keys
        PROVE  /\ (WindowIsEnd(k) /\ AdmittedSound(k) /\ ToldSound(k))'
               /\ WindowsBounded(k)'
    <2>1. WindowIsEnd(k) /\ AdmittedSound(k) /\ ToldSound(k) /\ WindowsBounded(k)
      OBVIOUS
    <2>2. Window \in Nat /\ admitted[k] \in Seq(Nat)
      BY DEF Limiter!LimiterAssumption, WindowIsEnd
    <2>3. \A i \in 1 .. Len(admitted[k]) - Len(windows[k]) :
            admitted[k][i] \in Nat
      BY <2>1 DEF WindowIsEnd
    <2>4. WindowIsEnd(k)'
      BY <1>1, <2>1, <2>2, <2>3 DEF WindowIsEnd
    <2>5. AdmittedSound(k)'
      BY <1>1, <2>1, <2>2 DEF AdmittedSound
    <2>6. ToldSound(k)'
      BY <1>1, <2>1 DEF ToldSound
    <2>7. Bounded(admitted[k], thread, k, clock')
      <3>1. \A i \in 1 .. Len(admitted[k]) - Len(windows[k]) :
              admitted[k][i] <= clock' - Window
        BY <1>1, <2>1, <2>2, <2>3 DEF WindowIsEnd
      <3>2. /\ Len(windows[k]) \in Nat /\ Len(windows[k]) <= Limit
            /\ Len(windows[k]) <= Len(admitted[k]) /\ clock' \in Nat
        BY <1>1, <2>1 DEF WindowIsEnd
      <3>3. QED
        BY <2>2, <3>1, <3>2, NowIsBounded
    <2>8. WindowsBounded(k)'
      <3>1. ASSUME NEW e \in 0 .. clock'
            PROVE  Bounded(admitted[k], thread, k, e)
        <4>1. e \in 0 .. clock \/ e = clock'
          BY <1>1
        <4>2. QED
          BY <2>1, <2>7, <4>1 DEF WindowsBounded
      <3>2. admitted' = admitted /\ thread' = thread
        BY <1>1
      <3>3. QED
        BY <3>1, <3>2 DEF WindowsBounded, Bounded, Through, HeldUp
    <2>9. QED
      BY <2>4, <2>5, <2>6, <2>8
  <1>4. QED
    BY <1>1, <1>2, <1>3

\* A step of a thread that leaves the clock: only its key's rows move.
LEMMA ThreadSteps ==
  ASSUME Limiter!LimiterAssumption, LimiterInv, clock' = clock, NEW t \in Threads,
         NEW r \in [pc : {"idle", "read"}, key : Keys, now : 0 .. clock],
         thread' = [thread EXCEPT ![t] = r],
         DOMAIN windows' = Keys, DOMAIN admitted' = Keys, DOMAIN told' = Keys,
         \A k \in Keys : /\ (WindowIsEnd(k) /\ AdmittedSound(k) /\ ToldSound(k))'
                         /\ WindowsBounded(k)'
  PROVE  LimiterInv'
  BY DEF LimiterInv

\* A thread reads the clock, and is held up in the window up to now alone.
LEMMA ReadsClock ==
  ASSUME Limiter!LimiterAssumption, LimiterInv, NEW t \in Threads,
         NEW k \in Keys, Limiter!ReadClock(t, k)
  PROVE  LimiterInv'
  <1>1. PICK r : r = [pc |-> "read", key |-> k, now |-> clock]
    OBVIOUS
  <1>2. r \in [pc : {"idle", "read"}, key : Keys, now : 0 .. clock] /\ r.now = clock
    BY <1>1 DEF LimiterInv
  <1>3. /\ thread' = [thread EXCEPT ![t] = r] /\ thread[t].pc # "read"
        /\ UNCHANGED <<clock, windows, admitted, told>>
    BY <1>1 DEF Limiter!ReadClock, Limiter!Waiting
  <1>4. \A j \in Keys : (WindowIsEnd(j) /\ AdmittedSound(j) /\ ToldSound(j))'
    BY <1>3 DEF LimiterInv, WindowIsEnd, AdmittedSound, ToldSound
  <1>5. ASSUME NEW j \in Keys PROVE WindowsBounded(j)'
    <2>1. /\ WindowIsEnd(j) /\ WindowsBounded(j) /\ clock \in Nat
          /\ DOMAIN thread = Threads
      BY DEF LimiterInv
    <2>2. ASSUME NEW e \in 0 .. clock
          PROVE  Bounded(admitted[j], thread', j, e)
      <3>1. CASE e = clock
        BY <3>1, NowWithin
      <3>2. CASE e # clock
        <4>1. r.now > e
          BY <1>2, <2>1, <3>2
        <4>2. HeldUp(thread', j, e) = HeldUp(thread, j, e)
          BY <1>2, <1>3, <2>1, <4>1 DEF HeldUp
        <4>3. QED
          BY <2>1, <4>2 DEF WindowsBounded, Bounded
      <3>3. QED
        BY <3>1, <3>2
    <2>3. admitted' = admitted /\ clock' = clock
      BY <1>3
    <2>4. QED
      BY <2>2, <2>3 DEF WindowsBounded, Bounded, Through, HeldUp
  <1>6. QED
    BY <1>2, <1>3, <1>4, <1>5, ThreadSteps DEF LimiterInv

\* A thread that has the lock: its reading is not after the clock's.
LEMMA HasLock ==
  ASSUME LimiterInv, NEW t \in Threads, Limiter!Waiting(t)
  PROVE  /\ thread[t].now \in 0 .. clock /\ thread[t].key \in Keys /\ clock \in Nat
         /\ thread[t].pc = "read" /\ DOMAIN thread = Threads
         /\ [thread[t] EXCEPT !.pc = "idle"] \in
              [pc : {"idle", "read"}, key : Keys, now : 0 .. clock]
         /\ [thread[t] EXCEPT !.pc = "idle"].pc = "idle"
  <1>1. /\ thread[t] \in [pc : {"idle", "read"}, key : Keys, now : 0 .. clock]
        /\ DOMAIN thread = Threads /\ clock \in Nat
    BY DEF LimiterInv
  <1>2. QED
    BY <1>1 DEF Limiter!Waiting

\* A request is let through: the window, evicted, has room for it.
LEMMA Admits ==
  ASSUME Limiter!LimiterAssumption, LimiterInv, NEW t \in Threads, Limiter!Admit(t)
  PROVE  LimiterInv'
  <1>1. PICK k : k = thread[t].key
    OBVIOUS
  <1>2. PICK now : now = thread[t].now
    OBVIOUS
  <1>3. PICK q : q = Limiter!Evict(windows[k], now)
    OBVIOUS
  <1>4. PICK r : r = [thread[t] EXCEPT !.pc = "idle"]
    OBVIOUS
  <1>5. /\ Limiter!Waiting(t) /\ k \in Keys /\ now \in 0 .. clock
        /\ clock \in Nat /\ thread[t].pc = "read" /\ DOMAIN thread = Threads
        /\ r \in [pc : {"idle", "read"}, key : Keys, now : 0 .. clock]
        /\ r.pc = "idle"
    BY <1>1, <1>2, <1>4, HasLock DEF Limiter!Admit
  <1>6. /\ Len(q) < Limit /\ clock' = clock
        /\ windows' = [windows EXCEPT ![k] = Append(q, now)]
        /\ admitted' = [admitted EXCEPT ![k] = Append(@, now)]
        /\ told' = [told EXCEPT ![k] = Limiter!Never]
        /\ thread' = [thread EXCEPT ![t] = r]
    BY <1>1, <1>2, <1>3, <1>4 DEF Limiter!Admit
  <1>7. PICK a : a = admitted[k]
    OBVIOUS
  <1>8. /\ q \in Seq(Nat) /\ Len(q) <= Len(a) /\ a \in Seq(Nat)
        /\ \A i \in 1 .. Len(q) : q[i] = a[Len(a) - Len(q) + i]
        /\ \A i \in 1 .. Len(a) - Len(q) : a[i] <= clock - Window
    <2>1. a \in Seq(Nat)
      BY <1>5, <1>7 DEF LimiterInv, WindowIsEnd
    <2>2. QED
      BY ZenonT(60), <1>3, <1>5, <1>7, <2>1, EvictedIsEnd
  <1>9. AdmittedSound(k) /\ Limit \in Nat \ {0} /\ Window \in Nat
    BY <1>5 DEF LimiterInv, Limiter!LimiterAssumption
  <1>10. PICK b : b = Append(a, now)
    OBVIOUS
  <1>11. PICK p : p = Append(q, now)
    OBVIOUS
  <1>12. Len(a) \in Nat /\ Len(q) \in Nat /\ now \in Nat /\ now <= clock
    BY <1>5, <1>8
  <1>13. /\ b \in Seq(Nat) /\ Len(b) = Len(a) + 1 /\ b[Len(a) + 1] = now
         /\ \A i \in 1 .. Len(a) : b[i] = a[i] /\ a[i] \in Nat
    BY <1>8, <1>10, <1>12
  <1>14. /\ p \in Seq(Nat) /\ Len(p) = Len(q) + 1 /\ p[Len(q) + 1] = now
         /\ \A i \in 1 .. Len(q) : p[i] = q[i]
    BY <1>8, <1>11, <1>12
  <1>15. /\ Len(p) <= Limit /\ Len(p) <= Len(b) /\ Len(b) - Len(p) = Len(a) - Len(q)
    BY <1>6, <1>8, <1>9, <1>12, <1>13, <1>14
  <1>16. \A i \in 1 .. Len(p) : p[i] = b[Len(b) - Len(p) + i]
    <2>. SUFFICES ASSUME NEW i \in 1 .. Len(p) PROVE p[i] = b[Len(a) - Len(q) + i]
      BY <1>15
    <2>1. CASE i = Len(q) + 1
      BY <1>12, <1>13, <1>14, <2>1
    <2>2. CASE i # Len(q) + 1
      <3>1. i \in 1 .. Len(q) /\ Len(a) - Len(q) + i \in 1 .. Len(a)
        BY <1>8, <1>12, <1>14, <2>2
      <3>2. QED
        BY <1>8, <1>13, <1>14, <3>1
    <2>3. QED
      BY <2>1, <2>2
  <1>17. \A i \in 1 .. Len(b) - Len(p) : b[i] <= clock - Window
    <2>. SUFFICES ASSUME NEW i \in 1 .. Len(a) - Len(q) PROVE b[i] <= clock - Window
      BY <1>15
    <2>1. i \in 1 .. Len(a)
      BY <1>12
    <2>2. QED
      BY <1>8, <1>13, <2>1
  <1>18. \A i \in 1 .. Len(b) : b[i] <= clock
    <2>1. \A i \in 1 .. Len(a) : a[i] <= clock
      BY <1>7, <1>9 DEF AdmittedSound
    <2>2. QED
      BY <1>12, <1>13, <2>1
  <1>19. ASSUME NEW e \in 0 .. clock, NEW j \in Keys
         PROVE  Bounded(IF j = k THEN b ELSE admitted[j], thread', j, e)
    <2>1. /\ Bounded(admitted[j], thread, j, e) /\ admitted[j] \in Seq(Nat)
          /\ e \in Nat
      <3>1. WindowsBounded(j) /\ WindowIsEnd(j)
        BY DEF LimiterInv
      <3>2. e \in Nat
        BY <1>5
      <3>3. QED
        BY <3>1, <3>2 DEF WindowsBounded, WindowIsEnd
    <2>2. CASE j = k
      <3>1. Bounded(Append(a, now), [thread EXCEPT ![t] = r], k, e)
        BY <1>1, <1>2, <1>5, <1>7, <1>8, <1>12, <2>1, <2>2, ThroughOnce
      <3>2. QED
        BY <1>6, <1>10, <2>2, <3>1
    <2>3. CASE j # k
      BY <1>5, <1>6, <2>1, <2>3, HeldLess
    <2>4. QED
      BY <2>2, <2>3
  <1>20. /\ DOMAIN windows' = Keys /\ DOMAIN admitted' = Keys /\ DOMAIN told' = Keys
         /\ windows'[k] = p /\ admitted'[k] = b /\ told'[k] = Limiter!Never
         /\ \A j \in Keys : j # k =>
              /\ windows'[j] = windows[j] /\ admitted'[j] = admitted[j]
              /\ told'[j] = told[j]
    BY <1>5, <1>6, <1>7, <1>10, <1>11 DEF LimiterInv
  <1>21. ASSUME NEW j \in Keys PROVE WindowsBounded(j)'
    <2>1. \A e \in 0 .. clock : Bounded(admitted'[j], thread', j, e)
      BY <1>19, <1>20
    <2>2. QED
      BY <1>6, <2>1 DEF WindowsBounded, Bounded, Through, HeldUp
  <1>22. ASSUME NEW j \in Keys
         PROVE (WindowIsEnd(j) /\ AdmittedSound(j) /\ ToldSound(j))'
    <2>1. CASE j = k
      <3>1. WindowIsEnd(k)'
        <4>1. windows'[k] = p /\ admitted'[k] = b /\ clock' = clock
          BY <1>6, <1>20
        <4>2. /\ p \in Seq(Nat) /\ b \in Seq(Nat) /\ Len(p) <= Limit
              /\ Len(p) <= Len(b)
              /\ \A i \in 1 .. Len(p) : p[i] = b[Len(b) - Len(p) + i]
              /\ \A i \in 1 .. Len(b) - Len(p) : b[i] <= clock - Window
          BY <1>13, <1>14, <1>15, <1>16, <1>17
        <4>. DEFINE End(w, c, n) ==
               /\ w \in Seq(Nat) /\ c \in Seq(Nat)
               /\ Len(w) <= Limit /\ Len(w) <= Len(c)
               /\ \A i \in 1 .. Len(w) : w[i] = c[Len(c) - Len(w) + i]
               /\ \A i \in 1 .. Len(c) - Len(w) : c[i] <= n - Window
        <4>3. End(p, b, clock)
          BY <4>2
        <4>4. End(windows'[k], admitted'[k], clock') => WindowIsEnd(k)'
          BY DEF WindowIsEnd
        <4>. HIDE DEF End
        <4>5. QED
          BY <4>1, <4>3, <4>4
      <3>2. AdmittedSound(k)'
        BY <1>6, <1>18, <1>20 DEF AdmittedSound
      <3>3. ToldSound(k)'
        BY <1>20 DEF ToldSound, Limiter!Never
      <3>4. QED
        BY <2>1, <3>1, <3>2, <3>3
    <2>2. CASE j # k
      <3>1. WindowIsEnd(j) /\ AdmittedSound(j) /\ ToldSound(j)
        BY DEF LimiterInv
      <3>2. /\ windows'[j] = windows[j] /\ admitted'[j] = admitted[j]
            /\ told'[j] = told[j] /\ clock' = clock
        BY <1>6, <1>20, <2>2
      <3>3. WindowIsEnd(j)'
        BY <3>1, <3>2 DEF WindowIsEnd
      <3>4. AdmittedSound(j)'
        BY <3>1, <3>2 DEF AdmittedSound
      <3>5. ToldSound(j)'
        BY <3>1, <3>2 DEF ToldSound, Limiter!Never
      <3>6. QED
        BY <3>3, <3>4, <3>5
    <2>3. QED
      BY <2>1, <2>2
  <1>23. QED
    BY <1>5, <1>6, <1>20, <1>21, <1>22, ThreadSteps

\* The seconds a client is told reach beyond the first of the window.
LEMMA RetrySays ==
  ASSUME Limiter!LimiterAssumption, NEW q \in Seq(Nat), q # <<>>, NEW now \in Nat
  PROVE  /\ Limiter!RetryAfter(q, now) \in Nat \ {0}
         /\ q[1] + Window < now + Limiter!RetryAfter(q, now) * Second
  <1>1. q[1] \in Nat /\ Window \in Nat /\ Second \in Nat \ {0}
    BY DEF Limiter!LimiterAssumption
  <1>2. PICK n : n = q[1] + Window - now
    OBVIOUS
  <1>3. n \in Int
    BY <1>1, <1>2
  <1>4. PICK m : m = n \div Second
    OBVIOUS
  <1>5. m \in Int /\ n < Second * m + Second
    <2>1. \A a \in Int, b \in Nat \ {0} : a \div b \in Int /\ a < b * (a \div b) + b
      OBVIOUS
    <2>2. QED
      BY <1>1, <1>3, <1>4, <2>1
  <1>6. Limiter!RetryAfter(q, now) = IF m + 1 > 1 THEN m + 1 ELSE 1
    BY <1>2, <1>4 DEF Limiter!RetryAfter
  <1>7. (m + 1) * Second = Second * m + Second /\ Second * m \in Int
    BY <1>1, <1>5
  <1>8. CASE m + 1 > 1
    <2>1. Limiter!RetryAfter(q, now) = m + 1 /\ m + 1 \in Nat \ {0}
      BY <1>5, <1>6, <1>8
    <2>2. q[1] + Window < now + (m + 1) * Second
      BY <1>1, <1>2, <1>5, <1>7
    <2>3. QED
      BY <2>1, <2>2
  <1>9. CASE ~(m + 1 > 1)
    <2>1. Limiter!RetryAfter(q, now) = 1
      BY <1>6, <1>9
    <2>2. Second * m <= 0
      BY <1>1, <1>5, <1>9
    <2>3. q[1] + Window < now + 1 * Second
      BY SMTT(30), <1>1, <1>2, <1>5, <1>7, <2>2
    <2>4. QED
      BY <2>1, <2>3
  <1>10. QED
    BY <1>8, <1>9

\* A request is refused, and told when the oldest of the window leaves.
LEMMA Refuses ==
  ASSUME Limiter!LimiterAssumption, LimiterInv, NEW t \in Threads, Limiter!Refuse(t)
  PROVE  LimiterInv'
  <1>1. PICK k : k = thread[t].key
    OBVIOUS
  <1>2. PICK now : now = thread[t].now
    OBVIOUS
  <1>3. PICK q : q = Limiter!Evict(windows[k], now)
    OBVIOUS
  <1>4. PICK r : r = [thread[t] EXCEPT !.pc = "idle"]
    OBVIOUS
  <1>5. /\ Limiter!Waiting(t) /\ k \in Keys /\ now \in 0 .. clock /\ now \in Nat
        /\ clock \in Nat /\ DOMAIN thread = Threads
        /\ r \in [pc : {"idle", "read"}, key : Keys, now : 0 .. clock]
        /\ r.pc = "idle"
    BY <1>1, <1>2, <1>4, HasLock DEF Limiter!Refuse
  <1>6. PICK no : no = [at |-> now, wait |-> Limiter!RetryAfter(q, now)]
    OBVIOUS
  <1>7. /\ Len(q) >= Limit /\ clock' = clock /\ admitted' = admitted
        /\ windows' = [windows EXCEPT ![k] = q]
        /\ told' = [told EXCEPT ![k] = no]
        /\ thread' = [thread EXCEPT ![t] = r]
    BY <1>1, <1>2, <1>3, <1>4, <1>6 DEF Limiter!Refuse
  <1>8. /\ q \in Seq(Nat) /\ Len(q) <= Len(windows[k]) /\ Len(q) <= Len(admitted[k])
        /\ \A i \in 1 .. Len(q) : q[i] = admitted[k][Len(admitted[k]) - Len(q) + i]
        /\ \A i \in 1 .. Len(admitted[k]) - Len(q) :
                 admitted[k][i] <= clock - Window
    BY ZenonT(60), <1>3, <1>5, EvictedIsEnd
  <1>9. /\ AdmittedSound(k) /\ WindowIsEnd(k) /\ Limit \in Nat \ {0}
        /\ Len(windows[k]) <= Limit /\ admitted[k] \in Seq(Nat)
        /\ windows[k] \in Seq(Nat)
    BY <1>5 DEF LimiterInv, Limiter!LimiterAssumption, WindowIsEnd
  <1>10. q # <<>> /\ Len(q) <= Limit
    BY <1>7, <1>8, <1>9
  <1>11. /\ Limiter!RetryAfter(q, now) \in Nat \ {0}
         /\ q[1] + Window < now + Limiter!RetryAfter(q, now) * Second
    BY <1>5, <1>8, <1>10, RetrySays
  <1>12. /\ no.at \in Nat /\ no.wait \in Nat
         /\ q[1] + Window < no.at + no.wait * Second
    BY <1>5, <1>6, <1>11
  <1>13. /\ DOMAIN windows' = Keys /\ DOMAIN admitted' = Keys /\ DOMAIN told' = Keys
         /\ windows'[k] = q /\ told'[k] = no
         /\ \A j \in Keys : j # k => windows'[j] = windows[j] /\ told'[j] = told[j]
    BY <1>5, <1>7 DEF LimiterInv
  <1>14. ASSUME NEW j \in Keys
         PROVE (WindowIsEnd(j) /\ AdmittedSound(j) /\ ToldSound(j))'
    <2>1. AdmittedSound(j)'
      BY <1>7 DEF LimiterInv, AdmittedSound
    <2>2. CASE j = k
      <3>1. WindowIsEnd(k)'
        BY ZenonT(60), <1>7, <1>8, <1>9, <1>10, <1>13 DEF WindowIsEnd
      <3>2. ToldSound(k)'
        BY <1>10, <1>12, <1>13 DEF ToldSound
      <3>3. QED
        BY <2>1, <2>2, <3>1, <3>2
    <2>3. CASE j # k
      BY ZenonT(60), <1>7, <1>13, <2>1, <2>3 DEF LimiterInv, WindowIsEnd, ToldSound,
         Limiter!Never
    <2>4. QED
      BY <2>2, <2>3
  <1>15. ASSUME NEW j \in Keys PROVE WindowsBounded(j)'
    <2>1. \A e \in 0 .. clock : Bounded(admitted[j], thread, j, e) /\ e \in Nat
      BY <1>5 DEF LimiterInv, WindowsBounded
    <2>2. admitted[j] \in Seq(Nat)
      BY DEF LimiterInv, WindowIsEnd
    <2>3. \A e \in 0 .. clock : Bounded(admitted[j], thread', j, e)
      BY <1>5, <1>7, <2>1, <2>2, HeldLess
    <2>4. QED
      BY <1>7, <2>3 DEF WindowsBounded, Bounded, Through, HeldUp
  <1>16. QED
    BY <1>5, <1>7, <1>13, <1>14, <1>15, ThreadSteps

\* Every step of clock and threads.
LEMMA LimiterNext ==
  ASSUME Limiter!LimiterAssumption, LimiterInv, [Limiter!Next]_(Limiter!vars)
  PROVE  LimiterInv'
  <1>1. CASE Limiter!Next
    BY <1>1, Ticks, ReadsClock, Admits, Refuses DEF Limiter!Next
  <1>2. CASE UNCHANGED Limiter!vars
    <2>1. UNCHANGED <<clock, windows, thread, admitted, told>>
      BY <1>2 DEF Limiter!vars
    <2>2. ASSUME NEW k \in Keys
          PROVE  /\ (WindowIsEnd(k) /\ AdmittedSound(k) /\ ToldSound(k))'
                 /\ WindowsBounded(k)'
      <3>1. WindowIsEnd(k) /\ AdmittedSound(k) /\ ToldSound(k) /\ WindowsBounded(k)
        BY DEF LimiterInv
      <3>2. WindowIsEnd(k)' /\ AdmittedSound(k)'
        BY <2>1, <3>1 DEF WindowIsEnd, AdmittedSound
      <3>3. ToldSound(k)'
        BY <2>1, <3>1 DEF ToldSound, Limiter!Never
      <3>4. WindowsBounded(k)'
        BY <2>1, <3>1 DEF WindowsBounded, Bounded, Through, HeldUp
      <3>5. QED
        BY <3>2, <3>3, <3>4
    <2>3. QED
      BY <2>1, <2>2 DEF LimiterInv
  <1>3. QED
    BY <1>1, <1>2

\* The invariant tells the types and that the limit holds.
LEMMA LimiterSays ==
  ASSUME Limiter!LimiterAssumption, LimiterInv
  PROVE  Limiter!TypeOK /\ Limiter!LimitHolds
  <1>1. Limiter!TypeOK
    <2>1. clock \in 0 .. MaxClock /\ clock \in Nat
      BY DEF LimiterInv
    <2>2. ASSUME NEW k \in Keys
          PROVE  /\ Len(windows[k]) <= Limit
                 /\ \A i \in 1 .. Len(windows[k]) : windows[k][i] \in 0 .. clock
      <3>1. WindowIsEnd(k) /\ AdmittedSound(k)
        BY DEF LimiterInv
      <3>2. ASSUME NEW i \in 1 .. Len(windows[k]) PROVE windows[k][i] \in 0 .. clock
        <4>1. PICK j : j = Len(admitted[k]) - Len(windows[k]) + i
          OBVIOUS
        <4>2. /\ windows[k] \in Seq(Nat) /\ admitted[k] \in Seq(Nat)
              /\ Len(windows[k]) <= Len(admitted[k])
              /\ windows[k][i] = admitted[k][j]
          BY <3>1, <4>1 DEF WindowIsEnd
        <4>3. j \in 1 .. Len(admitted[k])
          <5>1. Len(windows[k]) \in Nat /\ Len(admitted[k]) \in Nat
            BY <4>2
          <5>2. \A x, y \in Nat : x <= y => \A z \in 1 .. x : y - x + z \in 1 .. y
            OBVIOUS
          <5>3. QED
            BY <4>1, <4>2, <5>1, <5>2
        <4>4. admitted[k][j] \in Nat /\ admitted[k][j] <= clock
          BY SMTT(30), <3>1, <4>2, <4>3 DEF AdmittedSound
        <4>5. QED
          BY <2>1, <4>2, <4>4
      <3>3. QED
        BY <3>1, <3>2 DEF WindowIsEnd
    <2>3. ASSUME NEW t \in Threads
          PROVE  /\ thread[t].pc \in {"idle", "read"} /\ thread[t].key \in Keys
                 /\ thread[t].now \in 0 .. clock
      <3>1. thread[t] \in [pc : {"idle", "read"}, key : Keys, now : 0 .. clock]
        BY DEF LimiterInv
      <3>2. QED
        BY <3>1
    <2>4. QED
      BY <2>1, <2>2, <2>3 DEF Limiter!TypeOK
  <1>2. ASSUME NEW k \in Keys
        PROVE  /\ Limiter!Within(admitted[k], clock - Window, clock) <= Limit
               /\ \A e \in 0 .. clock :
                    Limiter!Within(admitted[k], e - Window, e)
                      <= Limit + Limiter!Cardinality(Threads)
               /\ told[k] # Limiter!Never /\ clock >= told[k].at + told[k].wait * Second
                    => Len(Limiter!Evict(windows[k], clock)) < Limit
    <2>1. /\ WindowIsEnd(k) /\ AdmittedSound(k) /\ ToldSound(k) /\ WindowsBounded(k)
          /\ clock \in Nat
      BY DEF LimiterInv
    <2>2. /\ Limiter!Within(admitted[k], clock - Window, clock) <= Limit
          /\ \A e \in 0 .. clock :
               Limiter!Within(admitted[k], e - Window, e)
                 <= Limit + Limiter!Cardinality(Threads)
      <3>1. ASSUME NEW e
            PROVE  Limiter!Within(admitted[k], e - Window, e)
                     = Cardinality(Through(admitted[k], e))
        <4>1. Limiter!Within(admitted[k], e - Window, e)
                = Limiter!Cardinality(Through(admitted[k], e))
          BY DEF Limiter!Within, Through
        <4>2. QED
          BY <4>1, CountAlike
      <3>2. Cardinality(Through(admitted[k], clock)) <= Limit
        BY NowWithin
      <3>3. ASSUME NEW e \in 0 .. clock
            PROVE  Cardinality(Through(admitted[k], e)) <= Limit + Cardinality(Threads)
        <4>1. /\ Cardinality(Through(admitted[k], e)) \in Nat
              /\ Cardinality(HeldUp(thread, k, e)) \in Nat
              /\ Cardinality(Threads) \in Nat /\ Limit \in Nat
          <5>1. admitted[k] \in Seq(Nat) /\ e \in Nat /\ Limit \in Nat
            BY <2>1 DEF WindowIsEnd, Limiter!LimiterAssumption
          <5>2. QED
            BY <5>1, WindowSets
        <4>2. Bounded(admitted[k], thread, k, e)
          BY <2>1 DEF WindowsBounded
        <4>3. QED
          BY <4>1, <4>2 DEF Bounded
      <3>4. QED
        BY <3>1, <3>2, <3>3, CountAlike
    <2>3. ASSUME told[k] # Limiter!Never,
                 clock >= told[k].at + told[k].wait * Second
          PROVE  Len(Limiter!Evict(windows[k], clock)) < Limit
      <3>1. /\ windows[k] # <<>> /\ windows[k] \in Seq(Nat)
            /\ Len(windows[k]) <= Limit
            /\ told[k].at \in Nat /\ told[k].wait \in Nat /\ Second \in Nat
            /\ Window \in Nat
            /\ windows[k][1] + Window < told[k].at + told[k].wait * Second
        BY <2>1, <2>3 DEF ToldSound, WindowIsEnd, Limiter!LimiterAssumption
      <3>2. windows[k][1] \in Nat /\ told[k].wait * Second \in Nat
        BY SMTT(30), <3>1
      <3>3. windows[k][1] <= clock - Window
        <4>1. PICK x : x = told[k].wait * Second
          OBVIOUS
        <4>2. /\ x \in Nat /\ told[k].at \in Nat /\ Window \in Nat
              /\ windows[k][1] \in Nat
              /\ clock >= told[k].at + x /\ windows[k][1] + Window < told[k].at + x
          BY <2>3, <3>1, <3>2, <4>1
        <4>3. QED
          BY <2>1, <4>2
      <3>4. /\ Len(Limiter!Evict(windows[k], clock)) < Len(windows[k])
            /\ Limiter!Evict(windows[k], clock) \in Seq(Nat)
        BY <2>1, <3>1, <3>3, EvictSays
      <3>5. Limit \in Nat
        BY DEF Limiter!LimiterAssumption
      <3>6. QED
        BY <3>1, <3>4, <3>5
    <2>4. QED
      BY <2>2, <2>3
  <1>3. QED
    BY <1>1, <1>2 DEF Limiter!LimitHolds

-----------------------------------------------------------------------------
(* UrlProbe. *)

\* Induction: a set that has 0 and with a number its successor has them all.
LEMMA SetInduction ==
  ASSUME NEW S, 0 \in S, \A n \in Nat : n \in S => n + 1 \in S
  PROVE  Nat \subseteq S
  <1>1. SUFFICES ASSUME Nat \ S # {} PROVE FALSE
    OBVIOUS
  <1>2. PICK n \in Nat \ S : \A m \in Nat \ S : n <= m
    BY <1>1, LeastOf
  <1>3. n - 1 \in Nat /\ n - 1 \in S
    BY <1>2
  <1>4. QED
    BY <1>2, <1>3

\* What Deserves says of n requests and page p, if shorter probes deserve f.
DeservedBy(f, n, p) ==
  IF ~web[p].public \/ Probe!Cost(p) > n THEN "error"
  ELSE IF Probe!Says(p) # "redirect" THEN Probe!Report(Probe!Says(p))
  ELSE IF Probe!Cost(p) = n THEN "error"
  ELSE f[n - Probe!Cost(p)][web[p].to]

\* A page costs one request or two, so a verdict depends on shorter probes.
LEMMA DependsOnShorter ==
  ASSUME NEW n \in Nat, NEW p, NEW f, NEW g,
         \A m \in 0 .. n - 1 : f[m] = g[m]
  PROVE  DeservedBy(f, n, p) = DeservedBy(g, n, p)
  <1>1. Probe!Cost(p) \in {1, 2}
    BY DEF Probe!Cost
  <1>2. CASE Probe!Cost(p) > n
    BY <1>2 DEF DeservedBy
  <1>3. CASE Probe!Cost(p) = n
    BY <1>3 DEF DeservedBy
  <1>4. CASE Probe!Cost(p) < n
    <2>1. n - Probe!Cost(p) \in 0 .. n - 1
      BY <1>1, <1>4
    <2>2. f[n - Probe!Cost(p)] = g[n - Probe!Cost(p)]
      BY <2>1
    <2>3. QED
      BY <2>2, Zenon DEF DeservedBy
  <1>5. QED
    BY <1>1, <1>2, <1>3, <1>4

\* Probes of up to n requests have their verdicts, whatever n.
LEMMA VerdictsExist ==
  ASSUME NEW n \in Nat
  PROVE  \E f : f = [m \in 0 .. n |-> [p \in Targets |-> DeservedBy(f, m, p)]]
  <1> DEFINE Solves(f, k) ==
               f = [m \in 0 .. k |-> [p \in Targets |-> DeservedBy(f, m, p)]]
             S == {k \in Nat : \E f : Solves(f, k)}
  <1>1. 0 \in S
    <2> DEFINE e == [m \in 0 .. 0 |-> [p \in Targets |-> "error"]]
    <2>1. \A p : DeservedBy(e, 0, p) = "error"
      BY DEF DeservedBy, Probe!Cost
    <2>2. [m \in 0 .. 0 |-> [p \in Targets |-> DeservedBy(e, m, p)]] = e
      <3>1. \A m \in 0 .. 0 : [p \in Targets |-> DeservedBy(e, m, p)]
                               = [p \in Targets |-> "error"]
        BY <2>1
      <3> QED
        BY <3>1
    <2> QED
      BY <2>2
  <1>2. ASSUME NEW k \in Nat, k \in S PROVE k + 1 \in S
    <2>1. PICK f : Solves(f, k)
      BY <1>2
    <2> DEFINE g == [m \in 0 .. k + 1 |-> [p \in Targets |-> DeservedBy(f, m, p)]]
    <2>2. \A m \in 0 .. k : g[m] = f[m]
      <3>1. \A m \in 0 .. k : f[m] = [p \in Targets |-> DeservedBy(f, m, p)]
        BY <2>1
      <3>2. \A m \in 0 .. k : m \in 0 .. k + 1
        OBVIOUS
      <3> QED
        BY <3>1, <3>2
    <2>3. ASSUME NEW m \in 0 .. k + 1, NEW p \in Targets
          PROVE  DeservedBy(f, m, p) = DeservedBy(g, m, p)
      <3>1. m \in Nat /\ \A i \in 0 .. m - 1 : f[i] = g[i]
        <4>1. m \in Nat /\ \A i \in 0 .. m - 1 : i \in 0 .. k
          BY <1>2
        <4> HIDE DEF g
        <4>2. QED
          BY <2>2, <4>1
      <3> HIDE DEF g
      <3> QED
        BY <3>1, DependsOnShorter
    <2>4. Solves(g, k + 1)
      BY <2>3
    <2>5. \E h : Solves(h, k + 1)
      <3> HIDE DEF Solves, g
      <3> QED
        BY <2>4
    <2> QED
      BY <2>5
  <1>3. n \in S
    <2> HIDE DEF S
    <2> QED
      BY <1>1, <1>2, SetInduction
  <1> QED
    BY <1>3

\* The recursive definition of Deserves holds for every number of requests.
LEMMA DeservesUnfolds ==
  ASSUME Probe!ProbeAssumption, NEW n \in 0 .. MaxRequests, NEW p \in Targets
  PROVE  Probe!Deserves[n][p] = DeservedBy(Probe!Deserves, n, p)
  <1> DEFINE Solves(f) ==
               f = [m \in 0 .. MaxRequests |-> [q \in Targets |-> DeservedBy(f, m, q)]]
  <1>1. \E f : Solves(f)
    BY VerdictsExist DEF Probe!ProbeAssumption
  <1>2. Probe!Deserves = CHOOSE f : Solves(f)
    BY DEF Probe!Deserves, DeservedBy
  <1>3. Solves(Probe!Deserves)
    <2> HIDE DEF Solves
    <2> QED
      BY <1>1, <1>2
  <1>4. Probe!Deserves[n] = [q \in Targets |-> DeservedBy(Probe!Deserves, n, q)]
    BY <1>3
  <1> QED
    BY <1>4

\* What the probe may still spend on the page it is at, counted from that
\* page's HEAD.
Purse == IF method = "HEAD" THEN MaxRequests - hop ELSE MaxRequests - hop + 1

\* The page the probe is at deserves, for what is left, the verdict that the
\* submitted url deserves; a GET follows a HEAD that was not allowed.
ProbeInv ==
  /\ Probe!TypeOK
  /\ result = "none" =>
       /\ Probe!Deserves[MaxRequests][start] = Probe!Deserves[Purse][at]
       /\ IF method = "HEAD" THEN hop < MaxRequests
          ELSE hop > 0 /\ web[at].public /\ web[at].head = "405"
  /\ Probe!ProbeAgrees

\* Before the first request everything is left.
LEMMA ProbeInit ==
  ASSUME Probe!ProbeAssumption, Probe!Init
  PROVE  ProbeInv
  <1>1. Probe!TypeOK
    BY DEF Probe!Init, Probe!TypeOK, Probe!ProbeAssumption
  <1>2. Purse = MaxRequests
    BY DEF Purse, Probe!Init, Probe!ProbeAssumption
  <1>3. QED
    BY <1>1, <1>2 DEF ProbeInv, Probe!Init, Probe!ProbeAssumption, Probe!ProbeAgrees

\* What the pages deserve does not change while a probe runs.
LEMMA SameWeb ==
  ASSUME web' = web
  PROVE  Probe!Deserves' = Probe!Deserves
  BY DEF Probe!Deserves, Probe!Says, Probe!Cost

\* Where the probe stands, in the terms of what its page deserves.
LEMMA AtPage ==
  ASSUME Probe!ProbeAssumption, ProbeInv, result = "none"
  PROVE  /\ Purse \in 1 .. MaxRequests
         /\ Probe!Deserves[MaxRequests][start] = DeservedBy(Probe!Deserves, Purse, at)
         /\ Probe!Says(at) = IF method = "HEAD" /\ Probe!Answer # "405"
                             THEN Probe!Answer ELSE web[at].get
         /\ method = "GET" => /\ Probe!Cost(at) = 2 /\ web[at].public
                              /\ Probe!Says(at) = Probe!Answer
  <1>1. Purse \in 1 .. MaxRequests
    BY DEF Purse, ProbeInv, Probe!TypeOK, Probe!ProbeAssumption
  <1>2. at \in Targets /\ method \in {"HEAD", "GET"}
    BY DEF ProbeInv, Probe!TypeOK
  <1>3. Probe!Deserves[Purse][at] = DeservedBy(Probe!Deserves, Purse, at)
    BY <1>1, <1>2, DeservesUnfolds
  <1>4. QED
    BY <1>1, <1>2, <1>3 DEF ProbeInv, Probe!Says, Probe!Cost, Probe!Answer

\* A verdict is given for a page whose redirect is not followed.
LEMMA Ends ==
  ASSUME Probe!ProbeAssumption, ProbeInv,
         Probe!Blocked \/ Probe!TooManyRedirects \/ Probe!Answered
           \/ Probe!TooManyRequests
  PROVE  result' = Probe!Deserves[MaxRequests][start]
  <1> USE DEF Probe!End
  <1>1. CASE Probe!Blocked
    BY <1>1, AtPage DEF Probe!Blocked, DeservedBy
  <1>2. CASE Probe!TooManyRedirects
    BY <1>2, AtPage DEF Probe!TooManyRedirects, Probe!Ask, DeservedBy, Purse,
       Probe!Cost, Probe!Answer, ProbeInv, Probe!TypeOK, Probe!ProbeAssumption
  <1>3. CASE Probe!Answered
    BY <1>3, AtPage DEF Probe!Answered, Probe!Ask, DeservedBy, Purse,
       Probe!Cost, Probe!Answer, ProbeInv, Probe!TypeOK, Probe!ProbeAssumption
  <1>4. CASE Probe!TooManyRequests
    BY <1>4, AtPage DEF Probe!TooManyRequests, DeservedBy, Purse,
       ProbeInv, Probe!TypeOK, Probe!ProbeAssumption
  <1>5. QED
    BY <1>1, <1>2, <1>3, <1>4

\* A redirect that is followed leads to the page whose verdict counts, and the
\* requests for the page before are spent.
LEMMA Follows ==
  ASSUME Probe!ProbeAssumption, ProbeInv, Probe!Redirected
  PROVE  Probe!Deserves[MaxRequests][start] = Probe!Deserves[Purse'][at']
  <1>1. Purse' = Purse - Probe!Cost(at) /\ Probe!Says(at) = "redirect"
    BY AtPage DEF Probe!Redirected, Probe!Ask, Purse, Probe!Cost, Probe!Answer,
       ProbeInv, Probe!TypeOK, Probe!ProbeAssumption
  <1>2. Purse' \in Nat /\ Purse' > 0 /\ Probe!Cost(at) \in {1, 2}
    BY DEF Purse, Probe!Redirected, Probe!Ask, ProbeInv, Probe!TypeOK,
       Probe!ProbeAssumption, Probe!Cost
  <1>3. web[at].public /\ at' = web[at].to
    BY DEF Probe!Redirected, Probe!Ask
  <1>4. result = "none"
    BY DEF Probe!Redirected, Probe!Ask
  <1>5. Purse \in Nat
    BY <1>4, AtPage
  <1>6. DeservedBy(Probe!Deserves, Purse, at) = Probe!Deserves[Purse'][at']
    BY <1>1, <1>2, <1>3, <1>5 DEF DeservedBy
  <1>7. QED
    BY <1>4, <1>6, AtPage

\* Every step of the probe keeps its types.
LEMMA ProbeTypes ==
  ASSUME Probe!ProbeAssumption, Probe!TypeOK, Probe!Next
  PROVE  Probe!TypeOK'
  <1>1. web[at] \in Probe!Page /\ web[at].to \in Targets
        /\ Probe!Answer \in Probe!Answers
    BY DEF Probe!TypeOK, Probe!Page, Probe!Answer
  <1>2. Probe!Report(Probe!Answer) \in Probe!Results
    BY <1>1 DEF Probe!Report, Probe!Answers, Probe!Results
  <1>3. QED
    BY <1>1, <1>2 DEF Probe!TypeOK, Probe!Next, Probe!Blocked, Probe!NotAllowed,
       Probe!Redirected, Probe!TooManyRedirects, Probe!Answered,
       Probe!TooManyRequests, Probe!Ask, Probe!End, Probe!Results,
       Probe!ProbeAssumption

\* Every step keeps the verdict in sight.
LEMMA ProbeNext ==
  ASSUME Probe!ProbeAssumption, ProbeInv, [Probe!Next]_(Probe!vars)
  PROVE  ProbeInv'
  <1>1. CASE UNCHANGED Probe!vars
    <2>1. Probe!Deserves' = Probe!Deserves
      BY <1>1, SameWeb DEF Probe!vars
    <2>2. QED
      BY <1>1, <2>1 DEF Probe!vars, ProbeInv, Probe!TypeOK, Probe!ProbeAgrees, Purse
  <1>2. CASE Probe!Next
    <2>1. Probe!TypeOK' /\ web' = web /\ start' = start /\ result = "none"
      BY <1>2, ProbeTypes DEF ProbeInv, Probe!Next, Probe!Blocked, Probe!NotAllowed,
         Probe!Redirected, Probe!TooManyRedirects, Probe!Answered,
         Probe!TooManyRequests, Probe!Ask, Probe!End
    <2>2. Probe!Deserves' = Probe!Deserves
      BY <2>1, SameWeb
    <2>3. \A p \in asked' : web'[p].public
      BY <1>2 DEF ProbeInv, Probe!ProbeAgrees, Probe!Next, Probe!Blocked,
         Probe!NotAllowed, Probe!Redirected, Probe!TooManyRedirects,
         Probe!Answered, Probe!TooManyRequests, Probe!Ask, Probe!End
    <2>4. CASE Probe!NotAllowed
      <3>1. Purse' = Purse
        BY <2>4 DEF Purse, Probe!NotAllowed, Probe!Ask, ProbeInv, Probe!TypeOK,
           Probe!ProbeAssumption
      <3>2. QED
        BY <2>1, <2>2, <2>3, <2>4, <3>1 DEF ProbeInv, Probe!NotAllowed, Probe!Ask,
           Probe!Answer, Probe!ProbeAgrees, Probe!TypeOK
    <2>5. CASE Probe!Redirected
      <3>1. Probe!Deserves[MaxRequests][start] = Probe!Deserves[Purse'][at']
        BY <2>5, Follows
      <3>2. method' = "HEAD" /\ hop' < MaxRequests /\ result' = "none"
        BY <2>5 DEF Probe!Redirected, Probe!Ask
      <3>3. QED
        BY <2>1, <2>2, <2>3, <3>1, <3>2 DEF ProbeInv, Probe!ProbeAgrees
    <2>6. CASE Probe!Blocked \/ Probe!TooManyRedirects \/ Probe!Answered
                 \/ Probe!TooManyRequests
      <3>1. result' = Probe!Deserves[MaxRequests][start]
        BY <2>6, Ends
      <3>2. result' # "none"
        <4>1. Probe!Answer \in Probe!Answers
          BY DEF ProbeInv, Probe!TypeOK, Probe!Page, Probe!Answer
        <4>2. Probe!Report(Probe!Answer) # "none"
          BY <4>1 DEF Probe!Report, Probe!Answers
        <4>3. QED
          BY <2>6, <4>2 DEF Probe!Blocked, Probe!TooManyRedirects, Probe!Answered,
             Probe!TooManyRequests, Probe!End
      <3>3. QED
        BY <2>1, <2>2, <2>3, <3>1, <3>2 DEF ProbeInv, Probe!ProbeAgrees
    <2>7. QED
      BY <1>2, <2>4, <2>5, <2>6 DEF Probe!Next
  <1>3. QED
    BY <1>1, <1>2

\* The requests a probe has left, and one step for the verdict.
StepsLeft == IF result = "none" THEN MaxRequests - hop + 1 ELSE 0

\* Every step spends a request or gives the verdict.
LEMMA ProbeSpends ==
  ASSUME Probe!ProbeAssumption, Probe!TypeOK, Probe!Next
  PROVE  StepsLeft' \in Nat /\ StepsLeft' < StepsLeft
  BY DEF StepsLeft, Probe!TypeOK, Probe!Next, Probe!Blocked, Probe!NotAllowed,
     Probe!Redirected, Probe!TooManyRedirects, Probe!Answered,
     Probe!TooManyRequests, Probe!Ask, Probe!End, Probe!ProbeAssumption,
     Probe!Results

-----------------------------------------------------------------------------
(* The pipeline. *)

\* A step is one of the scene's component, or a stutter.
LEMMA OneScene ==
  ASSUME [Next]_vars
  PROVE  /\ scene' = scene
         /\ scene = "intake" => [IntakeP!Next]_(IntakeP!vars)
         /\ scene = "scripts" => [ScriptsP!Next]_(ScriptsP!vars)
         /\ scene = "bundle" => [BundleP!Next]_(BundleP!vars)
         /\ scene = "overlapped" => [OverlappedP!Next]_(OverlappedP!vars)
         /\ scene = "admission" => [Admission!Next]_(Admission!vars)
         /\ scene = "links" => [Links!Next]_(Links!vars)
         /\ scene = "pages" => [Pages!Next]_(Pages!vars)
         /\ scene = "limiter" => [Limiter!Next]_(Limiter!vars)
         /\ scene = "probe" => [Probe!Next]_(Probe!vars)
  <1>1. CASE UNCHANGED vars
    BY <1>1 DEF vars, ingestionVars, bundleVars, admissionVars, linkVars, pageVars,
       limiterVars, probeVars, IntakeP!vars, ScriptsP!vars, BundleP!vars,
       OverlappedP!vars, Admission!vars, Links!vars, Pages!vars, Limiter!vars,
       Probe!vars
  <1>2. CASE Next /\ ~UNCHANGED vars
    BY <1>2, IntakeSame, ScriptsSame, BundleSame, OverlappedSame DEF Next, Ended
  <1>3. QED
    BY <1>1, <1>2

\* The invariant of the component whose scene it is.
PipelineInv ==
  /\ scene = "intake" => IntakeP!TablesInv
  /\ scene = "scripts" => ScriptsP!ScriptsInv
  /\ scene = "bundle" => BundleP!SerialInv
  /\ scene = "overlapped" => OverlappedP!BundleInv
  /\ scene = "admission" => AdmissionInv
  /\ scene = "links" => LinksInv
  /\ scene = "pages" => PagesInv
  /\ scene = "limiter" => LimiterInv
  /\ scene = "probe" => ProbeInv

\* What the proofs of the components assume of the constants.
LEMMA Assumed ==
  /\ IntakeP!IngestionAssumption /\ ScriptsP!IngestionAssumption
  /\ BundleP!BundleAssumption /\ OverlappedP!BundleAssumption
  /\ ScriptsP!Serially
  /\ Admission!AdmissionAssumption /\ Links!LinksAssumption
  /\ Pages!PagesAssumption /\ Limiter!LimiterAssumption
  /\ Probe!ProbeAssumption
  <1>1. ScriptsP!Serially
    BY DEF ScriptsP!Serially
  <1>2. QED
    BY <1>1, PipelineAssumption, IntakeSame, ScriptsSame, BundleSame, OverlappedSame

\* The first state of each scene.
LEMMA PipelineInitInv == ASSUME Init PROVE PipelineInv
  <1>1. ASSUME scene = "intake" PROVE IntakeP!TablesInv
    <2>1. IntakeP!Init
      BY <1>1, IntakeSame DEF Init
    <2>2. QED
      BY <2>1, Assumed, IntakeP!TablesInit
  <1>2. ASSUME scene = "scripts" PROVE ScriptsP!ScriptsInv
    <2>1. ScriptsP!Init
      BY <1>2, ScriptsSame DEF Init
    <2>2. QED
      BY <2>1, Assumed, ScriptsP!ScriptsInit
  <1>3. ASSUME scene = "bundle" PROVE BundleP!SerialInv
    <2>1. BundleP!Init
      BY <1>3, BundleSame DEF Init
    <2>2. QED
      BY <2>1, Assumed, BundleP!SerialInit
  <1>4. ASSUME scene = "overlapped" PROVE OverlappedP!BundleInv
    <2>1. OverlappedP!Init
      BY <1>4, OverlappedSame DEF Init
    <2>2. QED
      BY <2>1, Assumed, OverlappedP!BundleInit
  <1>5. scene = "admission" => AdmissionInv
    BY Assumed, AdmissionInit DEF Init
  <1>6. scene = "links" => LinksInv
    BY Assumed, LinksInit DEF Init
  <1>7. scene = "pages" => PagesInv
    BY Assumed, PagesInit DEF Init
  <1>8. scene = "limiter" => LimiterInv
    BY Assumed, LimiterInit DEF Init
  <1>9. scene = "probe" => ProbeInv
    BY Assumed, ProbeInit DEF Init
  <1>10. QED
    BY <1>1, <1>2, <1>3, <1>4, <1>5, <1>6, <1>7, <1>8, <1>9 DEF PipelineInv

\* Each step keeps the invariant of its scene; the others have no values.
LEMMA PipelineNextInv ==
  ASSUME PipelineInv, [Next]_vars PROVE PipelineInv'
  <1>1. ASSUME scene = "intake" PROVE IntakeP!TablesInv'
    <2>1. IntakeP!TablesInv /\ [IntakeP!Next]_(IntakeP!vars)
      BY <1>1, OneScene DEF PipelineInv
    <2>2. QED
      BY <2>1, Assumed, IntakeP!TablesNext
  <1>2. ASSUME scene = "scripts" PROVE ScriptsP!ScriptsInv'
    <2>1. ScriptsP!ScriptsInv /\ [ScriptsP!Next]_(ScriptsP!vars)
      BY <1>2, OneScene DEF PipelineInv
    <2>2. QED
      BY <2>1, Assumed, ScriptsP!ScriptsNext
  <1>3. ASSUME scene = "bundle" PROVE BundleP!SerialInv'
    <2>1. BundleP!SerialInv /\ [BundleP!Next]_(BundleP!vars)
      BY <1>3, OneScene DEF PipelineInv
    <2>2. QED
      BY <2>1, Assumed, BundleP!SerialNext
  <1>4. ASSUME scene = "overlapped" PROVE OverlappedP!BundleInv'
    <2>1. OverlappedP!BundleInv /\ [OverlappedP!Next]_(OverlappedP!vars)
      BY <1>4, OneScene DEF PipelineInv
    <2>2. QED
      BY <2>1, Assumed, OverlappedP!BundleNext
  <1>5. scene = "admission" => AdmissionInv'
    BY Assumed, OneScene, AdmissionNext DEF PipelineInv
  <1>6. scene = "links" => LinksInv'
    BY Assumed, OneScene, LinksNext DEF PipelineInv
  <1>7. scene = "pages" => PagesInv'
    BY Assumed, OneScene, PagesNext DEF PipelineInv
  <1>8. scene = "limiter" => LimiterInv'
    BY Assumed, OneScene, LimiterNext DEF PipelineInv
  <1>9. scene = "probe" => ProbeInv'
    BY Assumed, OneScene, ProbeNext DEF PipelineInv
  <1>10. scene' = scene
    BY OneScene
  <1>11. QED
    BY <1>1, <1>2, <1>3, <1>4, <1>5, <1>6, <1>7, <1>8, <1>9, <1>10 DEF PipelineInv

\* The inductive invariant holds in every state.
LEMMA PipelineInductive == Spec => []PipelineInv
  BY PipelineInitInv, PipelineNextInv, PTL DEF Spec

-----------------------------------------------------------------------------
\* The variables of every component keep their types.
THEOREM TypesAreKept == Spec => []TypeOK
  <1>1. IntakeP!TablesInv => Intake!TypeOK
    BY IntakeSame DEF IntakeP!TablesInv
  <1>2. ScriptsP!ScriptsInv => Scripts!TypeOK
    BY ScriptsSame DEF ScriptsP!ScriptsInv, ScriptsP!TablesInv
  <1>3. BundleP!SerialInv => Bundle!TypeOK
    BY BundleSame, BundleP!BundleSays DEF BundleP!SerialInv
  <1>4. OverlappedP!BundleInv => Overlapped!TypeOK
    BY OverlappedSame, OverlappedP!BundleSays
  <1>5. AdmissionInv => Admission!TypeOK
    BY Assumed, AdmissionSays
  <1>6. LinksInv => Links!TypeOK
    BY DEF LinksInv
  <1>7. PagesInv => Pages!TypeOK
    BY DEF PagesInv
  <1>8. LimiterInv => Limiter!TypeOK
    BY Assumed, LimiterSays
  <1>9. ProbeInv => Probe!TypeOK
    BY DEF ProbeInv
  <1>10. PipelineInv => TypeOK
    BY <1>1, <1>2, <1>3, <1>4, <1>5, <1>6, <1>7, <1>8, <1>9 DEF PipelineInv, TypeOK
  <1>11. QED
    BY <1>10, PipelineInductive, PTL

\* Seed scripts that run one after another, die anywhere and start again store
\* every candidate, text and claim once: they look up before they insert.
THEOREM ScriptsInsertOnce == Spec => []ScriptsAreIdempotent
  <1>1. ScriptsP!ScriptsInv => Scripts!ScriptsAreIdempotent
    BY ScriptsSame DEF ScriptsP!ScriptsInv
  <1>2. PipelineInv => ScriptsAreIdempotent
    BY <1>1 DEF PipelineInv, ScriptsAreIdempotent
  <1>3. QED
    BY <1>2, PipelineInductive, PTL

\* One session after another leaves a bundle that is not curated exact; and
\* where the backfill overlaps requests, every link still has its source.
THEOREM BundlesFollowSources == Spec => []BundleFollowsSources
  <1>1. BundleP!SerialInv => Bundle!BundleIsCurrent
    BY BundleSame DEF BundleP!SerialInv
  <1>2. OverlappedP!BundleInv => Overlapped!LinksAreBacked
    BY OverlappedSame, OverlappedP!BundleSays
  <1>3. PipelineInv => BundleFollowsSources
    BY <1>1, <1>2 DEF PipelineInv, BundleFollowsSources
  <1>4. QED
    BY <1>3, PipelineInductive, PTL

\* Whatever batch, single request or script attached it, verification evidence
\* is a content page that is not social and not partisan by the publisher and the
\* host it is stored with, but for rows that came round the policy; and once a
\* backfill has committed, partisan ones among these are flagged.
THEOREM VerificationIsNeutral == Spec => []EvidenceIsAdmissible
  <1>1. PipelineInv => EvidenceIsAdmissible
    BY Assumed, AdmissionSays DEF PipelineInv, EvidenceIsAdmissible
  <1>2. QED
    BY <1>1, PipelineInductive, PTL

\* The reviewer who applies a bulk request is not the one who approved it.
THEOREM BulksHaveTwoReviewers == Spec => []BulkHasTwoReviewers
  <1>1. PipelineInv => BulkHasTwoReviewers
    BY Assumed, AdmissionSays DEF PipelineInv, BulkHasTwoReviewers
  <1>2. QED
    BY <1>1, PipelineInductive, PTL

\* The event of a bulk request accounts for every row it made, although each item
\* has a transaction of its own, others attach the same urls and delete rows
\* between two of them, and there is no event if nobody applied the request.
THEOREM EventsCountRows == Spec => []AuditCountsRows
  <1>1. PipelineInv => AuditCountsRows
    BY Assumed, AdmissionSays DEF PipelineInv, AuditCountsRows
  <1>2. QED
    BY <1>1, PipelineInductive, PTL

\* A suggestion is attachable only where exactly one record was found, or a
\* document's own text has the claim's context, and is offered once.
THEOREM SuggestionsAreCertain == Spec => []AttachableIsCertain
  <1>1. PipelineInv => AttachableIsCertain
    BY Assumed, LinksSay DEF PipelineInv, AttachableIsCertain
  <1>2. QED
    BY <1>1, PipelineInductive, PTL

\* An item of a public page whose claim is not public was withdrawn while the page
\* was being read, and the claim of one that misses a class of evidence was withdrawn
\* too or has a flagged row, flagged then or long before; whichever of the claims
\* of one moment the page picked.
THEOREM GapsAreExplained == Spec => []GapsHaveReasons
  <1>1. PipelineInv => GapsHaveReasons
    BY Assumed, PagesSay DEF PipelineInv, GapsHaveReasons
  <1>2. QED
    BY <1>1, PipelineInductive, PTL

\* A score, rounded three times and once more, is off by a millionth at most.
THEOREM ScoresAreRounded == Spec => []ScoreIsExact
  <1>1. ScoreIsExact
    BY Assumed, ScoresAreExact DEF ScoreIsExact
  <1>2. QED
    BY <1>1, PTL

\* However long threads are held up before the lock: of the requests that arrived
\* within the last window no more than the limit are through, no window's limit is
\* exceeded by more than one request for each thread, and a client that waits as
\* long as it was told is let through.
THEOREM LimitIsKept == Spec => []LimitHolds
  <1>1. PipelineInv => LimitHolds
    BY Assumed, LimiterSays DEF PipelineInv, LimitHolds
  <1>2. QED
    BY <1>1, PipelineInductive, PTL

\* Whatever mixture of redirects and pages without HEAD a url leads through, for
\* any number of requests, the verdict is the one the recursive definition gives,
\* and no page that was not accepted is asked.
THEOREM VerdictsAreDeserved == Spec => []ProbeAgrees
  <1>1. PipelineInv => ProbeAgrees
    BY DEF PipelineInv, ProbeInv, ProbeAgrees
  <1>2. QED
    BY <1>1, PipelineInductive, PTL

\* No probe takes more steps than it may make requests, and one: each step makes
\* a natural number smaller, redirects in a circle included.
THEOREM ProbesAreBounded ==
  Spec => [][scene = "probe" => StepsLeft' \in Nat /\ StepsLeft' < StepsLeft]_probeVars
  <1>1. ASSUME PipelineInv, [Next]_vars
        PROVE  [scene = "probe" => StepsLeft' \in Nat
                                   /\ StepsLeft' < StepsLeft]_probeVars
    <2>1. ASSUME scene = "probe", ~UNCHANGED probeVars
          PROVE  StepsLeft' \in Nat /\ StepsLeft' < StepsLeft
      <3>1. Probe!Next
        BY <1>1, <2>1, OneScene DEF probeVars, Probe!vars
      <3>2. Probe!TypeOK
        BY <1>1, <2>1 DEF PipelineInv, ProbeInv
      <3>3. QED
        BY <3>1, <3>2, Assumed, ProbeSpends
    <2>2. QED
      BY <2>1
  <1>2. QED
    BY <1>1, PipelineInductive, PTL DEF Spec
=============================================================================
