--------------------------- MODULE IngestionProofs ---------------------------
(***************************************************************************)
(* The tables keep their types whatever scripts and requests do, and       *)
(* scripts that run one after another insert nothing twice.                *)
(***************************************************************************)
EXTENDS Ingestion, FiniteSetTheorems, TLAPS

\* What a process has read is of the types of the tables, and is still there.
Holds(v) ==
  /\ v.pc \in {"idle", "roster", "statements", "extract", "update"}
  /\ v.pc = "roster" =>
       /\ v.plan \in [Roster -> Candidates \cup {None}]
       /\ \A r \in Roster : v.plan[r] # None => candidate[v.plan[r]] # None
  /\ v.pc = "statements" => v.row \in StatementRow
  /\ v.pc = "extract" => \A s \in v.todo : s \in Statements /\ statement[s] # None
  /\ v.pc = "update" =>
       /\ v.of \in Candidates /\ candidate[v.of] # None
       /\ v.from \in CandidateRow /\ v.to \in CandidateRow

TablesInv ==
  /\ TypeOK
  /\ IsFiniteSet(claims)
  /\ proc = [p \in Processes |-> proc[p]]
  /\ \A p \in Processes : Holds(proc[p])

-----------------------------------------------------------------------------
\* A process that has nothing under way.
LEMMA IdleHolds == Holds(Idle)
  BY DEF Holds, Idle

\* Empty tables.
LEMMA TablesInit ==
  ASSUME IngestionAssumption, Init
  PROVE  TablesInv
  <1>1. TypeOK /\ IsFiniteSet(claims)
    BY FS_EmptySet DEF Init, TypeOK
  <1>2. proc = [p \in Processes |-> Idle]
    BY DEF Init
  <1>3. QED
    BY <1>1, <1>2, IdleHolds DEF TablesInv

\* Rows are changed and added, never deleted: what a process holds stays good.
LEMMA HoldsOn ==
  ASSUME \A c \in Candidates : candidate[c] # None => candidate'[c] # None,
         \A s \in Statements : statement[s] # None => statement'[s] # None,
         NEW v, Holds(v)
  PROVE  Holds(v)'
  BY DEF Holds

\* A step of process p that moves it to a state that is good.
LEMMA ProcStep ==
  ASSUME TablesInv, TypeOK', IsFiniteSet(claims'),
         \A c \in Candidates : candidate[c] # None => candidate'[c] # None,
         \A s \in Statements : statement[s] # None => statement'[s] # None,
         NEW p \in Processes, NEW v, proc' = [proc EXCEPT ![p] = v], Holds(v)'
  PROVE  TablesInv'
  <1>1. proc' = [q \in Processes |-> proc'[q]] /\ proc'[p] = v
    BY DEF TablesInv
  <1>2. \A q \in Processes : q # p => proc'[q] = proc[q]
    BY DEF TablesInv
  <1>3. \A q \in Processes : Holds(proc[q])'
    <2>. SUFFICES ASSUME NEW q \in Processes PROVE Holds(proc[q])'
      OBVIOUS
    <2>1. CASE q = p
      BY <1>1, <2>1 DEF Holds
    <2>2. CASE q # p
      <3>1. Holds(proc[q])
        BY DEF TablesInv
      <3>2. proc'[q] = proc[q]
        BY <1>2, <2>2
      <3>3. QED
        BY <3>1, <3>2 DEF Holds
    <2>3. QED
      BY <2>1, <2>2
  <1>4. QED
    BY <1>1, <1>3 DEF TablesInv

\* A request that is one step.
LEMMA RequestStep ==
  ASSUME TablesInv, TypeOK', IsFiniteSet(claims'), proc' = proc,
         \A c \in Candidates : candidate[c] # None => candidate'[c] # None,
         \A s \in Statements : statement[s] # None => statement'[s] # None
  PROVE  TablesInv'
  BY DEF TablesInv, Holds

\* The image of a finite set under a function on it.
LEMMA FiniteImage ==
  ASSUME NEW S, IsFiniteSet(S), NEW f, f = [x \in S |-> f[x]]
  PROVE  IsFiniteSet({f[x] : x \in S})
  <1>1. f \in Surjection(S, {f[x] : x \in S})
    BY DEF Surjection
  <1>2. QED
    BY <1>1, FS_Surjection

\* The claims of one extraction.
LEMMA ExtractStep ==
  ASSUME IngestionAssumption, TablesInv, UNCHANGED <<candidate, statement>>,
         NEW s \in Statements, statement[s] # None, Extract(s)
  PROVE  TypeOK' /\ IsFiniteSet(claims')
  <1>. DEFINE text == statement[s].text
              round == Cardinality({k.round : k \in Extracted(s)}) + 1
              row(x) == [statement |-> s, sentence |-> x, round |-> round,
                         checkable |-> FactCheckable(x)]
  <1>1. text \in Texts
    BY DEF TablesInv, TypeOK, StatementRow
  <1>2. /\ IsFiniteSet(SentencesOf[text])
        /\ SentencesOf[text] \subseteq DOMAIN Features
    BY <1>1 DEF IngestionAssumption
  <1>3. round \in Nat
    <2>1. IsFiniteSet(Extracted(s))
      BY FS_Subset DEF TablesInv, Extracted
    <2>2. IsFiniteSet({k.round : k \in Extracted(s)})
      <3>. DEFINE f == [k \in Extracted(s) |-> k.round]
      <3>1. f = [k \in Extracted(s) |-> f[k]]
        OBVIOUS
      <3>2. {f[k] : k \in Extracted(s)} = {k.round : k \in Extracted(s)}
        OBVIOUS
      <3>. HIDE DEF f
      <3>3. IsFiniteSet({f[k] : k \in Extracted(s)})
        BY <2>1, <3>1, FiniteImage
      <3>4. QED
        BY <3>2, <3>3
    <2>3. QED
      BY <2>2, FS_CardinalityType
  <1>. HIDE DEF round
  <1>4. IsFiniteSet({row(x) : x \in SentencesOf[text]})
    <2>. DEFINE f == [x \in SentencesOf[text] |-> row(x)]
    <2>1. f = [x \in SentencesOf[text] |-> f[x]]
      OBVIOUS
    <2>. HIDE DEF text
    <2>2. {f[x] : x \in SentencesOf[text]} = {row(x) : x \in SentencesOf[text]}
      OBVIOUS
    <2>. HIDE DEF f
    <2>3. IsFiniteSet({f[x] : x \in SentencesOf[text]})
      BY <1>2, <2>1, FiniteImage
    <2>4. QED
      BY <2>2, <2>3
  <1>5. claims' = claims \/ claims' = claims \cup {row(x) : x \in SentencesOf[text]}
    BY DEF Extract, round
  <1>6. IsFiniteSet(claims')
    BY <1>4, <1>5, FS_Union DEF TablesInv
  <1>7. ASSUME NEW k \in {row(x) : x \in SentencesOf[text]}
        PROVE  /\ k \in [statement : Statements, sentence : DOMAIN Features,
                         round : Nat, checkable : BOOLEAN]
               /\ k.checkable = FactCheckable(k.sentence)
    <2>1. PICK x \in SentencesOf[text] : k = row(x)
      BY <1>7
    <2>2. x \in DOMAIN Features /\ FactCheckable(x) \in BOOLEAN
      BY <1>2 DEF FactCheckable
    <2>. HIDE DEF text
    <2>3. QED
      BY <1>3, <2>1, <2>2
  <1>8. TypeOK'
    <2>1. claims \subseteq [statement : Statements, sentence : DOMAIN Features,
                            round : Nat, checkable : BOOLEAN]
      BY DEF TablesInv, TypeOK
    <2>2. \A k \in claims : k.checkable = FactCheckable(k.sentence)
      BY DEF TablesInv, TypeOK
    <2>. HIDE DEF row
    <2>3. QED
      BY <1>5, <1>7, <2>1, <2>2 DEF TablesInv, TypeOK, FactCheckable
  <1>9. QED
    BY <1>6, <1>8

\* Whatever scripts and requests do, the tables keep their types.
LEMMA TablesNext ==
  ASSUME IngestionAssumption, TablesInv, [Next]_vars
  PROVE  TablesInv'
  <1>0. /\ candidate \in [Candidates -> CandidateRow \cup {None}]
        /\ statement \in [Statements -> StatementRow \cup {None}]
        /\ None \notin CandidateRow /\ None \notin StatementRow
        /\ \A p \in Processes : Holds(proc[p])
    BY DEF TablesInv, TypeOK, IngestionAssumption
  \* A step of a process that changes no table.
  <1>1. ASSUME NEW p \in Processes, NEW v, proc' = [proc EXCEPT ![p] = v], Holds(v),
               UNCHANGED <<candidate, statement, claims>>
        PROVE  TablesInv'
    <2>1. TypeOK' /\ IsFiniteSet(claims') /\ Holds(v)'
      BY <1>1 DEF TablesInv, TypeOK, Holds, FactCheckable
    <2>2. QED
      BY <1>1, <2>1, ProcStep
  <1>2. ASSUME NEW p \in Processes, RosterRead(p) PROVE TablesInv'
    <2>1. PICK plan \in [Roster -> Candidates \cup {None}] :
            /\ \A r \in Roster : IF Existing(r) = {} THEN plan[r] = None
                                 ELSE plan[r] \in Existing(r)
            /\ proc' = [proc EXCEPT ![p] = [pc |-> "roster", plan |-> plan]]
      BY <1>2 DEF RosterRead
    <2>2. Holds([pc |-> "roster", plan |-> plan])
      BY <2>1 DEF Holds, Existing
    <2>3. QED
      BY <1>1, <1>2, <2>1, <2>2 DEF RosterRead
  <1>3. ASSUME NEW p \in Processes, RosterCommit(p) PROVE TablesInv'
    <2>. DEFINE plan == proc[p].plan
                new == {r \in Roster : plan[r] = None}
    <2>1. PICK id \in [new -> Unused(candidate)] :
            candidate' = [c \in Candidates |->
               IF \E r \in new : id[r] = c
               THEN [race |-> CHOOSE r \in new : id[r] = c, active |-> TRUE]
               ELSE IF \E r \in Roster : plan[r] = c
               THEN [candidate[c] EXCEPT !.active = TRUE]
               ELSE candidate[c]]
      BY <1>3 DEF RosterCommit
    <2>2. /\ plan \in [Roster -> Candidates \cup {None}]
          /\ \A r \in Roster : plan[r] # None => candidate[plan[r]] # None
      BY <1>0, <1>3 DEF Holds, RosterCommit
    <2>3. ASSUME NEW c \in Candidates
          PROVE  /\ candidate'[c] \in CandidateRow \cup {None}
                 /\ candidate[c] # None => candidate'[c] # None
      <3>1. CASE \E r \in new : id[r] = c
        <4>1. (CHOOSE r \in new : id[r] = c) \in Races
          BY <3>1 DEF IngestionAssumption
        <4>2. candidate'[c]
                 = [race |-> CHOOSE r \in new : id[r] = c, active |-> TRUE]
          BY <2>1, <3>1
        <4>3. candidate'[c] \in CandidateRow
          BY <4>1, <4>2 DEF CandidateRow
        <4>4. QED
          BY <1>0, <4>3
      <3>2. CASE ~(\E r \in new : id[r] = c) /\ \E r \in Roster : plan[r] = c
        <4>1. candidate'[c] = [candidate[c] EXCEPT !.active = TRUE]
          BY <2>1, <3>2
        <4>2. candidate[c] \in CandidateRow
          BY <1>0, <2>2, <3>2 DEF IngestionAssumption
        <4>3. candidate'[c] \in CandidateRow
          BY <4>1, <4>2 DEF CandidateRow
        <4>4. QED
          BY <1>0, <4>3
      <3>3. CASE ~(\E r \in new : id[r] = c) /\ ~(\E r \in Roster : plan[r] = c)
        <4>1. candidate'[c] = candidate[c]
          BY <2>1, <3>3
        <4>2. QED
          BY <1>0, <4>1
      <3>4. QED
        BY <3>1, <3>2, <3>3
    <2>4. candidate' = [c \in Candidates |-> candidate'[c]]
      BY <2>1
    <2>5. candidate' \in [Candidates -> CandidateRow \cup {None}]
      BY <2>3, <2>4
    <2>6. proc' = [proc EXCEPT ![p] = Idle] /\ UNCHANGED <<statement, claims>>
      BY <1>3 DEF RosterCommit
    <2>7. TypeOK' /\ IsFiniteSet(claims')
      BY <2>5, <2>6 DEF TablesInv, TypeOK, FactCheckable
    <2>8. Holds(Idle)'
      BY DEF Holds, Idle
    <2>9. QED
      BY <2>3, <2>6, <2>7, <2>8, ProcStep
  <1>4. ASSUME NEW p \in Processes, StatementsRead(p) PROVE TablesInv'
    <2>1. PICK seed \in Seeds, c \in Candidates :
            proc' = [proc EXCEPT ![p] =
              [pc |-> "statements", row |-> [by |-> c, text |-> seed[2]]]]
      BY <1>4 DEF StatementsRead, Existing
    <2>2. [by |-> c, text |-> seed[2]] \in StatementRow
      BY DEF IngestionAssumption, StatementRow
    <2>3. Holds([pc |-> "statements", row |-> [by |-> c, text |-> seed[2]]])
      BY <2>2 DEF Holds
    <2>4. QED
      BY <1>1, <1>4, <2>1, <2>3 DEF StatementsRead
  \* A row of the table of statements.
  <1>5. ASSUME NEW s \in Statements, NEW row \in StatementRow,
               statement' = [statement EXCEPT ![s] = row],
               UNCHANGED <<candidate, claims>>
        PROVE  /\ TypeOK' /\ IsFiniteSet(claims')
               /\ \A t \in Statements : statement[t] # None => statement'[t] # None
    BY <1>0, <1>5 DEF TablesInv, TypeOK, FactCheckable
  <1>6. ASSUME NEW p \in Processes, StatementsCommit(p) PROVE TablesInv'
    <2>1. PICK s \in Unused(statement) :
             statement' = [statement EXCEPT ![s] = proc[p].row]
      BY <1>6 DEF StatementsCommit
    <2>2. s \in Statements /\ proc[p].row \in StatementRow
      BY <1>0, <1>6 DEF Unused, StatementsCommit, Holds
    <2>3. proc' = [proc EXCEPT ![p] = Idle] /\ UNCHANGED <<candidate, claims>>
      BY <1>6 DEF StatementsCommit
    <2>4. Holds(Idle)'
      BY DEF Holds, Idle
    <2>5. QED
      BY <1>5, <2>1, <2>2, <2>3, <2>4, ProcStep
  <1>7. ASSUME NEW p \in Processes, ListUnextracted(p) PROVE TablesInv'
    <2>. DEFINE v == [pc |-> "extract",
                      todo |-> {s \in Statements :
                                  statement[s] # None /\ Extracted(s) = {}}]
    <2>1. /\ proc' = [proc EXCEPT ![p] = v]
          /\ UNCHANGED <<candidate, statement, claims>>
      BY <1>7 DEF ListUnextracted
    <2>2. Holds(v)
      BY DEF Holds
    <2>3. QED
      BY <1>1, <2>1, <2>2
  <1>8. ASSUME NEW p \in Processes, ExtractNext(p) PROVE TablesInv'
    <2>1. PICK s \in proc[p].todo :
            /\ Extract(s)
            /\ proc' = [proc EXCEPT ![p] =
                 IF @.todo = {s} THEN Idle
                 ELSE [pc |-> "extract", todo |-> proc[p].todo \ {s}]]
      BY <1>8 DEF ExtractNext
    <2>2. /\ s \in Statements /\ statement[s] # None
          /\ \A t \in proc[p].todo : t \in Statements /\ statement[t] # None
          /\ UNCHANGED <<candidate, statement>>
      BY <1>0, <1>8 DEF ExtractNext, Holds
    <2>3. TypeOK' /\ IsFiniteSet(claims')
      BY <2>1, <2>2, ExtractStep
    <2>0. PICK rest : rest = [pc |-> "extract", todo |-> proc[p].todo \ {s}]
      OBVIOUS
    <2>4. Holds(Idle)' /\ Holds(rest)'
      <3>1. /\ rest.pc = "extract"
            /\ \A t \in rest.todo : t \in Statements /\ statement'[t] # None
        BY <2>0, <2>2
      <3>2. Holds(rest)'
        BY <3>1 DEF Holds
      <3>3. QED
        BY <3>2 DEF Holds, Idle
    <2>5. proc' = [proc EXCEPT ![p] = Idle] \/ proc' = [proc EXCEPT ![p] = rest]
      BY <2>0, <2>1 DEF TablesInv
    <2>6. QED
      BY <2>2, <2>3, <2>4, <2>5, ProcStep
  <1>9. CASE Backfill
    <2>. DEFINE again(k) == [k EXCEPT !.checkable = FactCheckable(k.sentence)]
                Claim == [statement : Statements, sentence : DOMAIN Features,
                          round : Nat, checkable : BOOLEAN]
    <2>1. /\ claims' = {again(k) : k \in claims}
          /\ UNCHANGED <<candidate, statement, proc>>
      BY <1>9 DEF Backfill
    <2>2. claims \subseteq Claim
      BY DEF TablesInv, TypeOK
    <2>3. \A k \in claims : /\ again(k) \in Claim
                            /\ again(k).checkable = FactCheckable(again(k).sentence)
      BY <2>2 DEF FactCheckable
    <2>4. IsFiniteSet(claims')
      <3>. DEFINE f == [k \in claims |-> again(k)]
      <3>1. /\ f = [k \in claims |-> f[k]]
            /\ {f[k] : k \in claims} = {again(k) : k \in claims}
        OBVIOUS
      <3>. HIDE DEF f
      <3>2. IsFiniteSet({f[k] : k \in claims})
        BY <3>1, FiniteImage DEF TablesInv
      <3>3. QED
        BY <2>1, <3>1, <3>2
    <2>. HIDE DEF again
    <2>5. TypeOK'
      BY <2>1, <2>3 DEF TablesInv, TypeOK, FactCheckable
    <2>6. QED
      BY <2>1, <2>4, <2>5, RequestStep
  <1>10. ASSUME NEW p \in Processes, Die(p) PROVE TablesInv'
    BY <1>1, <1>10, IdleHolds DEF Die
  <1>11. ASSUME NEW c \in Candidates, NEW row \in CandidateRow,
                candidate' = [candidate EXCEPT ![c] = row],
                UNCHANGED <<statement, claims>>
         PROVE  /\ TypeOK' /\ IsFiniteSet(claims')
                /\ \A d \in Candidates : candidate[d] # None => candidate'[d] # None
    BY <1>0, <1>11 DEF TablesInv, TypeOK, FactCheckable
  <1>12. ASSUME NEW r \in Races, CreateCandidate(r) PROVE TablesInv'
    <2>1. PICK c \in Unused(candidate) :
            candidate' = [candidate EXCEPT ![c] = [race |-> r, active |-> TRUE]]
      BY <1>12 DEF CreateCandidate
    <2>2. c \in Candidates /\ [race |-> r, active |-> TRUE] \in CandidateRow
      BY <1>0 DEF Unused, CandidateRow
    <2>3. UNCHANGED <<statement, claims, proc>>
      BY <1>12 DEF CreateCandidate
    <2>4. QED
      BY <1>11, <2>1, <2>2, <2>3, RequestStep
  <1>13. ASSUME NEW p \in Processes, NEW c \in Candidates, NEW r \in Races,
                NEW a \in BOOLEAN, UpdateRead(p, c, r, a)
         PROVE  TablesInv'
    <2>. DEFINE v == [pc |-> "update", of |-> c, from |-> candidate[c],
                      to |-> [race |-> r, active |-> a]]
    <2>1. /\ proc' = [proc EXCEPT ![p] = v] /\ candidate[c] # None
          /\ UNCHANGED <<candidate, statement, claims>>
      BY <1>13 DEF UpdateRead
    <2>2. /\ candidate[c] \in CandidateRow
          /\ [race |-> r, active |-> a] \in CandidateRow
      BY <1>0, <2>1 DEF CandidateRow
    <2>3. Holds(v)
      BY <2>1, <2>2 DEF Holds
    <2>4. QED
      BY <1>1, <2>1, <2>3
  <1>14. ASSUME NEW p \in Processes, UpdateCommit(p) PROVE TablesInv'
    <2>. DEFINE from == proc[p].from
                to == proc[p].to
                now == candidate[proc[p].of]
                row == [race |-> Changed(now.race, from.race, to.race),
                        active |-> IF from.active = to.active THEN now.active
                                   ELSE to.active]
    <2>1. /\ candidate' = [candidate EXCEPT ![proc[p].of] = row]
          /\ proc' = [proc EXCEPT ![p] = Idle] /\ UNCHANGED <<statement, claims>>
      BY <1>14 DEF UpdateCommit
    <2>2. /\ proc[p].of \in Candidates /\ candidate[proc[p].of] # None
          /\ from \in CandidateRow /\ to \in CandidateRow
      BY <1>0, <1>14 DEF UpdateCommit, Holds
    <2>3. now \in CandidateRow
      BY <1>0, <2>2
    <2>4. row \in CandidateRow
      BY <2>2, <2>3 DEF CandidateRow, Races, Changed
    <2>. HIDE DEF row
    <2>5. Holds(Idle)'
      BY DEF Holds, Idle
    <2>6. QED
      BY <1>11, <2>1, <2>2, <2>4, <2>5, ProcStep
  <1>15. ASSUME NEW c \in Candidates, NEW text \in Texts, CreateStatement(c, text)
         PROVE  TablesInv'
    <2>1. PICK s \in Unused(statement) :
            statement' = [statement EXCEPT ![s] = [by |-> c, text |-> text]]
      BY <1>15 DEF CreateStatement
    <2>2. s \in Statements /\ [by |-> c, text |-> text] \in StatementRow
      BY <1>0 DEF Unused, StatementRow
    <2>3. UNCHANGED <<candidate, claims, proc>>
      BY <1>15 DEF CreateStatement
    <2>4. QED
      BY <1>5, <2>1, <2>2, <2>3, RequestStep
  <1>16. ASSUME NEW s \in Statements, ExtractDirectly(s) PROVE TablesInv'
    <2>1. /\ statement[s] # None /\ Extract(s)
          /\ UNCHANGED <<candidate, statement, proc>>
      BY <1>16 DEF ExtractDirectly
    <2>2. TypeOK' /\ IsFiniteSet(claims')
      BY <2>1, ExtractStep
    <2>3. QED
      BY <2>1, <2>2, RequestStep
  <1>17. CASE UNCHANGED vars
    BY <1>17 DEF vars, TablesInv, TypeOK, Holds, FactCheckable
  <1>18. QED
    BY <1>2, <1>3, <1>4, <1>6, <1>7, <1>8, <1>9, <1>10, <1>12, <1>13, <1>14, <1>15,
       <1>16, <1>17 DEF Next

-----------------------------------------------------------------------------
(* One script at a time, and no admin requests. *)

Serially == Api = {} /\ \A p, q \in Processes : p = q

\* What a script has read is still what the tables say.
Current(v) ==
  /\ v.pc = "roster" => \A r \in Roster :
       IF Existing(r) = {} THEN v.plan[r] = None ELSE v.plan[r] \in Existing(r)
  /\ v.pc = "statements" => \A s \in Statements : statement[s] # v.row
  /\ v.pc = "extract" => \A s \in v.todo : Extracted(s) = {}
  /\ v.pc # "update"

ScriptsInv ==
  /\ TablesInv
  /\ ScriptsAreIdempotent
  /\ \A p \in Processes : Current(proc[p])

\* Nothing was read, so nothing is out of date.
LEMMA ScriptsInit ==
  ASSUME IngestionAssumption, Init
  PROVE  ScriptsInv
  <1>1. TablesInv
    BY TablesInit
  <1>2. ScriptsAreIdempotent
    BY DEF Init, ScriptsAreIdempotent
  <1>3. \A p \in Processes : Current(proc[p])
    BY DEF Init, Current, Idle
  <1>4. QED
    BY <1>1, <1>2, <1>3 DEF ScriptsInv

\* One process at a time: what it has read is still so when it writes.
LEMMA ScriptsNext ==
  ASSUME IngestionAssumption, Serially, ScriptsInv, [Next]_vars
  PROVE  ScriptsInv'
  <1>0. /\ TablesInv /\ TablesInv'
        /\ candidate \in [Candidates -> CandidateRow \cup {None}]
        /\ statement \in [Statements -> StatementRow \cup {None}]
        /\ None \notin CandidateRow /\ None \notin StatementRow
        /\ \A p \in Processes : Holds(proc[p]) /\ Current(proc[p])
        /\ ScriptsAreIdempotent
    BY TablesNext DEF ScriptsInv, TablesInv, TypeOK, IngestionAssumption
  \* There is only the process that moves.
  <1>1. ASSUME NEW p \in Processes, NEW v, proc' = [proc EXCEPT ![p] = v],
               Current(v)',
               ScriptsAreIdempotent'
        PROVE  ScriptsInv'
    <2>1. proc'[p] = v
      BY <1>0, <1>1 DEF TablesInv
    <2>2. \A q \in Processes : Current(proc[q])'
      BY <1>1, <2>1 DEF Serially, Current
    <2>3. QED
      BY <1>0, <1>1, <2>2 DEF ScriptsInv
  <1>2. ASSUME UNCHANGED <<candidate, statement, claims>>
        PROVE  ScriptsAreIdempotent'
    BY <1>0, <1>2 DEF ScriptsAreIdempotent
  <1>3. Current(Idle) /\ Current(Idle)'
    BY DEF Current, Idle
  <1>4. ASSUME NEW p \in Processes, RosterRead(p) PROVE ScriptsInv'
    <2>1. PICK plan \in [Roster -> Candidates \cup {None}] :
            /\ \A r \in Roster : IF Existing(r) = {} THEN plan[r] = None
                                 ELSE plan[r] \in Existing(r)
            /\ proc' = [proc EXCEPT ![p] = [pc |-> "roster", plan |-> plan]]
      BY <1>4 DEF RosterRead
    <2>2. UNCHANGED <<candidate, statement, claims>>
      BY <1>4 DEF RosterRead
    <2>3. Current([pc |-> "roster", plan |-> plan])'
      BY <2>1, <2>2 DEF Current, Existing
    <2>4. QED
      BY <1>1, <1>2, <2>1, <2>2, <2>3
  <1>5. ASSUME NEW p \in Processes, RosterCommit(p) PROVE ScriptsInv'
    <2>. DEFINE plan == proc[p].plan
                new == {r \in Roster : plan[r] = None}
    <2>1. PICK id \in [new -> Unused(candidate)] :
            /\ \A r, q \in new : id[r] = id[q] => r = q
            /\ candidate' = [c \in Candidates |->
                 IF \E r \in new : id[r] = c
                 THEN [race |-> CHOOSE r \in new : id[r] = c, active |-> TRUE]
                 ELSE IF \E r \in Roster : plan[r] = c
                 THEN [candidate[c] EXCEPT !.active = TRUE]
                 ELSE candidate[c]]
      BY <1>5 DEF RosterCommit
    <2>2. \A r \in Roster : IF Existing(r) = {} THEN plan[r] = None
                            ELSE plan[r] \in Existing(r)
      BY <1>0, <1>5 DEF Current, RosterCommit
    <2>. DEFINE fresh(c) == \E r \in new : id[r] = c
    <2>3. ASSUME NEW c \in Candidates, fresh(c)
          PROVE  \E r \in new :
                   id[r] = c /\ candidate'[c].race = r /\ Existing(r) = {}
      <3>1. PICK r \in new : id[r] = c
        BY <2>3
      <3>2. (CHOOSE q \in new : id[q] = c) = r
        BY <2>1, <3>1
      <3>3. candidate'[c] = [race |-> r, active |-> TRUE]
        BY <2>1, <2>3, <3>2
      <3>4. Existing(r) = {}
        BY <1>0, <2>2 DEF Existing, IngestionAssumption
      <3>5. QED
        BY <3>1, <3>3, <3>4
    <2>4. ASSUME NEW c \in Candidates, ~fresh(c), candidate'[c] # None
          PROVE  candidate[c] # None /\ candidate'[c].race = candidate[c].race
      <3>1. CASE \E r \in Roster : plan[r] = c
        <4>1. candidate'[c] = [candidate[c] EXCEPT !.active = TRUE]
          BY <2>1, <2>4, <3>1
        <4>2. candidate[c] # None
          BY <2>2, <3>1 DEF Existing, IngestionAssumption
        <4>3. candidate[c] \in CandidateRow
          BY <1>0, <4>2
        <4>4. QED
          BY <4>1, <4>2, <4>3 DEF CandidateRow
      <3>2. CASE ~(\E r \in Roster : plan[r] = c)
        <4>1. candidate'[c] = candidate[c]
          BY <2>1, <2>4, <3>2
        <4>2. QED
          BY <2>4, <4>1
      <3>3. QED
        BY <3>1, <3>2
    <2>5. ASSUME NEW c \in Candidates, NEW d \in Candidates,
                 candidate'[c] # None, candidate'[d] # None,
                 candidate'[c].race = candidate'[d].race
          PROVE  c = d
      <3>. HIDE DEF fresh, new
      <3>1. CASE fresh(c) /\ fresh(d)
        BY <2>3, <2>5, <3>1
      <3>2. CASE fresh(c) /\ ~fresh(d)
        BY <2>3, <2>4, <2>5, <3>2 DEF Existing
      <3>3. CASE ~fresh(c) /\ fresh(d)
        BY <2>3, <2>4, <2>5, <3>3 DEF Existing
      <3>4. CASE ~fresh(c) /\ ~fresh(d)
        BY <1>0, <2>4, <2>5, <3>4 DEF ScriptsAreIdempotent
      <3>5. QED
        BY <3>1, <3>2, <3>3, <3>4
    <2>6. proc' = [proc EXCEPT ![p] = Idle] /\ UNCHANGED <<statement, claims>>
      BY <1>5 DEF RosterCommit
    <2>7. ScriptsAreIdempotent'
      BY <1>0, <2>5, <2>6 DEF ScriptsAreIdempotent
    <2>8. QED
      BY <1>1, <1>3, <2>6, <2>7
  <1>6. ASSUME NEW p \in Processes, StatementsRead(p) PROVE ScriptsInv'
    <2>1. PICK seed \in Seeds, c \in Candidates :
            /\ c \in Existing(seed[1])
            /\ \A s \in Said(c) : statement[s].text # seed[2]
            /\ proc' = [proc EXCEPT ![p] =
                 [pc |-> "statements", row |-> [by |-> c, text |-> seed[2]]]]
      BY <1>6 DEF StatementsRead, Existing
    <2>2. UNCHANGED <<candidate, statement, claims>>
      BY <1>6 DEF StatementsRead
    <2>. DEFINE row == [by |-> c, text |-> seed[2]]
    <2>3. \A s \in Statements : statement[s] # row
      <3>1. row \in StatementRow
        BY DEF IngestionAssumption, StatementRow, Existing
      <3>2. QED
        BY <1>0, <2>1, <3>1 DEF Said
    <2>. HIDE DEF row
    <2>4. Current([pc |-> "statements", row |-> row])'
      BY <2>2, <2>3 DEF Current
    <2>5. QED
      BY <1>1, <1>2, <2>1, <2>2, <2>4 DEF row
  <1>7. ASSUME NEW p \in Processes, StatementsCommit(p) PROVE ScriptsInv'
    <2>1. PICK s \in Unused(statement) :
             statement' = [statement EXCEPT ![s] = proc[p].row]
      BY <1>7 DEF StatementsCommit
    <2>2. proc' = [proc EXCEPT ![p] = Idle] /\ UNCHANGED <<candidate, claims>>
      BY <1>7 DEF StatementsCommit
    <2>3. s \in Statements /\ \A t \in Statements : statement[t] # proc[p].row
      BY <1>0, <1>7 DEF StatementsCommit, Current, Unused
    <2>4. ScriptsAreIdempotent'
      BY <1>0, <2>1, <2>2, <2>3 DEF ScriptsAreIdempotent
    <2>5. QED
      BY <1>1, <1>3, <2>2, <2>4
  <1>8. ASSUME NEW p \in Processes, ListUnextracted(p) PROVE ScriptsInv'
    <2>0. PICK v : v = [pc |-> "extract", todo |->
              {s \in Statements : statement[s] # None /\ Extracted(s) = {}}]
      OBVIOUS
    <2>1. /\ proc' = [proc EXCEPT ![p] = v]
          /\ UNCHANGED <<candidate, statement, claims>>
      BY <1>8, <2>0 DEF ListUnextracted
    <2>2. Current(v)'
      BY <2>0, <2>1 DEF Current, Extracted
    <2>3. QED
      BY <1>1, <1>2, <2>1, <2>2
  <1>9. ASSUME NEW p \in Processes, ExtractNext(p) PROVE ScriptsInv'
    <2>1. PICK s \in proc[p].todo :
            /\ Extract(s)
            /\ proc' = [proc EXCEPT ![p] =
                 IF @.todo = {s} THEN Idle
                 ELSE [pc |-> "extract", todo |-> proc[p].todo \ {s}]]
      BY <1>9 DEF ExtractNext
    <2>2. /\ \A t \in proc[p].todo : t \in Statements /\ Extracted(t) = {}
          /\ UNCHANGED <<candidate, statement>>
      BY <1>0, <1>9 DEF ExtractNext, Holds, Current
    <2>. DEFINE text == statement[s].text
                round == Cardinality({k.round : k \in Extracted(s)}) + 1
                row(x) == [statement |-> s, sentence |-> x, round |-> round,
                           checkable |-> FactCheckable(x)]
                added == {row(x) : x \in SentencesOf[text]}
    <2>3. claims' = claims \/ claims' = claims \cup added
      BY <2>1 DEF Extract
    <2>. HIDE DEF round
    <2>4. /\ \A k \in added : k.statement = s
          /\ \A k, l \in added : k.sentence = l.sentence => k = l
          /\ \A k \in claims : k.statement # s
      BY <2>2 DEF Extracted
    <2>. HIDE DEF added
    <2>5. ScriptsAreIdempotent'
      <3>1. \A k, l \in claims :
              k.statement = l.statement /\ k.sentence = l.sentence => k = l
        BY <1>0 DEF ScriptsAreIdempotent
      <3>2. \A k, l \in claims' :
              k.statement = l.statement /\ k.sentence = l.sentence => k = l
        BY <2>3, <2>4, <3>1
      <3>3. QED
        BY <1>0, <2>2, <3>2 DEF ScriptsAreIdempotent
    <2>0. PICK rest : rest = [pc |-> "extract", todo |-> proc[p].todo \ {s}]
      OBVIOUS
    <2>6. Current(rest)'
      <3>1. \A t \in proc[p].todo \ {s} : Extracted(t)' = {}
        BY <2>2, <2>3, <2>4 DEF Extracted
      <3>2. QED
        BY <2>0, <3>1 DEF Current
    <2>7. proc' = [proc EXCEPT ![p] = Idle] \/ proc' = [proc EXCEPT ![p] = rest]
      BY <2>0, <2>1 DEF TablesInv
    <2>8. QED
      BY <1>1, <1>3, <2>5, <2>6, <2>7
  <1>10. CASE Backfill
    <2>. DEFINE again(k) == [k EXCEPT !.checkable = FactCheckable(k.sentence)]
    <2>1. /\ claims' = {again(k) : k \in claims}
          /\ UNCHANGED <<candidate, statement, proc>>
      BY <1>10 DEF Backfill
    <2>2. \A k \in claims :
             again(k).statement = k.statement /\ again(k).sentence = k.sentence
      BY <1>0 DEF TablesInv, TypeOK
    <2>. HIDE DEF again
    <2>3. \A k, l \in claims :
            k.statement = l.statement /\ k.sentence = l.sentence => k = l
      BY <1>0 DEF ScriptsAreIdempotent
    <2>4. \A k, l \in claims' :
            k.statement = l.statement /\ k.sentence = l.sentence => k = l
      BY <2>1, <2>2, <2>3
    <2>5. ScriptsAreIdempotent'
      BY <1>0, <2>1, <2>4 DEF ScriptsAreIdempotent
    <2>6. \A s : Extracted(s) = {} => Extracted(s)' = {}
      BY <2>1, <2>2 DEF Extracted
    <2>7. \A p \in Processes : Current(proc[p])'
      <3>. SUFFICES ASSUME NEW p \in Processes PROVE Current(proc[p])'
        OBVIOUS
      <3>1. Current(proc[p])
        BY <1>0
      <3>2. QED
        BY <2>1, <2>6, <3>1 DEF Current, Existing
    <2>8. QED
      BY <1>0, <2>5, <2>7 DEF ScriptsInv
  <1>11. ASSUME NEW p \in Processes, Die(p) PROVE ScriptsInv'
    BY <1>1, <1>2, <1>3, <1>11 DEF Die
  <1>12. ASSUME NEW p \in Processes, UpdateCommit(p) PROVE ScriptsInv'
    BY <1>0, <1>12 DEF UpdateCommit, Current
  <1>13. CASE UNCHANGED vars
    <2>1. ScriptsAreIdempotent' /\ \A p \in Processes : Current(proc[p])'
      BY <1>0, <1>13 DEF vars, ScriptsAreIdempotent, Current, Existing, Extracted
    <2>2. QED
      BY <1>0, <2>1 DEF ScriptsInv
  <1>14. QED
    BY <1>4, <1>5, <1>6, <1>7, <1>8, <1>9, <1>10, <1>11, <1>12, <1>13
    DEF Next, Serially, UpdateRead, CreateCandidate, CreateStatement,
        ExtractDirectly
=============================================================================
