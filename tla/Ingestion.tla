------------------------------ MODULE Ingestion ------------------------------
(***************************************************************************)
(* Candidates, statements and extracted claims: the roster and statement   *)
(* ingestion scripts, the generic pipeline, and the admin requests on the  *)
(* same tables (candidate_service.py, statement_service.py,                *)
(* claim_extraction_service.py, scripts/ingest_*, pipeline_helpers.py).    *)
(*                                                                         *)
(* A script reads what it needs, buffers its writes (sessions do not       *)
(* autoflush) and commits once; no table has a unique constraint that      *)
(* would refuse a duplicate, and nothing is locked.                        *)
(***************************************************************************)
EXTENDS Naturals, FiniteSets

CONSTANTS
  Candidates,   \* ids of candidate rows
  Names,        \* names of candidates
  Contexts,     \* offices with their state, cycle and stage
  Roster,       \* who runs where, as the roster script lists it
  Statements,   \* ids of statement rows
  Texts,        \* what was said, with the URL where
  Seeds,        \* what the statement scripts list: the same with texts
  SentencesOf,  \* the sentences of a text that are long enough
  Features,     \* what the classifier sees in a sentence
  Hostile,      \* texts that are prompt injection attempts
  Processes,    \* scripts and requests under way
  Api,          \* which admin requests happen
  None          \* no value

VARIABLES
  candidate,  \* candidates: name and race context, and whether active
  statement,  \* statements: candidate and text
  claims,     \* claims: statement, sentence, which extraction, fact_checkable
  proc        \* the processes

vars == <<candidate, statement, claims, proc>>

-----------------------------------------------------------------------------
\* A name in a race context: what scripts find a candidate by.
Races == [name : Names, context : Contexts]

CandidateRow == [race : Races, active : BOOLEAN]

StatementRow == [by : Candidates, text : Texts]

IngestionAssumption ==
  /\ Roster \subseteq Races
  /\ Seeds \subseteq Races \X Texts
  /\ Hostile \subseteq Texts
  /\ \A t \in Texts : SentencesOf[t] \subseteq DOMAIN Features /\ IsFiniteSet(SentencesOf[t])
  /\ Api \subseteq {"create", "update", "statement", "extract"}
  /\ None \notin Candidates /\ None \notin CandidateRow /\ None \notin StatementRow

Idle == [pc |-> "idle"]

Existing(r) ==
  {c \in Candidates : candidate[c] # None /\ candidate[c].race = r}

Unused(tab) == {i \in DOMAIN tab : tab[i] = None}

Said(c) == {s \in Statements : statement[s] # None /\ statement[s].by = c}

\* classify_text: the order of its three tests.
FactCheckable(sentence) ==
  /\ "short" \notin Features[sentence]
  /\ "rhetorical" \notin Features[sentence]
  /\ "factual" \in Features[sentence]

Extracted(s) == {k \in claims : k.statement = s}

-----------------------------------------------------------------------------
(* Roster and statement scripts. *)

\* Mutant: the lookup does not normalise the entry, and finds nothing.
RosterReadRaw(p) ==
  /\ proc[p].pc = "idle"
  /\ proc' = [proc EXCEPT ![p] =
                [pc |-> "roster", plan |-> [r \in Roster |-> None]]]
  /\ UNCHANGED <<candidate, statement, claims>>

\* _get_existing_candidate_by_race_context for every entry.
RosterRead(p) ==
  /\ proc[p].pc = "idle"
  /\ \E plan \in [Roster -> Candidates \cup {None}] :
       /\ \A r \in Roster : IF Existing(r) = {} THEN plan[r] = None
                            ELSE plan[r] \in Existing(r)
       /\ proc' = [proc EXCEPT ![p] = [pc |-> "roster", plan |-> plan]]
  /\ UNCHANGED <<candidate, statement, claims>>

\* The end of upsert_roster_candidates: entries are active.
RosterCommit(p) ==
  /\ proc[p].pc = "roster"
  /\ LET plan == proc[p].plan
         new == {r \in Roster : plan[r] = None}
     IN \E id \in [new -> Unused(candidate)] :
          /\ \A r, q \in new : id[r] = id[q] => r = q
          /\ candidate' = [c \in Candidates |->
               IF \E r \in new : id[r] = c
               THEN [race |-> CHOOSE r \in new : id[r] = c, active |-> TRUE]
               ELSE IF \E r \in Roster : plan[r] = c
               THEN [candidate[c] EXCEPT !.active = TRUE]
               ELSE candidate[c]]
  /\ proc' = [proc EXCEPT ![p] = Idle]
  /\ UNCHANGED <<statement, claims>>

\* _find_candidate and _statement_exists for one batch: the rows to insert.
StatementsRead(p) ==
  /\ proc[p].pc = "idle"
  /\ \E seed \in Seeds : \E c \in Existing(seed[1]) :
       /\ \A s \in Said(c) : statement[s].text # seed[2]
       /\ proc' = [proc EXCEPT ![p] =
            [pc |-> "statements", row |-> [by |-> c, text |-> seed[2]]]]
  /\ UNCHANGED <<candidate, statement, claims>>

StatementsCommit(p) ==
  /\ proc[p].pc = "statements"
  /\ \E s \in Unused(statement) :
       statement' = [statement EXCEPT ![s] = proc[p].row]
  /\ proc' = [proc EXCEPT ![p] = Idle]
  /\ UNCHANGED <<candidate, claims>>

-----------------------------------------------------------------------------
(* Extraction. *)

\* build_unextracted_statement_query.
ListUnextracted(p) ==
  /\ proc[p].pc = "idle"
  /\ proc' = [proc EXCEPT ![p] = [pc |-> "extract",
       todo |-> {s \in Statements : statement[s] # None /\ Extracted(s) = {}}]]
  /\ proc'[p].todo # {}
  /\ UNCHANGED <<candidate, statement, claims>>

\* extract_claims: refused for a hostile text and for one without sentences.
Extract(s) ==
  LET text == statement[s].text
      round == Cardinality({k.round : k \in Extracted(s)}) + 1
  IN IF text \in Hostile \/ SentencesOf[text] = {} THEN UNCHANGED claims
     ELSE claims' = claims \cup
            {[statement |-> s, sentence |-> x, round |-> round,
              checkable |-> FactCheckable(x)] : x \in SentencesOf[text]}

\* One statement of run_extraction, with its own commit; a refusal is skipped.
ExtractNext(p) ==
  /\ proc[p].pc = "extract"
  /\ \E s \in proc[p].todo :
       /\ Extract(s)
       /\ proc' = [proc EXCEPT ![p] =
            IF @.todo = {s} THEN Idle
            ELSE [pc |-> "extract", todo |-> proc[p].todo \ {s}]]
  /\ UNCHANGED <<candidate, statement>>

\* run_reviewability_backfill.
Backfill ==
  /\ claims' = {[k EXCEPT !.checkable = FactCheckable(k.sentence)] :
                  k \in claims}
  /\ UNCHANGED <<candidate, statement, proc>>

\* A script dies, or its commit fails.
Die(p) ==
  /\ proc[p].pc # "idle"
  /\ proc' = [proc EXCEPT ![p] = Idle]
  /\ UNCHANGED <<candidate, statement, claims>>

-----------------------------------------------------------------------------
(* Admin requests. *)

\* create_candidate, which does not look for another one of the same race.
CreateCandidate(r) ==
  /\ "create" \in Api
  /\ \E c \in Unused(candidate) :
       candidate' = [candidate EXCEPT ![c] = [race |-> r, active |-> TRUE]]
  /\ UNCHANGED <<statement, claims, proc>>

\* update_candidate up to its write: race context fields, which the name is not
\* one of, are refused once there are statements.
UpdateRead(p, c, r, active) ==
  /\ "update" \in Api
  /\ proc[p].pc = "idle" /\ candidate[c] # None
  /\ r.context # candidate[c].race.context => Said(c) = {}
  /\ proc' = [proc EXCEPT ![p] = [pc |-> "update", of |-> c,
       from |-> candidate[c], to |-> [race |-> r, active |-> active]]]
  /\ UNCHANGED <<candidate, statement, claims>>

Changed(now, from, to) ==
  [name |-> IF from.name = to.name THEN now.name ELSE to.name,
   context |-> IF from.context = to.context THEN now.context ELSE to.context]

\* Only the fields that differ from what was read are written.
UpdateCommit(p) ==
  /\ proc[p].pc = "update"
  /\ LET from == proc[p].from
         to == proc[p].to
         now == candidate[proc[p].of]
     IN candidate' = [candidate EXCEPT ![proc[p].of] =
          [race |-> Changed(now.race, from.race, to.race),
           active |-> IF from.active = to.active THEN now.active
                      ELSE to.active]]
  /\ proc' = [proc EXCEPT ![p] = Idle]
  /\ UNCHANGED <<statement, claims>>

\* StatementService.create_statement.
CreateStatement(c, text) ==
  /\ "statement" \in Api
  /\ candidate[c] # None
  /\ \E s \in Unused(statement) :
       statement' = [statement EXCEPT ![s] = [by |-> c, text |-> text]]
  /\ UNCHANGED <<candidate, claims, proc>>

\* The extraction endpoint, for any statement.
ExtractDirectly(s) ==
  /\ "extract" \in Api
  /\ statement[s] # None
  /\ Cardinality({k.round : k \in Extracted(s)}) < 2
  /\ Extract(s)
  /\ UNCHANGED <<candidate, statement, proc>>

-----------------------------------------------------------------------------
Init ==
  /\ candidate = [c \in Candidates |-> None]
  /\ statement = [s \in Statements |-> None]
  /\ claims = {}
  /\ proc = [p \in Processes |-> Idle]

Next ==
  \/ \E p \in Processes :
       \/ RosterRead(p) \/ RosterCommit(p)
       \/ StatementsRead(p) \/ StatementsCommit(p)
       \/ ListUnextracted(p) \/ ExtractNext(p)
       \/ Die(p)
       \/ \E c \in Candidates, r \in Races, a \in BOOLEAN :
            UpdateRead(p, c, r, a)
       \/ UpdateCommit(p)
  \/ Backfill
  \/ \E r \in Races : CreateCandidate(r)
  \/ \E c \in Candidates, text \in Texts : CreateStatement(c, text)
  \/ \E s \in Statements : ExtractDirectly(s)

Spec == Init /\ [][Next]_vars

-----------------------------------------------------------------------------
\* Rows have the shapes of the schema, and a claim says of its sentence what
\* the classifier says.
TypeOK ==
  /\ candidate \in [Candidates -> CandidateRow \cup {None}]
  /\ statement \in [Statements -> StatementRow \cup {None}]
  /\ claims \subseteq [statement : Statements, sentence : DOMAIN Features,
                       round : Nat, checkable : BOOLEAN]
  /\ \A k \in claims : k.checkable = FactCheckable(k.sentence)

\* Ingestion is idempotent (docs/INGESTION_WORKFLOW.md): however often the
\* scripts are started, die and are started again, a race has one candidate, a
\* candidate has each text once, and no sentence becomes two claims.
ScriptsAreIdempotent ==
  /\ \A c, d \in Candidates :
       candidate[c] # None /\ candidate[d] # None
         /\ candidate[c].race = candidate[d].race => c = d
  /\ \A s, t \in Statements :
       statement[s] # None /\ statement[s] = statement[t] => s = t
  /\ \A k, l \in claims :
       k.statement = l.statement /\ k.sentence = l.sentence => k = l
=============================================================================
