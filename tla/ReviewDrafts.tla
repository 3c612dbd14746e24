---------------------------- MODULE ReviewDrafts ----------------------------
(***************************************************************************)
(* One AI review draft (review_draft_service.py): the sources are fetched, *)
(* a primary model drafts, a second model may be asked, the server decides *)
(* what is green-lane ready, and the draft is recorded.                    *)
(*                                                                         *)
(* A model may answer anything the JSON schema admits.  Of an answer the   *)
(* module keeps what the server's rules look at: missing_evidence goes     *)
(* with the warnings, and one score stands for the three confidences.      *)
(***************************************************************************)
EXTENDS Naturals, Sequences

CONSTANTS
  RowLists,      \* the unflagged verification rows a claim may have, by age
  MaxSources,    \* sources put into the prompt
  Degraded,      \* CIVIC_AI_DEGRADED_MODE
  None           \* no value

VARIABLES
  rows,      \* classes of the claim's rows, oldest first
  fetched,   \* what fetching each of the first MaxSources gave
  pc,        \* where the request is
  complex,   \* whether the claim's text shows two signs of complexity
  primary,   \* the primary model's answer
  second,    \* the second model's answer; None if not asked or failed
  tried,     \* whether the second model was asked
  draft      \* the draft recorded

vars == <<rows, fetched, pc, complex, primary, second, tried, draft>>

\* "excerpt": no text was fetched and the reviewer's stored text stands in;
\* "failed": there is none; "unread": a PDF, another type, or an empty page,
\* with or without stored text; "suspicious": text that reads like
\* instructions.
Fetches == {"ok", "suspicious", "excerpt", "failed", "unread"}

Verdicts == {"supported", "unsupported"}

\* subclaims: of each, whether it was judged supported.  Assessments are
\* unmatched when there are some and none names an attached source.
Answer == [verdict : Verdicts, green : BOOLEAN, score : {50, 95},
           warned : BOOLEAN, subclaims : {<<>>, <<TRUE>>, <<FALSE>>},
           unmatched : BOOLEAN]

\* What is recorded of a draft.
Draft == [verdict : Verdicts, green : BOOLEAN, score : {35, 40, 50, 60, 95},
          subclaims : {<<>>, <<TRUE>>, <<FALSE>>}]

DraftsAssumption ==
  /\ RowLists \subseteq Seq({"primary", "secondary"})
  /\ MaxSources \in Nat /\ Degraded \in BOOLEAN
  /\ None \notin Answer \cup Draft

AllSupported(a) == \A i \in DOMAIN a.subclaims : a.subclaims[i]

\* Mutant: rows beyond the prompt count towards the classes.
HasClassAnywhere(class) == \E i \in DOMAIN rows : rows[i] = class

\* has_primary and has_secondary look at the snapshots in the prompt.
HasClass(class) == \E i \in DOMAIN fetched : rows[i] = class

Some(results) == \E i \in DOMAIN fetched : fetched[i] \in results

Least(x, y) == IF x <= y THEN x ELSE y

-----------------------------------------------------------------------------
\* A draft needs a source that can be read; a URL whose host is blocked or
\* not on the allow list refuses the request.
Fetch ==
  /\ pc = "start"
  /\ \E n \in {Least(Len(rows), MaxSources)} :
       \/ /\ n > 0
          /\ fetched' \in [1 .. n -> Fetches]
          /\ \/ /\ \E i \in 1 .. n : fetched'[i] # "failed"
                /\ pc' = "fetched"
             \/ /\ \A i \in 1 .. n : fetched'[i] \in {"failed", "unread"}
                /\ pc' = "refused"
       \/ pc' = "refused" /\ UNCHANGED fetched
  /\ UNCHANGED <<rows, complex, primary, second, tried, draft>>

\* The first model fails, or its payload is not valid: 502.  In degraded
\* mode the escalation model takes its place, and green is switched off.
AskPrimary ==
  /\ pc = "fetched"
  /\ \/ \E a \in Answer :
          /\ primary' = IF Degraded THEN [a EXCEPT !.green = FALSE] ELSE a
          /\ pc' = "drafted"
     \/ pc' = "refused" /\ UNCHANGED primary
  /\ UNCHANGED <<rows, fetched, complex, second, tried, draft>>

\* Mutant: only complex claims are read twice.
ShouldEscalateComplex == primary.green /\ complex

\* _should_escalate, and both classes are in the prompt.
ShouldEscalate ==
  /\ primary.green
  /\ ~primary.warned \/ complex
  /\ HasClass("primary") /\ HasClass("secondary")

\* A second model that fails, or answers something the merge cannot read, is
\* ignored.
AskSecond ==
  /\ pc = "drafted"
  /\ IF ~Degraded /\ ShouldEscalate
     THEN /\ tried' = TRUE
          /\ second' \in Answer \cup {None}
     ELSE UNCHANGED <<tried, second>>
  /\ pc' = "answered"
  /\ UNCHANGED <<rows, fetched, complex, primary, draft>>

\* _merge_escalation: the longer list of subclaims, the second on a tie; the
\* second model's verdict; the first model's source assessments.
Merged(p, e) ==
  [verdict |-> e.verdict,
   green |-> p.green /\ e.green,
   score |-> Least(p.score, e.score),
   warned |-> p.warned \/ e.warned,
   subclaims |-> IF Len(e.subclaims) >= Len(p.subclaims) THEN e.subclaims
                 ELSE p.subclaims,
   unmatched |-> p.unmatched]

Parsed == IF second = None THEN primary ELSE Merged(primary, second)

\* _enforce_green_lane.
Enforced(a) ==
  a.green /\ a.verdict = "supported" /\ ~a.warned /\ AllSupported(a)

\* The server's own warnings: one for each source not fetched live, one for
\* a suspicious one.
ServerWarns == Some(Fetches \ {"ok"})

\* min over what applies of 1, 0.4, 0.6, 0.35.
Cap(a) ==
  IF a.unmatched THEN 35
  ELSE IF Some({"suspicious"}) THEN 40
  ELSE IF Some({"excerpt", "failed"}) THEN 60
  ELSE 100

Green(a) ==
  /\ Enforced(a)
  /\ a.score >= 90
  /\ HasClass("primary") /\ HasClass("secondary")
  /\ ~ServerWarns
  /\ ~a.unmatched

\* Text that breaks the moderation policy is refused; else record_draft.
Record ==
  /\ pc = "answered"
  /\ \/ /\ draft' = [verdict |-> Parsed.verdict, green |-> Green(Parsed),
                     score |-> Least(Parsed.score, Cap(Parsed)),
                     subclaims |-> Parsed.subclaims]
        /\ pc' = "recorded"
     \/ pc' = "refused" /\ UNCHANGED draft
  /\ UNCHANGED <<rows, fetched, complex, primary, second, tried>>

Init ==
  /\ rows \in RowLists
  /\ fetched = <<>>
  /\ pc = "start"
  /\ complex \in BOOLEAN
  /\ primary = None
  /\ second = None
  /\ tried = FALSE
  /\ draft = None

Next == Fetch \/ AskPrimary \/ AskSecond \/ Record

Spec == Init /\ [][Next]_vars

-----------------------------------------------------------------------------
TypeOK ==
  /\ rows \in RowLists
  /\ DOMAIN fetched \subseteq DOMAIN rows
  /\ pc \in {"start", "fetched", "drafted", "answered", "recorded", "refused"}
  /\ primary \in Answer \cup {None}
  /\ second \in Answer \cup {None}
  /\ tried \in BOOLEAN
  /\ draft \in Draft \cup {None}

\* A draft is green only if its own verdict and subclaims are positive, it
\* rests on live text of both classes that the models were shown, and the
\* circuit breaker is off, whatever the models said of themselves.
GreenIsSafe ==
  draft # None /\ draft.green =>
    /\ draft.verdict = "supported" /\ AllSupported(draft)
    /\ draft.score >= 90
    /\ \A i \in DOMAIN fetched : fetched[i] = "ok"
    /\ \A class \in {"primary", "secondary"} :
         \E i \in DOMAIN rows : i <= MaxSources /\ rows[i] = class
    /\ ~Degraded

\* No draft is green on one model's word unless the second could not be
\* asked: the guard that asks the second model covers every answer the
\* green lane would take.
GreenWasReadTwice ==
  draft # None /\ draft.green => tried /\ (second = None \/ second.green)

-----------------------------------------------------------------------------
\* README.md: after every model call an unsafe signal (another verdict, a
\* warning, a subclaim not supported) forces green-lane off: no model that
\* answered gave one.
NoObjectionIsLost ==
  draft # None /\ draft.green =>
    \A a \in {primary, second} \ {None} :
      a.verdict = "supported" /\ ~a.warned /\ AllSupported(a)
=============================================================================
