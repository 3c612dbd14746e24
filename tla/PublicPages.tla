----------------------------- MODULE PublicPages -----------------------------
(***************************************************************************)
(* What the public reads: the comparison of a race (comparison_service.py),*)
(* the dashboard feed (published_claim_service.py) and the scores          *)
(* (scoring_service.py).                                                   *)
(*                                                                         *)
(* A page is built by several queries of one READ COMMITTED transaction:   *)
(* the claims first, their sources afterwards, each as of its own moment.  *)
(* Reviewers change the tables in between; what they may do is what        *)
(* ReviewPolicy allows, with the flags and the checkability that the       *)
(* backfills set.                                                          *)
(***************************************************************************)
EXTENDS Integers, FiniteSets

CONSTANTS
  Claims,       \* claims of one race, inside the window
  CandidateOf,  \* who said each
  IssueOf,      \* the resolved issue of each: a number in alphabetic order
  SaidAt,       \* when: the seed scripts give several one time
  Settled,      \* claims published earlier, that nobody touches now
  LimitIssues,  \* limit_issues of the request
  Flags,        \* whether the policy backfill flags rows
  None          \* no value

PagesAssumption ==
  /\ IsFiniteSet(Claims) /\ Settled \subseteq Claims
  /\ None \notin {"compare", "dashboard", "supported", "unsupported", "insufficient"}

VARIABLES
  claim,      \* of each claim: published, checkable, verdict
  sources,    \* its verification sources: class, flagged
  page,       \* the page being built, and the one shown
  withdrawn   \* history: claims unpublished since the page's first query

vars == <<claim, sources, page, withdrawn>>

\* What the first query found is in items before the sources are known.
NoPage == [kind |-> None, items |-> {}, shown |-> FALSE]

Classes == {"primary", "secondary"}
Factual == {"supported", "unsupported"}
Good(class) == [class |-> class, flagged |-> FALSE]

Has(c, class) == Good(class) \in sources[c]
MinimumEvidence(c) == \A class \in Classes : Has(c, class)

-----------------------------------------------------------------------------
(* Comparison. *)

\* The rows of the first query: an inner join with the latest evaluation.
Compared(c) ==
  claim[c].published /\ claim[c].checkable /\ claim[c].verdict # None

Rows == {c \in Claims : Compared(c)}

Frequency(issue) == Cardinality({c \in Rows : IssueOf[c] = issue})

\* sorted by frequency, then name; the first limit_issues of them.
TopIssues ==
  LET issues == {IssueOf[c] : c \in Rows} \ {None}
      Before(i, j) == \/ Frequency(i) > Frequency(j)
                      \/ Frequency(i) = Frequency(j) /\ i < j
  IN  {i \in issues : Cardinality({j \in issues : Before(j, i)}) < LimitIssues}

Key(c) == <<CandidateOf[c], IssueOf[c]>>

\* The newest of the candidate's rows on the issue.
Newest(c) ==
  /\ IssueOf[c] \in TopIssues
  /\ \A d \in Rows : Key(d) = Key(c) => SaidAt[d] <= SaidAt[c]

\* _pick_representatives keeps the first row of each key: of those said at one
\* time, any may come first.
Picks ==
  LET newest == {c \in Rows : Newest(c)}
  IN  {items \in SUBSET newest :
         /\ \A c \in newest : \E d \in items : Key(d) = Key(c)
         /\ \A c, d \in items : Key(c) = Key(d) => c = d}

\* The dashboard lists every published checkable claim.
DashboardItems == {c \in Claims : claim[c].published /\ claim[c].checkable}

\* _build_item_warnings over the sources the query lets through.
Missing(c) == {class \in Classes : ~Has(c, class)}

Item(c, missing) == [claim |-> c, verdict |-> claim[c].verdict,
                     missing |-> missing]

ReadClaims(kind) ==
  /\ page.kind = None
  /\ \E found \in IF kind = "compare" THEN Picks ELSE {DashboardItems} :
       page' = [kind |-> kind, shown |-> FALSE,
                items |-> {Item(c, {}) : c \in found}]
  /\ withdrawn' = {}
  /\ UNCHANGED <<claim, sources>>

ReadSources ==
  /\ page.kind # None /\ ~page.shown
  /\ page' = [page EXCEPT !.shown = TRUE,
                !.items = {[item EXCEPT !.missing = Missing(item.claim)] :
                             item \in page.items}]
  /\ UNCHANGED <<claim, sources, withdrawn>>

ClosePage ==
  /\ page.shown
  /\ page' = NoPage
  /\ withdrawn' = {}
  /\ UNCHANGED <<claim, sources>>

-----------------------------------------------------------------------------
(* What reviewers and scripts do meanwhile. *)

Judge(c) ==
  /\ \E verdict \in Factual \cup {"insufficient"} :
       /\ verdict \in Factual => MinimumEvidence(c)
       /\ claim' = [claim EXCEPT ![c].verdict = verdict]
  /\ UNCHANGED <<sources, page, withdrawn>>

Publish(c) ==
  /\ claim[c].checkable
  /\ claim[c].verdict \in Factual
  /\ MinimumEvidence(c)
  /\ claim' = [claim EXCEPT ![c].published = TRUE]
  /\ UNCHANGED <<sources, page, withdrawn>>

Unpublish(c) ==
  /\ claim[c].verdict # None
  /\ claim' = [claim EXCEPT ![c].published = FALSE]
  /\ withdrawn' = IF page.kind = None THEN {} ELSE withdrawn \cup {c}
  /\ UNCHANGED <<sources, page>>

Attach(c) ==
  /\ \E class \in Classes :
       sources' = [sources EXCEPT ![c] = @ \cup {Good(class)}]
  /\ UNCHANGED <<claim, page, withdrawn>>

\* Mutant: a source of a published claim may be deleted.
DeleteAnySource(c) ==
  /\ \E row \in sources[c] : sources' = [sources EXCEPT ![c] = @ \ {row}]
  /\ UNCHANGED <<claim, page, withdrawn>>

DeleteSource(c) ==
  /\ ~claim[c].published
  /\ \E row \in sources[c] : sources' = [sources EXCEPT ![c] = @ \ {row}]
  /\ UNCHANGED <<claim, page, withdrawn>>

FlagSource(c) ==
  /\ Flags
  /\ \E row \in sources[c] :
       sources' = [sources EXCEPT ![c] = (@ \ {row})
                                          \cup {[row EXCEPT !.flagged = TRUE]}]
  /\ UNCHANGED <<claim, page, withdrawn>>

SetCheckable(c) ==
  /\ \E b \in BOOLEAN : claim' = [claim EXCEPT ![c].checkable = b]
  /\ UNCHANGED <<sources, page, withdrawn>>

Init ==
  /\ \E verdict \in Factual \cup {"insufficient"} :
       claim = [c \in Claims |->
         [published |-> c \in Settled, checkable |-> TRUE,
          verdict |-> IF c \in Settled THEN verdict ELSE None]]
  /\ sources = [c \in Claims |->
       IF c \in Settled THEN {Good(class) : class \in Classes} ELSE {}]
  /\ page = NoPage
  /\ withdrawn = {}

Next ==
  \/ \E c \in Claims \ Settled :
       \/ Judge(c) \/ Publish(c) \/ Unpublish(c)
       \/ Attach(c) \/ DeleteSource(c) \/ FlagSource(c) \/ SetCheckable(c)
  \/ \E kind \in {"compare", "dashboard"} : ReadClaims(kind)
  \/ ReadSources
  \/ ClosePage

Spec == Init /\ [][Next]_vars

-----------------------------------------------------------------------------
(* Scores. *)

\* Claims of the candidate in the window with an evaluation, public or not.
Evaluated(x, insufficient) ==
  {c \in Claims : /\ CandidateOf[c] = x
                  /\ claim[c].verdict # None
                  /\ insufficient \/ claim[c].verdict # "insufficient"}

With(x, insufficient, verdict) ==
  Cardinality({c \in Evaluated(x, insufficient) : claim[c].verdict = verdict})

Sufficient(x, insufficient) ==
  Cardinality({c \in Evaluated(x, insufficient) : MinimumEvidence(c)})

\* Rates in millionths: round(n / d, 6).
Round(n, d) == (2 * n + d) \div (2 * d)
Rate(n, d) == IF d = 0 THEN 0 ELSE Round(1000000 * n, d)

\* Mutant: false claims raise the score.
CompositeAdded(fsr, esr, fcr) == Round(5 * fsr + 3 * esr + 2 * fcr, 10)

Composite(fsr, esr, fcr) == Round(5 * fsr + 3 * esr - 2 * fcr, 10)

Score(x, insufficient) ==
  LET d == Cardinality(Evaluated(x, insufficient))
  IN  IF d = 0 THEN None
      ELSE Composite(Rate(With(x, insufficient, "supported"), d),
                     Rate(Sufficient(x, insufficient), d),
                     Rate(With(x, insufficient, "unsupported"), d))

-----------------------------------------------------------------------------
ItemType == [claim : Claims, verdict : Factual \cup {"insufficient", None},
             missing : SUBSET Classes]

TypeOK ==
  /\ claim \in [Claims -> [published : BOOLEAN, checkable : BOOLEAN,
                  verdict : Factual \cup {"insufficient", None}]]
  /\ sources \in [Claims -> SUBSET [class : Classes, flagged : BOOLEAN]]
  /\ page \in [kind : {"compare", "dashboard", None},
               items : SUBSET ItemType, shown : BOOLEAN]
  /\ withdrawn \subseteq Claims

\* Reviewers work between the two queries of a page, and yet a claim on it that
\* is not public now was taken down since the page was begun; and a gap that a
\* page reports in a claim's evidence has one of two reasons: the claim was
\* taken down while the page was read, or some source of it bears the flag of
\* the policy backfill, set at that time or long before.
GapsHaveReasons ==
  /\ \A item \in page.items :
       claim[item.claim].published \/ item.claim \in withdrawn
  /\ page.shown => \A item \in page.items : item.missing # {} =>
       \/ item.claim \in withdrawn
       \/ \E row \in sources[item.claim] : row.flagged

\* Three roundings to six places do not move a score by more than one
\* millionth from what docs/SCORING.md defines.
ScoreIsExact ==
  \A x \in {CandidateOf[c] : c \in Claims}, insufficient \in BOOLEAN :
    LET d == Cardinality(Evaluated(x, insufficient))
        exact == 1000000 * (5 * With(x, insufficient, "supported")
                            + 3 * Sufficient(x, insufficient)
                            - 2 * With(x, insufficient, "unsupported"))
    IN  d > 0 => LET error == 10 * d * Score(x, insufficient) - exact
                 IN  -10 * d <= error /\ error <= 10 * d
=============================================================================
