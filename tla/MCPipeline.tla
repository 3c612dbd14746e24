----------------------------- MODULE MCPipeline -----------------------------
(* An instance of Pipeline: two races, a text with a factual sentence and a  *)
(* slogan, a hostile text; urls of every kind the source policy tells apart, *)
(* and batches that mix origins, classes and duplicates; a template of every *)
(* kind; three claims of one candidate and one of another, who share an      *)
(* issue; one client address and two threads; two pages that answer anything *)
(* to a probe, with fewer requests than a tour of them with fallbacks takes. *)
EXTENDS Pipeline

MCSentences == [plain |-> {"fact", "slogan"}, hostile |-> {"fact"}]
MCFeatures == [fact |-> {"factual"}, slogan |-> {"rhetorical", "factual"}]

MCPageType == [page |-> "content", record |-> "content", listing |-> "section",
               account |-> "content", advocacy |-> "content"]

Item(u, class, origin, publisher, quote) ==
  [claim |-> "c1", url |-> u, class |-> class, origin |-> origin,
   publisher |-> publisher, quote |-> quote]

Verifying(u, class) == Item(u, class, "verification", None, FALSE)

MCInputs ==
  {Verifying(u, "primary") : u \in DOMAIN MCPageType}
    \cup {Item("page", "primary", "verification", "party", FALSE),
          Item("advocacy", "primary", "candidate", None, TRUE)}
    \cup {Item("account", "primary", "candidate", "party", q) : q \in BOOLEAN}

MCBatches ==
  {<<Verifying("page", "secondary"),
     Item("account", "primary", "candidate", "party", TRUE)>>,
   <<Verifying("record", "primary"), Verifying("record", "primary")>>}

MCSeeds == [primary |-> [url |-> "record", publisher |-> "agency"],
            secondary |-> [url |-> "page", publisher |-> "agency"]]

\* Partisan by its host, and partisan by its publisher.
MCLegacy ==
  {[claim |-> "c1", url |-> u, class |-> "primary", origin |-> "verification",
    publisher |-> IF u = "record" THEN "party" ELSE None, flagged |-> FALSE] :
     u \in {"advocacy", "record"}}

\* Some templates are for funding claims, some for any.
Template(kind, funding, methodology, overlap, url) ==
  [kind |-> kind, funding |-> funding, methodology |-> methodology,
   overlap |-> overlap, url |-> url]

MCTemplates ==
  <<Template("congress", TRUE, FALSE, TRUE, "congress"),
    Template("plain", FALSE, TRUE, TRUE, "voteview"),
    Template("usaspending", TRUE, FALSE, TRUE, "usaspending"),
    Template("register", TRUE, FALSE, TRUE, "register"),
    Template("plain", TRUE, FALSE, FALSE, "budget"),
    Template("plain", FALSE, FALSE, TRUE, "ap")>>

MCAnchorSets ==
  {{}, {"amount", "state"}, {"state", "context"},
   {"amount", "state", "context"}, {"amount", "program", "context"},
   {"stat"}, {"methodology"}, {"stat", "methodology"}}

\* Two claims of the candidate are on the issue on which the other has one;
\* reviewers work on the first.
MCCandidateOf == [c1 |-> "a", c2 |-> "a", c3 |-> "a", c4 |-> "b"]
MCIssueOf == [c1 |-> 1, c2 |-> 1, c3 |-> 2, c4 |-> 1]
MCSaidAt == [c1 |-> 1, c2 |-> 1, c3 |-> 1, c4 |-> 1]

MCRace == [name |-> "a", context |-> "x"]
MCRoster == {MCRace}
MCWholeRoster == {MCRace, [name |-> "b", context |-> "x"]}
MCSeedTexts == {<<MCRace, "plain">>, <<MCRace, "hostile">>}
=============================================================================
