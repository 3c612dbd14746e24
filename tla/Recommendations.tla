--------------------------- MODULE Recommendations ---------------------------
(***************************************************************************)
(* The links the workbench suggests for a claim                            *)
(* (source_recommendation_service.py).  Templates are taken in the order of *)
(* their priority; each is searched, for some of them the search is        *)
(* resolved to a record, and the page is fetched.  What fetch and search   *)
(* answer is the environment's.  A suggestion is "attachable" with one     *)
(* click, or for "discovery" only.                                         *)
(***************************************************************************)
EXTENDS Naturals, Sequences, FiniteSets

CONSTANTS
  Templates,  \* the templates that match the claim's race and issue, in order
  Records,    \* urls of records that a search may lead to
  Bills,      \* bills a claim may name
  AnchorSets, \* sets of anchors that a page or a record may have
  MaxLimit    \* largest limit of a request

TemplateRow ==
  [kind : {"congress", "usaspending", "register", "plain"},
   funding : BOOLEAN, methodology : BOOLEAN, overlap : BOOLEAN, url : STRING]

LinksAssumption ==
  /\ Templates \in Seq(TemplateRow)
  /\ Templates # <<>> /\ IsFiniteSet(Bills) /\ MaxLimit \in Nat

VARIABLES
  claim,     \* what the claim is about
  attached,  \* urls of the claim's sources
  limit,     \* capped_limit
  pos,       \* the template that is next
  out,       \* the suggestions so far
  last       \* history: what the last suggestion rests on

vars == <<claim, attached, limit, pos, out, last>>

-----------------------------------------------------------------------------
ContextAnchors == {"program", "state", "context"}
FundingAnchors == {"amount"} \cup ContextAnchors
VotingAnchors == {"stat", "denominator", "methodology"}

\* The bills a text may name, each taken once however often it is named.
NamedBills == SUBSET Bills

\* The congress that the claim names, or the current and the one before.
Congresses == {{1}, {1, 2}}

ClaimContext == {c \in [funding : BOOLEAN, voting : BOOLEAN, program : BOOLEAN,
                  bills : NamedBills, congresses : Congresses] :
             c.program => c.funding}

\* A search page, homepage or section page lists; anything else is a document.
PageTypes == {"list", "document"}

\* A fetched page. thin: below the template's overlap; text: html or plain
\* text, of which the anchors are found; blocked: the page is an access page.
Pages == {p \in [status : {"unreachable", "no_results", "weak", "validated"},
                 type : PageTypes, thin : BOOLEAN, text : BOOLEAN,
                 blocked : BOOLEAN,
                 anchors : AnchorSets] :
            ~p.text => /\ p.anchors = {} /\ p.thin
                       /\ p.status \in {"unreachable", "validated"}}

NoSuggestion == [template |-> 0, resolved |-> "none", role |-> "none",
                 evidence |-> FALSE, item |-> {}, found |-> {}, text |-> FALSE,
                 type |-> "document", anchors |-> {}]

-----------------------------------------------------------------------------
\* _FUNDING_REQUIRED_CONTEXT_ANCHORS = 2; a program counts if the claim names it.
ContextOK(anchors) ==
  /\ claim.program => "program" \in anchors
  /\ Cardinality(anchors \cap
       (IF claim.program THEN ContextAnchors ELSE ContextAnchors \ {"program"})) >= 2

FundingOK(anchors) == "amount" \in anchors /\ ContextOK(anchors)

VotingOK(anchors) ==
  "methodology" \in anchors /\ anchors \cap {"stat", "denominator"} # {}

\* Mutant: several records do not matter.
OneRecordAnyway(found) == found # {}

\* The records that were found for the bills that the claim names: not two of
\* one bill, one of each bill, and all of them the same.
OneRecord(found) ==
  /\ found # {}
  /\ Cardinality(found) = Cardinality({r.bill : r \in found})
  /\ Cardinality(claim.bills) > 1 => {r.bill : r \in found} = claim.bills
  /\ Cardinality(found) = 1

RoleIf(attachable) == IF attachable THEN "attachable" ELSE "discovery"

ResolveBill(found) == RoleIf(OneRecord(found))

\* item has the anchors of the first award or document that passes, or of the
\* one that is kept when none does; none where the search failed.
ResolveAward(item) == RoleIf(FundingOK(item))

\* A document of the Federal Register need not name the amount.
ResolveDocument(item) == RoleIf(ContextOK(item))

Resolve(t, item, found) ==
  CASE t.kind = "congress" -> ResolveBill(found)
    [] t.kind = "usaspending" -> ResolveAward(item)
    [] t.kind = "register" -> ResolveDocument(item)
    [] OTHER -> "none"

Applies(t) == t.kind = "congress" \/ t.funding = claim.funding

\* The Federal Register shows its "request access" page instead.
AccessBlocked(t, p) == t.kind = "register" /\ p.blocked

Dropped(t, r, p) ==
  \/ p.status = "unreachable"
  \/ AccessBlocked(t, p)
  \/ r = "none" /\ p.status = "no_results"
  \/ r = "none" /\ p.status = "validated" /\ t.overlap /\ p.thin

\* A resolved record that its page does not refute; award pages are rendered by
\* scripts and may say little.
ResolvedStands(t, p) ==
  /\ t.kind = "usaspending" \/ p.status # "weak"
  /\ p.status # "no_results" /\ p.type = "document"
  /\ t.kind = "register" /\ p.text => ContextOK(p.anchors)

Anchored(p) ==
  IF claim.funding THEN FundingOK(p.anchors)
  ELSE claim.voting => VotingOK(p.anchors)

Role(t, r, p) ==
  RoleIf(CASE r = "none" -> /\ p.status # "weak" /\ p.type = "document"
                            /\ Anchored(p)
           [] r = "attachable" -> ResolvedStands(t, p)
           [] OTHER -> FALSE)

\* evidence_url: without a resolver it is set where the anchors are there, a
\* weak match or not.
Evidence(t, r, p) ==
  IF r = "none" THEN p.type = "document" /\ (claim.funding \/ claim.voting) /\ Anchored(p)
  ELSE Role(t, r, p) = "attachable"

\* The record a search was resolved to, or the search itself.
Url(t, r, record) == IF r = "attachable" THEN record ELSE t.url

Taken(url) == url \in attached \/ url \in {out[i].url : i \in 1 .. Len(out)}

-----------------------------------------------------------------------------
\* The template with everything that search and fetch answer.
Suggest(t, item, found, p, record) ==
  LET r == Resolve(t, item, found) IN
  /\ ~Dropped(t, r, p)
  /\ t.kind = "usaspending" => Role(t, r, p) = "attachable"
  /\ ~Taken(Url(t, r, record))
  /\ out' = Append(out, [url |-> Url(t, r, record), template |-> pos,
                         role |-> Role(t, r, p)])
  /\ last' = [template |-> pos, resolved |-> r, role |-> Role(t, r, p),
              evidence |-> Evidence(t, r, p), item |-> item, found |-> found,
              text |-> p.text, type |-> p.type, anchors |-> p.anchors]
  /\ pos' = pos + 1
  /\ UNCHANGED <<claim, attached, limit>>

\* The template yields nothing: it does not apply, its url is a suggestion
\* already, or search and fetch answer something that leads to a continue.
Skip ==
  /\ pos' = pos + 1
  /\ UNCHANGED <<claim, attached, limit, out, last>>

\* What the searches of this template may find. The bills that exist and whose
\* request was answered.
Items(t) == IF t.kind \in {"usaspending", "register"}
            THEN {a \in AnchorSets : a \subseteq FundingAnchors} ELSE {{}}
Found(t) == IF t.kind # "congress" THEN {{}}
            ELSE SUBSET [bill : claim.bills, congress : claim.congresses]

\* The anchors that are looked for, and the circumstances that matter for this
\* template; methodology signals are required of a page.
Fetched(t) ==
  {p \in Pages : /\ p.anchors \subseteq IF claim.funding THEN FundingAnchors
                                        ELSE VotingAnchors
                 /\ p.blocked => t.kind = "register"
                 /\ p.thin /\ p.text => t.overlap /\ t.kind = "plain"
                 /\ claim.voting /\ t.methodology /\ p.text /\ p.status = "validated"
                      => "methodology" \in p.anchors}

Consider ==
  LET t == Templates[pos] IN
  /\ pos <= Len(Templates) /\ Len(out) < limit
  /\ \/ Skip
     \/ /\ Applies(t)
        /\ \E item \in Items(t), found \in Found(t), p \in Fetched(t),
              record \in Records : Suggest(t, item, found, p, record)

Init ==
  /\ claim \in ClaimContext
  /\ attached \in {{}} \cup {{u} : u \in Records \cup {Templates[Len(Templates)].url}}
  /\ limit \in 1 .. MaxLimit
  /\ pos = 1 /\ out = <<>> /\ last = NoSuggestion

Next == Consider

Spec == Init /\ [][Next]_vars

-----------------------------------------------------------------------------
\* The variables have their types.
TypeOK ==
  /\ claim \in ClaimContext /\ limit \in 1 .. MaxLimit
  /\ pos \in 1 .. Len(Templates) + 1 /\ Len(out) <= limit
  /\ \A i \in 1 .. Len(out) : out[i].role \in {"attachable", "discovery"}

\* What can be attached with one click was settled, not just searched for.  A
\* document of the Federal Register is not attachable for what the search said
\* of it alone: where its text was read, the context is there.  A bill is the
\* only record of the only bill it can be.  And no click attaches what the
\* claim has already.
AttachableIsCertain ==
  /\ last.role = "attachable" =>
       LET kind == Templates[last.template].kind IN
       /\ kind = "register" /\ last.text
            => ContextOK(last.anchors) /\ last.type = "document"
       /\ kind = "congress"
            => Cardinality(last.found) = 1 /\ Cardinality(claim.bills) = 1
  /\ \A i, j \in 1 .. Len(out) :
       /\ out[i].url \notin attached
       /\ i # j => out[i].url # out[j].url

\* What can be attached passed the checks of the kind of claim: amount and
\* context for funding, statistic and method for voting records.
AttachableIsAnchored ==
  last.role = "attachable" =>
    /\ claim.funding =>
         \/ FundingOK(last.item) \/ FundingOK(last.anchors)
         \/ Templates[last.template].kind = "register" /\ ContextOK(last.item)
    /\ ~claim.funding /\ claim.voting => VotingOK(last.anchors)
=============================================================================
