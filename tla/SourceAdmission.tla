--------------------------- MODULE SourceAdmission ---------------------------
(***************************************************************************)
(* What may become evidence (source_service.py): the admission policy, the *)
(* single, bulk and scripted ways a source is attached, its deletion, the  *)
(* backfill of policy flags, and the queue of claims that need evidence.   *)
(* The policy goes by the host of a url and by the publisher the request   *)
(* names, if it names one.  A bulk request commits item by item, which     *)
(* lets others at the claim in between, and records its audit event at the *)
(* end.  The network answers each probe as it likes.  (An item that is     *)
(* refused keeps the claim's lock until the request's next commit; letting *)
(* others in there only adds behaviours.)                                  *)
(***************************************************************************)
EXTENDS Naturals, Sequences, FiniteSets

CONSTANTS
  Claims,     \* claims that are fact-checkable
  Urls,       \* comparison keys of urls
  PageType,   \* of each url: "content", "homepage", "search" or "section"
  Social,     \* urls on a social domain
  PartisanDomains,     \* urls whose host a partisan domain matches
  Publishers,          \* names of publishers a request may give
  PartisanPublishers,  \* those a partisan publisher's name matches
  Reviewers,  \* active reviewers and admins
  Inputs,     \* items that are submitted one by one
  Batches,    \* bulk requests: sequences of items
  Seeds,      \* what the attach script has for each class: url, publisher
  Legacy,     \* rows from before the policy, and of seed_tx_us_senate_example
  Bulks,      \* bulk requests under way
  Crashes,    \* whether the process of a bulk request dies
  None        \* no reviewer, no publisher

VARIABLES
  rows,    \* sources
  bulk,    \* the bulk requests
  audit,   \* audit events of bulk requests
  script,  \* the attach script
  backfill,  \* the backfill of policy flags: pc, and the rows it has to flag
  batch,   \* history: whether a row came by a bulk request, and whose
  gone,    \* history: how many rows of each bulk request were deleted
  cleaned  \* history: whether a backfill has committed

vars == <<rows, bulk, audit, script, backfill, batch, gone, cleaned>>

-----------------------------------------------------------------------------
Classes == {"primary", "secondary"}
Origins == {"candidate", "verification"}

Item == [claim : Claims, url : Urls, class : Classes, origin : Origins,
         publisher : Publishers \cup {None}, quote : BOOLEAN]

Row == [claim : Claims, url : Urls, class : Classes, origin : Origins,
        publisher : Publishers \cup {None}, flagged : BOOLEAN]

AdmissionAssumption ==
  /\ DOMAIN PageType = Urls /\ Social \subseteq Urls
  /\ Inputs \subseteq Item /\ Batches \subseteq Seq(Item)
  /\ Seeds \in [Classes -> [url : Urls, publisher : Publishers]]
  /\ Legacy \subseteq Row
  /\ \A q, r \in Legacy : q.claim = r.claim /\ q.url = r.url => q = r
  /\ None \notin Bulks /\ None \notin Reviewers

\* Who asked for a row: nobody in particular, or a bulk request.
Hand == [by : Bulks \cup {None}, approval : Reviewers \cup {None},
         applying : Reviewers \cup {None}]

Outcome == {"attached", "duplicate", "policy_violation", "error"}

Bulk == [pc : {"idle", "running", "done", "dead"},
         approval : Reviewers \cup {None}, applying : Reviewers \cup {None},
         items : Seq(Item), results : Seq(Outcome)]

NoBulk == [pc |-> "idle", approval |-> None, applying |-> None,
           items |-> <<>>, results |-> <<>>]

-----------------------------------------------------------------------------
(* The policy. *)

\* find_partisan_rule_match: by the publisher that was typed, or by the host.
Match(x) == x.publisher \in PartisanPublishers \/ x.url \in PartisanDomains

\* Mutant: the host alone decides.
PolicyAllowsByHost(i) ==
  /\ i.origin = "verification" =>
       PageType[i.url] = "content" /\ i.url \notin Social \cup PartisanDomains
  /\ i.origin = "candidate" /\ i.url \in Social => i.quote
  /\ i.origin = "candidate" /\ Match(i) => i.quote /\ i.url \in Social

\* validate_source_admission without its probe.
PolicyAllows(i) ==
  /\ i.origin = "verification" =>
       PageType[i.url] = "content" /\ i.url \notin Social /\ ~Match(i)
  /\ i.origin = "candidate" /\ i.url \in Social => i.quote
  /\ i.origin = "candidate" /\ Match(i) => i.quote /\ i.url \in Social

\* The page-type refusal has a code of its own, which bulk results call error.
PolicyError(i) ==
  IF i.origin = "verification" /\ PageType[i.url] # "content"
  THEN "error" ELSE "policy_violation"

Attached(i) == \E r \in rows : r.claim = i.claim /\ r.url = i.url

NewRow(i) == [claim |-> i.claim, url |-> i.url, class |-> i.class,
              origin |-> i.origin, publisher |-> i.publisher, flagged |-> FALSE]

\* How add_source may end for an item, under the claim's lock: outcome and row.
\* A page that is not on a social domain is probed, and refused if it is dead.
Judged(i) ==
  IF ~PolicyAllows(i) THEN {[outcome |-> PolicyError(i), row |-> {}]}
  ELSE (IF i.url \in Social THEN {} ELSE {[outcome |-> "error", row |-> {}]})
    \cup IF Attached(i) THEN {[outcome |-> "duplicate", row |-> {}]}
         ELSE {[outcome |-> "attached", row |-> {NewRow(i)}]}

ByNobody == [by |-> None, approval |-> None, applying |-> None]

Store(new, hand) ==
  /\ rows' = rows \cup new
  /\ batch' = [k \in DOMAIN batch |->
       IF \E r \in new : <<r.claim, r.url>> = k THEN hand ELSE batch[k]]
  /\ UNCHANGED <<gone, cleaned>>

-----------------------------------------------------------------------------
(* One source by hand, and the script that changes what counts. *)

AddSource(i) ==
  /\ \E j \in Judged(i) : Store(j.row, ByNobody)
  /\ UNCHANGED <<bulk, audit, script, backfill>>

\* delete_source, under the claim's lock.  It is refused once the claim is
\* published, which is ClaimReview's to say.
DeleteSource(r) ==
  /\ rows' = rows \ {r}
  /\ LET k == <<r.claim, r.url>>
         b == batch[k].by
     IN  /\ batch' = [batch EXCEPT ![k] = ByNobody]
         /\ gone' = IF b = None THEN gone ELSE [gone EXCEPT ![b] = gone[b] + 1]
  /\ UNCHANGED <<bulk, audit, script, backfill, cleaned>>

\* backfill_source_admission_policy_flags reads every verification row, without
\* a lock, and has those to flag that match and are not flagged.
BackfillRead ==
  /\ backfill.pc = "idle"
  /\ backfill' = [pc |-> "read", seen |->
       {r \in rows : r.origin = "verification" /\ Match(r) /\ ~r.flagged}]
  /\ UNCHANGED <<rows, bulk, audit, script, batch, gone, cleaned>>

\* Its commit flags them all; or none, if one was deleted meanwhile and its
\* update finds no row.
BackfillCommit ==
  /\ backfill.pc = "read"
  /\ IF backfill.seen \subseteq rows
     THEN /\ rows' = {IF r \in backfill.seen THEN [r EXCEPT !.flagged = TRUE] ELSE r :
                        r \in rows}
          /\ cleaned' = TRUE
     ELSE UNCHANGED <<rows, cleaned>>
  /\ backfill' = [pc |-> "idle", seen |-> {}]
  /\ UNCHANGED <<bulk, audit, script, batch, gone>>

-----------------------------------------------------------------------------
(* attach_sources_bulk. *)

DualControl(b) ==
  /\ bulk[b].approval # None /\ bulk[b].applying # None
  /\ bulk[b].approval # bulk[b].applying

\* Both identities are resolved among the active accounts, and are None where
\* they are not found there.
\* A batch without candidate items is refused where the control is not met.
BulkStart(b, items, approval, applying) ==
  /\ bulk[b].pc = "idle"
  /\ \/ approval # None /\ applying # None /\ approval # applying
     \/ \A n \in DOMAIN items : items[n].origin # "verification"
     \/ \E n \in DOMAIN items : items[n].origin = "candidate"
  /\ bulk' = [bulk EXCEPT ![b] = [pc |-> "running", approval |-> approval,
       applying |-> applying, items |-> items, results |-> <<>>]]
  /\ UNCHANGED <<rows, audit, script, backfill, batch, gone, cleaned>>

Next1(b) == Len(bulk[b].results) + 1
Current(b) == bulk[b].items[Next1(b)]

Report(b, outcome) ==
  bulk' = [bulk EXCEPT ![b] = [bulk[b] EXCEPT !.results = Append(bulk[b].results, outcome)]]

\* Mutant: the candidate items of a batch let its other items through.
BulkItemMixed(b) ==
  /\ bulk[b].pc = "running" /\ Len(bulk[b].results) < Len(bulk[b].items)
  /\ \E j \in Judged(Current(b)) :
       /\ Store(j.row, [by |-> b, approval |-> bulk[b].approval,
                        applying |-> bulk[b].applying])
       /\ Report(b, j.outcome)
  /\ UNCHANGED <<audit, script, backfill>>

\* One item: add_source with its own commit.
BulkItem(b) ==
  /\ bulk[b].pc = "running" /\ Len(bulk[b].results) < Len(bulk[b].items)
  /\ IF Current(b).origin = "verification" /\ ~DualControl(b)
     THEN Report(b, "error") /\ UNCHANGED <<rows, batch, gone, cleaned>>
     ELSE \E j \in Judged(Current(b)) :
            /\ Store(j.row, [by |-> b, approval |-> bulk[b].approval,
                             applying |-> bulk[b].applying])
            /\ Report(b, j.outcome)
  /\ UNCHANGED <<audit, script, backfill>>

\* Mutant: what was there before counts as attached.
CountAttachedLoosely(results) ==
  Cardinality({n \in DOMAIN results : results[n] \in {"attached", "duplicate"}})

CountAttached(results) ==
  Cardinality({n \in DOMAIN results : results[n] = "attached"})

\* Without an applying reviewer there is no event.
BulkEnd(b) ==
  /\ bulk[b].pc = "running" /\ Len(bulk[b].results) = Len(bulk[b].items)
  /\ audit' = IF bulk[b].applying = None THEN audit ELSE
       audit \cup {[bulk |-> b, attached |-> CountAttached(bulk[b].results),
         failed |-> Len(bulk[b].results) - CountAttached(bulk[b].results)]}
  /\ bulk' = [bulk EXCEPT ![b].pc = "done"]
  /\ UNCHANGED <<rows, script, backfill, batch, gone, cleaned>>

\* The process dies, or an error that is not an AppError ends the request.
BulkDies(b) ==
  /\ Crashes /\ bulk[b].pc = "running"
  /\ bulk' = [bulk EXCEPT ![b].pc = "dead"]
  /\ UNCHANGED <<rows, audit, script, backfill, batch, gone, cleaned>>

-----------------------------------------------------------------------------
(* The evidence queue, and the script that works it off. *)

\* The queue's query: what a flag does not touch is counted.
Eligible(r) == r.origin # "verification" \/ ~r.flagged

\* list_evidence_queue: the classes without an eligible verification source.
Missing(c) ==
  {k \in Classes : \A r \in rows :
     r.claim = c /\ r.class = k /\ Eligible(r) => r.origin # "verification"}

HasMinimumEvidence(c) ==
  \A k \in Classes : \E r \in rows :
    r.claim = c /\ r.origin = "verification" /\ ~r.flagged /\ r.class = k

ScriptStart ==
  /\ script.pc = "idle"
  /\ script' = [pc |-> "running",
                todo |-> UNION {{<<c, k>> : k \in Missing(c)} : c \in Claims}]
  /\ UNCHANGED <<rows, bulk, audit, backfill, batch, gone, cleaned>>

Seeded(c, k) ==
  [claim |-> c, url |-> Seeds[k].url, class |-> k, origin |-> "verification",
   publisher |-> Seeds[k].publisher, quote |-> FALSE]

\* One seed; a duplicate is passed over and any other error ends the script.
ScriptAttach(c, k) ==
  /\ script.pc = "running" /\ <<c, k>> \in script.todo
  /\ \E j \in Judged(Seeded(c, k)) :
       /\ Store(j.row, ByNobody)
       /\ script' = IF j.outcome \in {"attached", "duplicate"}
                    THEN [script EXCEPT !.todo = script.todo \ {<<c, k>>}]
                    ELSE [pc |-> "idle", todo |-> {}]
  /\ UNCHANGED <<bulk, audit, backfill>>

ScriptEnd ==
  /\ script.pc = "running" /\ script.todo = {}
  /\ script' = [pc |-> "idle", todo |-> {}]
  /\ UNCHANGED <<rows, bulk, audit, backfill, batch, gone, cleaned>>

-----------------------------------------------------------------------------
Init ==
  /\ rows \in SUBSET Legacy
  /\ audit = {} /\ cleaned = FALSE
  /\ bulk = [b \in Bulks |-> NoBulk]
  /\ script = [pc |-> "idle", todo |-> {}]
  /\ backfill = [pc |-> "idle", seen |-> {}]
  /\ batch = [k \in Claims \X Urls |-> ByNobody]
  /\ gone = [b \in Bulks |-> 0]

Next ==
  \/ \E i \in Inputs : AddSource(i)
  \/ \E r \in rows : DeleteSource(r)
  \/ BackfillRead \/ BackfillCommit
  \/ \E b \in Bulks :
       \/ \E items \in Batches, a, p \in Reviewers \cup {None} :
            BulkStart(b, items, a, p)
       \/ BulkItem(b) \/ BulkEnd(b) \/ BulkDies(b)
  \/ ScriptStart \/ ScriptEnd
  \/ \E c \in Claims, k \in Classes : ScriptAttach(c, k)

Spec == Init /\ [][Next]_vars

-----------------------------------------------------------------------------
\* Rows, requests and events have their shapes, and a url is attached to a
\* claim once.
TypeOK ==
  /\ rows \subseteq Row
  /\ \A q, r \in rows : q.claim = r.claim /\ q.url = r.url => q = r
  /\ \A b \in Bulks :
       /\ bulk[b].pc \in {"idle", "running", "done", "dead"}
       /\ bulk[b].approval \in Reviewers \cup {None}
       /\ bulk[b].applying \in Reviewers \cup {None}
       /\ bulk[b].items \in Seq(Item) /\ bulk[b].results \in Seq(Outcome)
  /\ script.pc \in {"idle", "running"} /\ backfill.pc \in {"idle", "read"}
  /\ backfill.seen \subseteq Row
  /\ \A k \in DOMAIN batch : batch[k] \in Hand

WasLegacy(r) == \E q \in Legacy : r \in {q, [q EXCEPT !.flagged = TRUE]}

\* Evidence stays on neutral ground, by the publisher and the host it is stored
\* with: only rows that came round the policy break it.  And once a backfill
\* has got through, though rows were attached and deleted under it, not even
\* they count where publisher or host is partisan.
EvidenceIsAdmissible ==
  \A r \in rows :
    /\ \/ WasLegacy(r)
       \/ /\ r.origin = "verification" =>
                PageType[r.url] = "content" /\ r.url \notin Social /\ ~Match(r)
          /\ r.origin = "candidate" /\ Match(r) => r.url \in Social
    /\ cleaned /\ r.origin = "verification" /\ Match(r) => r.flagged

\* A verification source that a bulk request attached has two reviewers, also
\* where candidate items carried the request past its first refusal.
BulkHasTwoReviewers ==
  \A r \in rows :
    LET h == batch[<<r.claim, r.url>>] IN
    r.origin = "verification" /\ h.by # None
      => h.approval # None /\ h.applying # None /\ h.approval # h.applying

\* The event of a bulk request that came to its end accounts for every row it
\* made, those that are there and those a reviewer deleted since, also between
\* two of its items; and there is one event for each request with an applying
\* reviewer, and none for another.
AuditCountsRows ==
  \A b \in Bulks : bulk[b].pc = "done" =>
    LET made == Cardinality({k \in DOMAIN batch : batch[k].by = b}) + gone[b] IN
    {e \in audit : e.bulk = b} =
      IF bulk[b].applying = None THEN {}
      ELSE {[bulk |-> b, attached |-> made, failed |-> Len(bulk[b].items) - made]}
=============================================================================
