---------------------------- MODULE EvidenceBundle ----------------------------
(***************************************************************************)
(* The evidence bundle of one claim (evidence_bundle_service.py): links    *)
(* derived from the claim's statement and sources, rewritten in the        *)
(* transaction that attaches or deletes a source (under the claim's row    *)
(* lock) and by a backfill script that takes no lock.  A transaction reads *)
(* sources and links one query after the other and writes at its end,      *)
(* where the unique index and the foreign keys judge it.                   *)
(***************************************************************************)
EXTENDS Naturals

CONSTANTS
  Urls,          \* comparison keys of urls
  StatementUrl,  \* the url of the claim's statement
  Requests,      \* requests that attach or delete a source
  Script,        \* the backfill
  Overlap        \* whether the backfill runs while requests do

BundleAssumption ==
  /\ StatementUrl \in Urls /\ Script \notin Requests /\ Overlap \in BOOLEAN

VARIABLES
  sources,  \* the claim's rows of sources
  bundle,   \* "none", "auto", or "curated" (set by an operator)
  links,    \* the bundle's rows of claim_evidence_links
  txn       \* the open transactions

vars == <<sources, bundle, links, txn>>

-----------------------------------------------------------------------------
Sessions == Requests \cup {Script}
Origins == {"candidate", "verification"}
LinkTypes == {"stance", "verification"}
\* A row's primary key, among the rows with the same url (and type): enough
\* values for the table's row and the ones a session still has in view.
Ids == 1 .. 3
Statement == 0

Source == [id : Ids, url : Urls, origin : Origins]
Link == [id : Ids, type : LinkTypes, url : Urls, ref : {Statement} \cup Ids]

\* own: the row that is added or deleted; cut: links deleted with it.
Txn == [pc : {"idle", "links", "write"}, op : {"none", "add", "delete"},
        own : SUBSET Source, cut : SUBSET Link, sources : SUBSET Source,
        bundle : {"none", "auto", "curated"}, links : SUBSET Link]

Done == [pc |-> "idle", op |-> "none", own |-> {}, cut |-> {},
         sources |-> {}, bundle |-> "none", links |-> {}]

Open(s) == txn[s].pc # "idle"

\* The claim's row lock, and what the script's run waits for without overlap.
Locked == \E s \in Requests : Open(s)
MayStart(s) ==
  /\ ~Open(s)
  /\ s \in Requests => ~Locked
  /\ ~Overlap => \A t \in Sessions : ~Open(t)

SameKey(l, m) == l.type = m.type /\ l.url = m.url
SameRow(l, m) == SameKey(l, m) /\ l.id = m.id
Refers(l, x) == l.url = x.url /\ l.ref = x.id

\* Primary keys that no row and no session's view holds.
Least(S) == CHOOSE i \in S : \A j \in S : i <= j
FreshSource(u) ==
  Least(Ids \ {x.id : x \in {y \in sources \cup
    UNION {txn[s].sources \cup txn[s].own : s \in Sessions} : y.url = u}})
FreshLink(d) ==
  Least(Ids \ {l.id : l \in {m \in links \cup
    UNION {txn[s].links : s \in Sessions} : SameKey(m, d)}})

-----------------------------------------------------------------------------
(* What a bundle should hold. *)

TypeFor(origin) == IF origin = "candidate" THEN "stance" ELSE "verification"

\* _build_desired_bundle_links.  A candidate source at the statement's own url
\* gives a second entry for the statement's key.
Desired(S) ==
  {[type |-> "stance", url |-> StatementUrl, ref |-> Statement]} \cup
  {[type |-> TypeFor(x.origin), url |-> x.url, ref |-> x.id] : x \in S}

\* The entry that is written last: sources come after the statement.
Final(D) ==
  {d \in D : d.ref = Statement => \A e \in D : SameKey(d, e) => e = d}

\* What public readers are shown (_bundle_read).
StanceLinks == {l \in links : l.type = "stance"}
VerificationLinks == {l \in links : l.type # "stance"}

-----------------------------------------------------------------------------
(* A source is attached or deleted, or the script starts. *)

Begin(s, op, own, cut, seen) ==
  /\ txn' = [txn EXCEPT ![s] = [Done EXCEPT
       !.pc = "links", !.op = op, !.own = own, !.cut = cut, !.sources = seen]]
  /\ UNCHANGED <<sources, bundle, links>>

\* add_source up to the flush of the row; sync_claim_bundle reads the sources.
AddSource(s, u, o) ==
  LET x == [id |-> FreshSource(u), url |-> u, origin |-> o] IN
  /\ MayStart(s)
  /\ \A y \in sources : y.url # u
  /\ Begin(s, "add", {x}, {}, sources \cup {x})

\* delete_source up to the flush: its links go with it, curated or not.
DeleteSource(s, x) ==
  /\ MayStart(s) /\ x \in sources
  /\ Begin(s, "delete", {x}, {l \in links : Refers(l, x)}, sources \ {x})

\* The backfill's sync_claim_bundle: the same, without a lock.
Backfill ==
  /\ MayStart(Script)
  /\ Begin(Script, "none", {}, {}, sources)

-----------------------------------------------------------------------------
(* The rest of sync_claim_bundle. *)

ReadLinks(s) ==
  /\ txn[s].pc = "links"
  /\ txn' = [txn EXCEPT ![s] = [txn[s] EXCEPT
       !.pc = "write", !.bundle = bundle, !.links = links \ txn[s].cut]]
  /\ UNCHANGED <<sources, bundle, links>>

SourcesAfter(s) ==
  CASE txn[s].op = "add" -> sources \cup txn[s].own
    [] txn[s].op = "delete" -> sources \ txn[s].own
    [] OTHER -> sources

Curated(s) == txn[s].bundle = "curated"
DesiredOf(s) == Desired(txn[s].sources)

Missing(s) ==
  IF Curated(s) THEN {}
  ELSE {d \in DesiredOf(s) : \A l \in txn[s].links : ~SameKey(l, d)}
Extra(s) ==
  IF Curated(s) THEN {}
  ELSE LET desired == DesiredOf(s)
       IN  {l \in txn[s].links : \A d \in desired : ~SameKey(l, d)}
\* Rows whose columns change, as they will be.
Changed(s) ==
  IF Curated(s) THEN {}
  ELSE LET final == Final(DesiredOf(s))
           target(l) == {d \in final : SameKey(l, d) /\ l.ref # d.ref}
       IN  UNION {{[l EXCEPT !.ref = d.ref] : d \in target(l)} : l \in txn[s].links}

Remaining(s) == (links \ txn[s].cut) \ Extra(s)

\* uq_claim_evidence_bundles, uq_claim_evidence_links_bundle_type_url and the
\* foreign keys; an update of a row that is gone raises StaleDataError.
Accepted(s) ==
  LET missing == Missing(s)
      changed == Changed(s)
      remaining == Remaining(s)
  IN  /\ txn[s].bundle = "none" => bundle = "none"
      /\ \A d, e \in missing : SameKey(d, e) => d = e
      /\ \A d \in missing : \A l \in remaining : ~SameKey(l, d)
      /\ \A d \in missing \cup changed :
           d.ref = Statement \/ \E x \in SourcesAfter(s) : Refers(d, x)
      /\ \A u \in changed : \E l \in links : SameRow(l, u)

\* The rows a writer waits for: a deleted source and its links are locked by
\* the request, and a bundle needs the claim's row.
Waits(s) ==
  /\ s = Script /\ Locked
  /\ \/ txn[s].bundle = "none"
     \/ \E t \in Requests :
          \/ \E x \in txn[t].own : \E d \in Missing(s) \cup Changed(s) : Refers(d, x)
          \/ \E m \in txn[t].cut : \E l \in Extra(s) \cup Changed(s) : SameRow(l, m)

Inserted(s) ==
  {[id |-> FreshLink(d), type |-> d.type, url |-> d.url, ref |-> d.ref] :
     d \in Missing(s)}

\* Mutant: links that should not be there any more stay.
WriteAddsOnly(s) ==
  /\ txn[s].pc = "write" /\ ~Waits(s) /\ Accepted(s)
  /\ links' = links \cup Inserted(s)
  /\ sources' = SourcesAfter(s)
  /\ bundle' = IF bundle = "none" THEN "auto" ELSE bundle
  /\ txn' = [txn EXCEPT ![s] = Done]

Write(s) ==
  /\ txn[s].pc = "write" /\ ~Waits(s) /\ Accepted(s)
  /\ LET changed == Changed(s)
     IN  links' = {l \in Remaining(s) : \A u \in changed : ~SameRow(l, u)}
                    \cup changed \cup Inserted(s)
  /\ sources' = SourcesAfter(s)
  /\ bundle' = IF bundle = "none" THEN "auto" ELSE bundle
  /\ txn' = [txn EXCEPT ![s] = Done]

\* The transaction is rolled back; add_source calls it a duplicate.
WriteRefused(s) ==
  /\ txn[s].pc = "write" /\ ~Waits(s) /\ ~Accepted(s)
  /\ txn' = [txn EXCEPT ![s] = Done]
  /\ UNCHANGED <<sources, bundle, links>>

-----------------------------------------------------------------------------
\* Seed scripts store sources and no bundle; an operator may have curated one.
Init ==
  /\ sources \in {{}} \cup {{x} : x \in [id : {1}, url : Urls, origin : Origins]}
  /\ \/ bundle = "none" /\ links = {}
     \/ /\ bundle = "curated"
        /\ links = {[id |-> x.id, type |-> TypeFor(x.origin), url |-> x.url,
                     ref |-> x.id] : x \in sources}
  /\ txn = [s \in Sessions |-> Done]

Next ==
  \/ \E s \in Requests, u \in Urls, o \in Origins : AddSource(s, u, o)
  \/ \E s \in Requests, x \in sources : DeleteSource(s, x)
  \/ Backfill
  \/ \E s \in Sessions : ReadLinks(s) \/ Write(s) \/ WriteRefused(s)

Spec == Init /\ [][Next]_vars

-----------------------------------------------------------------------------
\* Rows and transactions have their shapes, and there is one link per type and
\* url.
TypeOK ==
  /\ sources \subseteq Source /\ links \subseteq Link
  /\ bundle \in {"none", "auto", "curated"}
  /\ txn \in [Sessions -> Txn]
  /\ \A l, m \in links : SameKey(l, m) => l = m

\* A bundle that is not curated holds exactly what the statement and the
\* sources call for: sync_claim_bundle in the same transaction keeps it so.
BundleIsCurrent ==
  bundle = "auto" =>
    {[type |-> l.type, url |-> l.url, ref |-> l.ref] : l \in links} =
      Final(Desired(sources))

\* Whatever overlaps, no link outlives its source, and what a reader is shown
\* as verification is never the candidate's own material.
LinksAreBacked ==
  /\ \A l \in StanceLinks :
       l.ref = Statement \/ \E x \in sources :
         Refers(l, x) /\ x.origin = "candidate"
  /\ \A l \in VerificationLinks : \E x \in sources :
       Refers(l, x) /\ x.origin = "verification"
=============================================================================
