------------------------ MODULE EvidenceBundleProofs ------------------------
(***************************************************************************)
(* The links of a bundle are backed by sources whatever overlaps, and a    *)
(* bundle that is not curated is current where nothing does.               *)
(***************************************************************************)
EXTENDS EvidenceBundle, FiniteSetTheorems, TLAPS

OneByUrl(S) == \A x, y \in S : x.url = y.url => x = y
OneByKey(L) == \A l, m \in L : SameKey(l, m) => l = m

BundleTypes ==
  /\ sources \subseteq Source /\ links \subseteq Link
  /\ bundle \in {"none", "auto", "curated"}
  /\ txn \in [Sessions -> Txn]
  /\ OneByUrl(sources) /\ OneByKey(links)

\* What a session has in view, and the row that it adds or deletes: the claim's
\* lock keeps the sources of a request as they were read, and no link to a row
\* that is deleted is written beside the ones that go with it.
SessionSound(s) ==
  /\ txn[s].pc = "idle" => txn[s] = Done
  /\ OneByUrl(txn[s].sources) /\ OneByKey(txn[s].links)
  /\ s = Script => txn[s].op = "none"
  /\ txn[s].op = "none" => txn[s].own = {} /\ txn[s].cut = {}
  /\ txn[s].op = "add" => txn[s].cut = {} /\ \E x \in Source :
       txn[s].own = {x} /\ \A y \in sources : y.url # x.url
  /\ txn[s].op = "delete" => \E x \in sources :
       txn[s].own = {x} /\ \A l \in links : Refers(l, x) => l \in txn[s].cut

OneRequest == \A s, t \in Requests : Open(s) /\ Open(t) => s = t

\* No primary key stands for two rows, not even for one that is gone already.
InView == sources \cup UNION {txn[s].sources \cup txn[s].own : s \in Sessions}
RowsAgree == \A x, y \in InView : x.url = y.url /\ x.id = y.id => x = y

BundleInv ==
  /\ BundleTypes
  /\ \A s \in Sessions : SessionSound(s)
  /\ OneRequest /\ RowsAgree /\ LinksAreBacked

-----------------------------------------------------------------------------
(* What a bundle should hold. *)

\* What an entry that is desired stands for: the statement or a source.
LEMMA DesiredForms ==
  ASSUME NEW S, S \subseteq Source, NEW d \in Desired(S), StatementUrl \in Urls
  PROVE  /\ \/ d = [type |-> "stance", url |-> StatementUrl, ref |-> Statement]
            \/ \E x \in S :
                d = [type |-> TypeFor(x.origin), url |-> x.url, ref |-> x.id]
         /\ d.type \in LinkTypes /\ d.url \in Urls /\ d.ref \in {Statement} \cup Ids
         /\ d.ref = Statement =>
              d = [type |-> "stance", url |-> StatementUrl, ref |-> Statement]
         /\ d.ref # Statement
                  => \E x \in S : Refers(d, x) /\ d.type = TypeFor(x.origin)
  BY DEF Desired, Source, TypeFor, LinkTypes, Refers, Statement, Ids

\* There is one final entry for each key that is desired.
LEMMA FinalOnce ==
  ASSUME NEW S, S \subseteq Source, OneByUrl(S), StatementUrl \in Urls,
         NEW d \in Final(Desired(S)), NEW e \in Final(Desired(S)), SameKey(d, e)
  PROVE  d = e
  <1>1. d \in Desired(S) /\ e \in Desired(S)
    BY DEF Final
  <1>2. SameKey(e, d)
    BY DEF SameKey
  <1>3. CASE d.ref = Statement \/ e.ref = Statement
    BY <1>1, <1>2, <1>3 DEF Final
  <1>4. CASE d.ref # Statement /\ e.ref # Statement
    BY <1>1, <1>4, DesiredForms DEF OneByUrl, SameKey, Refers
  <1>5. QED
    BY <1>3, <1>4

\* Each key that is desired has its final entry.
LEMMA FinalCovers ==
  ASSUME NEW S, S \subseteq Source, StatementUrl \in Urls, NEW d \in Desired(S)
  PROVE  \E f \in Final(Desired(S)) : SameKey(d, f)
  <1>1. CASE d \in Final(Desired(S))
    BY <1>1 DEF SameKey
  <1>2. CASE d \notin Final(Desired(S))
    <2>1. PICK e \in Desired(S) : d.ref = Statement /\ SameKey(d, e) /\ e # d
      BY <1>2 DEF Final
    <2>2. e.ref # Statement
      BY <2>1, DesiredForms
    <2>3. QED
      BY <2>1, <2>2 DEF Final
  <1>3. QED
    BY <1>1, <1>2

\* The least key that is free, where at most two are taken.
LEMMA LeastFree ==
  ASSUME NEW U, NEW a, NEW b, U \subseteq {a, b}
  PROVE  Least(Ids \ U) \in Ids \ U
  <1>1. \E i \in Ids \ U : \A j \in Ids \ U : i <= j
    BY DEF Ids
  <1>2. QED
    BY <1>1 DEF Least

-----------------------------------------------------------------------------
\* A bundle, its sources and no session.
LEMMA BundleInit ==
  ASSUME BundleAssumption, Init
  PROVE  BundleInv
  <1>1. sources \subseteq Source /\ OneByUrl(sources)
    BY DEF Init, Source, Ids, OneByUrl
  <1>2. \A x \in sources : x \in Source /\ x.id = 1
    BY DEF Init, Source, Ids
  <1>3. links \subseteq Link /\ OneByKey(links)
    <2>1. CASE links = {}
      BY <2>1 DEF OneByKey
    <2>2. CASE links = {[id |-> x.id, type |-> TypeFor(x.origin), url |-> x.url,
                         ref |-> x.id] : x \in sources}
      <3>1. links \subseteq Link
        BY <1>2, <2>2 DEF Link, Source, TypeFor, LinkTypes, Origins
      <3>2. OneByKey(links)
        BY <1>1, <2>2 DEF OneByKey, OneByUrl, SameKey
      <3>3. QED
        BY <3>1, <3>2
    <2>3. QED
      BY <2>1, <2>2 DEF Init
  <1>4. Done \in Txn /\ txn = [s \in Sessions |-> Done]
    BY DEF Init, Done, Txn
  <1>5. BundleTypes
    BY <1>1, <1>3, <1>4 DEF BundleTypes, Init
  <1>6. \A s \in Sessions : SessionSound(s)
    BY <1>4 DEF SessionSound, Done, OneByUrl, OneByKey
  <1>7. OneRequest /\ RowsAgree
    <2>1. InView = sources
      BY <1>4 DEF InView, Done
    <2>2. QED
      BY <1>1, <1>4, <2>1 DEF OneRequest, Open, Done, RowsAgree, OneByUrl, Sessions
  <1>8. LinksAreBacked
    <2>1. CASE links = {}
      BY <2>1 DEF LinksAreBacked, StanceLinks, VerificationLinks
    <2>2. CASE links = {[id |-> x.id, type |-> TypeFor(x.origin), url |-> x.url,
                         ref |-> x.id] : x \in sources}
      BY <1>2, <2>2
      DEF LinksAreBacked, StanceLinks, VerificationLinks, Refers, TypeFor,
          Source, Origins
    <2>3. QED
      BY <2>1, <2>2 DEF Init
  <1>9. QED
    BY <1>5, <1>6, <1>7, <1>8 DEF BundleInv

-----------------------------------------------------------------------------
(* A source is attached or deleted, or the script starts. *)

\* A session begins, with a view whose rows are what everybody else sees.
LEMMA Begins ==
  ASSUME BundleInv, NEW s \in Sessions, NEW op \in {"none", "add", "delete"},
         NEW own \in SUBSET Source, NEW cut \in SUBSET Link,
         NEW seen \in SUBSET Source,
         Begin(s, op, own, cut, seen),
         s \in Requests => ~Locked,
         ~Open(s),
         OneByUrl(seen), s = Script => op = "none",
         op = "none" => own = {} /\ cut = {},
         op = "add" => cut = {} /\ \E x \in Source :
           own = {x} /\ \A y \in sources : y.url # x.url,
         op = "delete" => \E x \in sources :
           own = {x} /\ \A l \in links : Refers(l, x) => l \in cut,
         \A x, y \in InView \cup own \cup seen :
           x.url = y.url /\ x.id = y.id => x = y
  PROVE  BundleInv'
  <1>. USE DEF BundleInv
  <1>. DEFINE v == [Done EXCEPT !.pc = "links", !.op = op, !.own = own, !.cut = cut,
                                !.sources = seen]
  <1>1. txn' = [txn EXCEPT ![s] = v] /\ UNCHANGED <<sources, bundle, links>>
    BY DEF Begin
  <1>2. /\ v \in Txn /\ v.pc = "links" /\ v.op = op /\ v.own = own /\ v.cut = cut
        /\ v.sources = seen /\ v.links = {}
    BY DEF Txn, Done
  <1>. HIDE DEF v
  <1>3. /\ txn' \in [Sessions -> Txn] /\ txn'[s] = v
        /\ \A t \in Sessions : t # s => txn'[t] = txn[t]
    BY <1>1, <1>2 DEF BundleTypes
  <1>4. BundleTypes'
    BY <1>1, <1>3 DEF BundleTypes, OneByUrl, OneByKey, SameKey
  <1>5. \A t \in Sessions : SessionSound(t)'
    <2>. SUFFICES ASSUME NEW t \in Sessions PROVE SessionSound(t)'
      OBVIOUS
    <2>1. CASE t = s
      BY <1>1, <1>2, <1>3, <2>1 DEF SessionSound, OneByUrl, OneByKey, Refers
    <2>2. CASE t # s
      BY <1>1, <1>3, <2>2 DEF SessionSound, OneByUrl, OneByKey, SameKey, Refers
    <2>3. QED
      BY <2>1, <2>2
  <1>6. OneRequest'
    BY <1>3 DEF OneRequest, Open, Locked, Sessions
  <1>7. RowsAgree'
    <2>1. InView' \subseteq InView \cup own \cup seen
      BY <1>1, <1>2, <1>3 DEF InView
    <2>2. QED
      BY <2>1 DEF RowsAgree
  <1>8. LinksAreBacked'
    BY <1>1 DEF LinksAreBacked, StanceLinks, VerificationLinks, Refers
  <1>9. QED
    BY <1>4, <1>5, <1>6, <1>7, <1>8

\* A primary key is free where no request is open.
LEMMA FreshSourceIsNew ==
  ASSUME BundleInv, ~Locked, NEW u, \A y \in sources : y.url # u
  PROVE  /\ FreshSource(u) \in Ids
         /\ \A y \in InView : y.url = u => y.id # FreshSource(u)
  <1>. USE DEF BundleInv
  <1>. DEFINE used == {x.id : x \in {y \in sources \cup
                UNION {txn[s].sources \cup txn[s].own : s \in Sessions} :
                    y.url = u}}
  <1>1. \A s \in Requests : txn[s].sources = {} /\ txn[s].own = {}
    BY DEF Locked, Open, SessionSound, Done, Sessions
  <1>2. txn[Script].own = {} /\ OneByUrl(txn[Script].sources)
    BY DEF SessionSound, Sessions
  <1>3. \A y \in InView : y.url = u => y \in txn[Script].sources
    BY <1>1, <1>2 DEF InView, Sessions
  <1>4. PICK a : used \subseteq {a, a}
    BY <1>2, <1>3 DEF InView, OneByUrl
  <1>. HIDE DEF used
  <1>5. Least(Ids \ used) \in Ids \ used
    BY <1>4, LeastFree
  <1>6. QED
    BY <1>5 DEF FreshSource, InView, used

\* The source that a request adds has a key of its own.
LEMMA AddSourceKeeps ==
  ASSUME BundleAssumption, BundleInv, NEW s \in Requests, NEW u \in Urls,
         NEW o \in Origins, AddSource(s, u, o)
  PROVE  BundleInv'
  <1>. DEFINE x == [id |-> FreshSource(u), url |-> u, origin |-> o]
  <1>1. /\ MayStart(s) /\ \A y \in sources : y.url # u
        /\ Begin(s, "add", {x}, {}, sources \cup {x})
    BY DEF AddSource
  <1>2. ~Locked /\ ~Open(s) /\ s # Script /\ s \in Sessions
    BY <1>1 DEF MayStart, BundleAssumption, Sessions
  <1>3. /\ FreshSource(u) \in Ids
        /\ \A y \in InView : y.url = u => y.id # FreshSource(u)
    BY <1>1, <1>2, FreshSourceIsNew
  <1>4. x \in Source /\ x.url = u /\ x.id = FreshSource(u)
    BY <1>3 DEF Source
  <1>5. /\ sources \subseteq Source /\ OneByUrl(sources) /\ RowsAgree
        /\ sources \subseteq InView
    BY DEF BundleInv, BundleTypes, InView
  <1>. HIDE DEF x
  <1>6. OneByUrl(sources \cup {x})
    BY <1>1, <1>4, <1>5 DEF OneByUrl
  <1>7. \A y, z \in InView \cup {x} \cup (sources \cup {x}) :
          y.url = z.url /\ y.id = z.id => y = z
    BY <1>3, <1>4, <1>5 DEF RowsAgree
  <1>8. QED
    BY <1>1, <1>2, <1>4, <1>5, <1>6, <1>7, Begins

\* The source that a request deletes is cut from what it sees.
LEMMA DeleteSourceKeeps ==
  ASSUME BundleAssumption, BundleInv, NEW s \in Requests, NEW x \in sources,
         DeleteSource(s, x)
  PROVE  BundleInv'
  <1>. DEFINE cut == {l \in links : Refers(l, x)}
  <1>1. /\ MayStart(s) /\ Begin(s, "delete", {x}, cut, sources \ {x})
    BY DEF DeleteSource
  <1>2. ~Locked /\ ~Open(s) /\ s # Script /\ s \in Sessions
    BY <1>1 DEF MayStart, BundleAssumption, Sessions
  <1>3. /\ sources \subseteq Source /\ links \subseteq Link /\ OneByUrl(sources)
        /\ RowsAgree /\ sources \subseteq InView
    BY DEF BundleInv, BundleTypes, InView
  <1>4. OneByUrl(sources \ {x})
    BY <1>3 DEF OneByUrl
  <1>5. \A y, z \in InView \cup {x} \cup (sources \ {x}) :
          y.url = z.url /\ y.id = z.id => y = z
    BY <1>3 DEF RowsAgree
  <1>6. cut \in SUBSET Link /\ \A l \in links : Refers(l, x) => l \in cut
    BY <1>3
  <1>. HIDE DEF cut
  <1>7. QED
    BY <1>1, <1>2, <1>3, <1>4, <1>5, <1>6, Begins

\* The backfill starts from what is committed.
LEMMA BackfillKeeps ==
  ASSUME BundleAssumption, BundleInv, Backfill
  PROVE  BundleInv'
  <1>1. /\ MayStart(Script) /\ Begin(Script, "none", {}, {}, sources)
    BY DEF Backfill
  <1>2. ~Open(Script) /\ Script \notin Requests /\ Script \in Sessions
    BY <1>1 DEF MayStart, BundleAssumption, Sessions
  <1>3. /\ sources \subseteq Source /\ OneByUrl(sources)
        /\ RowsAgree /\ sources \subseteq InView
    BY DEF BundleInv, BundleTypes, InView
  <1>4. \A y, z \in InView \cup {} \cup sources : y.url = z.url /\ y.id = z.id
           => y = z
    BY <1>3 DEF RowsAgree
  <1>5. QED
    BY <1>1, <1>2, <1>3, <1>4, Begins

-----------------------------------------------------------------------------
(* The rest of sync_claim_bundle. *)

\* A session moves on, without a new row in view, and writes nothing.
LEMMA MovesOn ==
  ASSUME BundleInv, UNCHANGED <<sources, bundle, links>>,
         NEW s \in Sessions, NEW v \in Txn, txn' = [txn EXCEPT ![s] = v],
         \/ v = Done
         \/ /\ txn[s].pc # "idle" /\ v.pc # "idle" /\ v.op = txn[s].op
            /\ v.own = txn[s].own /\ v.cut = txn[s].cut
            /\ v.sources = txn[s].sources /\ OneByKey(v.links)
  PROVE  BundleInv'
  <1>. USE DEF BundleInv
  <1>1. /\ txn' \in [Sessions -> Txn] /\ txn'[s] = v
        /\ \A t \in Sessions : t # s => txn'[t] = txn[t]
    BY DEF BundleTypes
  <1>2. BundleTypes'
    BY <1>1 DEF BundleTypes, OneByUrl, OneByKey, SameKey
  <1>3. \A t \in Sessions : SessionSound(t)'
    <2>. SUFFICES ASSUME NEW t \in Sessions PROVE SessionSound(t)'
      OBVIOUS
    <2>1. CASE t = s /\ v = Done
      BY <1>1, <2>1 DEF SessionSound, Done, OneByUrl, OneByKey
    <2>2. CASE t = s /\ v # Done
      BY <1>1, <2>2 DEF SessionSound, OneByUrl, OneByKey, SameKey, Refers
    <2>3. CASE t # s
      BY <1>1, <2>3 DEF SessionSound, OneByUrl, OneByKey, SameKey, Refers
    <2>4. QED
      BY <2>1, <2>2, <2>3
  <1>4. OneRequest'
    BY <1>1 DEF OneRequest, Open, Done, Sessions
  <1>5. RowsAgree'
    <2>1. InView' \subseteq InView
      BY <1>1 DEF InView, Done
    <2>2. QED
      BY <2>1 DEF RowsAgree
  <1>6. LinksAreBacked'
    BY DEF LinksAreBacked, StanceLinks, VerificationLinks, Refers
  <1>7. QED
    BY <1>2, <1>3, <1>4, <1>5, <1>6

\* A session reads the links beside the sources it has read.
LEMMA ReadLinksKeeps ==
  ASSUME BundleInv, NEW s \in Sessions, ReadLinks(s)
  PROVE  BundleInv'
  <1>1. PICK v : v = [txn[s] EXCEPT !.pc = "write", !.bundle = bundle,
                                    !.links = links \ txn[s].cut]
    OBVIOUS
  <1>2. /\ txn[s] \in Txn /\ links \subseteq Link
        /\ bundle \in {"none", "auto", "curated"}
    BY DEF BundleInv, BundleTypes
  <1>3. /\ v \in Txn /\ v.pc = "write" /\ v.op = txn[s].op /\ v.own = txn[s].own
        /\ v.cut = txn[s].cut /\ v.sources = txn[s].sources
        /\ v.links = links \ txn[s].cut
    BY <1>1, <1>2 DEF Txn
  <1>4. OneByKey(v.links)
    BY <1>3 DEF BundleInv, BundleTypes, OneByKey
  <1>5. /\ txn' = [txn EXCEPT ![s] = v] /\ txn[s].pc = "links"
        /\ UNCHANGED <<sources, bundle, links>>
    BY <1>1 DEF ReadLinks
  <1>6. QED
    BY <1>3, <1>4, <1>5, MovesOn

\* A write that another one made impossible is rolled back.
LEMMA WriteRefusedKeeps ==
  ASSUME BundleInv, NEW s \in Sessions, WriteRefused(s)
  PROVE  BundleInv'
  <1>1. Done \in Txn
    BY DEF Done, Txn
  <1>2. QED
    BY <1>1, MovesOn DEF WriteRefused

\* The rows that a write changes and inserts, for what they are derived from.
LEMMA Derived ==
  ASSUME BundleAssumption, BundleInv, NEW s \in Sessions
  PROVE  /\ Missing(s) \subseteq Desired(txn[s].sources)
         /\ \A d \in Missing(s) : \A l \in txn[s].links : ~SameKey(l, d)
         /\ \A u \in Changed(s) : \E l \in txn[s].links :
              \E d \in Final(Desired(txn[s].sources)) :
                /\ SameKey(l, d) /\ u = [l EXCEPT !.ref = d.ref] /\ l.ref # d.ref
                /\ u \in Link /\ u.id = l.id /\ u.type = d.type /\ u.url = d.url
                /\ u.ref = d.ref
  <1>1. txn[s] \in Txn /\ txn[s].sources \subseteq Source
    BY DEF BundleInv, BundleTypes, Txn
  <1>2. Missing(s) \subseteq Desired(txn[s].sources)
        /\ \A d \in Missing(s) : \A l \in txn[s].links : ~SameKey(l, d)
    BY DEF Missing, DesiredOf
  <1>3. ASSUME NEW u \in Changed(s)
        PROVE  \E l \in txn[s].links : \E d \in Final(Desired(txn[s].sources)) :
                 /\ SameKey(l, d) /\ u = [l EXCEPT !.ref = d.ref] /\ l.ref # d.ref
                 /\ u \in Link /\ u.id = l.id /\ u.type = d.type /\ u.url = d.url
                 /\ u.ref = d.ref
    <2>1. PICK l \in txn[s].links, d \in Final(Desired(txn[s].sources)) :
            SameKey(l, d) /\ l.ref # d.ref /\ u = [l EXCEPT !.ref = d.ref]
      BY <1>3 DEF Changed, DesiredOf
    <2>2. d \in Desired(txn[s].sources)
      BY DEF Final
    <2>3. l \in Link /\ d.ref \in {Statement} \cup Ids
      BY <1>1, <2>2, DesiredForms DEF Txn, BundleAssumption
    <2>4. /\ u \in Link /\ u.id = l.id /\ u.type = l.type /\ u.url = l.url
          /\ u.ref = d.ref
      BY <2>1, <2>3 DEF Link
    <2>5. QED
      BY <2>1, <2>4 DEF SameKey
  <1>4. QED
    BY <1>2, <1>3

\* A primary key is free for each link that is missing.
LEMMA FreshLinkIsNew ==
  ASSUME BundleAssumption, BundleInv, NEW s \in Sessions, Open(s),
         NEW d \in Missing(s)
  PROVE  FreshLink(d) \in Ids
  <1>. USE DEF BundleInv
  <1>. DEFINE used == {l.id : l \in {m \in links \cup
                UNION {txn[t].links : t \in Sessions} : SameKey(m, d)}}
  <1>1. PICK a : \A l \in links : SameKey(l, d) => l.id = a
    BY DEF BundleTypes, OneByKey, SameKey
  <1>2. PICK b : \A t \in Sessions : \A l \in txn[t].links : SameKey(l, d)
           => l.id = b
    <2>1. PICK other \in Sessions : \A t \in Sessions \ {s, other} :
             txn[t].links = {}
      <3>1. \A t \in Sessions : ~Open(t) => txn[t].links = {}
        BY DEF SessionSound, Open, Done
      <3>2. CASE s \in Requests
        BY <3>1, <3>2 DEF Sessions, OneRequest
      <3>3. CASE s = Script
        <4>1. CASE \E t \in Requests : Open(t)
          BY <3>1, <3>3, <4>1 DEF Sessions, OneRequest
        <4>2. CASE ~\E t \in Requests : Open(t)
          BY <3>1, <3>3, <4>2 DEF Sessions
        <4>3. QED
          BY <4>1, <4>2
      <3>4. QED
        BY <3>2, <3>3 DEF Sessions
    <2>2. \A l \in txn[s].links : ~SameKey(l, d)
      BY Derived
    <2>3. \A l, m \in txn[other].links : SameKey(l, d) /\ SameKey(m, d) => l = m
      BY DEF SessionSound, OneByKey, SameKey
    <2>4. QED
      BY <2>1, <2>2, <2>3
  <1>3. used \subseteq {a, b}
    BY <1>1, <1>2
  <1>. HIDE DEF used
  <1>4. Least(Ids \ used) \in Ids \ used
    BY <1>3, LeastFree
  <1>5. QED
    BY <1>4 DEF FreshLink, used

\* What becomes of the rows in a write: each link afterwards is one that remains,
\* one that changes or one that is inserted, and no two have a key in common.
LEMMA WrittenLinks ==
  ASSUME BundleAssumption, BundleInv, NEW s \in Sessions, Write(s)
  PROVE  /\ \A l \in links' :
              \/ l \in links /\ l \notin txn[s].cut
              \/ l \in Changed(s)
              \/ \E d \in Missing(s) : /\ l.type = d.type /\ l.url = d.url
                                       /\ l.ref = d.ref
         /\ links' \subseteq Link
         /\ OneByKey(links')
  <1>. DEFINE kept == {l \in Remaining(s) : \A u \in Changed(s) : ~SameRow(l, u)}
  <1>1. /\ links' = kept \cup Changed(s) \cup Inserted(s)
        /\ Accepted(s) /\ Open(s)
    BY DEF Write, Open
  <1>2. /\ links \subseteq Link /\ OneByKey(links)
        /\ txn[s].sources \subseteq Source /\ OneByUrl(txn[s].sources)
        /\ OneByKey(txn[s].links)
    BY DEF BundleInv, BundleTypes, SessionSound, Txn
  <1>3. \A l \in kept : l \in links /\ l \notin txn[s].cut
    BY DEF Remaining
  <1>4. \A n \in Inserted(s) : \E d \in Missing(s) :
          n = [id |-> FreshLink(d), type |-> d.type, url |-> d.url, ref |-> d.ref]
    BY DEF Inserted
  <1>5. Inserted(s) \subseteq Link
    <2>. SUFFICES ASSUME NEW n \in Inserted(s) PROVE n \in Link
      OBVIOUS
    <2>1. PICK d \in Missing(s) :
            n = [id |-> FreshLink(d), type |-> d.type, url |-> d.url, ref |-> d.ref]
      BY <1>4
    <2>2. d \in Desired(txn[s].sources)
      BY Derived
    <2>3. d.type \in LinkTypes /\ d.url \in Urls /\ d.ref \in {Statement} \cup Ids
      BY <1>2, <2>2, DesiredForms DEF BundleAssumption
    <2>4. FreshLink(d) \in Ids
      BY <1>1, FreshLinkIsNew
    <2>5. QED
      BY <2>1, <2>3, <2>4 DEF Link
  <1>6. Changed(s) \subseteq Link
    BY Derived
  <1>7. OneByKey(links')
    <2>. SUFFICES ASSUME NEW l \in links', NEW m \in links', SameKey(l, m)
                  PROVE  l = m
      BY DEF OneByKey
    <2>. HIDE DEF kept
    <2>1. ASSUME NEW k \in kept, NEW u \in Changed(s), SameKey(k, u)
          PROVE  FALSE
      <3>1. PICK j \in links : SameRow(j, u)
        BY <1>1 DEF Accepted
      <3>2. j = k
        BY <1>2, <1>3, <2>1, <3>1 DEF OneByKey, SameKey, SameRow
      <3>3. QED
        BY <3>1, <3>2 DEF kept
    <2>2. ASSUME NEW k \in kept, NEW n \in Inserted(s), SameKey(k, n)
          PROVE  FALSE
      <3>1. PICK d \in Missing(s) : n.type = d.type /\ n.url = d.url
        BY <1>4
      <3>2. k \in Remaining(s)
        BY DEF kept
      <3>3. QED
        BY <1>1, <2>2, <3>1, <3>2 DEF Accepted, SameKey
    <2>3. ASSUME NEW u \in Changed(s), NEW n \in Inserted(s), SameKey(u, n)
          PROVE  FALSE
      <3>1. PICK d \in Missing(s) : n.type = d.type /\ n.url = d.url
        BY <1>4
      <3>2. PICK k \in txn[s].links : k.type = u.type /\ k.url = u.url
        BY Derived DEF SameKey
      <3>3. QED
        BY <2>3, <3>1, <3>2, Derived DEF SameKey
    <2>4. ASSUME NEW u \in Changed(s), NEW w \in Changed(s), SameKey(u, w)
          PROVE  u = w
      <3>1. PICK k \in txn[s].links : \E d \in Final(Desired(txn[s].sources)) :
              /\ SameKey(k, d) /\ u = [k EXCEPT !.ref = d.ref]
              /\ u.type = d.type /\ u.url = d.url
        BY Derived
      <3>2. PICK d \in Final(Desired(txn[s].sources)) :
              /\ SameKey(k, d) /\ u = [k EXCEPT !.ref = d.ref]
              /\ u.type = d.type /\ u.url = d.url
        BY <3>1
      <3>3. PICK j \in txn[s].links : \E e \in Final(Desired(txn[s].sources)) :
              /\ SameKey(j, e) /\ w = [j EXCEPT !.ref = e.ref]
              /\ w.type = e.type /\ w.url = e.url
        BY Derived
      <3>4. PICK e \in Final(Desired(txn[s].sources)) :
              /\ SameKey(j, e) /\ w = [j EXCEPT !.ref = e.ref]
              /\ w.type = e.type /\ w.url = e.url
        BY <3>3
      <3>5. d = e
        BY <1>2, <2>4, <3>2, <3>4, FinalOnce DEF SameKey, BundleAssumption
      <3>6. k = j
        BY <1>2, <3>2, <3>4, <3>5 DEF OneByKey, SameKey
      <3>7. QED
        BY <3>2, <3>4, <3>5, <3>6
    <2>5. ASSUME NEW n \in Inserted(s), NEW p \in Inserted(s), SameKey(n, p)
          PROVE  n = p
      <3>1. PICK d \in Missing(s) :
              n = [id |-> FreshLink(d), type |-> d.type, url |-> d.url,
                  ref |-> d.ref]
        BY <1>4
      <3>2. PICK e \in Missing(s) :
              p = [id |-> FreshLink(e), type |-> e.type, url |-> e.url,
                  ref |-> e.ref]
        BY <1>4
      <3>3. d = e
        BY <1>1, <2>5, <3>1, <3>2 DEF Accepted, SameKey
      <3>4. QED
        BY <3>1, <3>2, <3>3
    <2>6. ASSUME NEW k \in kept, NEW j \in kept, SameKey(k, j)
          PROVE  k = j
      BY <1>2, <1>3, <2>6 DEF OneByKey
    <2>7. SameKey(m, l)
      BY DEF SameKey
    <2>8. QED
      BY <1>1, <2>1, <2>2, <2>3, <2>4, <2>5, <2>6, <2>7
  <1>8. QED
    BY <1>1, <1>2, <1>3, <1>4, <1>5, <1>6, <1>7

\* A write that commits: links of sources that are there, each key once.
LEMMA WriteKeeps ==
  ASSUME BundleAssumption, BundleInv, NEW s \in Sessions, Write(s)
  PROVE  BundleInv'
  <1>. DEFINE after == SourcesAfter(s)
  <1>1. /\ Accepted(s) /\ ~Waits(s) /\ Open(s) /\ sources' = after
        /\ bundle' = IF bundle = "none" THEN "auto" ELSE bundle
        /\ txn' = [txn EXCEPT ![s] = Done]
    BY DEF Write, Open
  <1>2. /\ sources \subseteq Source /\ OneByUrl(sources)
        /\ txn \in [Sessions -> Txn]
        /\ SessionSound(s) /\ OneRequest /\ RowsAgree /\ LinksAreBacked
        /\ links \subseteq Link /\ txn[s].sources \subseteq Source
        /\ bundle \in {"none", "auto", "curated"}
        /\ txn[s].op \in {"none", "add", "delete"}
    BY DEF BundleInv, BundleTypes, Txn
  <1>3. /\ txn' \in [Sessions -> Txn] /\ txn'[s] = Done
        /\ \A t \in Sessions : t # s => txn'[t] = txn[t]
    <2>1. Done \in Txn
      BY DEF Done, Txn
    <2>2. QED
      BY <1>1, <1>2, <2>1
  <1>4. after \subseteq sources \cup txn[s].own /\ after \subseteq InView
    BY DEF SourcesAfter, InView
  <1>5. after \subseteq Source /\ OneByUrl(after)
    <2>1. CASE txn[s].op = "add"
      <3>1. PICK x \in Source : txn[s].own = {x} /\ \A y \in sources : y.url # x.url
        BY <1>2, <2>1 DEF SessionSound
      <3>2. after = sources \cup {x}
        BY <2>1, <3>1 DEF SourcesAfter
      <3>. HIDE DEF after
      <3>3. QED
        BY <1>2, <3>1, <3>2 DEF OneByUrl
    <2>2. CASE txn[s].op # "add"
      <3>1. after \subseteq sources
        BY <2>2 DEF SourcesAfter
      <3>. HIDE DEF after
      <3>2. QED
        BY <1>2, <3>1 DEF OneByUrl
    <2>3. QED
      BY <2>1, <2>2
  <1>. HIDE DEF after
  <1>6. /\ links' \subseteq Link /\ OneByKey(links')
        /\ \A l \in links' :
              \/ l \in links /\ l \notin txn[s].cut
              \/ l \in Changed(s)
              \/ \E d \in Missing(s) : /\ l.type = d.type /\ l.url = d.url
                                       /\ l.ref = d.ref
    BY WrittenLinks
  <1>7. BundleTypes'
    <2>1. OneByUrl(sources') /\ OneByKey(links')
      BY <1>1, <1>5, <1>6
    <2>2. OneByUrl(sources)' /\ OneByKey(links)'
      BY <2>1 DEF OneByUrl, OneByKey, SameKey
    <2>3. QED
      BY <1>1, <1>2, <1>3, <1>5, <1>6, <2>2 DEF BundleTypes
  <1>8. \A t \in Sessions : SessionSound(t)'
    <2>. SUFFICES ASSUME NEW t \in Sessions PROVE SessionSound(t)'
      OBVIOUS
    <2>1. CASE t = s
      BY <1>3, <2>1 DEF SessionSound, Done, OneByUrl, OneByKey
    <2>2. CASE t # s /\ t \in Requests /\ Open(t)
      <3>1. s = Script /\ Locked
        BY <1>1, <1>2, <2>2 DEF OneRequest, Sessions, Locked
      <3>2. sources' = sources
        BY <1>1, <1>2, <3>1 DEF SessionSound, SourcesAfter, after
      <3>3. \A x \in txn[t].own : \A d \in Missing(s) \cup Changed(s) :
               ~Refers(d, x)
        BY <1>1, <2>2, <3>1 DEF Waits
      <3>4. \A x \in txn[t].own : \A l \in links' : Refers(l, x) => l \in links
        BY <1>6, <3>3 DEF Refers
      <3>5. SessionSound(t) /\ txn'[t] = txn[t]
        BY <1>3, <2>2 DEF BundleInv
      <3>6. (OneByUrl(txn[t].sources) /\ OneByKey(txn[t].links))'
        BY <3>5 DEF SessionSound, OneByUrl, OneByKey, SameKey
      <3>7. txn[t].op = "delete" => \E x \in sources :
              txn[t].own = {x} /\ \A l \in links' : Refers(l, x) => l \in txn[t].cut
        BY <3>4, <3>5 DEF SessionSound
      <3>8. QED
        BY <3>2, <3>5, <3>6, <3>7 DEF SessionSound, Refers
    <2>3. CASE t # s /\ (t = Script \/ ~Open(t))
      <3>1. SessionSound(t) /\ txn'[t] = txn[t] /\ txn[t].op = "none"
        BY <1>3, <2>3 DEF BundleInv, SessionSound, Open, Done
      <3>2. QED
        BY <3>1 DEF SessionSound, OneByUrl, OneByKey, SameKey
    <2>4. QED
      BY <2>1, <2>2, <2>3 DEF Sessions
  <1>9. OneRequest'
    BY <1>2, <1>3 DEF OneRequest, Open, Done, Sessions
  <1>10. RowsAgree'
    <2>1. InView' \subseteq InView
      BY <1>1, <1>3, <1>4 DEF InView, Done
    <2>2. QED
      BY <1>2, <2>1 DEF RowsAgree
  <1>11. LinksAreBacked'
    <2>1. ASSUME NEW l \in links, l \notin txn[s].cut, NEW x \in sources,
                 Refers(l, x)
          PROVE  x \in after
      BY <1>2, <2>1 DEF SessionSound, SourcesAfter, after
    <2>2. ASSUME NEW d, d \in Missing(s) \cup Changed(s)
          PROVE  \/ d.ref = Statement /\ d.type = "stance"
                 \/ d.type = "stance" /\ \E x \in after :
                      Refers(d, x) /\ x.origin = "candidate"
                 \/ d.type # "stance" /\ \E x \in after :
                      Refers(d, x) /\ x.origin = "verification"
      <3>1. PICK e \in Desired(txn[s].sources) :
              d.type = e.type /\ d.url = e.url /\ d.ref = e.ref
        BY <2>2, Derived DEF Final
      <3>2. CASE e.ref = Statement
        <4>1. e.type = "stance"
          BY <1>2, <3>2, DesiredForms DEF BundleAssumption
        <4>2. QED
          BY <3>1, <3>2, <4>1
      <3>3. CASE e.ref # Statement
        <4>1. PICK x \in txn[s].sources : Refers(e, x) /\ e.type = TypeFor(x.origin)
          BY <1>2, <3>3, DesiredForms DEF BundleAssumption
        <4>2. PICK y \in after : Refers(d, y)
          BY <1>1, <2>2, <3>1, <3>3 DEF Accepted, after
        <4>3. x = y
          BY <1>2, <1>4, <3>1, <4>1, <4>2 DEF RowsAgree, Refers, InView
        <4>4. x.origin \in {"candidate", "verification"}
          BY <1>2 DEF Source, Origins
        <4>5. QED
          BY <3>1, <4>1, <4>2, <4>3, <4>4 DEF TypeFor
      <3>4. QED
        BY <3>2, <3>3
    <2>3. ASSUME NEW l \in links'
          PROVE  \/ l.ref = Statement /\ l.type = "stance"
                 \/ l.type = "stance" /\ \E x \in after :
                      Refers(l, x) /\ x.origin = "candidate"
                 \/ l.type # "stance" /\ \E x \in after :
                      Refers(l, x) /\ x.origin = "verification"
      <3>1. CASE l \in links /\ l \notin txn[s].cut
        BY <1>2, <2>1, <3>1 DEF LinksAreBacked, StanceLinks, VerificationLinks
      <3>2. CASE l \in Changed(s)
        BY <2>2, <3>2
      <3>3. CASE \E d \in Missing(s) :
               l.type = d.type /\ l.url = d.url /\ l.ref = d.ref
        BY <2>2, <3>3 DEF Refers
      <3>4. QED
        BY <1>6, <3>1, <3>2, <3>3
    <2>4. QED
      BY <1>1, <2>3 DEF LinksAreBacked, StanceLinks, VerificationLinks, Refers
  <1>12. QED
    BY <1>7, <1>8, <1>9, <1>10, <1>11 DEF BundleInv

\* Every step, of requests, script and sources.
LEMMA BundleNext ==
  ASSUME BundleAssumption, BundleInv, [Next]_vars
  PROVE  BundleInv'
  <1>1. CASE Next
    BY <1>1, AddSourceKeeps, DeleteSourceKeeps, BackfillKeeps, ReadLinksKeeps,
       WriteKeeps, WriteRefusedKeeps DEF Next
  <1>2. CASE UNCHANGED vars
    <2>1. UNCHANGED <<sources, bundle, links, txn>>
      BY <1>2 DEF vars
    <2>2. QED
      BY <2>1 DEF BundleInv, BundleTypes, OneByUrl, OneByKey, SameKey, SessionSound,
        OneRequest, Open, RowsAgree, InView, LinksAreBacked, StanceLinks,
        VerificationLinks, Refers
  <1>3. QED
    BY <1>1, <1>2

\* The invariant tells the types, and that no link outlives its source.
LEMMA BundleSays ==
  ASSUME BundleInv
  PROVE  TypeOK /\ LinksAreBacked
  BY DEF BundleInv, BundleTypes, TypeOK, OneByKey

-----------------------------------------------------------------------------
(* One session after another. *)

OneSession == \A s, t \in Sessions : Open(s) /\ Open(t) => s = t

\* Without overlap what a session has in view is what it finds when it writes.
ViewIsCurrent ==
  \A s \in Sessions :
    /\ Open(s) => txn[s].sources = SourcesAfter(s)
    /\ txn[s].pc = "write" =>
         txn[s].links = links \ txn[s].cut /\ txn[s].bundle = bundle

SerialInv == BundleInv /\ OneSession /\ ViewIsCurrent /\ BundleIsCurrent

\* At first the bundle is what was derived last.
LEMMA SerialInit ==
  ASSUME BundleAssumption, Init
  PROVE  SerialInv
  <1>1. BundleInv
    BY BundleInit
  <1>2. \A s \in Sessions : txn[s] = Done
    BY DEF Init
  <1>3. OneSession /\ ViewIsCurrent
    BY <1>2 DEF OneSession, ViewIsCurrent, Open, Done
  <1>4. BundleIsCurrent
    BY DEF Init, BundleIsCurrent
  <1>5. QED
    BY <1>1, <1>3, <1>4 DEF SerialInv

\* A session begins where none is open.
LEMMA BeginsAlone ==
  ASSUME SerialInv, ~Overlap, NEW s \in Sessions, MayStart(s),
         NEW op, NEW own, NEW cut, NEW seen, Begin(s, op, own, cut, seen),
         seen = CASE op = "add" -> sources \cup own
                  [] op = "delete" -> sources \ own
                  [] OTHER -> sources
  PROVE  (OneSession /\ ViewIsCurrent /\ BundleIsCurrent)'
  <1>1. PICK v :
           v = [Done EXCEPT !.pc = "links", !.op = op, !.own = own, !.cut = cut,
                                  !.sources = seen]
    OBVIOUS
  <1>2. /\ v.pc = "links" /\ v.op = op /\ v.own = own /\ v.cut = cut
        /\ v.sources = seen
    BY <1>1 DEF Done
  <1>3. txn' = [txn EXCEPT ![s] = v] /\ UNCHANGED <<sources, bundle, links>>
    BY <1>1 DEF Begin
  <1>4. txn'[s] = v /\ \A t \in Sessions : t # s => txn'[t] = txn[t] /\ ~Open(t)
    BY <1>3 DEF SerialInv, BundleInv, BundleTypes, MayStart
  <1>5. OneSession'
    BY <1>4 DEF OneSession, Open
  <1>6. ViewIsCurrent'
    BY <1>2, <1>3, <1>4 DEF ViewIsCurrent, Open, SourcesAfter
  <1>7. BundleIsCurrent'
    BY <1>3 DEF SerialInv, BundleIsCurrent
  <1>8. QED
    BY <1>5, <1>6, <1>7

\* A session moves on or is rolled back; nobody else is there.
LEMMA MovesOnAlone ==
  ASSUME SerialInv, UNCHANGED <<sources, bundle, links>>,
         NEW s \in Sessions, Open(s), NEW v, txn' = [txn EXCEPT ![s] = v],
         \/ v = Done
         \/ /\ v.pc = "write" /\ v.op = txn[s].op /\ v.own = txn[s].own
            /\ v.cut = txn[s].cut /\ v.sources = txn[s].sources
            /\ v.links = links \ txn[s].cut /\ v.bundle = bundle
  PROVE  (OneSession /\ ViewIsCurrent /\ BundleIsCurrent)'
  <1>1. txn'[s] = v /\ \A t \in Sessions : t # s => txn'[t] = txn[t] /\ ~Open(t)
    BY DEF SerialInv, BundleInv, BundleTypes, OneSession
  <1>2. OneSession'
    BY <1>1 DEF OneSession, Open
  <1>3. ViewIsCurrent'
    <2>1. CASE v = Done
      BY <1>1, <2>1 DEF ViewIsCurrent, Open, Done
    <2>2. CASE v # Done
      BY <1>1, <2>2 DEF SerialInv, ViewIsCurrent, Open, SourcesAfter
    <2>3. QED
      BY <2>1, <2>2
  <1>4. BundleIsCurrent'
    BY DEF SerialInv, BundleIsCurrent
  <1>5. QED
    BY <1>2, <1>3, <1>4

\* What a write leaves of a bundle that is not curated: the final entries.
LEMMA WriteIsCurrent ==
  ASSUME BundleAssumption, SerialInv, NEW s \in Sessions, Write(s)
  PROVE  BundleIsCurrent'
  <1>. DEFINE S == txn[s].sources
              kept == {l \in Remaining(s) : \A u \in Changed(s) : ~SameRow(l, u)}
              entry(l) == [type |-> l.type, url |-> l.url, ref |-> l.ref]
  <1>. SUFFICES ASSUME bundle # "curated"
                PROVE  {entry(l) : l \in links'} = Final(Desired(S))
    <2>1. bundle = "curated" => bundle' # "auto"
      BY DEF Write
    <2>2. sources' = S
      BY DEF Write, SerialInv, ViewIsCurrent, Open
    <2>3. QED
      BY <2>1, <2>2 DEF BundleIsCurrent
  <1>1. /\ links' = kept \cup Changed(s) \cup Inserted(s)
        /\ Accepted(s) /\ Open(s)
    BY DEF Write, Open
  <1>2. ~Curated(s) /\ txn[s].links = links \ txn[s].cut
    BY DEF Write, SerialInv, ViewIsCurrent, Curated
  <1>3. /\ S \subseteq Source /\ OneByUrl(S) /\ OneByKey(txn[s].links)
        /\ StatementUrl \in Urls /\ BundleInv
    BY DEF SerialInv, BundleInv, BundleTypes, SessionSound, Txn, BundleAssumption
  <1>4. Remaining(s) = {l \in txn[s].links : \E d \in Desired(S) : SameKey(l, d)}
    BY <1>2 DEF Remaining, Extra, DesiredOf
  <1>5. Missing(s) = {d \in Desired(S) : \A l \in txn[s].links : ~SameKey(l, d)}
    BY <1>2 DEF Missing, DesiredOf
  <1>6. ASSUME NEW l \in txn[s].links, NEW d \in Final(Desired(S)), SameKey(l, d),
               l.ref # d.ref
        PROVE  \E u \in Changed(s) : u = [l EXCEPT !.ref = d.ref]
    <2>. DEFINE target(k) ==
             {e \in Final(Desired(S)) : SameKey(k, e) /\ k.ref # e.ref}
                rows(k) == {[k EXCEPT !.ref = e.ref] : e \in target(k)}
    <2>1. Changed(s) = UNION {rows(k) : k \in txn[s].links}
      BY <1>2 DEF Changed, DesiredOf
    <2>2. d \in target(l)
      BY <1>6
    <2>3. [l EXCEPT !.ref = d.ref] \in rows(l)
      BY <2>2
    <2>. HIDE DEF rows
    <2>4. QED
      BY <1>6, <2>1, <2>3
  <1>7. \A d \in Final(Desired(S)) :
          d = [type |-> d.type, url |-> d.url, ref |-> d.ref]
    BY <1>3, DesiredForms DEF Final
  <1>8. \A l \in txn[s].links : l \in Link
    BY <1>2, <1>3 DEF BundleInv, BundleTypes
  <1>. HIDE DEF S, kept
  <1>9. ASSUME NEW l \in links'
        PROVE  entry(l) \in Final(Desired(S))
    <2>1. CASE l \in kept
      <3>1. PICK d \in Desired(S) : SameKey(l, d)
        BY <1>4, <2>1 DEF kept
      <3>2. PICK f \in Final(Desired(S)) : SameKey(d, f)
        BY <1>3, FinalCovers
      <3>3. l \in txn[s].links /\ SameKey(l, f)
        BY <1>4, <2>1, <3>1, <3>2 DEF kept, SameKey
      <3>4. l.ref = f.ref
        <4>. SUFFICES ASSUME l.ref # f.ref PROVE FALSE
          OBVIOUS
        <4>1. PICK u \in Changed(s) : u = [l EXCEPT !.ref = f.ref]
          BY <1>6, <3>3
        <4>2. SameRow(l, u)
          BY <1>8, <3>3, <4>1 DEF SameRow, SameKey, Link
        <4>3. QED
          BY <2>1, <4>2 DEF kept
      <3>5. QED
        BY <1>7, <3>3, <3>4 DEF SameKey
    <2>2. CASE l \in Changed(s)
      <3>1. \E d \in Final(Desired(S)) :
               l.type = d.type /\ l.url = d.url /\ l.ref = d.ref
        BY <1>3, <2>2, Derived DEF S
      <3>2. QED
        BY <1>7, <3>1
    <2>3. CASE l \in Inserted(s)
      <3>1. PICK d \in Missing(s) :
               l.type = d.type /\ l.url = d.url /\ l.ref = d.ref
        BY <2>3 DEF Inserted
      <3>2. d \in Desired(S)
        BY <1>5
      <3>3. \A e \in Desired(S) : SameKey(d, e) => e = d
        BY <1>1, <1>5, <3>1 DEF Accepted, SameKey
      <3>4. d \in Final(Desired(S))
        BY <3>2, <3>3 DEF Final
      <3>5. QED
        BY <1>7, <3>1, <3>4
    <2>4. QED
      BY <1>1, <2>1, <2>2, <2>3
  <1>10. ASSUME NEW f \in Final(Desired(S))
         PROVE  \E l \in links' : entry(l) = f
    <2>1. f \in Desired(S)
      BY DEF Final
    <2>2. CASE \E l \in txn[s].links : SameKey(l, f)
      <3>1. PICK l \in txn[s].links : SameKey(l, f)
        BY <2>2
      <3>2. CASE l.ref = f.ref
        <4>1. ASSUME NEW u \in Changed(s), SameRow(l, u) PROVE FALSE
          <5>1. PICK k \in txn[s].links : \E d \in Final(Desired(S)) :
                  SameKey(k, d) /\ u.type = d.type /\ u.url = d.url /\ k.ref # d.ref
            BY <1>3, Derived DEF S
          <5>2. PICK d \in Final(Desired(S)) :
                  SameKey(k, d) /\ u.type = d.type /\ u.url = d.url /\ k.ref # d.ref
            BY <5>1
          <5>3. d = f
            BY <1>3, <3>1, <4>1, <5>2, FinalOnce DEF SameKey, SameRow
          <5>4. k = l
            BY <1>3, <3>1, <5>2, <5>3 DEF OneByKey, SameKey
          <5>5. QED
            BY <3>2, <5>2, <5>3, <5>4
        <4>2. l \in kept
          BY <1>4, <2>1, <3>1, <4>1 DEF kept
        <4>3. entry(l) = f
          BY <1>7, <3>1, <3>2 DEF SameKey
        <4>4. QED
          BY <1>1, <4>2, <4>3
      <3>3. CASE l.ref # f.ref
        <4>1. PICK u \in Changed(s) : u = [l EXCEPT !.ref = f.ref]
          BY <1>6, <3>1, <3>3
        <4>2. u.type = f.type /\ u.url = f.url /\ u.ref = f.ref
          BY <1>8, <3>1, <4>1 DEF SameKey, Link
        <4>3. entry(u) = f
          BY <1>7, <4>2
        <4>4. QED
          BY <1>1, <4>1, <4>3
      <3>4. QED
        BY <3>2, <3>3
    <2>3. CASE \A l \in txn[s].links : ~SameKey(l, f)
      <3>1. f \in Missing(s)
        BY <1>5, <2>1, <2>3
      <3>2. PICK n \in Inserted(s) :
              n = [id |-> FreshLink(f), type |-> f.type, url |-> f.url,
                  ref |-> f.ref]
        BY <3>1 DEF Inserted
      <3>3. entry(n) = f
        BY <1>7, <3>2
      <3>4. QED
        BY <1>1, <3>2, <3>3
    <2>4. QED
      BY <2>2, <2>3
  <1>. HIDE DEF entry
  <1>11. QED
    BY <1>9, <1>10

\* One session after another finds, and leaves, a bundle that is current.
LEMMA SerialNext ==
  ASSUME BundleAssumption, ~Overlap, SerialInv, [Next]_vars
  PROVE  SerialInv'
  <1>1. BundleInv'
    BY BundleNext DEF SerialInv
  <1>. SUFFICES (OneSession /\ ViewIsCurrent /\ BundleIsCurrent)'
    BY <1>1 DEF SerialInv
  <1>2. ASSUME NEW s \in Requests, NEW u \in Urls, NEW o \in Origins,
               AddSource(s, u, o)
        PROVE  (OneSession /\ ViewIsCurrent /\ BundleIsCurrent)'
    <2>1. PICK x : /\ MayStart(s)
                   /\ Begin(s, "add", {x}, {}, sources \cup {x})
      BY <1>2 DEF AddSource
    <2>2. QED
      BY <2>1, BeginsAlone DEF Sessions
  <1>3. ASSUME NEW s \in Requests, NEW x \in sources, DeleteSource(s, x)
        PROVE  (OneSession /\ ViewIsCurrent /\ BundleIsCurrent)'
    <2>1. /\ MayStart(s)
          /\ Begin(s, "delete", {x}, {l \in links : Refers(l, x)}, sources \ {x})
      BY <1>3 DEF DeleteSource
    <2>2. QED
      BY <2>1, BeginsAlone DEF Sessions
  <1>4. CASE Backfill
    <2>1. MayStart(Script) /\ Begin(Script, "none", {}, {}, sources)
      BY <1>4 DEF Backfill
    <2>2. QED
      BY <2>1, BeginsAlone DEF Sessions
  <1>5. ASSUME NEW s \in Sessions, ReadLinks(s)
        PROVE  (OneSession /\ ViewIsCurrent /\ BundleIsCurrent)'
    <2>1. PICK v : v = [txn[s] EXCEPT !.pc = "write", !.bundle = bundle,
                                      !.links = links \ txn[s].cut]
      OBVIOUS
    <2>2. txn[s] \in Txn
      BY DEF SerialInv, BundleInv, BundleTypes
    <2>3. /\ v.pc = "write" /\ v.op = txn[s].op /\ v.own = txn[s].own
          /\ v.cut = txn[s].cut /\ v.sources = txn[s].sources
          /\ v.links = links \ txn[s].cut /\ v.bundle = bundle
      BY <2>1, <2>2 DEF Txn
    <2>4. /\ txn' = [txn EXCEPT ![s] = v] /\ Open(s)
          /\ UNCHANGED <<sources, bundle, links>>
      BY <1>5, <2>1 DEF ReadLinks, Open
    <2>5. QED
      BY <2>3, <2>4, MovesOnAlone
  <1>6. ASSUME NEW s \in Sessions, WriteRefused(s)
        PROVE  (OneSession /\ ViewIsCurrent /\ BundleIsCurrent)'
    <2>1. /\ txn' = [txn EXCEPT ![s] = Done] /\ Open(s)
          /\ UNCHANGED <<sources, bundle, links>>
      BY <1>6 DEF WriteRefused, Open
    <2>2. QED
      BY <2>1, MovesOnAlone
  <1>7. ASSUME NEW s \in Sessions, Write(s)
        PROVE  (OneSession /\ ViewIsCurrent /\ BundleIsCurrent)'
    <2>1. txn' = [txn EXCEPT ![s] = Done] /\ Open(s)
      BY <1>7 DEF Write, Open
    <2>2. txn'[s] = Done /\ \A t \in Sessions : t # s
             => txn'[t] = txn[t] /\ ~Open(t)
      BY <2>1 DEF SerialInv, BundleInv, BundleTypes, OneSession
    <2>3. (OneSession /\ ViewIsCurrent)'
      BY <2>2 DEF OneSession, ViewIsCurrent, Open, Done
    <2>4. QED
      BY <1>7, <2>3, WriteIsCurrent
  <1>8. CASE UNCHANGED vars
    <2>1. UNCHANGED <<sources, bundle, links, txn>>
      BY <1>8 DEF vars
    <2>2. QED
      BY <2>1 DEF SerialInv, OneSession, Open, ViewIsCurrent, SourcesAfter,
        BundleIsCurrent
  <1>9. QED
    BY <1>2, <1>3, <1>4, <1>5, <1>6, <1>7, <1>8 DEF Next
=============================================================================
