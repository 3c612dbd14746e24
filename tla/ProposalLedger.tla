---------------------------- MODULE ProposalLedger ----------------------------
(***************************************************************************)
(* What reviewers may rely on when they use proposals: a ledger in which   *)
(* each entry is made in one step, without requests, row locks, aborted    *)
(* transactions or a column that a later step overwrites.  Whoever         *)
(* reviewed an entry and whoever applied it stay known apart.              *)
(***************************************************************************)
CONSTANTS
  Proposals,   \* what may be proposed
  Captures,    \* those that add a source to the claim
  Suggestions, \* those of them that need a second reviewer
  Mappings,    \* those that set the claim's issue frame
  ValueOf,     \* the source or the frame each is about
  Urls,        \* sources
  Frames,      \* issue frames that exist
  Matched,     \* the one that is set without a proposal
  Reviewers,
  None

VARIABLES
  status,    \* how far each proposal is
  reviewer,  \* who approved or rejected it
  applier,   \* who applied it
  credited,  \* whom the record of the application names as its reviewer
  rows,      \* the claim's sources, with the proposal each came from
  frame,     \* the claim's issue frame
  replaced   \* approved mappings whose frame the claim had, and lost

vars == <<status, reviewer, applier, credited, rows, frame, replaced>>

-----------------------------------------------------------------------------
Init ==
  /\ status = [p \in Proposals |-> "absent"]
  /\ reviewer = [p \in Proposals |-> None]
  /\ applier = [p \in Proposals |-> None]
  /\ credited = [p \in Proposals |-> None]
  /\ rows = {} /\ frame = None /\ replaced = {}

Goes(p, from, to) == status[p] = from /\ status' = [status EXCEPT ![p] = to]

Propose(p) ==
  /\ Goes(p, "absent", "proposed")
  /\ UNCHANGED <<reviewer, applier, credited, rows, frame, replaced>>

Review(p, r, verdict) ==
  /\ Goes(p, "proposed", verdict)
  /\ reviewer' = [reviewer EXCEPT ![p] = r]
  /\ UNCHANGED <<applier, credited, rows, frame, replaced>>

Added(url, by) ==
  /\ \A row \in rows : row.url # url
  /\ rows' = rows \cup {[url |-> url, by |-> by]}

Sets(f) ==
  /\ frame' = f
  /\ replaced' = replaced \cup
       {p \in Mappings : status[p] = "approved" /\ ValueOf[p] = frame /\ f # frame}

\* The effect is there when, and only when, the proposal is applied; but a frame
\* that the claim had since the approval need not be given to it again.
Apply(p, r) ==
  /\ Goes(p, "approved", "applied")
  /\ p \in Suggestions => reviewer[p] # r
  /\ applier' = [applier EXCEPT ![p] = r]
  /\ credited' = [credited EXCEPT ![p] = reviewer[p]]
  /\ IF p \in Captures THEN Added(ValueOf[p], p) ELSE UNCHANGED rows
  /\ p \in Mappings => ValueOf[p] \in Frames
  /\ \/ p \in Mappings /\ Sets(ValueOf[p])
     \/ /\ p \in Mappings => frame = ValueOf[p] \/ p \in replaced
        /\ UNCHANGED <<frame, replaced>>
  /\ UNCHANGED reviewer

\* The claim's frame and its sources are edited without a proposal, too.
Map ==
  /\ Sets(Matched)
  /\ UNCHANGED <<status, reviewer, applier, credited, rows>>

Add(url) ==
  /\ Added(url, None)
  /\ UNCHANGED <<status, reviewer, applier, credited, frame, replaced>>

Remove(row) ==
  /\ rows' = rows \ {row}
  /\ UNCHANGED <<status, reviewer, applier, credited, frame, replaced>>

Next ==
  \/ \E p \in Proposals :
       \/ Propose(p)
       \/ \E r \in Reviewers :
            \/ \E verdict \in {"approved", "rejected"} : Review(p, r, verdict)
            \/ Apply(p, r)
  \/ Map
  \/ \E url \in Urls : Add(url)
  \/ \E row \in rows : Remove(row)

Spec == Init /\ [][Next]_vars
=============================================================================
