---------------------------- MODULE ReviewPolicy ----------------------------
(***************************************************************************)
(* What adjudication promises of a claim, without sessions, locks or       *)
(* scripts: the verdict that stands, the evidence attached, and who put    *)
(* the claim before the public.  Every operation is one step.              *)
(* ClaimReview implements it (Policy!Spec there).                          *)
(***************************************************************************)
CONSTANTS Claims, Reviewers, Judges, Payloads, None

VARIABLES
  standing,   \* the verdict in force: [factual, cited, by], or None
  evidence,   \* the payloads attached
  publisher   \* who published the claim; None: it is not public

vars == <<standing, evidence, publisher>>

Verdict == [factual : BOOLEAN, cited : BOOLEAN, by : Judges]

Shows(c, class) ==
  \E p \in evidence[c] : p.origin = "verification" /\ p.class = class

Corroborated(c) == Shows(c, "primary") /\ Shows(c, "secondary")

Init ==
  /\ standing = [c \in Claims |-> None]
  /\ evidence \in [Claims -> SUBSET Payloads]
  /\ publisher = [c \in Claims |-> None]

\* A factual verdict needs evidence of both classes.
Judge(c) ==
  /\ \E v \in Verdict : /\ v.factual => Corroborated(c)
                        /\ standing' = [standing EXCEPT ![c] = v]
  /\ UNCHANGED <<evidence, publisher>>

\* Only a cited factual verdict given by somebody else, still corroborated,
\* goes public.
Publish(c, r) ==
  /\ standing[c] # None
  /\ standing[c].factual /\ standing[c].cited
  /\ standing[c].by # r
  /\ Corroborated(c)
  /\ publisher' = [publisher EXCEPT ![c] = r]
  /\ UNCHANGED <<standing, evidence>>

\* The reviewer whose verdict stands cannot take the claim down alone, nor,
\* with no verdict, can the one who published it.
Unpublish(c, r) ==
  /\ r # (IF standing[c] = None THEN publisher[c] ELSE standing[c].by)
  /\ publisher' = [publisher EXCEPT ![c] = None]
  /\ UNCHANGED <<standing, evidence>>

Attach(c) ==
  /\ \E p \in Payloads :
       /\ \A q \in evidence[c] : q.url # p.url
       /\ evidence' = [evidence EXCEPT ![c] = @ \cup {p}]
  /\ UNCHANGED <<standing, publisher>>

\* The evidence of a public claim is never withdrawn.
Detach(c) ==
  /\ publisher[c] = None
  /\ \E p \in evidence[c] : evidence' = [evidence EXCEPT ![c] = @ \ {p}]
  /\ UNCHANGED <<standing, publisher>>

Next ==
  \E c \in Claims :
    \/ Judge(c)
    \/ \E r \in Reviewers : Publish(c, r) \/ Unpublish(c, r)
    \/ Attach(c)
    \/ Detach(c)

Spec == Init /\ [][Next]_vars
=============================================================================
