------------------------------- MODULE UrlProbe -------------------------------
(***************************************************************************)
(* The reachability probe of a source's url (check_url_reachable): HEAD,   *)
(* GET where HEAD is not allowed, redirects followed one request at a time *)
(* and judged again at each, six requests at most.                         *)
(***************************************************************************)
EXTENDS Naturals

CONSTANTS
  Targets,      \* the urls a redirect may lead to
  MaxRequests   \* requests of one probe

ProbeAssumption == MaxRequests \in Nat \ {0}

VARIABLES
  web,     \* what each page answers
  start,   \* the url that was submitted
  at,      \* the page that is asked next
  method,  \* "HEAD" or "GET"
  hop,     \* requests made
  asked,   \* history: the pages that were sent a request
  result   \* "none" while the probe runs

vars == <<web, start, at, method, hop, asked, result>>

-----------------------------------------------------------------------------
\* Status codes, as the probe tells them apart: 405; one of 301, 302, 303,
\* 307, 308 with a Location; _DEAD_URL_STATUSES without 405;
\* _GATED_URL_STATUSES; the rest of 200..399; anything else. "lost" is a
\* timeout or a network error.
Answers == {"405", "redirect", "dead", "gated", "ok", "error", "lost"}

\* public: whether _public_probe_target accepts it.
Page == [public : BOOLEAN, head : Answers, get : Answers, to : Targets]

Results == {"ok", "dead", "gated", "error"}

\* How an answer that is not followed any further is reported.
Report(answer) ==
  CASE answer \in {"dead", "405"} -> "dead"
    [] answer \in {"gated", "ok"} -> answer
    [] OTHER -> "error"

Answer == IF method = "HEAD" THEN web[at].head ELSE web[at].get

-----------------------------------------------------------------------------
End(r) == result' = r /\ UNCHANGED <<web, start, at, method>>

\* A url that is not public, at the start or after a redirect.
Blocked ==
  /\ result = "none" /\ ~web[at].public
  /\ End("error")
  /\ UNCHANGED <<hop, asked>>

Ask ==
  /\ result = "none" /\ web[at].public /\ hop < MaxRequests
  /\ hop' = hop + 1
  /\ asked' = asked \cup {at}

NotAllowed ==
  /\ Ask /\ Answer = "405" /\ method = "HEAD"
  /\ method' = "GET"
  /\ UNCHANGED <<web, start, at, result>>

\* Mutant: the method stays what it was.
RedirectedKeepingMethod ==
  /\ Ask /\ Answer = "redirect" /\ hop + 1 < MaxRequests
  /\ at' = web[at].to
  /\ UNCHANGED <<web, start, method, result>>

Redirected ==
  /\ Ask /\ Answer = "redirect" /\ hop + 1 < MaxRequests
  /\ at' = web[at].to
  /\ method' = "HEAD"
  /\ UNCHANGED <<web, start, result>>

TooManyRedirects ==
  /\ Ask /\ Answer = "redirect" /\ hop + 1 = MaxRequests
  /\ End("error")

Answered ==
  /\ Ask /\ Answer # "redirect" /\ ~(Answer = "405" /\ method = "HEAD")
  /\ End(Report(Answer))

\* Mutant: the loop has no end but the answer's.
TooManyRequestsIgnored ==
  /\ result = "none" /\ web[at].public /\ hop = MaxRequests
  /\ hop' = hop + 1
  /\ UNCHANGED <<web, start, at, method, result, asked>>

\* The loop's else: the last request was a HEAD that was not allowed.
TooManyRequests ==
  /\ result = "none" /\ web[at].public /\ hop = MaxRequests
  /\ End("error")
  /\ UNCHANGED <<hop, asked>>

-----------------------------------------------------------------------------
Init ==
  /\ web \in [Targets -> Page]
  /\ start \in Targets /\ at = start /\ method = "HEAD" /\ hop = 0
  /\ asked = {} /\ result = "none"

Next ==
  \/ Blocked \/ NotAllowed \/ Redirected \/ TooManyRedirects
  \/ Answered \/ TooManyRequests

Spec == Init /\ [][Next]_vars

-----------------------------------------------------------------------------
\* The probe's variables have their types.
TypeOK ==
  /\ web \in [Targets -> Page] /\ start \in Targets /\ at \in Targets
  /\ method \in {"HEAD", "GET"} /\ hop \in 0 .. MaxRequests
  /\ asked \subseteq Targets /\ result \in Results \cup {"none"}

\* What a page says for itself: the answer to GET where HEAD is not allowed.
Says(p) == IF web[p].head = "405" THEN web[p].get ELSE web[p].head
Cost(p) == IF web[p].head = "405" THEN 2 ELSE 1

\* The verdict a page deserves with n requests to spend.
Deserves[n \in 0 .. MaxRequests] ==
  [p \in Targets |->
     IF ~web[p].public \/ Cost(p) > n THEN "error"
     ELSE IF Says(p) # "redirect" THEN Report(Says(p))
     ELSE IF Cost(p) = n THEN "error"
     ELSE Deserves[n - Cost(p)][web[p].to]]

\* Whatever mixture of redirects and fallbacks a site needs, the verdict is the
\* one that its pages deserve, and only pages that were accepted are ever sent
\* a request, those that a redirect leads to included.
ProbeAgrees ==
  /\ result # "none" => result = Deserves[MaxRequests][start]
  /\ \A p \in asked : web[p].public

\* Every probe ends.
ProbeEnds == <>(result # "none")
=============================================================================
