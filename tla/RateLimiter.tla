----------------------------- MODULE RateLimiter -----------------------------
(***************************************************************************)
(* The sliding-window limiter of the write endpoints (rate_limiter.py).    *)
(* The clock is read before the lock is taken, so that a thread may use a  *)
(* reading that is older, by any time, than what other threads have stored *)
(* since.                                                                  *)
(***************************************************************************)
EXTENDS Integers, Sequences, FiniteSets

CONSTANTS
  Keys,      \* endpoint and client address
  Threads,   \* threads of the server's pool
  Limit,     \* requests per window
  Window,    \* the window, in ticks
  Second,    \* ticks per second
  MaxClock   \* bound on the clock

LimiterAssumption ==
  /\ Limit \in Nat \ {0} /\ Window \in Nat \ {0} /\ Second \in Nat \ {0}
  /\ MaxClock \in Nat /\ IsFiniteSet(Threads)

VARIABLES
  clock,     \* time.monotonic
  windows,   \* _windows: the timestamps of each key
  thread,    \* what each thread has read
  admitted,  \* history: the readings of the requests let through, per key
  told       \* history: the last refusal since the last admission, per key

vars == <<clock, windows, thread, admitted, told>>

-----------------------------------------------------------------------------
Never == [at |-> 0, wait |-> 0]

Waiting(t) == thread[t].pc = "read"

\* Mutant: a timestamp leaves one tick early.
EvictEarly(q, now) == SelectSeq(q, LAMBDA s : s > now - Window + 1)

\* The timestamps from the left that are outside the window go: the first one
\* inside stops the loop.
Evict(q, now) ==
  LET inside == {i \in 1 .. Len(q) : q[i] > now - Window} IN
  IF inside = {} THEN <<>>
  ELSE SubSeq(q, CHOOSE i \in inside : \A j \in inside : i <= j, Len(q))

RetryAfter(q, now) ==
  LET s == (q[1] + Window - now) \div Second + 1 IN IF s > 1 THEN s ELSE 1

-----------------------------------------------------------------------------
\* Also while threads are between clock and lock.
Tick ==
  /\ clock < MaxClock
  /\ clock' = clock + 1
  /\ UNCHANGED <<windows, thread, admitted, told>>

\* A request of key k reaches is_allowed and reads the clock.
ReadClock(t, k) ==
  /\ ~Waiting(t)
  /\ thread' = [thread EXCEPT ![t] = [pc |-> "read", key |-> k, now |-> clock]]
  /\ UNCHANGED <<clock, windows, admitted, told>>

\* Mutant: one more than the limit.
AdmitOneMore(t) ==
  LET k == thread[t].key
      q == Evict(windows[k], thread[t].now) IN
  /\ Waiting(t) /\ Len(q) <= Limit
  /\ windows' = [windows EXCEPT ![k] = Append(q, thread[t].now)]
  /\ admitted' = [admitted EXCEPT ![k] = Append(@, thread[t].now)]
  /\ told' = [told EXCEPT ![k] = Never]
  /\ thread' = [thread EXCEPT ![t].pc = "idle"]
  /\ UNCHANGED clock

\* The locked part of is_allowed.
Admit(t) ==
  LET k == thread[t].key
      q == Evict(windows[k], thread[t].now) IN
  /\ Waiting(t) /\ Len(q) < Limit
  /\ windows' = [windows EXCEPT ![k] = Append(q, thread[t].now)]
  /\ admitted' = [admitted EXCEPT ![k] = Append(@, thread[t].now)]
  /\ told' = [told EXCEPT ![k] = Never]
  /\ thread' = [thread EXCEPT ![t].pc = "idle"]
  /\ UNCHANGED clock

\* ip_rate_limit turns this into 429 with the seconds to wait.
Refuse(t) ==
  LET k == thread[t].key
      q == Evict(windows[k], thread[t].now) IN
  /\ Waiting(t) /\ Len(q) >= Limit
  /\ windows' = [windows EXCEPT ![k] = q]
  /\ told' = [told EXCEPT ![k] =
       [at |-> thread[t].now, wait |-> RetryAfter(q, thread[t].now)]]
  /\ thread' = [thread EXCEPT ![t].pc = "idle"]
  /\ UNCHANGED <<clock, admitted>>

Init ==
  /\ clock = 0
  /\ windows = [k \in Keys |-> <<>>] /\ admitted = [k \in Keys |-> <<>>]
  /\ told = [k \in Keys |-> Never]
  /\ \E k \in Keys :
       thread = [t \in Threads |-> [pc |-> "idle", key |-> k, now |-> 0]]

Next ==
  \/ Tick
  \/ \E t \in Threads : (\E k \in Keys : ReadClock(t, k)) \/ Admit(t) \/ Refuse(t)

Spec == Init /\ [][Next]_vars

-----------------------------------------------------------------------------
\* Shapes; a window never holds more than the limit, nor a time to come.
TypeOK ==
  /\ clock \in 0 .. MaxClock
  /\ \A k \in Keys :
       /\ Len(windows[k]) <= Limit
       /\ \A i \in 1 .. Len(windows[k]) : windows[k][i] \in 0 .. clock
  /\ \A t \in Threads :
       /\ thread[t].pc \in {"idle", "read"} /\ thread[t].key \in Keys
       /\ thread[t].now \in 0 .. clock

Within(q, from, to) == Cardinality({i \in DOMAIN q : from < q[i] /\ q[i] <= to})

\* What the limiter keeps to though threads are held up before the lock for any
\* time: at no moment have more requests than the limit been let through of those
\* that arrived within the window before it; those held up can exceed the limit
\* of the window they arrived in by one for each thread at most; and a client
\* that was refused, and whose key let nobody through since, is let through once
\* the seconds it was told are over.
LimitHolds ==
  \A k \in Keys :
    /\ Within(admitted[k], clock - Window, clock) <= Limit
    /\ \A e \in 0 .. clock :
         Within(admitted[k], e - Window, e) <= Limit + Cardinality(Threads)
    /\ told[k] # Never /\ clock >= told[k].at + told[k].wait * Second
         => Len(Evict(windows[k], clock)) < Limit

-----------------------------------------------------------------------------
\* docs/THREAT_MODEL.md: "the server enforces a 10 req/min per-IP sliding-window
\* limit": of the requests that arrive within one window, no more than the limit
\* are let through.
LimitIsEnforced ==
  \A k \in Keys : \A e \in 0 .. clock :
    Within(admitted[k], e - Window, e) <= Limit
=============================================================================
