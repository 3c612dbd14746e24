---------------------------- MODULE Notifications ----------------------------
(***************************************************************************)
(* Notifications to administrators (notification_service.py), where they   *)
(* are enabled.  A request that has committed an evaluation or a proposal  *)
(* selects the active admins of that moment, inserts one pending row for   *)
(* each and starts a dispatcher thread, which sends whatever is pending    *)
(* and stores all outcomes in one commit.  The unique index on             *)
(* (event_type, claim_id, reviewer_id) refuses a second row of a key.      *)
(***************************************************************************)
EXTENDS Naturals

CONSTANTS
  Types,        \* event types that are enqueued
  Claims,       \* claims
  Accounts,     \* accounts that may be active admins
  Tested,       \* the ones somebody sends a test notification
  Requests,     \* requests that notify
  Dispatchers,  \* dispatcher threads
  Crashes,      \* whether processes die
  None          \* no value

NotificationsAssumption ==
  /\ Types \subseteq {"claim_ready_for_publish", "proposal_needs_triage"}
  /\ Crashes \in BOOLEAN /\ Tested \subseteq Accounts
  /\ None \notin Claims

VARIABLES
  row,        \* reviewer_notifications: the status of each key
  req,        \* the requests
  disp,       \* the dispatcher threads
  admins,     \* the accounts that are active and have the role admin
  transport,  \* what the settings of the process configure
  met,        \* history: what the sends of a key met with
  told,       \* history: the events whose enqueue has returned or raised
  chosen      \* history: the accounts that every enqueue of an event selected

vars == <<row, req, disp, admins, transport, met, told, chosen>>

-----------------------------------------------------------------------------
\* A test notification has no claim.
Keys == [type : Types, claim : Claims \cup {None}, to : Accounts]

Event(type, claim) == [type |-> type, claim |-> claim]

\* What requests notify of.
ClaimEvents == [type : Types, claim : Claims]

Of(e) == {k \in Keys : k.type = e.type /\ k.claim = e.claim}

Statuses == {"none", "pending", "sent", "failed"}

\* A webhook url comes before SMTP; with neither, the transport does nothing.
Transports == {"none", "webhook", "email"}

\* How a send may end.  Nothing configured, it logs and returns; a webhook has
\* rows that were stored before it was configured sent by SMTP still, if at all.
Ends == [none |-> {"skipped"}, email |-> {"delivered", "raised"},
         webhook |-> {"delivered", "raised", "skipped"}]

Outcomes == {"delivered", "skipped", "raised"}

Request == [pc : {"idle", "select", "insert"},
            event : ClaimEvents \cup {None},
            missing : SUBSET Keys]

Idle == [pc |-> "idle", event |-> None, missing |-> {}]

Dispatcher == [pc : {"off", "started", "sending", "hung"},
               todo : SUBSET Keys, sent : SUBSET Keys, failed : SUBSET Keys]

Off == [pc |-> "off", todo |-> {}, sent |-> {}, failed |-> {}]

Started(d) == [disp EXCEPT ![d].pc = "started"]

-----------------------------------------------------------------------------
(* Requests. *)

\* The end of evaluate_claim: whatever the verdict, claim_ready_for_publish.
Evaluate(q, c) ==
  /\ req[q].pc = "idle"
  /\ "claim_ready_for_publish" \in Types
  /\ req' = [req EXCEPT ![q] = [pc |-> "select", missing |-> {},
       event |-> Event("claim_ready_for_publish", c)]]
  /\ UNCHANGED <<row, disp, admins, transport, met, told, chosen>>

\* The end of create_proposal.
Propose(q, c) ==
  /\ req[q].pc = "idle"
  /\ "proposal_needs_triage" \in Types
  /\ req' = [req EXCEPT ![q] = [pc |-> "select", missing |-> {},
       event |-> Event("proposal_needs_triage", c)]]
  /\ UNCHANGED <<row, disp, admins, transport, met, told, chosen>>

\* _select_reviewers and _already_notified: who is an active admin now and has
\* no row of the event yet.
Select(q) ==
  LET event == req[q].event
      missing == {k \in Of(event) : k.to \in admins /\ row[k] = "none"}
  IN
  /\ req[q].pc = "select"
  /\ req' = [req EXCEPT ![q] =
       IF missing = {} THEN Idle
       ELSE [pc |-> "insert", event |-> event, missing |-> missing]]
  /\ told' = IF missing = {} THEN told \cup {event} ELSE told
  /\ chosen' = [chosen EXCEPT ![event] = @ \cap admins]
  /\ UNCHANGED <<row, disp, admins, transport, met>>

\* Mutant: one commit per row, and the request may end between two.
InsertOneByOne(q) ==
  /\ req[q].pc = "insert"
  /\ \E k \in req[q].missing, d \in Dispatchers :
       /\ row[k] = "none" /\ disp[d].pc = "off"
       /\ row' = [row EXCEPT ![k] = "pending"]
       /\ disp' = Started(d)
       /\ told' = told \cup {req[q].event}
  /\ req' = [req EXCEPT ![q] = Idle]
  /\ UNCHANGED <<admins, transport, met, chosen>>

\* Mutant: no dispatcher is started.
InsertQuietly(q) ==
  /\ req[q].pc = "insert"
  /\ \A k \in req[q].missing : row[k] = "none"
  /\ row' = [k \in Keys |-> IF k \in req[q].missing THEN "pending" ELSE row[k]]
  /\ told' = told \cup {req[q].event}
  /\ req' = [req EXCEPT ![q] = Idle]
  /\ UNCHANGED <<disp, admins, transport, met, chosen>>

\* All rows in one commit, then a thread.
Insert(q) ==
  /\ req[q].pc = "insert"
  /\ \A k \in req[q].missing : row[k] = "none"
  /\ row' = [k \in Keys |-> IF k \in req[q].missing THEN "pending" ELSE row[k]]
  /\ \E d \in Dispatchers : disp[d].pc = "off" /\ disp' = Started(d)
  /\ told' = told \cup {req[q].event}
  /\ req' = [req EXCEPT ![q] = Idle]
  /\ UNCHANGED <<admins, transport, met, chosen>>

\* The unique index refuses a row that another request has committed: the
\* whole batch is rolled back, and the client gets 500 for stored work.
InsertRefused(q) ==
  /\ req[q].pc = "insert"
  /\ \E k \in req[q].missing : row[k] # "none"
  /\ told' = told \cup {req[q].event}
  /\ req' = [req EXCEPT ![q] = Idle]
  /\ UNCHANGED <<row, disp, admins, transport, met, chosen>>

\* The process dies after the request's own commit.
RequestDies(q) ==
  /\ Crashes /\ req[q].pc # "idle"
  /\ req' = [req EXCEPT ![q] = Idle]
  /\ UNCHANGED <<row, disp, admins, transport, met, told, chosen>>

\* test_notification: a row without a claim; a second one for the same
\* reviewer, which no index refuses, adds nothing and is left out.
TestNotification(t, a) ==
  LET k == [type |-> t, claim |-> None, to |-> a] IN
  /\ row[k] = "none"
  /\ row' = [row EXCEPT ![k] = "pending"]
  /\ \E d \in Dispatchers : disp[d].pc = "off" /\ disp' = Started(d)
  /\ UNCHANGED <<req, admins, transport, met, told, chosen>>

\* An account is created, deactivated, reactivated or given another role.
SetAdmin(a) ==
  /\ admins' = IF a \in admins THEN admins \ {a} ELSE admins \cup {a}
  /\ UNCHANGED <<row, req, disp, transport, met, told, chosen>>

-----------------------------------------------------------------------------
(* Dispatchers. *)

\* process_pending's query, which locks nothing.
ReadPending(d) ==
  /\ disp[d].pc = "started"
  /\ disp' = [disp EXCEPT ![d].pc = "sending",
                          ![d].todo = {k \in Keys : row[k] = "pending"}]
  /\ UNCHANGED <<row, req, admins, transport, met, told, chosen>>

\* WebhookTransport.send or EmailTransport.send; whatever does not raise is sent.
Send(d, k) ==
  /\ disp[d].pc = "sending" /\ k \in disp[d].todo
  /\ \E o \in Ends[transport] :
       /\ met' = [met EXCEPT ![k] = @ \cup {o}]
       /\ disp' = IF o = "raised"
                    THEN [disp EXCEPT ![d].todo = @ \ {k},
                                      ![d].failed = @ \cup {k}]
                    ELSE [disp EXCEPT ![d].todo = @ \ {k},
                                      ![d].sent = @ \cup {k}]
  /\ UNCHANGED <<row, req, admins, transport, told, chosen>>

\* smtplib.SMTP is called without a timeout and may wait for ever.
Hang(d) ==
  /\ transport # "none"
  /\ disp[d].pc = "sending" /\ disp[d].todo # {}
  /\ disp' = [disp EXCEPT ![d].pc = "hung"]
  /\ UNCHANGED <<row, req, admins, transport, met, told, chosen>>

\* Mutant: what was tried is stored as sent.
StoreAllSent(d) ==
  /\ disp[d].pc = "sending" /\ disp[d].todo = {}
  /\ row' = [k \in Keys |->
       IF k \in disp[d].sent \cup disp[d].failed THEN "sent" ELSE row[k]]
  /\ disp' = [disp EXCEPT ![d] = Off]
  /\ UNCHANGED <<req, admins, transport, met, told, chosen>>

\* The single commit: rows by primary key, whatever they hold by now.
StoreOutcomes(d) ==
  /\ disp[d].pc = "sending" /\ disp[d].todo = {}
  /\ row' = [k \in Keys |-> IF k \in disp[d].sent THEN "sent"
                            ELSE IF k \in disp[d].failed THEN "failed"
                            ELSE row[k]]
  /\ disp' = [disp EXCEPT ![d] = Off]
  /\ UNCHANGED <<req, admins, transport, met, told, chosen>>

\* The process dies, or the commit fails.
DispatcherDies(d) ==
  /\ Crashes /\ disp[d].pc # "off"
  /\ disp' = [disp EXCEPT ![d] = Off]
  /\ UNCHANGED <<row, req, admins, transport, met, told, chosen>>

\* The process starts again with other settings: what was in memory is gone.
\* Where nothing dies, it is stopped when nothing is under way.
Restart(new) ==
  /\ \/ Crashes
     \/ /\ \A q \in Requests : req[q].pc = "idle"
        /\ \A d \in Dispatchers : disp[d].pc = "off"
  /\ transport' = new
  /\ req' = [q \in Requests |-> Idle]
  /\ disp' = [d \in Dispatchers |-> Off]
  /\ UNCHANGED <<row, admins, met, told, chosen>>

-----------------------------------------------------------------------------
\* By default no transport is configured.
Init ==
  /\ row = [k \in Keys |-> "none"]
  /\ req = [q \in Requests |-> Idle]
  /\ disp = [d \in Dispatchers |-> Off]
  /\ admins = Accounts
  /\ transport = "none"
  /\ met = [k \in Keys |-> {}]
  /\ told = {}
  /\ chosen = [e \in ClaimEvents |-> Accounts]

Dispatch(d) ==
  \/ ReadPending(d)
  \/ \E k \in Keys : Send(d, k)
  \/ StoreOutcomes(d)

Next ==
  \/ \E q \in Requests :
       \/ \E c \in Claims : Evaluate(q, c) \/ Propose(q, c)
       \/ Select(q) \/ Insert(q) \/ InsertRefused(q) \/ RequestDies(q)
  \/ \E t \in Types, a \in Tested : TestNotification(t, a)
  \/ \E a \in Accounts : SetAdmin(a)
  \/ \E d \in Dispatchers : Dispatch(d) \/ Hang(d) \/ DispatcherDies(d)
  \/ \E new \in Transports : Restart(new)

Spec == Init /\ [][Next]_vars

-----------------------------------------------------------------------------
\* Rows, requests, threads and histories have their shapes, and a row's status
\* is one the queries know.
TypeOK ==
  /\ row \in [Keys -> Statuses]
  /\ req \in [Requests -> Request]
  /\ disp \in [Dispatchers -> Dispatcher]
  /\ admins \subseteq Accounts
  /\ transport \in Transports
  /\ met \in [Keys -> SUBSET Outcomes]
  /\ told \subseteq ClaimEvents
  /\ chosen \in [ClaimEvents -> SUBSET Accounts]

\* A row says only what some thread met with, however many threads sent it and
\* whichever stored its outcome last: failed if a send of it raised, sent if a
\* message of it went out or if the transport, not configured, skipped it.  The
\* last is no delivery at all, and the row does not tell it from one.
RowsSayWhatHappened ==
  \A k \in Keys :
    /\ row[k] = "sent" => met[k] \cap {"delivered", "skipped"} # {}
    /\ row[k] = "failed" => "raised" \in met[k]

\* Once an enqueue has come to its end, by its commit or by the unique index
\* refusing its batch, everybody whom all enqueues of the event selected has a
\* row: the rows that refuse a batch were committed together with those of all
\* their request selected.  Whom only the refused request saw, an account that
\* became active between the two selections, is forgotten with it.
NobodyForgotten ==
  \A e \in told : \A k \in Of(e) : k.to \in chosen[e] => row[k] # "none"

\* Without crashes a stored notification is tried: its thread is started after
\* the commit and reads it.  Only a thread that hangs in SMTP keeps the rows of
\* its batch from it, those it has sent included.
EveryRowIsTried ==
  \A k \in Keys :
    row[k] = "pending"
      ~> \/ row[k] \in {"sent", "failed"}
         \/ \E d \in Dispatchers :
              /\ disp[d].pc = "hung"
              /\ k \in disp[d].todo \cup disp[d].sent \cup disp[d].failed
=============================================================================
