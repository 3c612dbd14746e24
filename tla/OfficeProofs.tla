----------------------------- MODULE OfficeProofs -----------------------------
(***************************************************************************)
(* Proofs about Office: each scene keeps the invariant of its component,   *)
(* and so every property of the run holds for any values of the constants. *)
(* IntakeProfiles has its proofs in a module of its own, instantiated here *)
(* as Office instantiates the component; those about the components with   *)
(* one instance are below.                                                 *)
(***************************************************************************)
EXTENDS Office, Sequences, TLAPS

SerialP == INSTANCE IntakeProfilesProofs WITH
  Requests <- {Editor}, Faults <- {}, req <- edit

FaultyP == INSTANCE IntakeProfilesProofs WITH
  Ids <- Contested, Requests <- Editors, req <- edit

-----------------------------------------------------------------------------
\* Both instances of a component say the same, definition by definition.
LEMMA SerialSame ==
  /\ Serial!ProfilesAssumption <=> SerialP!ProfilesAssumption
  /\ Serial!Init <=> SerialP!Init
  /\ Serial!Next <=> SerialP!Next
  /\ Serial!TypeOK <=> SerialP!TypeOK
  /\ Serial!AuditMatchesFile <=> SerialP!AuditMatchesFile
  <1>1. Serial!ProfilesAssumption <=> SerialP!ProfilesAssumption
    BY DEF Serial!ProfilesAssumption, SerialP!ProfilesAssumption, Serial!Config,
       SerialP!Config
  <1>2. Serial!Init <=> SerialP!Init
    BY DEF Serial!Init, SerialP!Init, Serial!Idle, SerialP!Idle
  <1>3. Serial!Next <=> SerialP!Next
    BY DEF Serial!Next, SerialP!Next, Serial!ReadAndCheck, SerialP!ReadAndCheck,
       Serial!WriteTmp, SerialP!WriteTmp, Serial!Replace, SerialP!Replace,
       Serial!NothingToReplace, SerialP!NothingToReplace, Serial!CommitAudit,
       SerialP!CommitAudit, Serial!CommitFails, SerialP!CommitFails,
       Serial!Crash, SerialP!Crash, Serial!Load, SerialP!Load, Serial!Store,
       SerialP!Store, Serial!Changed, SerialP!Changed, Serial!Undone,
       SerialP!Undone, Serial!Said, SerialP!Said, Serial!Idle, SerialP!Idle,
       Serial!Reported, SerialP!Reported
  <1>4. Serial!TypeOK <=> SerialP!TypeOK
    BY DEF Serial!TypeOK, SerialP!TypeOK, Serial!Config, SerialP!Config,
       Serial!Request, SerialP!Request
  <1>5. Serial!AuditMatchesFile <=> SerialP!AuditMatchesFile
    BY DEF Serial!AuditMatchesFile, SerialP!AuditMatchesFile, Serial!Quiet,
       SerialP!Quiet, Serial!Said, SerialP!Said
  <1>6. QED
    BY <1>1, <1>2, <1>3, <1>4, <1>5

LEMMA FaultySame ==
  /\ Faulty!ProfilesAssumption <=> FaultyP!ProfilesAssumption
  /\ Faulty!Init <=> FaultyP!Init
  /\ Faulty!Next <=> FaultyP!Next
  /\ Faulty!TypeOK <=> FaultyP!TypeOK
  /\ Faulty!CachedWasHeld <=> FaultyP!CachedWasHeld
  <1>1. Faulty!ProfilesAssumption <=> FaultyP!ProfilesAssumption
    BY DEF Faulty!ProfilesAssumption, FaultyP!ProfilesAssumption, Faulty!Config,
       FaultyP!Config
  <1>2. Faulty!Init <=> FaultyP!Init
    BY DEF Faulty!Init, FaultyP!Init, Faulty!Idle, FaultyP!Idle
  <1>3. Faulty!Next <=> FaultyP!Next
    BY DEF Faulty!Next, FaultyP!Next, Faulty!ReadAndCheck, FaultyP!ReadAndCheck,
       Faulty!WriteTmp, FaultyP!WriteTmp, Faulty!Replace, FaultyP!Replace,
       Faulty!NothingToReplace, FaultyP!NothingToReplace, Faulty!CommitAudit,
       FaultyP!CommitAudit, Faulty!CommitFails, FaultyP!CommitFails,
       Faulty!Crash, FaultyP!Crash, Faulty!Load, FaultyP!Load, Faulty!Store,
       FaultyP!Store, Faulty!Changed, FaultyP!Changed, Faulty!Undone,
       FaultyP!Undone, Faulty!Said, FaultyP!Said, Faulty!Idle, FaultyP!Idle,
       Faulty!Reported, FaultyP!Reported
  <1>4. Faulty!TypeOK <=> FaultyP!TypeOK
    BY DEF Faulty!TypeOK, FaultyP!TypeOK, Faulty!Config, FaultyP!Config,
       Faulty!Request, FaultyP!Request
  <1>5. Faulty!CachedWasHeld <=> FaultyP!CachedWasHeld
    BY DEF Faulty!CachedWasHeld, FaultyP!CachedWasHeld, Faulty!Said, FaultyP!Said
  <1>6. QED
    BY <1>1, <1>2, <1>3, <1>4, <1>5

-----------------------------------------------------------------------------
(* Notifications. *)

\* The first rows of an event are inserted together and are those of all whom
\* their request selected, and no row disappears.
ChosenHaveRows ==
  \A e \in ClaimEvents :
    \/ \A k \in Of(e) : row[k] = "none"
    \/ \A k \in Of(e) : k.to \in chosen[e] => row[k] # "none"

\* As long as an event has no row, a request that is about to insert has those
\* of all whom every request selected.
RequestsSound ==
  \A q \in Requests : req[q].pc # "idle" =>
    /\ req[q].event \in ClaimEvents
    /\ req[q].pc = "insert" =>
         /\ req[q].missing # {} /\ req[q].missing \subseteq Of(req[q].event)
         /\ (\A k \in Of(req[q].event) : row[k] = "none")
              => \A k \in Of(req[q].event) :
                   k.to \in chosen[req[q].event] => k \in req[q].missing

\* A send that did not raise.
Returned == {"delivered", "skipped"}

\* A dispatcher has rows that were stored, and knows what it met with.
DispatchersSound ==
  \A d \in Dispatchers :
    /\ \A k \in disp[d].todo \cup disp[d].sent \cup disp[d].failed :
         k \in Keys /\ row[k] # "none"
    /\ \A k \in disp[d].sent : met[k] \cap Returned # {}
    /\ \A k \in disp[d].failed : "raised" \in met[k]

NoticesInv ==
  /\ TypeOK
  /\ ChosenHaveRows /\ RequestsSound /\ DispatchersSound
  /\ RowsSayWhatHappened /\ NobodyForgotten

-----------------------------------------------------------------------------
LEMMA ShapesOfNothing == Idle \in Request /\ Off \in Dispatcher
  BY DEF Idle, Request, Off, Dispatcher

LEMMA NoticesInit == ASSUME NotificationsAssumption, Init PROVE NoticesInv
  <1>1. TypeOK
    BY ShapesOfNothing DEF Init, TypeOK, Statuses, Transports, Outcomes
  <1>2. ChosenHaveRows
    BY DEF Init, ChosenHaveRows, Of
  <1>3. RequestsSound /\ DispatchersSound
    BY DEF Init, RequestsSound, DispatchersSound, Idle, Off
  <1>4. RowsSayWhatHappened /\ NobodyForgotten
    BY DEF Init, RowsSayWhatHappened, NobodyForgotten
  <1>5. QED
    BY <1>1, <1>2, <1>3, <1>4 DEF NoticesInv

-----------------------------------------------------------------------------
(* Requests. *)

\* evaluate_claim and create_proposal come to their notification.
LEMMA NotifyStep ==
  ASSUME NotificationsAssumption, NoticesInv, NEW q \in Requests, NEW c \in Claims,
         Evaluate(q, c) \/ Propose(q, c)
  PROVE  NoticesInv'
  <1>1. PICK t \in Types :
          req' = [req EXCEPT ![q] =
                    [pc |-> "select", missing |-> {}, event |-> Event(t, c)]]
    BY DEF Evaluate, Propose
  <1> DEFINE new == [pc |-> "select", missing |-> {}, event |-> Event(t, c)]
  <1>2. new \in Request /\ new.event \in ClaimEvents /\ new.pc = "select"
    BY DEF Event, Request, ClaimEvents
  <1> HIDE DEF new
  <1>3. req' = [req EXCEPT ![q] = new]
    BY <1>1 DEF new
  <1>4. UNCHANGED <<row, disp, admins, transport, met, told, chosen>>
    BY DEF Evaluate, Propose
  <1>5. TypeOK'
    BY <1>2, <1>3, <1>4 DEF NoticesInv, TypeOK
  <1>6. RequestsSound'
    BY <1>2, <1>3, <1>4 DEF NoticesInv, TypeOK, RequestsSound, Of
  <1>7. QED
    BY <1>4, <1>5, <1>6 DEF NoticesInv, ChosenHaveRows, DispatchersSound,
       RowsSayWhatHappened, NobodyForgotten, Of

\* What a request finds missing is, while no row is there, what all selected.
LEMMA SelectStep ==
  ASSUME NotificationsAssumption, NoticesInv, NEW q \in Requests, Select(q)
  PROVE  NoticesInv'
  <1> DEFINE e == req[q].event
             missing == {k \in Of(e) : k.to \in admins /\ row[k] = "none"}
             new == [pc |-> "insert", event |-> e, missing |-> missing]
  <1>1. /\ e \in ClaimEvents /\ req[q].pc = "select"
        /\ UNCHANGED <<row, disp, admins, transport, met>>
    BY DEF Select, NoticesInv, RequestsSound
  <1>2. /\ missing \subseteq Of(e) /\ missing \in SUBSET Keys
        /\ \A k \in Of(e) : k.to \in admins /\ row[k] = "none" => k \in missing
    BY DEF Of
  <1>3. /\ req' = [req EXCEPT ![q] = IF missing = {} THEN Idle ELSE new]
        /\ told' = IF missing = {} THEN told \cup {e} ELSE told
        /\ chosen' = [chosen EXCEPT ![e] = @ \cap admins]
    BY DEF Select
  <1> HIDE DEF missing
  <1>4. /\ chosen' \in [ClaimEvents -> SUBSET Accounts]
        /\ chosen'[e] = chosen[e] \cap admins
        /\ \A f \in ClaimEvents : chosen'[f] \subseteq chosen[f]
    BY <1>1, <1>3 DEF NoticesInv, TypeOK
  <1>5. new \in Request
    BY <1>1, <1>2 DEF Request
  <1>6. /\ new.pc = "insert" /\ new.event = e /\ new.missing = missing
    OBVIOUS
  <1>7. told' \subseteq ClaimEvents
    BY <1>1, <1>3 DEF NoticesInv, TypeOK
  <1> HIDE DEF new
  <1>8. TypeOK'
    BY <1>1, <1>3, <1>4, <1>5, <1>7, ShapesOfNothing DEF NoticesInv, TypeOK
  <1>9. ChosenHaveRows'
    BY <1>1, <1>4 DEF NoticesInv, ChosenHaveRows, Of
  <1>10. RequestsSound'
    <2> SUFFICES ASSUME NEW p \in Requests, req'[p].pc # "idle"
                 PROVE  /\ req'[p].event \in ClaimEvents
                        /\ req'[p].pc = "insert" =>
                             /\ req'[p].missing # {}
                             /\ req'[p].missing \subseteq Of(req'[p].event)
                             /\ (\A k \in Of(req'[p].event) : row[k] = "none")
                                  => \A k \in Of(req'[p].event) :
                                       k.to \in chosen'[req'[p].event]
                                         => k \in req'[p].missing
      BY <1>1 DEF RequestsSound, Of
    <2>1. CASE p = q
      <3>1. req'[p] = new /\ missing # {}
        BY <2>1, <1>3 DEF NoticesInv, TypeOK, Idle
      <3>2. \A k \in Of(e) : k.to \in chosen'[e] /\ row[k] = "none" => k \in missing
        BY <1>2, <1>4
      <3>3. QED
        BY <3>1, <3>2, <1>1, <1>2, <1>6
    <2>2. CASE p # q
      <3>1. req'[p] = req[p]
        BY <2>2, <1>3 DEF NoticesInv, TypeOK
      <3>2. QED
        BY <3>1, <1>4 DEF NoticesInv, RequestsSound
    <2>3. QED
      BY <2>1, <2>2
  <1>11. NobodyForgotten'
    <2>1. missing = {} => \A k \in Of(e) : k.to \in chosen'[e] => row[k] # "none"
      BY <1>2, <1>4
    <2>2. QED
      BY <2>1, <1>1, <1>3, <1>4 DEF NoticesInv, TypeOK, NobodyForgotten, Of
  <1>12. QED
    BY <1>1, <1>8, <1>9, <1>10, <1>11 DEF NoticesInv, DispatchersSound,
       RowsSayWhatHappened

\* The keys of two events that share one are the same keys.
LEMMA OneEvent ==
  ASSUME NEW e \in ClaimEvents, NEW f \in ClaimEvents,
         NEW k \in Keys, k \in Of(e), k \in Of(f)
  PROVE  e = f
  BY DEF Of, ClaimEvents

LEMMA StartType ==
  ASSUME TypeOK, NEW d \in Dispatchers
  PROVE  /\ Started(d) \in [Dispatchers -> Dispatcher]
         /\ \A c \in Dispatchers : /\ Started(d)[c].todo = disp[c].todo
                                   /\ Started(d)[c].sent = disp[c].sent
                                   /\ Started(d)[c].failed = disp[c].failed
  BY DEF Started, TypeOK, Dispatcher

LEMMA InsertStep ==
  ASSUME NotificationsAssumption, NoticesInv, NEW q \in Requests, Insert(q)
  PROVE  NoticesInv'
  <1> DEFINE e == req[q].event
             missing == req[q].missing
  <1>1. /\ e \in ClaimEvents /\ missing \subseteq Of(e) /\ missing # {}
        /\ (\A k \in Of(e) : row[k] = "none")
             => \A k \in Of(e) : k.to \in chosen[e] => k \in missing
        /\ UNCHANGED <<admins, transport, met, chosen>>
    BY DEF Insert, NoticesInv, RequestsSound
  <1>2. /\ row' \in [Keys -> Statuses]
        /\ \A k \in Keys : row'[k] = IF k \in missing THEN "pending" ELSE row[k]
        /\ \A k \in missing : row[k] = "none"
    BY DEF Insert, NoticesInv, TypeOK, Statuses
  <1>3. /\ disp' \in [Dispatchers -> Dispatcher]
        /\ \A c \in Dispatchers : /\ disp'[c].todo = disp[c].todo
                                  /\ disp'[c].sent = disp[c].sent
                                  /\ disp'[c].failed = disp[c].failed
    <2>1. PICK d \in Dispatchers : disp' = Started(d)
      BY DEF Insert
    <2>2. QED
      BY <2>1, StartType DEF NoticesInv
  <1>4. /\ req' = [req EXCEPT ![q] = Idle] /\ told' = told \cup {e}
    BY DEF Insert
  <1>5. told' \subseteq ClaimEvents
    BY <1>1, <1>4 DEF NoticesInv, TypeOK
  <1>6. \A k \in Keys : row[k] # "none" => row'[k] # "none"
    BY <1>2
  <1> HIDE DEF e, missing
  <1>7. TypeOK'
    BY <1>1, <1>2, <1>3, <1>4, <1>5, ShapesOfNothing DEF NoticesInv, TypeOK
  <1>8. \A k \in Of(e) : k.to \in chosen[e] => row'[k] # "none"
    <2>1. CASE \A k \in Of(e) : row[k] = "none"
      BY <2>1, <1>1, <1>2 DEF Of
    <2>2. CASE \E k \in Of(e) : row[k] # "none"
      BY <2>2, <1>1, <1>6 DEF NoticesInv, ChosenHaveRows, Of
    <2>3. QED
      BY <2>1, <2>2
  <1>9. ASSUME NEW f \in ClaimEvents, f # e
        PROVE  \A k \in Of(f) : k \in Keys /\ row'[k] = row[k]
    <2>1. \A k \in Of(f) : k \in Keys /\ k \notin missing
      BY <1>1, <1>9, OneEvent DEF Of
    <2>2. QED
      BY <2>1, <1>2
  <1>10. ChosenHaveRows'
    <2> SUFFICES ASSUME NEW f \in ClaimEvents
                 PROVE  \/ \A k \in Of(f) : row'[k] = "none"
                        \/ \A k \in Of(f) : k.to \in chosen[f] => row'[k] # "none"
      BY <1>1 DEF ChosenHaveRows, Of, Keys
    <2>1. CASE f = e
      BY <2>1, <1>8
    <2>2. CASE f # e
      BY <2>2, <1>9 DEF NoticesInv, ChosenHaveRows
    <2>3. QED
      BY <2>1, <2>2
  <1>11. RequestsSound'
    <2> SUFFICES ASSUME NEW p \in Requests, req'[p].pc # "idle"
                 PROVE  /\ req'[p].event \in ClaimEvents
                        /\ req'[p].pc = "insert" =>
                             /\ req'[p].missing # {}
                             /\ req'[p].missing \subseteq Of(req'[p].event)
                             /\ (\A k \in Of(req'[p].event) : row'[k] = "none")
                                  => \A k \in Of(req'[p].event) :
                                       k.to \in chosen[req'[p].event]
                                         => k \in req'[p].missing
      BY <1>1 DEF RequestsSound, Of
    <2>1. p # q /\ req'[p] = req[p] /\ req[p].event \in ClaimEvents
      BY <1>4 DEF NoticesInv, TypeOK, RequestsSound, Idle
    <2>2. CASE req[p].event = e
      <3>1. \E k \in Of(e) : row'[k] # "none"
        BY <1>1, <1>2 DEF Of
      <3>2. QED
        BY <2>1, <2>2, <3>1 DEF NoticesInv, RequestsSound
    <2>3. CASE req[p].event # e
      BY <2>1, <2>3, <1>9 DEF NoticesInv, RequestsSound
    <2>4. QED
      BY <2>2, <2>3
  <1>12. DispatchersSound'
    BY <1>1, <1>3, <1>6 DEF NoticesInv, DispatchersSound
  <1>13. RowsSayWhatHappened'
    BY <1>1, <1>2 DEF NoticesInv, RowsSayWhatHappened
  <1>14. NobodyForgotten'
    BY <1>1, <1>4, <1>6, <1>8 DEF NoticesInv, NobodyForgotten, Of
  <1>15. QED
    BY <1>7, <1>10, <1>11, <1>12, <1>13, <1>14 DEF NoticesInv

\* The unique index refuses the batch: some row of the event is there, and so
\* are those of all whom every request selected.
LEMMA EndOfRequestStep ==
  ASSUME NotificationsAssumption, NoticesInv, NEW q \in Requests,
         InsertRefused(q) \/ RequestDies(q)
  PROVE  NoticesInv'
  <1> DEFINE e == req[q].event
  <1>1. /\ req' = [req EXCEPT ![q] = Idle] /\ req[q].pc # "idle"
        /\ UNCHANGED <<row, disp, admins, transport, met, chosen>>
    BY DEF InsertRefused, RequestDies
  <1>2. e \in ClaimEvents
    BY <1>1 DEF NoticesInv, RequestsSound
  <1>3. \/ told' = told
        \/ /\ told' = told \cup {e}
           /\ \A k \in Of(e) : k.to \in chosen[e] => row[k] # "none"
    BY <1>2 DEF InsertRefused, RequestDies, NoticesInv, RequestsSound, ChosenHaveRows
  <1>4. told' \subseteq ClaimEvents
    BY <1>2, <1>3 DEF NoticesInv, TypeOK
  <1>5. TypeOK'
    BY <1>1, <1>4, ShapesOfNothing DEF NoticesInv, TypeOK
  <1>6. RequestsSound'
    BY <1>1 DEF NoticesInv, TypeOK, RequestsSound, Idle, Of
  <1>7. NobodyForgotten'
    BY <1>1, <1>3 DEF NoticesInv, NobodyForgotten, Of
  <1>8. QED
    BY <1>1, <1>5, <1>6, <1>7 DEF NoticesInv, ChosenHaveRows, DispatchersSound,
       RowsSayWhatHappened, Of

\* A test notification is about no claim, so no event's rows change.
LEMMA TestStep ==
  ASSUME NotificationsAssumption, NoticesInv, NEW t \in Types, NEW a \in Tested,
         TestNotification(t, a)
  PROVE  NoticesInv'
  <1> DEFINE fresh == [type |-> t, claim |-> None, to |-> a]
  <1>1. fresh \in Keys /\ fresh.claim = None
    BY DEF Keys, NotificationsAssumption
  <1>2. /\ row' = [row EXCEPT ![fresh] = "pending"] /\ row[fresh] = "none"
        /\ UNCHANGED <<req, admins, transport, met, told, chosen>>
    BY DEF TestNotification
  <1> HIDE DEF fresh
  <1>3. /\ row' \in [Keys -> Statuses] /\ row'[fresh] = "pending"
        /\ \A k \in Keys \ {fresh} : row'[k] = row[k]
    BY <1>1, <1>2 DEF NoticesInv, TypeOK, Statuses
  <1>4. \A e \in ClaimEvents : \A k \in Of(e) : k \in Keys /\ row'[k] = row[k]
    BY <1>1, <1>3 DEF ClaimEvents, Of, NotificationsAssumption
  <1>5. /\ disp' \in [Dispatchers -> Dispatcher]
        /\ \A c \in Dispatchers : /\ disp'[c].todo = disp[c].todo
                                  /\ disp'[c].sent = disp[c].sent
                                  /\ disp'[c].failed = disp[c].failed
    <2>1. PICK d \in Dispatchers : disp' = Started(d)
      BY DEF TestNotification
    <2>2. QED
      BY <2>1, StartType DEF NoticesInv
  <1>6. TypeOK'
    BY <1>2, <1>3, <1>5 DEF NoticesInv, TypeOK
  <1>7. ChosenHaveRows' /\ NobodyForgotten'
    BY <1>2, <1>4 DEF NoticesInv, TypeOK, ChosenHaveRows, NobodyForgotten, Of, Keys
  <1>8. DispatchersSound' /\ RowsSayWhatHappened'
    BY <1>2, <1>3, <1>5 DEF NoticesInv, DispatchersSound, RowsSayWhatHappened
  <1>9. RequestsSound'
    BY <1>2, <1>4 DEF NoticesInv, RequestsSound, Of
  <1>10. QED
    BY <1>6, <1>7, <1>8, <1>9 DEF NoticesInv

\* Who is an admin matters to the next selection only.
LEMMA SetAdminStep ==
  ASSUME NotificationsAssumption, NoticesInv, NEW a \in Accounts, SetAdmin(a)
  PROVE  NoticesInv'
  <1>1. /\ admins' \subseteq Accounts
        /\ UNCHANGED <<row, req, disp, transport, met, told, chosen>>
    BY DEF SetAdmin, NoticesInv, TypeOK
  <1>2. TypeOK'
    BY <1>1 DEF NoticesInv, TypeOK
  <1>3. QED
    BY <1>1, <1>2 DEF NoticesInv, ChosenHaveRows, RequestsSound, DispatchersSound,
       RowsSayWhatHappened, NobodyForgotten, Of

-----------------------------------------------------------------------------
(* Dispatchers. *)

LEMMA ReadPendingStep ==
  ASSUME NotificationsAssumption, NoticesInv, NEW d \in Dispatchers, ReadPending(d)
  PROVE  NoticesInv'
  <1> DEFINE pending == {k \in Keys : row[k] = "pending"}
  <1>1. /\ disp' = [disp EXCEPT ![d].pc = "sending", ![d].todo = pending]
        /\ UNCHANGED <<row, req, admins, transport, met, told, chosen>>
    BY DEF ReadPending
  <1>2. pending \in SUBSET Keys /\ \A k \in pending : row[k] # "none"
    OBVIOUS
  <1> HIDE DEF pending
  <1>3. /\ disp' \in [Dispatchers -> Dispatcher]
        /\ disp'[d].todo = pending /\ disp'[d].sent = disp[d].sent
        /\ disp'[d].failed = disp[d].failed
        /\ \A c \in Dispatchers \ {d} : disp'[c] = disp[c]
    BY <1>1, <1>2 DEF NoticesInv, TypeOK, Dispatcher
  <1>4. TypeOK'
    BY <1>1, <1>3 DEF NoticesInv, TypeOK
  <1>5. DispatchersSound'
    BY <1>1, <1>2, <1>3 DEF NoticesInv, DispatchersSound
  <1>6. QED
    BY <1>1, <1>4, <1>5 DEF NoticesInv, ChosenHaveRows, RequestsSound,
       RowsSayWhatHappened, NobodyForgotten, Of

\* One message goes out or is skipped, or its transport raises.
LEMMA SendStep ==
  ASSUME NotificationsAssumption, NoticesInv, NEW d \in Dispatchers, NEW k \in Keys,
         Send(d, k)
  PROVE  NoticesInv'
  <1>1. /\ k \in disp[d].todo
        /\ UNCHANGED <<row, req, admins, transport, told, chosen>>
    BY DEF Send
  <1>2. PICK o \in Outcomes :
          /\ met' = [met EXCEPT ![k] = @ \cup {o}]
          /\ disp' = IF o = "raised"
                       THEN [disp EXCEPT ![d].todo = @ \ {k},
                                         ![d].failed = @ \cup {k}]
                       ELSE [disp EXCEPT ![d].todo = @ \ {k},
                                         ![d].sent = @ \cup {k}]
    <2>1. Ends[transport] \subseteq Outcomes
      BY DEF NoticesInv, TypeOK, Transports, Ends, Outcomes
    <2>2. QED
      BY <2>1, Zenon DEF Send
  <1>3. /\ met' \in [Keys -> SUBSET Outcomes] /\ o \in met'[k]
        /\ \A l \in Keys : met[l] \subseteq met'[l]
    BY <1>2 DEF NoticesInv, TypeOK
  <1>4. /\ disp' \in [Dispatchers -> Dispatcher]
        /\ disp'[d].todo = disp[d].todo \ {k}
        /\ disp'[d].sent = IF o = "raised" THEN disp[d].sent
                           ELSE disp[d].sent \cup {k}
        /\ disp'[d].failed = IF o = "raised" THEN disp[d].failed \cup {k}
                             ELSE disp[d].failed
        /\ \A c \in Dispatchers \ {d} : disp'[c] = disp[c]
    <2>1. disp \in [Dispatchers -> Dispatcher]
      BY DEF NoticesInv, TypeOK
    <2>2. CASE o = "raised"
      BY <2>1, <2>2, <1>2 DEF Dispatcher
    <2>3. CASE o # "raised"
      BY <2>1, <2>3, <1>2 DEF Dispatcher
    <2>4. QED
      BY <2>2, <2>3
  <1>5. TypeOK'
    BY <1>1, <1>3, <1>4 DEF NoticesInv, TypeOK
  <1>6. DispatchersSound'
    <2>1. o # "raised" => met'[k] \cap Returned # {}
      BY <1>3 DEF Returned, Outcomes
    <2>2. \A c \in Dispatchers :
            \A l \in disp'[c].todo \cup disp'[c].sent \cup disp'[c].failed :
               l \in Keys /\ row[l] # "none"
      BY <1>1, <1>4 DEF NoticesInv, DispatchersSound
    <2>3. \A c \in Dispatchers : \A l \in disp'[c].sent : met'[l] \cap Returned # {}
      BY <2>1, <1>3, <1>4 DEF NoticesInv, DispatchersSound
    <2>4. \A c \in Dispatchers : \A l \in disp'[c].failed : "raised" \in met'[l]
      BY <1>3, <1>4 DEF NoticesInv, DispatchersSound
    <2>5. QED
      BY <2>2, <2>3, <2>4, <1>1 DEF DispatchersSound
  <1>7. RowsSayWhatHappened'
    BY <1>1, <1>3 DEF NoticesInv, RowsSayWhatHappened
  <1>8. QED
    BY <1>1, <1>5, <1>6, <1>7 DEF NoticesInv, ChosenHaveRows, RequestsSound,
        NobodyForgotten, Of

LEMMA HangStep ==
  ASSUME NotificationsAssumption, NoticesInv, NEW d \in Dispatchers, Hang(d)
  PROVE  NoticesInv'
  <1>1. /\ disp' = [disp EXCEPT ![d].pc = "hung"]
        /\ UNCHANGED <<row, req, admins, transport, met, told, chosen>>
    BY DEF Hang
  <1>2. /\ disp' \in [Dispatchers -> Dispatcher]
        /\ \A c \in Dispatchers : /\ disp'[c].todo = disp[c].todo
                                  /\ disp'[c].sent = disp[c].sent
                                  /\ disp'[c].failed = disp[c].failed
    BY <1>1 DEF NoticesInv, TypeOK, Dispatcher
  <1>3. TypeOK'
    BY <1>1, <1>2 DEF NoticesInv, TypeOK
  <1>4. DispatchersSound'
    BY <1>1, <1>2 DEF NoticesInv, DispatchersSound
  <1>5. QED
    BY <1>1, <1>3, <1>4 DEF NoticesInv, ChosenHaveRows, RequestsSound,
       RowsSayWhatHappened, NobodyForgotten, Of

LEMMA StoreOutcomesStep ==
  ASSUME NotificationsAssumption, NoticesInv, NEW d \in Dispatchers,
         StoreOutcomes(d)
  PROVE  NoticesInv'
  <1>1. /\ disp' = [disp EXCEPT ![d] = Off]
        /\ UNCHANGED <<req, admins, transport, met, told, chosen>>
    BY DEF StoreOutcomes
  <1>2. \A k \in disp[d].sent \cup disp[d].failed : k \in Keys /\ row[k] # "none"
    BY DEF NoticesInv, DispatchersSound
  <1>3. /\ row' \in [Keys -> Statuses]
        /\ \A k \in Keys : /\ row'[k] = "none" <=> row[k] = "none"
                           /\ row'[k] = "sent" =>
                                row[k] = "sent" \/ k \in disp[d].sent
                           /\ row'[k] = "failed" =>
                                row[k] = "failed" \/ k \in disp[d].failed
    BY <1>2 DEF StoreOutcomes, NoticesInv, TypeOK, Statuses
  <1>4. TypeOK'
    BY <1>1, <1>3, ShapesOfNothing DEF NoticesInv, TypeOK
  <1>5. ChosenHaveRows' /\ NobodyForgotten'
    BY <1>1, <1>3 DEF NoticesInv, ChosenHaveRows, NobodyForgotten, Of
  <1>6. DispatchersSound'
    BY <1>1, <1>3 DEF NoticesInv, TypeOK, DispatchersSound, Off
  <1>7. RowsSayWhatHappened'
    BY <1>1, <1>3 DEF NoticesInv, DispatchersSound, RowsSayWhatHappened, Returned
  <1>8. RequestsSound'
    BY <1>1, <1>3 DEF NoticesInv, RequestsSound, Of
  <1>9. QED
    BY <1>4, <1>5, <1>6, <1>7, <1>8 DEF NoticesInv

LEMMA DispatcherDiesStep ==
  ASSUME NotificationsAssumption, NoticesInv, NEW d \in Dispatchers,
         DispatcherDies(d)
  PROVE  NoticesInv'
  <1>1. /\ disp' = [disp EXCEPT ![d] = Off]
        /\ UNCHANGED <<row, req, admins, transport, met, told, chosen>>
    BY DEF DispatcherDies
  <1>2. TypeOK'
    BY <1>1, ShapesOfNothing DEF NoticesInv, TypeOK
  <1>3. DispatchersSound'
    BY <1>1 DEF NoticesInv, TypeOK, DispatchersSound, Off
  <1>4. QED
    BY <1>1, <1>2, <1>3 DEF NoticesInv, ChosenHaveRows, RequestsSound,
       RowsSayWhatHappened, NobodyForgotten, Of

LEMMA RestartStep ==
  ASSUME NotificationsAssumption, NoticesInv, NEW new \in Transports, Restart(new)
  PROVE  NoticesInv'
  <1>1. /\ transport' = new
        /\ req' = [q \in Requests |-> Idle] /\ disp' = [d \in Dispatchers |-> Off]
        /\ UNCHANGED <<row, admins, met, told, chosen>>
    BY DEF Restart
  <1>2. TypeOK'
    BY <1>1, ShapesOfNothing DEF NoticesInv, TypeOK
  <1>3. RequestsSound' /\ DispatchersSound'
    BY <1>1 DEF RequestsSound, DispatchersSound, Idle, Off
  <1>4. QED
    BY <1>1, <1>2, <1>3 DEF NoticesInv, ChosenHaveRows, RowsSayWhatHappened,
       NobodyForgotten, Of

LEMMA NoticesNext == ASSUME NotificationsAssumption, NoticesInv, [Next]_vars
PROVE NoticesInv'
  <1>1. CASE UNCHANGED vars
    BY <1>1 DEF vars, NoticesInv, TypeOK, ChosenHaveRows, RequestsSound,
       DispatchersSound, RowsSayWhatHappened, NobodyForgotten, Of
  <1>2. ASSUME NEW q \in Requests, NEW c \in Claims,
               Evaluate(q, c) \/ Propose(q, c)
        PROVE  NoticesInv'
    BY <1>2, NotifyStep
  <1>3. ASSUME NEW q \in Requests, Select(q) PROVE NoticesInv'
    BY <1>3, SelectStep
  <1>4. ASSUME NEW q \in Requests, Insert(q) PROVE NoticesInv'
    BY <1>4, InsertStep
  <1>5. ASSUME NEW q \in Requests,
               InsertRefused(q) \/ RequestDies(q) PROVE NoticesInv'
    BY <1>5, EndOfRequestStep
  <1>6. ASSUME NEW t \in Types, NEW a \in Tested,
               TestNotification(t, a) PROVE NoticesInv'
    BY <1>6, TestStep
  <1>7. ASSUME NEW d \in Dispatchers,
               Dispatch(d) \/ Hang(d) \/ DispatcherDies(d) PROVE NoticesInv'
    <2>1. CASE ReadPending(d)
      BY <2>1, ReadPendingStep
    <2>2. ASSUME NEW k \in Keys, Send(d, k) PROVE NoticesInv'
      BY <2>2, SendStep
    <2>3. CASE StoreOutcomes(d)
      BY <2>3, StoreOutcomesStep
    <2>4. CASE DispatcherDies(d)
      BY <2>4, DispatcherDiesStep
    <2>5. CASE Hang(d)
      BY <2>5, HangStep
    <2>6. QED
      BY <1>7, <2>1, <2>2, <2>3, <2>4, <2>5, Zenon DEF Dispatch
  <1>8. ASSUME NEW a \in Accounts, SetAdmin(a) PROVE NoticesInv'
    BY <1>8, SetAdminStep
  <1>9. ASSUME NEW new \in Transports, Restart(new) PROVE NoticesInv'
    BY <1>9, RestartStep
  <1>10. QED
    BY <1>1, <1>2, <1>3, <1>4, <1>5, <1>6, <1>7, <1>8, <1>9, Zenon DEF Next

-----------------------------------------------------------------------------
(* The jobs of intake profiles. *)

JobRow == [status : {"none", "queued", "succeeded", "failed"},
           request : Resolution!Request \cup {None},
           module : Modules \cup {PlainModule, None},
           attempts : 0 .. MaxAttempts, edited : BOOLEAN,
           error : {None, "script", "resolution"}]

JobTypes ==
  /\ profiles \in [Profiles -> Resolution!Profile \cup {None}]
  /\ jobs \in [Jobs -> JobRow]
  /\ \A l \in launched : l.job \in Jobs /\ l.module \in Modules \cup {PlainModule}
  /\ answer.status \in {"none", "invalid", "refused", "queued"}

\* The row of a request that was queued: until somebody edits its profile, the
\* profile names the script that was checked.
Queued(j) ==
  LET r == jobs[j].request IN
  jobs[j].status # "none" =>
    /\ r \in Resolution!Request
    /\ r.type # "map" => r.profile \in Profiles
    /\ jobs[j].status = "queued" => jobs[j].attempts < MaxAttempts
    /\ ~jobs[j].edited =>
         /\ jobs[j].module = Resolution!Resolve(profiles, r)
         /\ jobs[j].module # None /\ jobs[j].module \in Allowlisted[r.type]

Unqueued(j) == jobs[j].status = "none" => jobs[j].error = None

JobsSound == \A j \in Jobs : Queued(j) /\ Unqueued(j)

JobsInv == JobTypes /\ JobsSound /\ Resolution!RunsWhatWasQueued

-----------------------------------------------------------------------------
LEMMA JobsInit == ASSUME Resolution!ResolutionAssumption, Resolution!Init
PROVE JobsInv
  <1>1. Resolution!NoJob \in JobRow
    BY DEF Resolution!NoJob, JobRow, Resolution!ResolutionAssumption
  <1>2. JobTypes
    BY <1>1 DEF Resolution!Init, JobTypes, Resolution!NoAnswer,
        Resolution!ResolutionAssumption
  <1>3. JobsSound
    BY DEF Resolution!Init, JobsSound, Queued, Unqueued, Resolution!NoJob
  <1>4. Resolution!RunsWhatWasQueued
    BY DEF Resolution!Init, Resolution!RunsWhatWasQueued, Resolution!NoJob,
        Resolution!ResolutionAssumption
  <1>5. QED
    BY <1>2, <1>3, <1>4 DEF JobsInv

\* What a request resolves to depends on its own profile alone.
LEMMA OtherProfiles ==
  ASSUME NEW ps, NEW qs, NEW r,
         r.type # "map" => r.profile \in Profiles /\ ps[r.profile] = qs[r.profile]
  PROVE  Resolution!Resolve(ps, r) = Resolution!Resolve(qs, r)
  <1>1. CASE r.type = "map"
    BY <1>1 DEF Resolution!Resolve
  <1>2. CASE r.type # "map"
    <2>1. r.profile \in Resolution!Exists(ps) <=> r.profile
             \in Resolution!Exists(qs)
      BY <1>2 DEF Resolution!Exists
    <2>2. QED
      BY <1>2, <2>1 DEF Resolution!Resolve
  <1>3. QED
    BY <1>1, <1>2

LEMMA EditStep ==
  ASSUME Resolution!ResolutionAssumption, JobsInv, NEW p \in Profiles,
         NEW c \in Resolution!Profile,
         Resolution!EditProfile(p, c)
  PROVE  JobsInv'
  <1>1. /\ profiles' \in [Profiles -> Resolution!Profile \cup {None}]
        /\ \A q \in Profiles \ {p} : profiles'[q] = profiles[q]
        /\ UNCHANGED <<launched, answer>>
    BY DEF Resolution!EditProfile, JobsInv, JobTypes
  <1>2. ASSUME NEW j \in Jobs
        PROVE  /\ jobs'[j] \in JobRow
               /\ jobs'[j].status = jobs[j].status
               /\ jobs'[j].request = jobs[j].request
               /\ jobs'[j].module = jobs[j].module
               /\ jobs'[j].attempts = jobs[j].attempts
               /\ jobs'[j].error = jobs[j].error
               /\ jobs[j].edited => jobs'[j].edited
               /\ ~jobs'[j].edited /\ jobs[j].status # "none" =>
                    jobs[j].request.profile # p
    <2>1. /\ jobs[j] \in JobRow
          /\ jobs'[j] = IF jobs[j].status # "none" /\ jobs[j].request.profile = p
                        THEN [jobs[j] EXCEPT !.edited = TRUE] ELSE jobs[j]
      BY DEF Resolution!EditProfile, JobsInv, JobTypes
    <2>2. CASE jobs[j].status # "none" /\ jobs[j].request.profile = p
      <3>1. jobs'[j] = [jobs[j] EXCEPT !.edited = TRUE]
        BY <2>1, <2>2
      <3>2. QED
        BY <2>1, <3>1 DEF JobRow
    <2>3. CASE ~(jobs[j].status # "none" /\ jobs[j].request.profile = p)
      BY <2>1, <2>3
    <2>4. QED
      BY <2>2, <2>3
  <1>3. JobTypes'
    <2>1. jobs' \in [Jobs -> JobRow]
      BY <1>2 DEF Resolution!EditProfile
    <2>2. QED
      BY <1>1, <2>1 DEF JobsInv, JobTypes
  <1>4. JobsSound'
    <2> SUFFICES ASSUME NEW j \in Jobs PROVE Queued(j)' /\ Unqueued(j)'
      BY DEF JobsSound
    <2>1. Queued(j) /\ Unqueued(j)
      BY DEF JobsInv, JobsSound
    <2>2. ASSUME jobs[j].status # "none", ~jobs'[j].edited
          PROVE  Resolution!Resolve(profiles', jobs[j].request)
                   = Resolution!Resolve(profiles, jobs[j].request)
      <3>1. jobs[j].request.type # "map" =>
              /\ jobs[j].request.profile \in Profiles
              /\ profiles'[jobs[j].request.profile]
                   = profiles[jobs[j].request.profile]
        BY <2>1, <2>2, <1>1, <1>2 DEF Queued
      <3>2. QED
        BY <3>1, OtherProfiles
    <2>3. QED
      BY <2>1, <2>2, <1>2 DEF Queued, Unqueued
  <1>5. Resolution!RunsWhatWasQueued'
    BY <1>1, <1>2 DEF JobsInv, JobTypes, Resolution!RunsWhatWasQueued
  <1>6. QED
    BY <1>3, <1>4, <1>5 DEF JobsInv

LEMMA RefusedJob ==
  ASSUME Resolution!ResolutionAssumption, JobsInv, NEW r \in Resolution!Request,
         Resolution!EnqueueInvalid(r) \/ Resolution!EnqueueNotAllowlisted(r)
  PROVE  JobsInv'
  <1>1. /\ UNCHANGED <<profiles, jobs, launched>>
        /\ answer'.status \in {"invalid", "refused"}
    BY DEF Resolution!EnqueueInvalid, Resolution!EnqueueNotAllowlisted
  <1>2. QED
    BY <1>1 DEF JobsInv, JobTypes, JobsSound, Queued, Unqueued,
        Resolution!RunsWhatWasQueued

LEMMA EnqueueStep ==
  ASSUME Resolution!ResolutionAssumption, JobsInv, NEW j \in Jobs,
         NEW r \in Resolution!Request,
         Resolution!Enqueue(j, r)
  PROVE  JobsInv'
  <1> DEFINE m == Resolution!Resolve(profiles, r)
             new == [status |-> "queued", request |-> r, module |-> m,
                     attempts |-> 0, edited |-> FALSE, error |-> None]
  <1>1. /\ m # None /\ m \in Allowlisted[r.type] /\ Resolution!WellFormed(r)
        /\ jobs[j].status = "none"
        /\ jobs' = [jobs EXCEPT ![j] = new]
        /\ answer'.status = "queued" /\ UNCHANGED <<profiles, launched>>
    BY DEF Resolution!Enqueue
  <1>2. m \in Modules \cup {PlainModule}
    BY <1>1 DEF Resolution!ResolutionAssumption, Resolution!Request
  <1> HIDE DEF m
  <1>3. new \in JobRow
    BY <1>2 DEF JobRow, Resolution!ResolutionAssumption
  <1>4. /\ jobs' \in [Jobs -> JobRow] /\ jobs'[j] = new
        /\ \A i \in Jobs \ {j} : jobs'[i] = jobs[i]
    BY <1>1, <1>3 DEF JobsInv, JobTypes
  <1>5. JobTypes'
    BY <1>1, <1>4 DEF JobsInv, JobTypes
  <1>6. JobsSound'
    <2>1. r.type # "map" => r.profile \in Profiles
      BY <1>1 DEF Resolution!WellFormed, Resolution!Request
    <2>2. Queued(j)' /\ Unqueued(j)'
      BY <1>1, <1>4, <2>1 DEF Queued, Unqueued, Resolution!ResolutionAssumption, m
    <2>3. \A i \in Jobs \ {j} : Queued(i)' /\ Unqueued(i)'
      BY <1>1, <1>4 DEF JobsInv, JobsSound, Queued, Unqueued
    <2>4. QED
      BY <2>2, <2>3 DEF JobsSound
  <1>7. Resolution!RunsWhatWasQueued'
    <2>1. \A l \in launched : l.job \in Jobs \ {j}
      BY <1>1 DEF JobsInv, JobTypes, Resolution!RunsWhatWasQueued
    <2>2. \A i \in Jobs : jobs'[i].error = "resolution" => jobs'[i].edited
      BY <1>4 DEF JobsInv, Resolution!RunsWhatWasQueued,
          Resolution!ResolutionAssumption
    <2>3. QED
      BY <1>1, <1>4, <2>1, <2>2 DEF JobsInv, Resolution!RunsWhatWasQueued
  <1>8. QED
    BY <1>5, <1>6, <1>7 DEF JobsInv

\* What every attempt does to its row.
Attempted(j) ==
  /\ jobs[j].status = "queued"
  /\ jobs' \in [Jobs -> JobRow]
  /\ \A i \in Jobs \ {j} : jobs'[i] = jobs[i]
  /\ jobs'[j].request = jobs[j].request /\ jobs'[j].module = jobs[j].module
  /\ jobs'[j].edited = jobs[j].edited
  /\ jobs'[j].status # "none"
  /\ jobs'[j].status = "queued" => jobs'[j].attempts < MaxAttempts
  /\ UNCHANGED <<profiles, answer>>

LEMMA LaunchEffect ==
  ASSUME Resolution!ResolutionAssumption, JobsInv, NEW j \in Jobs,
         NEW ok \in BOOLEAN,
         Resolution!Launch(j, ok)
  PROVE  Attempted(j) /\ jobs'[j].error # "resolution"
  <1> DEFINE n == jobs[j].attempts + 1
  <1>1. /\ jobs[j].status = "queued" /\ jobs[j] \in JobRow
        /\ jobs[j].attempts < MaxAttempts
        /\ UNCHANGED <<profiles, answer>>
    BY DEF Resolution!Launch, JobsInv, JobTypes, JobsSound, Queued
  <1>2. n \in 0 .. MaxAttempts /\ MaxAttempts \in Nat
    BY <1>1 DEF JobRow, Resolution!ResolutionAssumption
  <1>3. jobs' = [jobs EXCEPT ![j].attempts = n,
                   ![j].status
                       = IF ok THEN "succeeded" ELSE Resolution!AfterFailure(n),
                   ![j].error = IF ok THEN None ELSE "script"]
    BY DEF Resolution!Launch
  <1> HIDE DEF n
  <1>4. QED
    BY ZenonT(60), <1>1, <1>2, <1>3 DEF Attempted, Resolution!AfterFailure, JobRow, JobsInv,
        JobTypes,
       Resolution!ResolutionAssumption

LEMMA RefusalEffect ==
  ASSUME Resolution!ResolutionAssumption, JobsInv, NEW j \in Jobs,
         Resolution!LaunchRefused(j)
  PROVE  Attempted(j) /\ launched' = launched
  <1> DEFINE n == jobs[j].attempts + 1
  <1>1. /\ jobs[j].status = "queued" /\ jobs[j] \in JobRow
        /\ jobs[j].attempts < MaxAttempts
        /\ UNCHANGED <<profiles, launched, answer>>
    BY DEF Resolution!LaunchRefused, JobsInv, JobTypes, JobsSound, Queued
  <1>2. n \in 0 .. MaxAttempts /\ MaxAttempts \in Nat
    BY <1>1 DEF JobRow, Resolution!ResolutionAssumption
  <1>3. jobs'
           = [jobs EXCEPT ![j].attempts = n,
               ![j].status = Resolution!AfterFailure(n),
                             ![j].error = "resolution"]
    BY DEF Resolution!LaunchRefused
  <1> HIDE DEF n
  <1>4. QED
    BY <1>1, <1>2, <1>3 DEF Attempted, Resolution!AfterFailure, JobRow, JobsInv,
        JobTypes

LEMMA AttemptedSound ==
  ASSUME Resolution!ResolutionAssumption, JobsInv, NEW j \in Jobs, Attempted(j)
  PROVE  JobsSound'
  <1>1. Queued(j)' /\ Unqueued(j)'
    BY DEF Attempted, JobsInv, JobsSound, Queued, Unqueued
  <1>2. \A i \in Jobs \ {j} : Queued(i)' /\ Unqueued(i)'
    BY DEF Attempted, JobsInv, JobsSound, Queued, Unqueued
  <1>3. QED
    BY <1>1, <1>2 DEF JobsSound

LEMMA LaunchStep ==
  ASSUME Resolution!ResolutionAssumption, JobsInv, NEW j \in Jobs,
         NEW ok \in BOOLEAN,
         Resolution!Launch(j, ok)
  PROVE  JobsInv'
  <1> DEFINE r == jobs[j].request
             new == [job |-> j, module |-> Resolution!Resolve(profiles, r),
                 dry |-> Resolution!Dry(r)]
  <1>1. Attempted(j) /\ jobs'[j].error # "resolution"
    BY LaunchEffect
  <1>2. /\ launched' = launched \cup {new}
        /\ Resolution!Resolve(profiles, r) \in Allowlisted[r.type]
    BY DEF Resolution!Launch
  <1>3. Queued(j) /\ r \in Resolution!Request /\ jobs[j].status # "none"
    BY <1>1 DEF JobsInv, JobsSound, Queued, Attempted
  <1>4. Resolution!Resolve(profiles, r) \in Modules \cup {PlainModule}
    BY <1>2, <1>3 DEF Resolution!ResolutionAssumption, Resolution!Request
  <1>5. ~jobs[j].edited => Resolution!Resolve(profiles, r) = jobs[j].module
    BY <1>3 DEF Queued
  <1>6. /\ new.job = j /\ new.module = Resolution!Resolve(profiles, r)
        /\ new.dry = Resolution!Dry(r)
    OBVIOUS
  <1>7. /\ jobs'[j].request = r /\ jobs'[j].module = jobs[j].module
        /\ jobs'[j].edited = jobs[j].edited /\ jobs'[j].status # "none"
        /\ \A i \in Jobs \ {j} : jobs'[i] = jobs[i]
    BY <1>1 DEF Attempted
  <1> HIDE DEF new
  <1>8. JobTypes'
    BY <1>1, <1>2, <1>4, <1>6 DEF JobsInv, JobTypes, Attempted
  <1>9. Resolution!RunsWhatWasQueued'
    <2>1. \A l \in launched' :
            /\ l.job \in Jobs /\ jobs'[l.job].status # "none"
            /\ l.module \in Allowlisted[jobs'[l.job].request.type]
            /\ l.dry = Resolution!Dry(jobs'[l.job].request)
            /\ ~jobs'[l.job].edited => l.module = jobs'[l.job].module
      <3>1. ASSUME NEW l \in launched
            PROVE  /\ l.job \in Jobs /\ jobs'[l.job].status # "none"
                   /\ l.module \in Allowlisted[jobs'[l.job].request.type]
                   /\ l.dry = Resolution!Dry(jobs'[l.job].request)
                   /\ ~jobs'[l.job].edited => l.module = jobs'[l.job].module
        BY <1>7 DEF JobsInv, JobTypes, Resolution!RunsWhatWasQueued
      <3>2. /\ new.job \in Jobs /\ jobs'[new.job].status # "none"
            /\ new.module \in Allowlisted[jobs'[new.job].request.type]
            /\ new.dry = Resolution!Dry(jobs'[new.job].request)
            /\ ~jobs'[new.job].edited => new.module = jobs'[new.job].module
        BY <1>2, <1>5, <1>6, <1>7
      <3>3. QED
        BY <1>2, <3>1, <3>2
    <2>2. \A i \in Jobs : jobs'[i].error = "resolution" => jobs'[i].edited
      BY <1>1, <1>7 DEF JobsInv, Resolution!RunsWhatWasQueued
    <2>3. QED
      BY <2>1, <2>2 DEF Resolution!RunsWhatWasQueued
  <1>10. QED
    BY <1>1, <1>8, <1>9, AttemptedSound DEF JobsInv

LEMMA LaunchRefusedStep ==
  ASSUME Resolution!ResolutionAssumption, JobsInv, NEW j \in Jobs,
         Resolution!LaunchRefused(j)
  PROVE  JobsInv'
  <1>1. Attempted(j) /\ launched' = launched
    BY RefusalEffect
  <1>2. jobs[j].edited
    BY <1>1 DEF Resolution!LaunchRefused, Attempted, JobsInv, JobsSound, Queued
  <1>3. JobTypes'
    BY <1>1 DEF JobsInv, JobTypes, Attempted
  <1>4. Resolution!RunsWhatWasQueued'
    <2>1. /\ jobs'[j].request = jobs[j].request
          /\ jobs'[j].module = jobs[j].module
          /\ jobs'[j].edited = jobs[j].edited /\ jobs'[j].status # "none"
          /\ \A i \in Jobs \ {j} : jobs'[i] = jobs[i]
      BY <1>1 DEF Attempted
    <2>2. \A l \in launched :
            /\ l.job \in Jobs /\ jobs'[l.job].status # "none"
            /\ l.module \in Allowlisted[jobs'[l.job].request.type]
            /\ l.dry = Resolution!Dry(jobs'[l.job].request)
            /\ ~jobs'[l.job].edited => l.module = jobs'[l.job].module
      BY <2>1 DEF JobsInv, JobTypes, Resolution!RunsWhatWasQueued
    <2>3. \A i \in Jobs : jobs'[i].error = "resolution" => jobs'[i].edited
      BY <1>2, <2>1 DEF JobsInv, Resolution!RunsWhatWasQueued
    <2>4. QED
      BY <1>1, <2>2, <2>3 DEF Resolution!RunsWhatWasQueued
  <1>5. QED
    BY <1>1, <1>3, <1>4, AttemptedSound DEF JobsInv

LEMMA JobsNext ==
    ASSUME Resolution!ResolutionAssumption, JobsInv,
           [Resolution!Next]_(Resolution!vars) PROVE JobsInv'
  <1>1. CASE UNCHANGED Resolution!vars
    BY <1>1 DEF Resolution!vars, JobsInv, JobTypes, JobsSound, Queued, Unqueued,
        Resolution!RunsWhatWasQueued
  <1>2. ASSUME NEW p \in Profiles, NEW c \in Resolution!Profile,
               Resolution!EditProfile(p, c) PROVE JobsInv'
    BY <1>2, EditStep
  <1>3. ASSUME NEW r \in Resolution!Request,
               Resolution!EnqueueInvalid(r) \/ Resolution!EnqueueNotAllowlisted(r)
        PROVE  JobsInv'
    BY <1>3, RefusedJob
  <1>4. ASSUME NEW j \in Jobs, NEW r \in Resolution!Request,
               Resolution!Enqueue(j, r) PROVE JobsInv'
    BY <1>4, EnqueueStep
  <1>5. ASSUME NEW j \in Jobs, NEW ok \in BOOLEAN,
               Resolution!Launch(j, ok) PROVE JobsInv'
    BY <1>5, LaunchStep
  <1>6. ASSUME NEW j \in Jobs, Resolution!LaunchRefused(j) PROVE JobsInv'
    BY <1>6, LaunchRefusedStep
  <1>7. QED
    BY <1>1, <1>2, <1>3, <1>4, <1>5, <1>6, Zenon DEF Resolution!Next

\* A request that the metadata endpoint offers resolves to a script.
LEMMA OfferedHaveScripts ==
  ASSUME Resolution!ResolutionAssumption, JobTypes,
         NEW r \in Resolution!Offered(profiles)
  PROVE  Resolution!WellFormed(r) /\ Resolution!Resolve(profiles, r) # None
  <1>1. /\ Resolution!WellFormed(r) /\ r \in Resolution!Request
        /\ r.profile # None
                 => r.profile \in Profiles /\ profiles[r.profile]
                     \in Resolution!Profile
        /\ r.profile # None => r.profile \in Resolution!Exists(profiles)
    BY DEF Resolution!Offered, Resolution!Exists, JobTypes
  <1>2. CASE r.type = "map"
    BY <1>1, <1>2 DEF Resolution!Resolve, Resolution!ResolutionAssumption
  <1>3. CASE r.type = "roster"
    BY <1>1, <1>3 DEF Resolution!Resolve, Resolution!WellFormed,
        Resolution!Profile, Resolution!ResolutionAssumption
  <1>4. CASE r.type = "batch"
    BY <1>1, <1>4 DEF Resolution!Resolve, Resolution!WellFormed, Resolution!Offered
  <1>5. CASE r.type = "extract"
    BY <1>1, <1>5 DEF Resolution!Resolve, Resolution!WellFormed, Resolution!Offered
  <1>6. QED
    BY <1>1, <1>2, <1>3, <1>4, <1>5 DEF Resolution!Request,
        Resolution!ResolutionAssumption

LEMMA OfferedInit == ASSUME Resolution!Init PROVE Resolution!OfferedResolves
  BY DEF Resolution!Init, Resolution!NoAnswer, Resolution!OfferedResolves

LEMMA OfferedNext ==
  ASSUME Resolution!ResolutionAssumption, JobTypes, Resolution!OfferedResolves,
         [Resolution!Next]_(Resolution!vars)
  PROVE  Resolution!OfferedResolves'
  <1>1. CASE UNCHANGED Resolution!vars
    BY <1>1 DEF Resolution!vars, Resolution!OfferedResolves
  <1>2. ASSUME NEW p \in Profiles, NEW c \in Resolution!Profile,
               Resolution!EditProfile(p, c)
        PROVE  Resolution!OfferedResolves'
    BY <1>2 DEF Resolution!EditProfile, Resolution!OfferedResolves
  <1>3. ASSUME NEW r \in Resolution!Request,
               Resolution!EnqueueInvalid(r) PROVE Resolution!OfferedResolves'
    BY <1>3, OfferedHaveScripts DEF Resolution!EnqueueInvalid,
        Resolution!OfferedResolves
  <1>4. ASSUME NEW r \in Resolution!Request,
               Resolution!EnqueueNotAllowlisted(r) PROVE Resolution!OfferedResolves'
    BY <1>4 DEF Resolution!EnqueueNotAllowlisted, Resolution!OfferedResolves
  <1>5. ASSUME NEW j \in Jobs, NEW r \in Resolution!Request,
               Resolution!Enqueue(j, r)
        PROVE  Resolution!OfferedResolves'
    BY <1>5 DEF Resolution!Enqueue, Resolution!OfferedResolves
  <1>6. ASSUME NEW j \in Jobs, NEW ok \in BOOLEAN,
               Resolution!Launch(j, ok) \/ Resolution!LaunchRefused(j)
        PROVE  Resolution!OfferedResolves'
    BY <1>6 DEF Resolution!Launch, Resolution!LaunchRefused,
        Resolution!OfferedResolves
  <1>7. QED
    BY <1>1, <1>2, <1>3, <1>4, <1>5, <1>6, Zenon DEF Resolution!Next

-----------------------------------------------------------------------------
(* Dual control. *)

Operations ==
  [pc : {"idle", "approval", "service", "done"},
   sender : People \cup {Control!Nobody},
   action : Actions \cup {Control!Nobody},
   applier : People \cup {Control!Nobody},
   role : Control!Roles \cup {Control!Nobody},
   truly : Control!Roles \cup {Control!Nobody},
   approver : People \cup {Control!Nobody},
   age : 0 .. Control!ApprovalGone]

\* What the checks of a request leave behind, from the first to the last: who
\* sent it is who it is done as, who approves it did so in time, and they differ.
Checked ==
  /\ operation.pc \in {"approval", "service", "done"} =>
       /\ operation.applier \in People /\ operation.action \in Actions
       /\ operation.sender = operation.applier
       /\ Control!May(operation.truly, operation.action)
  /\ operation.pc \in {"service", "done"} =>
       operation.approver \in People /\ operation.age <= ApprovalTTL
  /\ operation.pc = "done" => operation.approver # operation.applier

ControlInv == Control!TypeOK /\ operation \in Operations /\ Checked

-----------------------------------------------------------------------------
LEMMA ControlInit ==
  ASSUME Control!AccessAssumption, Control!Init
  PROVE ControlInv
  <1>1. Control!NoRequest \in Operations
    BY DEF Control!NoRequest, Operations, Control!ApprovalGone,
       Control!AccessAssumption
  <1>2. Control!TypeOK
    <2>1. people \in [People -> [active : BOOLEAN, role : Control!Roles]]
      BY DEF Control!Init
    <2>2. /\ access \in [People -> 0 .. Control!AccessGone]
          /\ approval \in [People -> [Actions -> 0 .. Control!ApprovalGone]]
      BY DEF Control!Init, Control!AccessGone, Control!ApprovalGone,
         Control!AccessAssumption
    <2>3. operation.pc = "idle" /\ operation.age \in 0 .. Control!ApprovalGone
      BY DEF Control!Init, Control!NoRequest, Control!ApprovalGone,
         Control!AccessAssumption
    <2>4. QED
      BY <2>1, <2>2, <2>3 DEF Control!TypeOK
  <1>3. Checked
    BY DEF Control!Init, Checked, Control!NoRequest
  <1>4. QED
    BY <1>1, <1>2, <1>3 DEF Control!Init, ControlInv

\* A token's age stays within its lifetime and one past it.
LEMMA OlderType ==
  ASSUME NEW ttl \in Nat, NEW age \in 0 .. (ttl + 1)
  PROVE  Control!Older(age, ttl + 1) \in 0 .. (ttl + 1)
  BY DEF Control!Older

\* Time passes and accounts change while a request waits: what it checked is in
\* its own record.
LEMMA OthersStep ==
  ASSUME Control!AccessAssumption, ControlInv,
         \/ Control!Tick
         \/ \E p \in People, role \in Control!Roles : Control!SetRole(p, role)
         \/ \E p \in People : Control!Deactivate(p) \/ Control!Login(p)
         \/ \E p \in People, a \in Actions : Control!IssueApproval(p, a)
  PROVE  ControlInv'
  <1>1. operation' = operation
    BY DEF Control!Tick, Control!SetRole, Control!Deactivate, Control!Login,
       Control!IssueApproval
  <1>2. people' \in [People -> [active : BOOLEAN, role : Control!Roles]]
    <2>1. CASE Control!Tick \/ (\E p \in People : Control!Login(p))
               \/ (\E p \in People, a \in Actions : Control!IssueApproval(p, a))
      BY <2>1 DEF Control!Tick, Control!Login, Control!IssueApproval,
         ControlInv, Control!TypeOK
    <2>2. ASSUME NEW p \in People, NEW role \in Control!Roles,
                 Control!SetRole(p, role)
          PROVE  people' \in [People -> [active : BOOLEAN, role : Control!Roles]]
      BY <2>2 DEF Control!SetRole, ControlInv, Control!TypeOK
    <2>3. ASSUME NEW p \in People, Control!Deactivate(p)
          PROVE  people' \in [People -> [active : BOOLEAN, role : Control!Roles]]
      BY <2>3 DEF Control!Deactivate, ControlInv, Control!TypeOK
    <2>4. QED
      BY <2>1, <2>2, <2>3, Zenon
  <1>3. /\ access' \in [People -> 0 .. Control!AccessGone]
        /\ approval' \in [People -> [Actions -> 0 .. Control!ApprovalGone]]
    <2>1. CASE Control!Tick
      BY <2>1, OlderType DEF Control!Tick, ControlInv, Control!TypeOK,
         Control!AccessGone, Control!ApprovalGone, Control!AccessAssumption
    <2>2. CASE (\E p \in People, role \in Control!Roles :
                   Control!SetRole(p, role))
               \/ (\E p \in People : Control!Deactivate(p))
      BY <2>2 DEF Control!SetRole, Control!Deactivate, ControlInv,
         Control!TypeOK
    <2>3. CASE \E p \in People : Control!Login(p)
      BY <2>3 DEF Control!Login, ControlInv, Control!TypeOK, Control!AccessGone,
         Control!AccessAssumption
    <2>4. CASE \E p \in People, a \in Actions : Control!IssueApproval(p, a)
      BY <2>4 DEF Control!IssueApproval, ControlInv, Control!TypeOK,
         Control!ApprovalGone, Control!AccessAssumption
    <2>5. QED
      BY <2>1, <2>2, <2>3, <2>4, Zenon
  <1>4. QED
    BY <1>1, <1>2, <1>3 DEF ControlInv, Control!TypeOK, Checked

\* A bearer token in the sender's hands is the sender's.
LEMMA AuthenticateStep ==
  ASSUME Control!AccessAssumption, ControlInv, NEW s \in People,
         NEW p \in People, NEW a \in Actions, Control!Authenticate(s, p, a)
  PROVE  ControlInv'
  <1>1. p = s /\ Control!May(people[p].role, a)
    BY DEF Control!Authenticate, Control!Bearers, Control!RoleOf
  <1>2. /\ operation'.pc = "approval" /\ operation'.sender = s
        /\ operation'.applier = p
        /\ operation'.action = a /\ operation'.truly = people[p].role
        /\ operation' \in Operations
    <2>1. operation' =
            [pc |-> "approval", sender |-> s, action |-> a, applier |-> p,
             role |-> people[p].role, truly |-> people[p].role,
             approver |-> Control!Nobody, age |-> Control!ApprovalGone]
      BY DEF Control!Authenticate, Control!NoRequest, Control!RoleOf
    <2>2. /\ people[p].role \in Control!Roles
          /\ Control!ApprovalGone \in 0 .. Control!ApprovalGone
      BY DEF ControlInv, Control!TypeOK, Control!ApprovalGone,
         Control!AccessAssumption
    <2>3. QED
      BY <2>1, <2>2 DEF Operations
  <1>3. UNCHANGED <<people, access, approval>>
    BY DEF Control!Authenticate
  <1>4. Control!TypeOK'
    BY <1>2, <1>3 DEF ControlInv, Control!TypeOK, Operations
  <1>5. Checked'
    BY <1>1, <1>2 DEF Checked
  <1>6. QED
    BY <1>2, <1>4, <1>5 DEF ControlInv

LEMMA CheckApprovalStep ==
  ASSUME Control!AccessAssumption, ControlInv, NEW p \in People,
         Control!CheckApproval(p)
  PROVE  ControlInv'
  <1>1. /\ operation.action \in Actions
        /\ approval[p][operation.action] \in 0 .. Control!ApprovalGone
        /\ approval[p][operation.action] <= ApprovalTTL
    BY DEF Control!CheckApproval, Control!Approves, Control!Valid, ControlInv,
       Checked, Control!TypeOK
  <1>2. /\ operation' \in Operations /\ operation'.pc = "service"
        /\ operation'.approver = p
        /\ operation'.age <= ApprovalTTL
        /\ operation'.applier = operation.applier
        /\ operation'.action = operation.action
        /\ operation'.sender = operation.sender
        /\ operation'.truly = operation.truly
    BY <1>1 DEF Control!CheckApproval, ControlInv, Operations
  <1>3. UNCHANGED <<people, access, approval>> /\ operation.pc = "approval"
    BY DEF Control!CheckApproval
  <1>4. Control!TypeOK'
    BY <1>2, <1>3 DEF ControlInv, Control!TypeOK, Operations
  <1>5. Checked'
    BY <1>2, <1>3 DEF ControlInv, Checked
  <1>6. QED
    BY <1>2, <1>4, <1>5 DEF ControlInv

LEMMA RefuseStep ==
  ASSUME Control!AccessAssumption, ControlInv, Control!Refuse
  PROVE ControlInv'
  <1>1. operation' \in Operations /\ operation'.pc = "idle"
    BY DEF Control!Refuse, Control!NoRequest, Operations, Control!ApprovalGone,
       Control!AccessAssumption
  <1>2. UNCHANGED <<people, access, approval>>
    BY DEF Control!Refuse
  <1>3. QED
    BY <1>1, <1>2 DEF ControlInv, Control!TypeOK, Operations, Checked

\* The services compare the two accounts.
LEMMA PerformStep ==
  ASSUME Control!AccessAssumption, ControlInv, Control!Perform
  PROVE ControlInv'
  <1>1. /\ operation' \in Operations
        /\ operation'.pc = "done" /\ operation.pc = "service"
        /\ operation'.approver = operation.approver
        /\ operation'.age = operation.age
        /\ operation'.applier = operation.applier
        /\ operation'.action = operation.action
        /\ operation'.sender = operation.sender
        /\ operation'.truly = operation.truly
        /\ operation.applier # operation.approver
    BY DEF Control!Perform, ControlInv, Operations
  <1>2. UNCHANGED <<people, access, approval>>
    BY DEF Control!Perform
  <1>3. QED
    BY <1>1, <1>2 DEF ControlInv, Control!TypeOK, Operations, Checked

LEMMA ControlNext ==
  ASSUME Control!AccessAssumption, ControlInv, [Control!Next]_(Control!vars)
  PROVE ControlInv'
  <1>1. CASE UNCHANGED Control!vars
    BY <1>1 DEF Control!vars, ControlInv, Control!TypeOK, Checked
  <1>2. CASE \/ Control!Tick
             \/ \E p \in People, role \in Control!Roles :
                  Control!SetRole(p, role)
             \/ \E p \in People : Control!Deactivate(p) \/ Control!Login(p)
             \/ \E p \in People, a \in Actions : Control!IssueApproval(p, a)
    BY <1>2, OthersStep
  <1>3. ASSUME NEW s \in People, NEW p \in People, NEW a \in Actions,
               Control!Authenticate(s, p, a)
        PROVE  ControlInv'
    BY <1>3, AuthenticateStep
  <1>4. ASSUME NEW p \in People, Control!CheckApproval(p) PROVE ControlInv'
    BY <1>4, CheckApprovalStep
  <1>5. CASE Control!Refuse \/ Control!Perform
    BY <1>5, RefuseStep, PerformStep
  <1>6. QED
    BY <1>1, <1>2, <1>3, <1>4, <1>5, Zenon DEF Control!Next

-----------------------------------------------------------------------------
(* API keys. *)

LEMMA KeysInit ==
  ASSUME ApiAccess!KeysAssumption, ApiAccess!Init
  PROVE ApiAccess!TypeOK
  BY DEF ApiAccess!Init, ApiAccess!TypeOK

LEMMA KeysNext ==
  ASSUME ApiAccess!KeysAssumption, ApiAccess!TypeOK,
         [ApiAccess!Next]_(ApiAccess!vars)
  PROVE ApiAccess!TypeOK'
  <1>1. CASE UNCHANGED ApiAccess!vars
    BY <1>1 DEF ApiAccess!vars, ApiAccess!TypeOK
  <1>2. ASSUME NEW k \in ApiRows, ApiAccess!Create(k) \/ ApiAccess!Revoke(k)
        PROVE ApiAccess!TypeOK'
    <2>1. CASE ApiAccess!Create(k)
      BY <2>1 DEF ApiAccess!Create, ApiAccess!TypeOK
    <2>2. CASE ApiAccess!Revoke(k)
      BY <2>2 DEF ApiAccess!Revoke, ApiAccess!TypeOK
    <2>3. QED
      BY <1>2, <2>1, <2>2
  <1>3. ASSUME NEW c \in Clients, ApiAccess!RecordUsage(c)
        PROVE ApiAccess!TypeOK'
    BY <1>3 DEF ApiAccess!RecordUsage, ApiAccess!TypeOK
  <1>4. ASSUME NEW c \in Clients, NEW k \in ApiRows, ApiAccess!Verify(c, k)
        PROVE ApiAccess!TypeOK'
    BY <1>4 DEF ApiAccess!Verify, ApiAccess!TypeOK
  <1>5. QED
    BY <1>1, <1>2, <1>3, <1>4, Zenon DEF ApiAccess!Next

\* Revoked keys stay inactive in one step, whichever request takes it.
LEMMA KeysStep ==
  ASSUME ApiAccess!KeysAssumption, ApiAccess!TypeOK,
         [ApiAccess!Next]_(ApiAccess!vars), NEW k \in ApiRows,
         key[k].exists, ~key[k].active
  PROVE  ~key'[k].active
  <1>1. CASE UNCHANGED ApiAccess!vars
    BY <1>1 DEF ApiAccess!vars
  <1>2. ASSUME NEW j \in ApiRows, ApiAccess!Create(j) PROVE ~key'[k].active
    BY <1>2 DEF ApiAccess!Create, ApiAccess!TypeOK
  <1>3. ASSUME NEW j \in ApiRows, ApiAccess!Revoke(j) PROVE ~key'[k].active
    BY <1>3 DEF ApiAccess!Revoke, ApiAccess!TypeOK
  <1>4. ASSUME NEW c \in Clients, ApiAccess!RecordUsage(c)
        PROVE ~key'[k].active
    BY <1>4 DEF ApiAccess!RecordUsage, ApiAccess!TypeOK
  <1>5. ASSUME NEW c \in Clients, NEW j \in ApiRows, ApiAccess!Verify(c, j)
        PROVE  ~key'[k].active
    BY <1>5 DEF ApiAccess!Verify
  <1>6. QED
    BY <1>1, <1>2, <1>3, <1>4, <1>5, Zenon DEF ApiAccess!Next

-----------------------------------------------------------------------------
(* Review drafts. *)

Asked == pc \in {"drafted", "answered", "recorded"}

\* What was fetched is the start of the claim's rows, as far as the prompt goes.
\* Once a model was asked there is an answer, never green in degraded mode.
\* The second model was asked where it should be, and what was recorded follows
\* from the answers, which nothing changes any more.
DraftSound ==
  /\ DOMAIN fetched \subseteq {i \in DOMAIN rows : i <= MaxSources}
  /\ \A i \in DOMAIN fetched : fetched[i] \in Drafts!Fetches
  /\ Asked => primary \in Drafts!Answer /\ (Degraded => ~primary.green)
  /\ pc \in {"start", "fetched", "drafted"} => second = None /\ ~tried
  /\ pc \in {"answered", "recorded"} =>
       /\ Degraded => second = None
       /\ ~Degraded /\ Drafts!ShouldEscalate => tried
  /\ draft # None =>
       /\ pc = "recorded"
       /\ draft = [verdict |-> Drafts!Parsed.verdict,
                   green |-> Drafts!Green(Drafts!Parsed),
                   score |-> Drafts!Least(Drafts!Parsed.score,
                                          Drafts!Cap(Drafts!Parsed)),
                   subclaims |-> Drafts!Parsed.subclaims]

DraftInv == Drafts!TypeOK /\ DraftSound

LEMMA DraftInit == ASSUME Drafts!DraftsAssumption, Drafts!Init PROVE DraftInv
  <1>1. DOMAIN fetched = {}
    BY DEF Drafts!Init
  <1>2. Drafts!TypeOK
    BY <1>1 DEF Drafts!Init, Drafts!TypeOK
  <1>3. DraftSound
    <2>1. pc = "start" /\ draft = None /\ second = None /\ ~tried
      BY DEF Drafts!Init
    <2>2. QED
      BY <1>1, <2>1 DEF DraftSound, Asked
  <1>4. QED
    BY <1>2, <1>3 DEF DraftInv

\* The merge of two answers is an answer.
LEMMA ParsedType ==
  ASSUME DraftInv, Asked PROVE Drafts!Parsed \in Drafts!Answer
  <1>1. /\ primary \in Drafts!Answer
        /\ second \in Drafts!Answer \cup {None}
    BY DEF DraftInv, DraftSound, Drafts!TypeOK
  <1>2. ASSUME NEW p \in Drafts!Answer, NEW e \in Drafts!Answer
        PROVE  Drafts!Merged(p, e) \in Drafts!Answer
    BY <1>2 DEF Drafts!Merged, Drafts!Answer, Drafts!Least
  <1>3. QED
    BY <1>1, <1>2 DEF Drafts!Parsed

LEMMA FetchStep ==
  ASSUME Drafts!DraftsAssumption, DraftInv, Drafts!Fetch PROVE DraftInv'
  <1>1. /\ pc = "start"
        /\ UNCHANGED <<rows, complex, primary, second, tried, draft>>
        /\ pc' \in {"fetched", "refused"}
    BY DEF Drafts!Fetch
  <1>2. \/ UNCHANGED fetched
        \/ fetched' \in [1 .. Drafts!Least(Len(rows), MaxSources) -> Drafts!Fetches]
    BY DEF Drafts!Fetch
  <1>3. /\ DOMAIN fetched' \subseteq {i \in DOMAIN rows : i <= MaxSources}
        /\ \A i \in DOMAIN fetched' : fetched'[i] \in Drafts!Fetches
    <2>1. rows \in Seq({"primary", "secondary"}) /\ MaxSources \in Nat
      BY DEF DraftInv, Drafts!TypeOK, Drafts!DraftsAssumption
    <2>2. QED
      BY <1>2, <2>1 DEF DraftInv, DraftSound, Drafts!Least
  <1>4. QED
    BY <1>1, <1>3 DEF DraftInv, DraftSound, Asked, Drafts!TypeOK

LEMMA AskPrimaryStep ==
  ASSUME Drafts!DraftsAssumption, DraftInv, Drafts!AskPrimary PROVE DraftInv'
  <1>1. /\ pc = "fetched"
        /\ UNCHANGED <<rows, fetched, complex, second, tried, draft>>
    BY DEF Drafts!AskPrimary
  <1>2. \/ /\ primary' \in Drafts!Answer /\ (Degraded => ~primary'.green)
           /\ pc' = "drafted"
        \/ pc' = "refused" /\ UNCHANGED primary
    <2>1. ASSUME NEW a \in Drafts!Answer
          PROVE  /\ [a EXCEPT !.green = FALSE] \in Drafts!Answer
                 /\ ~[a EXCEPT !.green = FALSE].green
      BY DEF Drafts!Answer
    <2>2. QED
      BY <2>1 DEF Drafts!AskPrimary
  <1>3. QED
    BY <1>1, <1>2 DEF DraftInv, DraftSound, Asked, Drafts!TypeOK

LEMMA AskSecondStep ==
  ASSUME Drafts!DraftsAssumption, DraftInv, Drafts!AskSecond PROVE DraftInv'
  <1>1. /\ pc = "drafted" /\ pc' = "answered"
        /\ UNCHANGED <<rows, fetched, complex, primary, draft>>
    BY DEF Drafts!AskSecond
  <1>2. /\ tried' \in BOOLEAN /\ second' \in Drafts!Answer \cup {None}
        /\ Degraded => second' = None
        /\ ~Degraded /\ Drafts!ShouldEscalate => tried'
    BY <1>1 DEF Drafts!AskSecond, DraftInv, DraftSound, Drafts!TypeOK
  <1>3. Drafts!ShouldEscalate' <=> Drafts!ShouldEscalate
    BY <1>1 DEF Drafts!ShouldEscalate, Drafts!HasClass
  <1>4. QED
    BY <1>1, <1>2, <1>3 DEF DraftInv, DraftSound, Asked, Drafts!TypeOK

LEMMA RecordStep ==
  ASSUME Drafts!DraftsAssumption, DraftInv, Drafts!Record PROVE DraftInv'
  <1> DEFINE recorded ==
        [verdict |-> Drafts!Parsed.verdict, green |-> Drafts!Green(Drafts!Parsed),
         score |-> Drafts!Least(Drafts!Parsed.score, Drafts!Cap(Drafts!Parsed)),
         subclaims |-> Drafts!Parsed.subclaims]
  <1>1. /\ pc = "answered" /\ pc' \in {"recorded", "refused"}
        /\ \/ draft' = recorded /\ pc' = "recorded"
           \/ pc' = "refused" /\ UNCHANGED draft
        /\ UNCHANGED <<rows, fetched, complex, primary, second, tried>>
    BY DEF Drafts!Record
  <1>2. recorded \in Drafts!Draft
    <2>1. Drafts!Parsed \in Drafts!Answer
      BY <1>1, ParsedType DEF Asked
    <2>2. Drafts!Green(Drafts!Parsed) \in BOOLEAN
      BY DEF Drafts!Green
    <2>3. Drafts!Least(Drafts!Parsed.score, Drafts!Cap(Drafts!Parsed))
            \in {35, 40, 50, 60, 95}
      BY <2>1 DEF Drafts!Least, Drafts!Cap, Drafts!Answer
    <2>4. QED
      BY <2>1, <2>2, <2>3 DEF Drafts!Draft, Drafts!Answer
  <1>3. recorded' = recorded
    BY <1>1 DEF Drafts!Parsed, Drafts!Merged, Drafts!Green, Drafts!Enforced,
       Drafts!AllSupported, Drafts!HasClass, Drafts!ServerWarns, Drafts!Some,
       Drafts!Cap, Drafts!Least
  <1>4. Drafts!ShouldEscalate' <=> Drafts!ShouldEscalate
    BY <1>1 DEF Drafts!ShouldEscalate, Drafts!HasClass
  <1>5. draft = None
    BY <1>1 DEF DraftInv, DraftSound
  <1> HIDE DEF recorded
  <1>6. Drafts!TypeOK'
    BY <1>1, <1>2, <1>5 DEF DraftInv, Drafts!TypeOK
  <1>7. draft' # None => pc' = "recorded" /\ draft' = recorded'
    BY <1>1, <1>3, <1>5
  <1>8. DraftSound'
    BY <1>1, <1>4, <1>7 DEF DraftInv, DraftSound, Asked, recorded
  <1>9. QED
    BY <1>6, <1>8 DEF DraftInv

LEMMA DraftNext ==
  ASSUME Drafts!DraftsAssumption, DraftInv, [Drafts!Next]_(Drafts!vars)
  PROVE  DraftInv'
  <1>1. CASE UNCHANGED Drafts!vars
    BY <1>1 DEF Drafts!vars, DraftInv, DraftSound, Asked, Drafts!TypeOK,
       Drafts!Parsed, Drafts!Merged, Drafts!Green, Drafts!Enforced,
       Drafts!AllSupported, Drafts!HasClass, Drafts!ServerWarns, Drafts!Some,
       Drafts!Cap, Drafts!Least, Drafts!ShouldEscalate
  <1>2. CASE Drafts!Next
    BY <1>2, FetchStep, AskPrimaryStep, AskSecondStep, RecordStep
       DEF Drafts!Next
  <1>3. QED
    BY <1>1, <1>2

\* What a recorded green draft says of the answer it was made from.
LEMMA GreenAnswer ==
  ASSUME Drafts!DraftsAssumption, DraftInv, draft # None, draft.green
  PROVE  /\ pc = "recorded" /\ Drafts!Parsed \in Drafts!Answer
         /\ Drafts!Parsed.green /\ ~Drafts!Parsed.warned
         /\ draft.verdict = "supported"
         /\ Drafts!AllSupported(Drafts!Parsed)
         /\ draft.subclaims = Drafts!Parsed.subclaims
         /\ draft.score >= 90
         /\ Drafts!HasClass("primary") /\ Drafts!HasClass("secondary")
         /\ \A i \in DOMAIN fetched : fetched[i] = "ok"
  <1>1. pc = "recorded" /\ Drafts!Green(Drafts!Parsed)
        /\ draft.verdict = Drafts!Parsed.verdict
        /\ draft.subclaims = Drafts!Parsed.subclaims
        /\ draft.score = Drafts!Least(Drafts!Parsed.score,
                                      Drafts!Cap(Drafts!Parsed))
    BY DEF DraftInv, DraftSound
  <1>2. Drafts!Parsed \in Drafts!Answer
    BY <1>1, ParsedType DEF Asked
  <1>3. \A i \in DOMAIN fetched : fetched[i] = "ok"
    BY <1>1 DEF Drafts!Green, Drafts!ServerWarns, Drafts!Some, DraftInv,
       DraftSound
  <1>4. draft.score >= 90
    <2>1. Drafts!Cap(Drafts!Parsed) = 100
      BY <1>1, <1>3 DEF Drafts!Cap, Drafts!Some, Drafts!Green
    <2>2. QED
      BY <1>1, <1>2, <2>1 DEF Drafts!Green, Drafts!Least, Drafts!Answer
  <1>5. QED
    BY <1>1, <1>2, <1>3, <1>4 DEF Drafts!Green, Drafts!Enforced

LEMMA DraftsSafe ==
  ASSUME Drafts!DraftsAssumption, DraftInv PROVE Drafts!GreenIsSafe
  <1> SUFFICES ASSUME draft # None, draft.green
               PROVE  /\ draft.verdict = "supported"
                      /\ Drafts!AllSupported(draft)
                      /\ draft.score >= 90
                      /\ \A i \in DOMAIN fetched : fetched[i] = "ok"
                      /\ \A class \in {"primary", "secondary"} :
                           \E i \in DOMAIN rows : i <= MaxSources /\ rows[i] = class
                      /\ ~Degraded
    BY DEF Drafts!GreenIsSafe
  <1>1. Drafts!AllSupported(draft)
    BY GreenAnswer DEF Drafts!AllSupported
  <1>2. \A class \in {"primary", "secondary"} :
          \E i \in DOMAIN rows : i <= MaxSources /\ rows[i] = class
    BY GreenAnswer DEF Drafts!HasClass, DraftInv, DraftSound
  <1>3. ~Degraded
    BY GreenAnswer DEF Drafts!Parsed, Drafts!Merged, DraftInv, DraftSound, Asked
  <1>4. QED
    BY <1>1, <1>2, <1>3, GreenAnswer

LEMMA DraftsReadTwice ==
  ASSUME Drafts!DraftsAssumption, DraftInv PROVE Drafts!GreenWasReadTwice
  <1> SUFFICES ASSUME draft # None, draft.green
               PROVE  tried /\ (second = None \/ second.green)
    BY DEF Drafts!GreenWasReadTwice
  <1>1. /\ primary.green /\ ~primary.warned
        /\ second = None \/ second.green
    BY GreenAnswer DEF Drafts!Parsed, Drafts!Merged
  <1>2. Drafts!ShouldEscalate
    BY <1>1, GreenAnswer DEF Drafts!ShouldEscalate
  <1>3. ~Degraded
    BY <1>1, GreenAnswer DEF DraftInv, DraftSound, Asked
  <1>4. QED
    BY <1>1, <1>2, <1>3, GreenAnswer DEF DraftInv, DraftSound

-----------------------------------------------------------------------------
(* The office. *)

\* A step is one of the scene's component, or a stutter.
LEMMA OneScene ==
  ASSUME [OfficeNext]_officeVars
  PROVE  /\ scene' = scene
         /\ [Next]_vars
         /\ scene = "serial" => [SerialP!Next]_(SerialP!vars)
         /\ scene = "faulty" => [FaultyP!Next]_(FaultyP!vars)
         /\ scene = "jobs" => [Resolution!Next]_(Resolution!vars)
         /\ scene = "control" => [Control!Next]_(Control!vars)
         /\ scene = "keys" => [ApiAccess!Next]_(ApiAccess!vars)
         /\ scene = "drafts" => [Drafts!Next]_(Drafts!vars)
  <1>1. CASE UNCHANGED officeVars
    BY <1>1 DEF officeVars, fileVars, jobVars, controlVars, keyVars, draftVars,
       SerialP!vars, FaultyP!vars, Resolution!vars, Control!vars,
       ApiAccess!vars, Drafts!vars
  <1>2. CASE OfficeNext /\ ~UNCHANGED officeVars
    BY <1>2, SerialSame, FaultySame DEF OfficeNext, Ended
  <1>3. QED
    BY <1>1, <1>2

\* The invariant of the component whose scene it is, and of notifications, which
\* have their first values in every scene.
OfficeInv ==
  /\ NoticesInv
  /\ scene = "serial" => SerialP!IInv /\ SerialP!OneToReport
  /\ scene = "faulty" => FaultyP!IInv
  /\ scene = "jobs" => JobsInv /\ Resolution!OfferedResolves
  /\ scene = "control" => ControlInv
  /\ scene = "keys" => ApiAccess!TypeOK
  /\ scene = "drafts" => DraftInv

\* What the proofs of the components assume of the constants.
LEMMA Assumed ==
  /\ NotificationsAssumption
  /\ SerialP!ProfilesAssumption /\ SerialP!Alone /\ FaultyP!ProfilesAssumption
  /\ Resolution!ResolutionAssumption
  /\ Control!AccessAssumption /\ ApiAccess!KeysAssumption
  /\ Drafts!DraftsAssumption
  <1>1. SerialP!Alone
    BY DEF SerialP!Alone
  <1>2. QED
    BY <1>1, OfficeAssumption, SerialSame, FaultySame

LEMMA OfficeInitInv == ASSUME OfficeInit PROVE OfficeInv
  <1>1. NoticesInv
    BY Assumed, NoticesInit DEF OfficeInit
  <1>2. ASSUME scene = "serial" PROVE SerialP!IInv /\ SerialP!OneToReport
    <2>1. SerialP!Init
      BY <1>2, SerialSame DEF OfficeInit
    <2>2. QED
      BY <2>1, Assumed, SerialP!InitIInv, SerialP!InitOneToReport
  <1>3. ASSUME scene = "faulty" PROVE FaultyP!IInv
    <2>1. FaultyP!Init
      BY <1>3, FaultySame DEF OfficeInit
    <2>2. QED
      BY <2>1, Assumed, FaultyP!InitIInv
  <1>4. ASSUME scene = "jobs"
        PROVE  JobsInv /\ Resolution!OfferedResolves
    <2>1. Resolution!Init
      BY <1>4 DEF OfficeInit
    <2>2. QED
      BY <2>1, Assumed, JobsInit, OfferedInit
  <1>5. scene = "control" => ControlInv
    BY Assumed, ControlInit DEF OfficeInit
  <1>6. scene = "keys" => ApiAccess!TypeOK
    BY Assumed, KeysInit DEF OfficeInit
  <1>7. scene = "drafts" => DraftInv
    BY Assumed, DraftInit DEF OfficeInit
  <1>8. QED
    BY <1>1, <1>2, <1>3, <1>4, <1>5, <1>6, <1>7 DEF OfficeInv

LEMMA OfficeNextInv ==
  ASSUME OfficeInv, [OfficeNext]_officeVars PROVE OfficeInv'
  <1>1. NoticesInv'
    BY Assumed, OneScene, NoticesNext DEF OfficeInv
  <1>2. ASSUME scene = "serial" PROVE SerialP!IInv' /\ SerialP!OneToReport'
    <2>1. SerialP!IInv /\ SerialP!OneToReport /\ [SerialP!Next]_(SerialP!vars)
      BY <1>2, OneScene DEF OfficeInv
    <2>2. SerialP!IInv'
      BY <2>1, Assumed, SerialP!NextIInv
    <2>3. SerialP!OneToReport'
      BY <2>1, Assumed, SerialP!NextOneToReport
    <2>4. QED
      BY <2>2, <2>3
  <1>3. ASSUME scene = "faulty" PROVE FaultyP!IInv'
    <2>1. FaultyP!IInv /\ [FaultyP!Next]_(FaultyP!vars)
      BY <1>3, OneScene DEF OfficeInv
    <2>2. QED
      BY <2>1, Assumed, FaultyP!NextIInv
  <1>4. ASSUME scene = "jobs"
        PROVE  JobsInv' /\ Resolution!OfferedResolves'
    <2>1. /\ JobsInv /\ Resolution!OfferedResolves
          /\ [Resolution!Next]_(Resolution!vars)
      BY <1>4, OneScene DEF OfficeInv
    <2>2. JobsInv'
      BY <2>1, Assumed, JobsNext
    <2>3. JobTypes
      BY <2>1 DEF JobsInv
    <2>4. Resolution!OfferedResolves'
      BY <2>1, <2>3, Assumed, OfferedNext
    <2>5. QED
      BY <2>2, <2>4
  <1>5. scene = "control" => ControlInv'
    BY Assumed, OneScene, ControlNext DEF OfficeInv
  <1>6. scene = "keys" => ApiAccess!TypeOK'
    BY Assumed, OneScene, KeysNext DEF OfficeInv
  <1>7. scene = "drafts" => DraftInv'
    BY Assumed, OneScene, DraftNext DEF OfficeInv
  <1>8. scene' = scene
    BY OneScene
  <1>9. QED
    BY <1>1, <1>2, <1>3, <1>4, <1>5, <1>6, <1>7, <1>8 DEF OfficeInv

\* The inductive invariant holds in every state.
LEMMA OfficeInductive == OfficeSpec => []OfficeInv
  BY OfficeInitInv, OfficeNextInv, PTL DEF OfficeSpec

-----------------------------------------------------------------------------
\* The variables of every component keep their types.
THEOREM OfficeTypesAreKept == OfficeSpec => []OfficeTypeOK
  <1>1. OfficeInv => OfficeTypeOK
    <2>1. SerialP!IInv => Serial!TypeOK
      BY SerialSame DEF SerialP!IInv
    <2>2. FaultyP!IInv => Faulty!TypeOK
      BY FaultySame DEF FaultyP!IInv
    <2>3. JobsInv => Resolution!TypeOK
      BY DEF JobsInv, JobTypes, JobRow,
         JobsSound, Queued, Resolution!TypeOK
    <2>4. NoticesInv => TypeOK
      BY DEF NoticesInv
    <2>5. QED
      BY <2>1, <2>2, <2>3, <2>4 DEF OfficeInv, OfficeTypeOK, ControlInv, DraftInv
  <1>2. QED
    BY <1>1, OfficeInductive, PTL

\* However many threads send and store, a row is called failed only if a send of
\* it raised, and sent only if one returned: a message went out, or no transport
\* was configured and the send was skipped.
THEOREM RowsAreTrue == OfficeSpec => []RowsSayWhatHappened
  <1>1. OfficeInv => RowsSayWhatHappened
    BY DEF OfficeInv, NoticesInv
  <1>2. QED
    BY <1>1, OfficeInductive, PTL

\* Once an enqueue has ended, stored or refused, everybody whom all enqueues of
\* its event selected has a row, whoever became or ceased to be an admin since.
THEOREM SelectedAdminsHaveRows == OfficeSpec => []NobodyForgotten
  <1>1. OfficeInv => NobodyForgotten
    BY DEF OfficeInv, NoticesInv
  <1>2. QED
    BY <1>1, OfficeInductive, PTL

\* While one admin at a time edits the profiles and nothing fails, the file and
\* the audit log agree: every profile of the file is in an event whenever no
\* request is under way, and every event was in the file.
THEOREM AuditAndFileAgree == OfficeSpec => []AuditMatchesFile
  <1>1. OfficeInv => AuditMatchesFile
    BY Assumed, SerialP!AuditAgrees, SerialSame DEF OfficeInv, AuditMatchesFile
  <1>2. QED
    BY <1>1, OfficeInductive, PTL

\* Every profile that a job reads through the cache has been in the file,
\* although requests share one temporary file, commits fail and processes die.
THEOREM CacheWasInFile == OfficeSpec => []CachedWasHeld
  <1>1. FaultyP!IInv => Faulty!CachedWasHeld
    BY FaultySame DEF FaultyP!IInv, FaultyP!CopiesHeld, FaultyP!CachedWasHeld
  <1>2. OfficeInv => CachedWasHeld
    BY <1>1 DEF OfficeInv, CachedWasHeld
  <1>3. QED
    BY <1>2, OfficeInductive, PTL

\* Every script that is started is on the allowlist of its job's type, and
\* without an edit it is the one that was checked when the job was queued.
THEOREM QueuedScriptsRun == OfficeSpec => []RunsWhatWasQueued
  <1>1. JobsInv => Resolution!RunsWhatWasQueued
    BY DEF JobsInv
  <1>2. OfficeInv => RunsWhatWasQueued
    BY <1>1 DEF OfficeInv, RunsWhatWasQueued
  <1>3. QED
    BY <1>2, OfficeInductive, PTL

\* What the metadata endpoint offers is never answered with job_input_invalid.
THEOREM OfferedJobsResolve == OfficeSpec => []OfferedResolves
  <1>1. OfficeInv => OfferedResolves
    BY DEF OfficeInv, OfferedResolves
  <1>2. QED
    BY <1>1, OfficeInductive, PTL

\* An operation under dual control takes its sender, in a role the account had,
\* and another person whose approval of this action has not outlived a token.
THEOREM TwoPeopleAct == OfficeSpec => []NobodyActsAlone
  <1>1. OfficeInv => NobodyActsAlone
    BY DEF OfficeInv, ControlInv, Checked, NobodyActsAlone,
       Control!NobodyActsAlone
  <1>2. QED
    BY <1>1, OfficeInductive, PTL

\* A revoked key never works again, although requests verified before it was
\* revoked write its row afterwards.
THEOREM RevokedKeysStayRevoked == OfficeSpec => RevokedStaysRevoked
  <1>1. OfficeInv /\ [OfficeNext]_officeVars =>
          [scene = "keys" =>
             \A k \in ApiRows :
               key[k].exists /\ ~key[k].active => ~key'[k].active]_officeVars
    BY Assumed, OneScene, KeysStep DEF OfficeInv
  <1>2. QED
    BY <1>1, OfficeInductive, PTL DEF OfficeSpec, RevokedStaysRevoked

\* A green draft is positive, rests on live text of both classes that the models
\* were shown, and was not made in degraded mode, whatever the models answered.
THEOREM GreenDraftsAreSafe == OfficeSpec => []GreenIsSafe
  <1>1. OfficeInv => GreenIsSafe
    BY Assumed, DraftsSafe DEF OfficeInv, GreenIsSafe
  <1>2. QED
    BY <1>1, OfficeInductive, PTL

\* The guard that asks the second model covers every answer that can be green.
THEOREM GreenDraftsAreReadTwice == OfficeSpec => []GreenWasReadTwice
  <1>1. OfficeInv => GreenWasReadTwice
    BY Assumed, DraftsReadTwice DEF OfficeInv, GreenWasReadTwice
  <1>2. QED
    BY <1>1, OfficeInductive, PTL
=============================================================================
