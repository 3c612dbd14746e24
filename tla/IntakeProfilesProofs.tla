------------------------- MODULE IntakeProfilesProofs -------------------------
(***************************************************************************)
(* Proofs about IntakeProfiles: the types of the file and its copies, and  *)
(* that what a job reads was in the file, whatever requests overlap and    *)
(* whatever fails.                                                         *)
(***************************************************************************)
EXTENDS IntakeProfiles, TLAPS

\* A request that writes has both configurations, and a profile to report.
Writing ==
  \A q \in Requests : req[q].pc # "idle" =>
    /\ req[q].old \in Config /\ req[q].new \in Config
    /\ req[q].id \in Ids /\ req[q].new.profiles[req[q].id] \in Contents

\* The file and every copy that was read from it hold what the file has held.
CopiesHeld ==
  /\ Said(file) \subseteq held
  /\ \A t \in Readers : rdr[t] # None => Said(rdr[t]) \subseteq held
  /\ cache # None => Said(cache) \subseteq held

IInv == TypeOK /\ Writing /\ CopiesHeld

-----------------------------------------------------------------------------
\* What a configuration says are profiles with contents.
LEMMA SaidType ==
  ASSUME NEW config \in Config
  PROVE  Said(config) \subseteq [id : Ids, content : Contents]
  BY DEF Said, Config

LEMMA InitIInv == ASSUME ProfilesAssumption, Init PROVE IInv
  <1>1. file \in Config
    BY DEF Init, Config, ProfilesAssumption
  <1>2. Said(file) = {}
    BY DEF Init, Said
  <1>3. Idle \in Request
    BY DEF Idle, Request
  <1>4. TypeOK
    BY <1>1, <1>3 DEF Init, TypeOK
  <1>5. Writing
    BY DEF Init, Writing, Idle
  <1>6. CopiesHeld
    BY <1>2 DEF Init, CopiesHeld
  <1>7. QED
    BY <1>4, <1>5, <1>6 DEF IInv

LEMMA ReadAndCheckStep ==
  ASSUME ProfilesAssumption, IInv, NEW q \in Requests, NEW i \in Ids,
         NEW content \in Contents, ReadAndCheck(q, i, content)
  PROVE  IInv'
  <1> DEFINE changed == Changed(file, i, content)
             new == [pc |-> "write", id |-> i, old |-> file, new |-> changed]
  <1>1. file \in Config /\ file.version < MaxVersion
    BY DEF ReadAndCheck, IInv, TypeOK
  <1>2. changed \in Config
    <2>1. file.version + 1 \in 0 .. MaxVersion
      BY <1>1 DEF Config, ProfilesAssumption
    <2>2. [file.profiles EXCEPT ![i] = content] \in [Ids -> Contents \cup {None}]
      BY <1>1 DEF Config
    <2>3. QED
      BY <2>1, <2>2 DEF Changed, Config
  <1> HIDE DEF changed
  <1>3. new \in Request /\ changed.profiles[i] \in Contents
    BY <1>1, <1>2 DEF Request, changed, Changed, Config
  <1>4. /\ req' = [req EXCEPT ![q] = new]
        /\ UNCHANGED <<file, tmp, cache, rdr, audit, held>>
    BY DEF ReadAndCheck, changed
  <1>5. TypeOK'
    BY <1>3, <1>4 DEF IInv, TypeOK
  <1>6. Writing'
    BY <1>1, <1>2, <1>3, <1>4 DEF IInv, TypeOK, Writing
  <1>7. CopiesHeld'
    BY <1>4 DEF IInv, CopiesHeld
  <1>8. QED
    BY <1>5, <1>6, <1>7 DEF IInv

LEMMA WriteTmpStep ==
  ASSUME ProfilesAssumption, IInv, NEW q \in Requests, WriteTmp(q) PROVE IInv'
  <1>1. req[q] \in Request /\ req[q].pc \in {"write", "undo"}
    BY DEF WriteTmp, IInv, TypeOK
  <1>2. req[q].old \in Config /\ req[q].new \in Config
    BY <1>1 DEF IInv, Writing
  <1>3. Undone(q) \in Config
    BY <1>2 DEF Undone, Config
  <1>4. tmp' \in Config /\ UNCHANGED <<file, cache, rdr, audit, held>>
    BY <1>2, <1>3 DEF WriteTmp
  <1>5. /\ req' \in [Requests -> Request]
        /\ req'[q].old = req[q].old /\ req'[q].new = req[q].new
        /\ req'[q].id = req[q].id
        /\ \A p \in Requests \ {q} : req'[p] = req[p]
    <2>1. \E pc \in {"replace", "replaceundo"} :
            req' = [req EXCEPT ![q] = [req[q] EXCEPT !.pc = pc]]
      BY DEF WriteTmp, IInv, TypeOK
    <2>2. QED
      BY <1>1, <2>1 DEF IInv, TypeOK, Request
  <1>6. TypeOK'
    BY <1>4, <1>5 DEF IInv, TypeOK
  <1>7. Writing'
    <2>1. req[q].id \in Ids /\ req[q].new.profiles[req[q].id] \in Contents
      BY <1>1 DEF IInv, Writing
    <2>2. QED
      BY <1>2, <1>5, <2>1 DEF IInv, Writing
  <1>8. CopiesHeld'
    BY <1>4 DEF IInv, CopiesHeld
  <1>9. QED
    BY <1>6, <1>7, <1>8 DEF IInv

LEMMA ReplaceStep ==
  ASSUME ProfilesAssumption, IInv, NEW q \in Requests, Replace(q) PROVE IInv'
  <1>1. tmp \in Config
    BY DEF Replace, IInv, TypeOK
  <1>2. /\ file' = tmp /\ tmp' = None /\ cache' = None
        /\ held' = held \cup Said(tmp)
        /\ UNCHANGED <<rdr, audit>>
    BY DEF Replace
  <1>3. /\ req' \in [Requests -> Request]
        /\ \A p \in Requests \ {q} : req'[p] = req[p]
        /\ \/ req'[q] = Idle
           \/ /\ req'[q].old = req[q].old /\ req'[q].new = req[q].new
              /\ req'[q].id = req[q].id /\ req[q].pc # "idle"
    <2>1. CASE req[q].pc = "replace"
      <3>1. req' = [req EXCEPT ![q] = [req[q] EXCEPT !.pc = "audit"]]
        BY <2>1 DEF Replace
      <3>2. QED
        BY <2>1, <3>1 DEF IInv, TypeOK, Request
    <2>2. CASE req[q].pc # "replace"
      <3>1. req' = [req EXCEPT ![q] = Idle]
        BY <2>2 DEF Replace, IInv, TypeOK
      <3>2. Idle \in Request
        BY DEF Idle, Request
      <3>3. QED
        BY <3>1, <3>2 DEF IInv, TypeOK
    <2>3. QED
      BY <2>1, <2>2
  <1>4. TypeOK'
    <2>1. held' \subseteq [id : Ids, content : Contents]
      BY <1>1, <1>2, SaidType DEF IInv, TypeOK
    <2>2. QED
      BY <1>1, <1>2, <1>3, <2>1 DEF IInv, TypeOK
  <1>5. Writing'
    BY <1>3 DEF IInv, Writing, Idle
  <1>6. CopiesHeld'
    BY <1>2 DEF IInv, CopiesHeld, Said
  <1>7. QED
    BY <1>4, <1>5, <1>6 DEF IInv

\* A request ends, reports what it did, or goes back to the file.
LEMMA EndStep ==
  ASSUME ProfilesAssumption, IInv, NEW q \in Requests,
         NothingToReplace(q) \/ CommitAudit(q) \/ CommitFails(q) \/ Crash(q)
  PROVE  IInv'
  <1>1. UNCHANGED <<file, tmp, cache, rdr, held>>
    BY DEF NothingToReplace, CommitAudit, CommitFails, Crash
  <1>2. /\ req' \in [Requests -> Request]
        /\ \A p \in Requests \ {q} : req'[p] = req[p]
        /\ \/ req'[q] = Idle
           \/ /\ req'[q].old = req[q].old /\ req'[q].new = req[q].new
              /\ req'[q].id = req[q].id /\ req[q].pc # "idle"
    <2>1. CASE CommitFails(q)
      BY <2>1 DEF CommitFails, IInv, TypeOK, Request
    <2>2. CASE NothingToReplace(q) \/ CommitAudit(q) \/ Crash(q)
      <3>1. req' = [req EXCEPT ![q] = Idle]
        BY <2>2 DEF NothingToReplace, CommitAudit, Crash
      <3>2. Idle \in Request
        BY DEF Idle, Request
      <3>3. QED
        BY <3>1, <3>2 DEF IInv, TypeOK
    <2>3. QED
      BY <2>1, <2>2
  <1>3. audit' \subseteq [id : Ids, content : Contents]
    <2>1. CASE CommitAudit(q)
      <3>1. Reported(q) \in [id : Ids, content : Contents]
        BY <2>1 DEF CommitAudit, IInv, Writing, Reported
      <3>2. QED
        BY <2>1, <3>1 DEF CommitAudit, IInv, TypeOK
    <2>2. CASE NothingToReplace(q) \/ CommitFails(q) \/ Crash(q)
      BY <2>2 DEF NothingToReplace, CommitFails, Crash, IInv, TypeOK
    <2>3. QED
      BY <2>1, <2>2
  <1>4. TypeOK'
    BY <1>1, <1>2, <1>3 DEF IInv, TypeOK
  <1>5. Writing'
    BY <1>2 DEF IInv, Writing, Idle
  <1>6. CopiesHeld'
    BY <1>1 DEF IInv, CopiesHeld
  <1>7. QED
    BY <1>4, <1>5, <1>6 DEF IInv

\* A reader copies the file, and later its copy into the cache.
LEMMA ReadStep ==
  ASSUME ProfilesAssumption, IInv, NEW t \in Readers, Load(t) \/ Store(t)
  PROVE  IInv'
  <1>1. UNCHANGED <<file, tmp, req, audit, held>>
    BY DEF Load, Store
  <1>2. TypeOK' /\ CopiesHeld'
    <2>1. CASE Load(t)
      BY <2>1 DEF Load, IInv, TypeOK, CopiesHeld
    <2>2. CASE Store(t)
      BY <2>2 DEF Store, IInv, TypeOK, CopiesHeld
    <2>3. QED
      BY <2>1, <2>2
  <1>3. Writing'
    BY <1>1 DEF IInv, Writing
  <1>4. QED
    BY <1>2, <1>3 DEF IInv

LEMMA NextIInv == ASSUME ProfilesAssumption, IInv, [Next]_vars PROVE IInv'
  <1>1. CASE UNCHANGED vars
    BY <1>1 DEF vars, IInv, TypeOK, Writing, CopiesHeld
  <1>2. ASSUME NEW q \in Requests, NEW i \in Ids, NEW content \in Contents,
               ReadAndCheck(q, i, content)
        PROVE  IInv'
    BY <1>2, ReadAndCheckStep
  <1>3. ASSUME NEW q \in Requests, WriteTmp(q) \/ Replace(q) PROVE IInv'
    BY <1>3, WriteTmpStep, ReplaceStep
  <1>4. ASSUME NEW q \in Requests,
               NothingToReplace(q) \/ CommitAudit(q) \/ CommitFails(q) \/ Crash(q)
        PROVE  IInv'
    BY <1>4, EndStep
  <1>5. ASSUME NEW t \in Readers, Load(t) \/ Store(t) PROVE IInv'
    BY <1>5, ReadStep
  <1>6. QED
    BY <1>1, <1>2, <1>3, <1>4, <1>5, Zenon DEF Next

\* The inductive invariant holds in every state.
LEMMA Inductive == ASSUME ProfilesAssumption PROVE Spec => []IInv
  <1>1. Init => IInv
    BY InitIInv
  <1>2. IInv /\ [Next]_vars => IInv'
    BY NextIInv
  <1>3. QED
    BY <1>1, <1>2, PTL DEF Spec

-----------------------------------------------------------------------------
\* The file, its copies and the requests keep the shapes of the loader.
THEOREM TypesAreKept == ASSUME ProfilesAssumption PROVE Spec => []TypeOK
  <1>1. IInv => TypeOK
    BY DEF IInv
  <1>2. QED
    BY <1>1, Inductive, PTL

\* Every profile that a job reads through the cache has been in the file,
\* although requests share one temporary file, commits fail and processes die.
THEOREM CacheWasHeld == ASSUME ProfilesAssumption PROVE Spec => []CachedWasHeld
  <1>1. IInv => CachedWasHeld
    BY DEF IInv, CopiesHeld, CachedWasHeld
  <1>2. QED
    BY <1>1, Inductive, PTL

-----------------------------------------------------------------------------
(* One admin at a time, and nothing fails.                                   *)
Alone == Faults = {} /\ \E q \in Requests : Requests = {q}

\* Until a request renames its file, what the file says is audited; what it
\* writes is what the file says and what it is about to report; and between the
\* rename and the commit that one profile alone is missing from the audit log.
OneToReport ==
  /\ audit \subseteq held
  /\ \A q \in Requests :
       /\ req[q].pc \in {"idle", "write", "replace", "audit"}
       /\ req[q].pc # "audit" => Said(file) \subseteq audit
       /\ req[q].pc \in {"write", "replace"} =>
            /\ Said(req[q].new) \subseteq Said(file) \cup {Reported(q)}
            /\ Reported(q) \in Said(req[q].new)
       /\ req[q].pc = "replace" => tmp = req[q].new
       /\ req[q].pc = "audit" =>
            Said(file) \subseteq audit \cup {Reported(q)} /\ Reported(q) \in held

LEMMA InitOneToReport == ASSUME Init PROVE OneToReport
  BY DEF Init, OneToReport, Idle, Said

\* The next read, write, rename or report of the only request.
LEMMA NextOneToReport ==
  ASSUME ProfilesAssumption, Alone, IInv, OneToReport, [Next]_vars
  PROVE  OneToReport'
  <1>1. CASE UNCHANGED vars
    BY <1>1 DEF vars, OneToReport, Said, Reported
  <1>2. ASSUME NEW q \in Requests, NEW i \in Ids, NEW content \in Contents,
               ReadAndCheck(q, i, content)
        PROVE  OneToReport'
    <2> DEFINE changed == Changed(file, i, content)
    <2>1. /\ req' = [req EXCEPT ![q] = [pc |-> "write", id |-> i, old |-> file,
                                        new |-> changed]]
          /\ UNCHANGED <<file, tmp, audit, held>>
          /\ req[q].pc = "idle"
      BY <1>2 DEF ReadAndCheck
    <2>2. Requests = {q} /\ q \in DOMAIN req /\ file \in Config
      BY DEF Alone, IInv, TypeOK
    <2>3. Said(changed) \subseteq Said(file) \cup {[id |-> i, content |-> content]}
      BY <2>2 DEF Said, Changed, Config, changed
    <2>4. [id |-> i, content |-> content] \in Said(changed)
      BY <2>2 DEF Said, Changed, Config, ProfilesAssumption, changed
    <2>5. changed.profiles[i] = content
      BY <2>2 DEF Changed, Config, changed
    <2> HIDE DEF changed
    <2>6. Reported(q)' = [id |-> i, content |-> content] /\ req'[q].new = changed
          /\ req'[q].pc = "write"
      BY <2>1, <2>2, <2>5 DEF Reported
    <2>7. Said(file)' = Said(file) /\ Said(req'[q].new) = Said(changed)
      BY <2>1, <2>6 DEF Said
    <2>8. QED
      BY <2>1, <2>2, <2>3, <2>4, <2>6, <2>7 DEF OneToReport
  <1>3. ASSUME NEW q \in Requests, WriteTmp(q) PROVE OneToReport'
    <2>1. /\ req[q].pc = "write" /\ req[q] \in Request
          /\ Requests = {q} /\ req \in [Requests -> Request]
      BY <1>3 DEF WriteTmp, OneToReport, Alone, IInv, TypeOK
    <2>2. /\ req' = [req EXCEPT ![q] = [req[q] EXCEPT !.pc = "replace"]]
          /\ tmp' = req[q].new /\ UNCHANGED <<file, audit, held>>
      BY <1>3, <2>1 DEF WriteTmp
    <2>3. /\ req'[q].pc = "replace" /\ req'[q].new = req[q].new
          /\ req'[q].id = req[q].id
      BY <2>1, <2>2 DEF Request
    <2>4. QED
      BY <2>1, <2>2, <2>3 DEF OneToReport, Said, Reported
  <1>4. ASSUME NEW q \in Requests, Replace(q) PROVE OneToReport'
    <2>1. /\ req[q].pc = "replace" /\ req[q] \in Request
          /\ Requests = {q} /\ req \in [Requests -> Request]
          /\ tmp = req[q].new
      BY <1>4 DEF Replace, OneToReport, Alone, IInv, TypeOK
    <2>2. /\ req' = [req EXCEPT ![q] = [req[q] EXCEPT !.pc = "audit"]]
          /\ file' = req[q].new /\ held' = held \cup Said(req[q].new)
          /\ audit' = audit
      BY <1>4, <2>1 DEF Replace
    <2>3. /\ req'[q].pc = "audit" /\ req'[q].new = req[q].new
          /\ req'[q].id = req[q].id
      BY <2>1, <2>2 DEF Request
    <2>4. Reported(q)' = Reported(q)
      BY <2>3 DEF Reported
    <2>5. Said(file)' = Said(req[q].new)
      BY <2>2 DEF Said
    <2>6. QED
      BY <2>1, <2>2, <2>3, <2>4, <2>5 DEF OneToReport
  <1>5. ASSUME NEW q \in Requests, CommitAudit(q) PROVE OneToReport'
    <2>1. /\ req[q].pc = "audit" /\ Requests = {q} /\ q \in DOMAIN req
          /\ req' = [req EXCEPT ![q] = Idle] /\ UNCHANGED <<file, tmp, held>>
          /\ audit' = audit \cup {Reported(q)}
      BY <1>5 DEF CommitAudit, Alone, IInv, TypeOK
    <2>2. req'[q].pc = "idle" /\ Said(file)' = Said(file)
      BY <2>1 DEF Idle, Said
    <2>3. QED
      BY <2>1, <2>2 DEF OneToReport
  <1>6. ASSUME NEW q \in Requests,
               NothingToReplace(q) \/ CommitFails(q) \/ Crash(q)
        PROVE  FALSE
    BY <1>6 DEF NothingToReplace, CommitFails, Crash, Alone, OneToReport, IInv,
       Writing, ProfilesAssumption
  <1>7. ASSUME NEW t \in Readers, Load(t) \/ Store(t) PROVE OneToReport'
    BY <1>7 DEF Load, Store, OneToReport, Said, Reported
  <1>8. QED
    BY <1>1, <1>2, <1>3, <1>4, <1>5, <1>6, <1>7, Zenon DEF Next

LEMMA AuditAgrees == ASSUME Alone, OneToReport PROVE AuditMatchesFile
  BY DEF Alone, OneToReport, AuditMatchesFile, Quiet
=============================================================================
