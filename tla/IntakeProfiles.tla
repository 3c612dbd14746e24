--------------------------- MODULE IntakeProfiles ---------------------------
(***************************************************************************)
(* The intake profiles file (intake_profile_service.py,                    *)
(* core/intake_profiles.py): admins create and edit profiles by reading    *)
(* the JSON file, changing it in memory, writing a temporary file of a     *)
(* fixed name and renaming it, and only then committing the audit event.   *)
(* The admin jobs read the file through a cache of one entry.              *)
(***************************************************************************)
EXTENDS Naturals

CONSTANTS
  Ids,         \* profile ids
  Contents,    \* what a profile may say
  Requests,    \* concurrent admin requests
  Readers,     \* threads that resolve a job or list profiles
  Faults,      \* which of "commit" and "crash" happen
  MaxVersion,  \* bound on the version counter of the file
  None         \* no value

VARIABLES
  file,   \* intake_profiles_v1.json
  tmp,    \* the temporary file beside it
  cache,  \* what get_intake_profiles_config returns without reading
  req,    \* the requests
  rdr,    \* the readers: the configuration they have read and not yet cached
  audit,  \* the profiles that audit events report
  held    \* history: the profiles the file has ever held

vars == <<file, tmp, cache, req, rdr, audit, held>>

-----------------------------------------------------------------------------
Config == [version : 0..MaxVersion, profiles : [Ids -> Contents \cup {None}]]

ProfilesAssumption ==
  /\ None \notin Contents /\ None \notin Ids /\ None \notin Config
  /\ Faults \subseteq {"commit", "crash"}
  /\ MaxVersion \in Nat

\* old is the configuration a request read, new the one it writes.
Request == [pc : {"idle", "write", "replace", "audit", "undo", "replaceundo"},
            id : Ids \cup {None},
            old : Config \cup {None}, new : Config \cup {None}]

Idle == [pc |-> "idle", id |-> None, old |-> None, new |-> None]

\* A profile with what it says, as audit events and the history name it.
Said(config) == {[id |-> i, content |-> config.profiles[i]] :
                   i \in {j \in Ids : config.profiles[j] # None}}

Changed(config, i, content) ==
  [version |-> config.version + 1,
   profiles |-> [config.profiles EXCEPT ![i] = content]]

-----------------------------------------------------------------------------
\* create_profile and update_profile up to the write: the profile is new, or
\* it is there and the update changes it; dual control refuses or not.
ReadAndCheck(q, i, content) ==
  /\ req[q].pc = "idle"
  /\ file.version < MaxVersion
  /\ file.profiles[i] # content
  /\ req' = [req EXCEPT ![q] = [pc |-> "write", id |-> i, old |-> file,
                                new |-> Changed(file, i, content)]]
  /\ UNCHANGED <<file, tmp, cache, rdr, audit, held>>

\* The change is made in the list that existing_config holds too: what the
\* handler of a failed commit writes is the old version with the new profiles.
Undone(q) == [version |-> req[q].old.version, profiles |-> req[q].new.profiles]

\* Mutant: the writer puts its configuration into the cache itself.
WriteThrough(q) ==
  /\ req[q].pc \in {"write", "undo"}
  /\ tmp' = IF req[q].pc = "write" THEN req[q].new ELSE Undone(q)
  /\ cache' = tmp'
  /\ req' = [req EXCEPT ![q].pc = IF @ = "write" THEN "replace"
                                  ELSE "replaceundo"]
  /\ UNCHANGED <<file, rdr, audit, held>>

\* tmp_path.write_text: every request writes the same file.
WriteTmp(q) ==
  /\ req[q].pc \in {"write", "undo"}
  /\ tmp' = IF req[q].pc = "write" THEN req[q].new ELSE Undone(q)
  /\ req' = [req EXCEPT ![q].pc = IF @ = "write" THEN "replace"
                                  ELSE "replaceundo"]
  /\ UNCHANGED <<file, cache, rdr, audit, held>>

\* tmp_path.replace and cache_clear; another request may have written, or
\* moved, the temporary file meanwhile.
Replace(q) ==
  /\ req[q].pc \in {"replace", "replaceundo"}
  /\ tmp # None
  /\ file' = tmp /\ tmp' = None /\ cache' = None
  /\ held' = held \cup Said(tmp)
  /\ req' = [req EXCEPT ![q] =
       IF @.pc = "replace" THEN [req[q] EXCEPT !.pc = "audit"] ELSE Idle]
  /\ UNCHANGED <<rdr, audit>>

\* FileNotFoundError, outside any handler.
NothingToReplace(q) ==
  /\ req[q].pc \in {"replace", "replaceundo"}
  /\ tmp = None
  /\ req' = [req EXCEPT ![q] = Idle]
  /\ UNCHANGED <<file, tmp, cache, rdr, audit, held>>

Reported(q) == [id |-> req[q].id, content |-> req[q].new.profiles[req[q].id]]

\* Mutant: record_event is called with commit=False, and nobody commits.
AuditUncommitted(q) ==
  /\ req[q].pc = "audit"
  /\ req' = [req EXCEPT ![q] = Idle]
  /\ UNCHANGED <<file, tmp, cache, rdr, audit, held>>

\* The audit event.
CommitAudit(q) ==
  /\ req[q].pc = "audit"
  /\ audit' = audit \cup {Reported(q)}
  /\ req' = [req EXCEPT ![q] = Idle]
  /\ UNCHANGED <<file, tmp, cache, rdr, held>>

\* The flush or the commit raises: the handler writes the configuration back.
CommitFails(q) ==
  /\ "commit" \in Faults /\ req[q].pc = "audit"
  /\ req' = [req EXCEPT ![q].pc = "undo"]
  /\ UNCHANGED <<file, tmp, cache, rdr, audit, held>>

Crash(q) ==
  /\ "crash" \in Faults /\ req[q].pc # "idle"
  /\ req' = [req EXCEPT ![q] = Idle]
  /\ UNCHANGED <<file, tmp, cache, rdr, audit, held>>

\* A miss of the cache reads the file.
Load(t) ==
  /\ rdr[t] = None /\ cache = None
  /\ rdr' = [rdr EXCEPT ![t] = file]
  /\ UNCHANGED <<file, tmp, cache, req, audit, held>>

\* lru_cache stores what the call returned, whatever was cleared meanwhile.
Store(t) ==
  /\ rdr[t] # None
  /\ cache' = rdr[t]
  /\ rdr' = [rdr EXCEPT ![t] = None]
  /\ UNCHANGED <<file, tmp, req, audit, held>>

-----------------------------------------------------------------------------
Init ==
  /\ file = [version |-> 0, profiles |-> [i \in Ids |-> None]]
  /\ tmp = None /\ cache = None
  /\ req = [q \in Requests |-> Idle]
  /\ rdr = [t \in Readers |-> None]
  /\ audit = {} /\ held = {}

Next ==
  \/ \E q \in Requests :
       \/ \E i \in Ids, content \in Contents : ReadAndCheck(q, i, content)
       \/ WriteTmp(q) \/ Replace(q) \/ NothingToReplace(q)
       \/ CommitAudit(q) \/ CommitFails(q) \/ Crash(q)
  \/ \E t \in Readers : Load(t) \/ Store(t)

Spec == Init /\ [][Next]_vars

-----------------------------------------------------------------------------
\* The file, its copies and the requests have the shapes of the loader.
TypeOK ==
  /\ file \in Config
  /\ tmp \in Config \cup {None} /\ cache \in Config \cup {None}
  /\ req \in [Requests -> Request]
  /\ rdr \in [Readers -> Config \cup {None}]
  /\ audit \subseteq [id : Ids, content : Contents]
  /\ held \subseteq [id : Ids, content : Contents]

Quiet == \A q \in Requests : req[q].pc = "idle"

\* The file and the audit log agree: whenever no request is under way, every
\* profile of the file is one that an event reports, and an event reports only
\* what the file has held (README.md: an audit event log for all admin actions).
AuditMatchesFile ==
  /\ Quiet => Said(file) \subseteq audit
  /\ audit \subseteq held

\* The file the jobs read may be old, but what they read was the whole file at
\* some moment: every profile in it has been in the file.
CachedWasHeld == cache # None => Said(cache) \subseteq held
=============================================================================
