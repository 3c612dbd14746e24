------------------------------ MODULE ApiKeys ------------------------------
(***************************************************************************)
(* The API keys (api_key_service.py, require_api_key): a request reads the *)
(* row of the key it shows, and writes back when the key was last used,    *)
(* while an admin may revoke it.                                           *)
(***************************************************************************)
EXTENDS Naturals

CONSTANTS
  Keys,     \* rows of api_keys
  Clients,  \* requests that show a key
  None      \* no key

KeysAssumption == None \notin Keys

VARIABLES
  key,    \* the rows: whether they exist, are active and have a time of use
  client  \* the key each request has verified, and what it read of the row

vars == <<key, client>>

-----------------------------------------------------------------------------
\* create_key.
Create(k) ==
  /\ ~key[k].exists
  /\ key' = [key EXCEPT ![k] = [exists |-> TRUE, active |-> TRUE, used |-> FALSE]]
  /\ UNCHANGED client

\* verify_key: the row with the key's hash, if it is active.
Verify(c, k) ==
  /\ client[c] = None /\ key[k].exists /\ key[k].active
  /\ client' = [client EXCEPT ![c] = k]
  /\ UNCHANGED key

\* Mutant: the whole row is written as it was read.
RecordRow(c) ==
  /\ client[c] # None
  /\ key' = [key EXCEPT ![client[c]].used = TRUE, ![client[c]].active = TRUE]
  /\ client' = [client EXCEPT ![c] = None]

\* record_usage: the changed column alone, or nothing when the commit fails.
\* The endpoint behind require_api_key answers in both cases.
RecordUsage(c) ==
  /\ client[c] # None
  /\ \/ key' = [key EXCEPT ![client[c]].used = TRUE]
     \/ UNCHANGED key
  /\ client' = [client EXCEPT ![c] = None]

\* revoke_key.
Revoke(k) ==
  /\ key[k].exists
  /\ key' = [key EXCEPT ![k].active = FALSE]
  /\ UNCHANGED client

Init ==
  /\ key = [k \in Keys |-> [exists |-> FALSE, active |-> FALSE, used |-> FALSE]]
  /\ client = [c \in Clients |-> None]

Next ==
  \/ \E k \in Keys : Create(k) \/ Revoke(k)
  \/ \E c \in Clients : RecordUsage(c) \/ \E k \in Keys : Verify(c, k)

Spec == Init /\ [][Next]_vars

-----------------------------------------------------------------------------
\* The rows and requests have their types.
TypeOK ==
  /\ key \in [Keys -> [exists : BOOLEAN, active : BOOLEAN, used : BOOLEAN]]
  /\ client \in [Clients -> Keys \cup {None}]

\* A revoked key never works again, although requests that were verified
\* before write its row afterwards.
RevokedStaysRevoked ==
  [][\A k \in Keys : key[k].exists /\ ~key[k].active => ~key'[k].active]_vars
=============================================================================
