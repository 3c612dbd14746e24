----------------------------- MODULE MCAdminJobs -----------------------------
(* Instances of AdminJobs: process p1 may make two threads, p2 one. *)
EXTENDS AdminJobs

CONSTANTS p1, p2, w1, w2, w3

MCProcesses == {p1, p2}
MCWorkers == {w1, w2, w3}
MCProcessOf == [w \in MCWorkers |-> IF w = w3 THEN p2 ELSE p1]
=============================================================================
