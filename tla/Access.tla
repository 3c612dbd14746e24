------------------------------- MODULE Access -------------------------------
(***************************************************************************)
(* Who may do what (auth_service.py, auth_dependency_service.py and the    *)
(* routers that take an approval token).  A dual-control operation needs   *)
(* the bearer token of who applies it and an approval token of somebody    *)
(* else, who hands it over.  Tokens are signed, never stored and valid     *)
(* until they expire; the account is read from the database at each use.   *)
(***************************************************************************)
EXTENDS Naturals

CONSTANTS
  People,        \* rows of reviewer_users
  Actions,       \* _DUAL_CONTROL_ACTIONS
  AdminActions,  \* those behind require_admin
  AccessTTL,     \* auth_token_ttl_minutes
  ApprovalTTL    \* _DUAL_CONTROL_TTL_SECONDS

AccessAssumption ==
  /\ AdminActions \subseteq Actions
  /\ AccessTTL \in Nat /\ ApprovalTTL \in Nat

\* Time is what the tokens know of it: an age, which stops one past the
\* lifetime. Of the tokens of one kind the youngest is kept: it is accepted
\* wherever an older one is.
VARIABLES
  people,    \* the accounts
  access,    \* age of each person's youngest bearer token
  approval,  \* age of the youngest approval token, per person and action
  req        \* a dual-control request on its way through router and service

vars == <<people, access, approval, req>>

-----------------------------------------------------------------------------
Roles == {"reviewer", "admin"}
Nobody == "nobody"
AccessGone == AccessTTL + 1
ApprovalGone == ApprovalTTL + 1

\* role is what the dependency was told, truly what the account said then, age
\* that of the approval when it was checked.
NoRequest == [pc |-> "idle", sender |-> Nobody, action |-> Nobody,
              applier |-> Nobody, role |-> Nobody, truly |-> Nobody,
              approver |-> Nobody, age |-> ApprovalGone]

Older(age, gone) == IF age < gone THEN age + 1 ELSE gone

\* _verify_signed_token: exp < now has expired.
Valid(age, ttl) == age <= ttl

May(role, action) == action \in AdminActions => role = "admin"

\* resolve_active_reviewer_id; both roles there are are allowed.
Active(p) == people[p].active

-----------------------------------------------------------------------------
Tick ==
  /\ access' = [p \in People |-> Older(access[p], AccessGone)]
  /\ approval' = [p \in People |-> [a \in Actions |->
                    Older(approval[p][a], ApprovalGone)]]
  /\ UNCHANGED <<people, req>>

\* create_reviewer and bootstrap_reviewer_user: a new role, and active.
SetRole(p, role) ==
  /\ people[p] # [active |-> TRUE, role |-> role]
  /\ people' = [people EXCEPT ![p] = [active |-> TRUE, role |-> role]]
  /\ UNCHANGED <<access, approval, req>>

\* No code deactivates an account: an operator does, in the database.
Deactivate(p) ==
  /\ people[p].active
  /\ people' = [people EXCEPT ![p].active = FALSE]
  /\ UNCHANGED <<access, approval, req>>

\* authenticate_login.
Login(p) ==
  /\ Active(p) /\ access[p] # 0
  /\ access' = [access EXCEPT ![p] = 0]
  /\ UNCHANGED <<people, approval, req>>

\* POST /auth/dual-control-approval-token, with its audit event.
IssueApproval(p, a) ==
  /\ Valid(access[p], AccessTTL) /\ Active(p) /\ approval[p][a] # 0
  /\ approval' = [approval EXCEPT ![p][a] = 0]
  /\ UNCHANGED <<people, access, req>>

-----------------------------------------------------------------------------
\* Mutant: an approval token passes as a bearer token.
BearersAny(s) ==
  {p \in People : \/ p = s /\ Valid(access[p], AccessTTL)
                  \/ \E a \in Actions : Valid(approval[p][a], ApprovalTTL)}

\* The identities that a bearer token in the sender's hands can have: one's own
\* token, since the approval tokens one was given carry a token_use.
Bearers(s) == {p \in People : p = s /\ Valid(access[p], AccessTTL)}

\* _identity_from_payload_subject: the role of the account.
RoleOf(p) == people[p].role

\* get_current_identity and require_admin or require_reviewer_or_admin.
Authenticate(s, p, a) ==
  /\ req.pc \in {"idle", "done"}
  /\ p \in Bearers(s) /\ Active(p) /\ May(RoleOf(p), a)
  /\ req' = [NoRequest EXCEPT !.pc = "approval", !.sender = s, !.action = a,
                !.applier = p, !.role = RoleOf(p), !.truly = people[p].role]
  /\ UNCHANGED <<people, access, approval>>

\* identity_from_dual_control_approval_token: the action is the expected one.
Approves(p, a) == Valid(approval[p][a], ApprovalTTL)

CheckApproval(p) ==
  /\ req.pc = "approval" /\ Approves(p, req.action) /\ Active(p)
  /\ req' = [req EXCEPT !.pc = "service", !.approver = p,
                        !.age = approval[p][req.action]]
  /\ UNCHANGED <<people, access, approval>>

\* A missing, expired or foreign approval token, or an account that is gone.
Refuse ==
  /\ req.pc \in {"approval", "service"}
  /\ req' = NoRequest
  /\ UNCHANGED <<people, access, approval>>

\* The services read both accounts once more and compare them; the write and
\* its audit event are one transaction.
Perform ==
  /\ req.pc = "service" /\ Active(req.applier) /\ Active(req.approver)
  /\ req.applier # req.approver
  /\ req' = [req EXCEPT !.pc = "done"]
  /\ UNCHANGED <<people, access, approval>>

-----------------------------------------------------------------------------
Init ==
  /\ people \in [People -> [active : {TRUE}, role : Roles]]
  /\ access = [p \in People |-> AccessGone]
  /\ approval = [p \in People |-> [a \in Actions |-> ApprovalGone]]
  /\ req = NoRequest

Next ==
  \/ Tick
  \/ \E p \in People, role \in Roles : SetRole(p, role)
  \/ \E p \in People : Deactivate(p) \/ Login(p) \/ CheckApproval(p)
  \/ \E p \in People, a \in Actions : IssueApproval(p, a)
  \/ \E s, p \in People, a \in Actions : Authenticate(s, p, a)
  \/ Refuse \/ Perform

Spec == Init /\ [][Next]_vars

-----------------------------------------------------------------------------
\* The variables have their types.
TypeOK ==
  /\ people \in [People -> [active : BOOLEAN, role : Roles]]
  /\ access \in [People -> 0 .. AccessGone]
  /\ approval \in [People -> [Actions -> 0 .. ApprovalGone]]
  /\ req.pc \in {"idle", "approval", "service", "done"}
  /\ req.age \in 0 .. ApprovalGone

\* However tokens are handed around, and accounts change meanwhile, an operation
\* under dual control takes two people: the one who sends it under an own name
\* and in a role that the account had when the request came in, and another who
\* asked to approve this very action no longer ago than a token lives.
NobodyActsAlone ==
  req.pc = "done" =>
    /\ req.sender = req.applier /\ May(req.truly, req.action)
    /\ req.approver \in People \ {req.applier} /\ req.age <= ApprovalTTL
=============================================================================
