----------------------------- MODULE Membership -----------------------------
(***************************************************************************)
(* The members of one project and what their roles permit, shared by the   *)
(* modules of the operations that ask.  ProjectService locks the project   *)
(* row for each change, so each is one step.                               *)
(***************************************************************************)
EXTENDS Null

CONSTANT Users

VARIABLES
  role,     \* role[u]: the project_members row of u, None if there is none
  archived  \* projects.archived_at is set

Roles == {"viewer", "editor", "owner"}

ASSUME MemberAssumption == None \notin Roles \cup Users

Permissions ==
  LET write == {"project:read", "conversation:write", "conversation:import",
                "context:propose", "context:review_low_risk", "agent:run"}
  IN [viewer |-> {"project:read"},
      editor |-> write,
      owner  |-> write \cup {"context:approve_high_risk", "member:manage", "project:archive"}]

Authorized(u, permission) ==
  role[u] # None /\ permission \in Permissions[role[u]]

RequireActiveProject == ~archived

-----------------------------------------------------------------------------
\* Mutant: the member to be demoted is counted.
OwnersLeft(u) == {v \in Users : role[v] = "owner"}

OtherOwners(u) == {v \in Users \ {u} : role[v] = "owner"}

ChangeMemberRole(u, target, next) ==
  /\ Authorized(u, "member:manage")
  /\ RequireActiveProject
  /\ role[target] # None
  /\ role[target] = "owner" /\ next # "owner" => OtherOwners(target) # {}
  /\ role' = [role EXCEPT ![target] = next]
  /\ UNCHANGED archived

AddMember(u, target, granted) ==
  /\ Authorized(u, "member:manage")
  /\ RequireActiveProject
  /\ role[target] = None
  /\ role' = [role EXCEPT ![target] = granted]
  /\ UNCHANGED archived

ArchiveProject(u) ==
  /\ Authorized(u, "project:archive")
  /\ archived' = TRUE
  /\ UNCHANGED role

\* ProjectService.create: the creator is the owner.
MembershipInit ==
  /\ \E creator \in Users : role = [u \in Users |-> IF u = creator THEN "owner" ELSE None]
  /\ archived = FALSE

MembershipNext ==
  \/ \E u, target \in Users, next \in Roles : ChangeMemberRole(u, target, next)
  \/ \E u, target \in Users, granted \in Roles : AddMember(u, target, granted)
  \/ \E u \in Users : ArchiveProject(u)

\* A project always has an owner.
HasOwner == \E u \in Users : role[u] = "owner"
=============================================================================
