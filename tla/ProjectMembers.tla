--------------------------- MODULE ProjectMembers ---------------------------
(***************************************************************************)
(* The users of the installation and the members of one active project.    *)
(* Administrators change both in concurrent requests; each reads a row,    *)
(* passes its guards, and commits if the row has its version still (the    *)
(* model keeps, instead of versions, whether somebody wrote it since).     *)
(***************************************************************************)
EXTENDS Naturals, FiniteSets

CONSTANTS
    User,          \* users of the installation
    Founder,       \* the user of them who created the project, an administrator
    Caller         \* requests under way at once

(* Users are finitely many, and the founder is one. *)
ASSUME MembersAssumption ==
    IsFiniteSet(User) /\ Founder \in User /\ "nobody" \notin User

VARIABLES
    user,          \* users: role and enabled
    member,        \* project_memberships: role, or "none"
    request        \* per caller: what it is about to commit

memberVars == <<user, member, request>>

GlobalRole == {"administrator", "editor", "viewer"}
(* What a project editor or viewer may do is not distinguished. *)
ProjectRole == {"owner", "viewer"}
NoRequest == [op |-> "idle", on |-> "nobody", role |-> "none", enabled |-> TRUE, current |-> TRUE]

(* bootstrap, and the project's first membership: its creator. *)
MembersInit ==
    /\ user = [u \in User |-> [role |-> IF u = Founder THEN "administrator" ELSE "editor",
                               enabled |-> TRUE]]
    /\ member = [u \in User |-> IF u = Founder THEN "owner" ELSE "none"]
    /\ request = [c \in Caller |-> NoRequest]

Idle(c) == request[c] = NoRequest
Doing(c, op) == request[c].op = op
Begins(c, op, u, role, enabled) ==
    request' = [request EXCEPT ![c] = [op |-> op, on |-> u, role |-> role,
                                       enabled |-> enabled, current |-> TRUE]]
Refuse(c) == request' = [request EXCEPT ![c] = NoRequest] /\ UNCHANGED <<user, member>>

(* The row the caller read is written: whoever else read it is late. *)
Written(c, ops) ==
    request' = [b \in Caller |->
        IF b = c THEN NoRequest
        ELSE IF request[b].op \in ops /\ request[b].on = request[c].on
        THEN [request[b] EXCEPT !.current = FALSE] ELSE request[b]]

-----------------------------------------------------------------------------
Enabled(u) == user[u].enabled
Administrators == {u \in User : user[u].role = "administrator" /\ Enabled(u)}
ProjectOwners == {u \in User : member[u] = "owner"}
EnabledOwners == {u \in ProjectOwners : Enabled(u)}
Effective(u) == u \in EnabledOwners /\ user[u].role \in {"administrator", "editor"}

(* patch_user: an owner who would lose effect needs an effective alternative;
   that is looked up here, before the transaction. *)
KeepsOwnership(role, enabled) == enabled /\ role \in {"administrator", "editor"}

BeginPatchUser(c, u, role, enabled) ==
    /\ Idle(c) /\ user[u] # [role |-> role, enabled |-> enabled]
    /\ \/ KeepsOwnership(role, enabled)
       \/ u \notin ProjectOwners
       \/ \E v \in User \ {u} : Effective(v)
    /\ Begins(c, "user", u, role, enabled)
    /\ UNCHANGED <<user, member>>

(* Mutant: the last administrator may be disabled, only not demoted. *)
LastAdministratorDemoted(c) ==
    /\ Administrators = {request[c].on}
    /\ request[c].role # "administrator"

LastAdministrator(c) ==
    /\ Administrators = {request[c].on}
    /\ request[c].role # "administrator" \/ ~request[c].enabled

PatchUser(c) ==
    /\ Doing(c, "user")
    /\ IF request[c].current /\ ~LastAdministrator(c)
       THEN /\ user' = [user EXCEPT ![request[c].on] =
                           [role |-> request[c].role, enabled |-> request[c].enabled]]
            /\ Written(c, {"user"})
            /\ UNCHANGED member
       ELSE Refuse(c)

(* put_membership: only enabled users, and as owners only those whose global
   role admits it, when the request comes in. *)
BeginPutMembership(c, u, role) ==
    /\ Idle(c) /\ Enabled(u)
    /\ role = "owner" => user[u].role \in {"administrator", "editor"}
    /\ Begins(c, "put", u, role, TRUE)
    /\ UNCHANGED <<user, member>>

BeginDeleteMembership(c, u) ==
    /\ Idle(c) /\ member[u] # "none"
    /\ Begins(c, "delete", u, "none", TRUE)
    /\ UNCHANGED <<user, member>>

(* Mutant: the count is off by one. *)
LastOwnerOffByOne(c) ==
    /\ request[c].on \in ProjectOwners /\ request[c].role # "owner"
    /\ Cardinality(EnabledOwners) < 1

(* An owner may only go while two enabled ones are left, in the transaction. *)
LastOwner(c) ==
    /\ request[c].on \in ProjectOwners /\ request[c].role # "owner"
    /\ Cardinality(EnabledOwners) <= 1

PutOrDeleteMembership(c) ==
    /\ Doing(c, "put") \/ Doing(c, "delete")
    /\ IF request[c].current /\ ~LastOwner(c)
       THEN /\ member' = [member EXCEPT ![request[c].on] = request[c].role]
            /\ Written(c, {"put", "delete"})
            /\ UNCHANGED user
       ELSE Refuse(c)

MembersNext ==
    \E c \in Caller :
        \/ \E u \in User :
             \/ \E role \in GlobalRole, enabled \in BOOLEAN : BeginPatchUser(c, u, role, enabled)
             \/ \E role \in ProjectRole : BeginPutMembership(c, u, role)
             \/ BeginDeleteMembership(c, u)
        \/ PatchUser(c) \/ PutOrDeleteMembership(c)

MembersSpec == MembersInit /\ [][MembersNext]_memberVars

-----------------------------------------------------------------------------
(* Users, members and requests hold values the code can write. *)
MembersTypeOK ==
    /\ user \in [User -> [role : GlobalRole, enabled : BOOLEAN]]
    /\ member \in [User -> ProjectRole \cup {"none"}]
    /\ request \in [Caller -> [op : {"idle", "user", "put", "delete"}, on : User \cup {"nobody"},
                               role : GlobalRole \cup ProjectRole \cup {"none"},
                               enabled : BOOLEAN, current : BOOLEAN]]

(* Nobody is locked out: however requests overlap, an enabled administrator is
   left, and the project has an owner (not always an effective one: two
   requests can take the last two of those together). *)
OwnerRemains ==
    /\ Administrators # {}
    /\ ProjectOwners # {}

(* ADR-0016: an active project always keeps an effective owner. *)
EffectiveOwnerRemains == \E u \in User : Effective(u)
=============================================================================
