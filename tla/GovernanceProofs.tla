--------------------------- MODULE GovernanceProofs ---------------------------
(***************************************************************************)
(* What governs a project, for any number of users, deliveries, workcells, *)
(* editors and concurrent requests: somebody is left who can administer    *)
(* the installation and who owns the project; deliveries run only on a     *)
(* project that is whole; nobody writes over a revision of a role document *)
(* that he has not seen; the pipeline catalogue publishes what was         *)
(* validated; and calibrations are fair.  The components share no          *)
(* variable; a section for each.                                           *)
(***************************************************************************)
EXTENDS ProjectMembers, ProjectLifecycle, RolePublication, PipelineCatalog, Evaluation,
        FiniteSetTheorems, SequenceTheorems, WellFoundedInduction, TLAPS

-----------------------------------------------------------------------------
(* The users and the members. *)

UserRecord == [role : GlobalRole, enabled : BOOLEAN]
Request == [op : {"idle", "user", "put", "delete"}, on : User \cup {"nobody"},
            role : GlobalRole \cup ProjectRole \cup {"none"},
            enabled : BOOLEAN, current : BOOLEAN]

(* A request is about a user, and carries a role of the kind it changes. *)
RequestsInOrder ==
    \A c \in Caller :
        /\ Doing(c, "user") => request[c].on \in User /\ request[c].role \in GlobalRole
        /\ Doing(c, "put") \/ Doing(c, "delete") =>
             request[c].on \in User /\ request[c].role \in ProjectRole \cup {"none"}

(* The inductive invariant. *)
MembersInv == MembersTypeOK /\ RequestsInOrder /\ OwnerRemains

-----------------------------------------------------------------------------
(* A finite set of more than one member has another one than x. *)
LEMMA AnotherMember ==
    ASSUME NEW S, IsFiniteSet(S), ~(Cardinality(S) <= 1), NEW x
    PROVE  \E y \in S : y # x
<1> SUFFICES ASSUME S \subseteq {x} PROVE FALSE
  OBVIOUS
<1>1. IsFiniteSet({x}) /\ Cardinality({x}) = 1
  BY FS_Singleton
<1>2. Cardinality(S) <= Cardinality({x})
  BY <1>1, FS_Subset
<1>3. QED BY <1>1, <1>2

LEMMA EnabledOwnersFinite == IsFiniteSet(EnabledOwners)
BY MembersAssumption, FS_Subset DEF EnabledOwners, ProjectOwners

LEMMA NoRequestOfAnyKind == NoRequest \in Request /\ NoRequest.op = "idle"
BY DEF NoRequest, Request

-----------------------------------------------------------------------------
(* How requests begin, are refused and make others late.                   *)

LEMMA RequestBegins ==
    ASSUME MembersTypeOK, RequestsInOrder, NEW c \in Caller, NEW u \in User,
           NEW op \in {"user", "put", "delete"}, NEW enabled \in BOOLEAN,
           NEW role \in GlobalRole \cup ProjectRole \cup {"none"},
           op = "user" => role \in GlobalRole,
           op # "user" => role \in ProjectRole \cup {"none"},
           Begins(c, op, u, role, enabled), UNCHANGED <<user, member>>
    PROVE  MembersTypeOK' /\ RequestsInOrder'
<1> DEFINE new == [op |-> op, on |-> u, role |-> role, enabled |-> enabled, current |-> TRUE]
<1>1. request \in [Caller -> Request] /\ request' = [request EXCEPT ![c] = new]
  BY DEF MembersTypeOK, Request, Begins
<1>2. new \in Request
  BY DEF Request
<1>3. new.op = op /\ new.on = u /\ new.role = role
  OBVIOUS
<1> HIDE DEF new
<1>4. request' \in [Caller -> Request]
  BY <1>1, <1>2
<1>5. request'[c] = new /\ \A b \in Caller \ {c} : request'[b] = request[b]
  BY <1>1
<1>6. MembersTypeOK'
  BY <1>4 DEF MembersTypeOK, Request
<1>7. RequestsInOrder'
  BY <1>3, <1>5 DEF RequestsInOrder, Doing
<1>8. QED BY <1>6, <1>7

LEMMA RequestRefused ==
    ASSUME MembersInv, NEW c \in Caller, Refuse(c)
    PROVE  MembersInv'
<1>1. /\ request \in [Caller -> Request] /\ UNCHANGED <<user, member>>
      /\ request' = [request EXCEPT ![c] = NoRequest]
  BY DEF MembersInv, MembersTypeOK, Request, Refuse
<1>2. /\ request' \in [Caller -> Request] /\ request'[c] = NoRequest
      /\ \A b \in Caller \ {c} : request'[b] = request[b]
  BY <1>1, NoRequestOfAnyKind
<1>3. MembersTypeOK'
  BY <1>1, <1>2 DEF MembersInv, MembersTypeOK, Request
<1>4. RequestsInOrder'
  BY <1>2, NoRequestOfAnyKind DEF MembersInv, RequestsInOrder, Doing
<1>5. OwnerRemains'
  BY <1>1 DEF MembersInv, OwnerRemains, Administrators, ProjectOwners, Enabled
<1>6. QED BY <1>3, <1>4, <1>5 DEF MembersInv

LEMMA RequestsLate ==
    ASSUME request \in [Caller -> Request], RequestsInOrder, NEW c \in Caller,
           NEW ops \in SUBSET {"user", "put", "delete"}, Written(c, ops)
    PROVE  request' \in [Caller -> Request] /\ RequestsInOrder'
<1>1. ASSUME NEW b \in Caller
      PROVE  /\ request'[b] \in Request
             /\ request'[b].op # "idle" => /\ request'[b].op = request[b].op
                                           /\ request'[b].on = request[b].on
                                           /\ request'[b].role = request[b].role
  <2>1. \/ request'[b] = NoRequest \/ request'[b] = request[b]
        \/ request'[b] = [request[b] EXCEPT !.current = FALSE]
    BY DEF Written
  <2>2. QED BY <2>1, NoRequestOfAnyKind DEF Request
<1>2. request' \in [Caller -> Request]
  <2>1. request' = [b \in Caller |-> request'[b]]
    BY DEF Written
  <2>2. QED BY <1>1, <2>1
<1>3. RequestsInOrder'
  BY <1>1 DEF RequestsInOrder, Doing
<1>4. QED BY <1>2, <1>3

-----------------------------------------------------------------------------
LEMMA MembersInitially == MembersInit => MembersInv
<1> SUFFICES ASSUME MembersInit PROVE MembersInv
  OBVIOUS
<1>1. Founder \in User /\ user[Founder].role = "administrator" /\ user[Founder].enabled
      /\ member[Founder] = "owner"
  BY MembersAssumption DEF MembersInit
<1>2. MembersTypeOK
  BY NoRequestOfAnyKind DEF MembersInit, MembersTypeOK, GlobalRole, ProjectRole, Request
<1>3. RequestsInOrder
  BY NoRequestOfAnyKind DEF MembersInit, RequestsInOrder, Doing
<1>4. OwnerRemains
  BY <1>1 DEF OwnerRemains, Administrators, ProjectOwners, Enabled
<1>5. QED BY <1>2, <1>3, <1>4 DEF MembersInv

(* The user is not the last administrator, or stays one. *)
LEMMA PatchUserStep ==
    ASSUME MembersInv, NEW c \in Caller, PatchUser(c)
    PROVE  MembersInv'
<1> DEFINE u == request[c].on
           new == [role |-> request[c].role, enabled |-> request[c].enabled]
<1>1. /\ request \in [Caller -> Request] /\ user \in [User -> UserRecord]
      /\ member \in [User -> ProjectRole \cup {"none"}]
  BY DEF MembersInv, MembersTypeOK, Request, UserRecord
<1>2. CASE request[c].current /\ ~LastAdministrator(c)
  <2>1. /\ user' = [user EXCEPT ![u] = new] /\ Written(c, {"user"}) /\ member' = member
        /\ u \in User /\ new \in UserRecord
    <3>1. Doing(c, "user") /\ request[c] \in Request
      BY <1>1 DEF PatchUser
    <3>2. u \in User /\ request[c].role \in GlobalRole /\ request[c].enabled \in BOOLEAN
      BY <3>1 DEF MembersInv, RequestsInOrder, Request
    <3>3. QED BY <1>2, <3>2 DEF PatchUser, UserRecord
  <2>2. request' \in [Caller -> Request] /\ RequestsInOrder'
    BY <1>1, <2>1, RequestsLate DEF MembersInv
  <2>3. user' \in [User -> UserRecord]
    BY <1>1, <2>1
  <2>4. MembersTypeOK'
    BY <1>1, <2>1, <2>2, <2>3 DEF MembersTypeOK, Request, UserRecord
  <2>5. Administrators' # {}
    <3>1. user'[u] = new /\ \A v \in User \ {u} : user'[v] = user[v]
      BY <1>1, <2>1
    <3>2. CASE request[c].role = "administrator" /\ request[c].enabled
      BY <2>1, <3>1, <3>2 DEF Administrators, Enabled
    <3>3. CASE ~(request[c].role = "administrator" /\ request[c].enabled)
      <4>1. Administrators # {u} /\ Administrators # {}
        BY <1>2, <3>3 DEF LastAdministrator, MembersInv, OwnerRemains
      <4>2. PICK v \in Administrators : v # u
        BY <4>1
      <4>3. v \in User /\ user[v].role = "administrator" /\ user[v].enabled
        BY DEF Administrators, Enabled
      <4>4. QED BY <3>1, <4>2, <4>3 DEF Administrators, Enabled
    <3>4. QED BY <3>2, <3>3
  <2>6. ProjectOwners' # {}
    BY <2>1 DEF MembersInv, OwnerRemains, ProjectOwners
  <2>7. QED BY <2>2, <2>4, <2>5, <2>6 DEF MembersInv, OwnerRemains
<1>3. CASE ~(request[c].current /\ ~LastAdministrator(c))
  BY <1>3, RequestRefused DEF PatchUser
<1>4. QED BY <1>2, <1>3

(* The member is no owner, or stays one, or is not the only enabled one. *)
LEMMA MembershipStep ==
    ASSUME MembersInv, NEW c \in Caller, PutOrDeleteMembership(c)
    PROVE  MembersInv'
<1> DEFINE u == request[c].on
<1>1. /\ request \in [Caller -> Request] /\ user \in [User -> UserRecord]
      /\ member \in [User -> ProjectRole \cup {"none"}]
  BY DEF MembersInv, MembersTypeOK, Request, UserRecord
<1>2. u \in User /\ request[c].role \in ProjectRole \cup {"none"}
  BY DEF PutOrDeleteMembership, MembersInv, RequestsInOrder
<1>3. CASE request[c].current /\ ~LastOwner(c)
  <2>1. /\ member' = [member EXCEPT ![u] = request[c].role] /\ user' = user
        /\ Written(c, {"put", "delete"})
    BY <1>3 DEF PutOrDeleteMembership
  <2>2. request' \in [Caller -> Request] /\ RequestsInOrder'
    BY <1>1, <2>1, RequestsLate DEF MembersInv
  <2>3. member' \in [User -> ProjectRole \cup {"none"}]
    BY <1>1, <1>2, <2>1
  <2>4. MembersTypeOK'
    BY <1>1, <2>1, <2>2, <2>3 DEF MembersTypeOK, Request, UserRecord
  <2>5. member'[u] = request[c].role /\ \A v \in User \ {u} : member'[v] = member[v]
    BY <1>1, <1>2, <2>1
  <2>6. ProjectOwners' # {}
    <3>1. CASE request[c].role = "owner"
      BY <1>2, <2>5, <3>1 DEF ProjectOwners
    <3>2. CASE u \notin ProjectOwners
      <4>1. PICK v \in ProjectOwners : TRUE
        BY DEF MembersInv, OwnerRemains
      <4>2. QED BY <2>5, <3>2, <4>1 DEF ProjectOwners
    <3>3. CASE u \in ProjectOwners /\ request[c].role # "owner"
      <4>1. ~(Cardinality(EnabledOwners) <= 1)
        BY <1>3, <3>3 DEF LastOwner
      <4>2. PICK v \in EnabledOwners : v # u
        BY <4>1, EnabledOwnersFinite, AnotherMember
      <4>3. v \in User /\ member[v] = "owner"
        BY DEF EnabledOwners, ProjectOwners
      <4>4. QED BY <2>5, <4>2, <4>3 DEF ProjectOwners
    <3>4. QED BY <3>1, <3>2, <3>3
  <2>7. Administrators' # {}
    BY <2>1 DEF MembersInv, OwnerRemains, Administrators, Enabled
  <2>8. QED BY <2>2, <2>4, <2>6, <2>7 DEF MembersInv, OwnerRemains
<1>4. CASE ~(request[c].current /\ ~LastOwner(c))
  BY <1>4, RequestRefused DEF PutOrDeleteMembership
<1>5. QED BY <1>3, <1>4

LEMMA MembersStep == MembersInv /\ [MembersNext]_memberVars => MembersInv'
<1> SUFFICES ASSUME MembersInv, [MembersNext]_memberVars PROVE MembersInv'
  OBVIOUS
<1>1. ASSUME NEW c \in Caller, NEW u \in User,
             \/ \E role \in GlobalRole, enabled \in BOOLEAN : BeginPatchUser(c, u, role, enabled)
             \/ \E role \in ProjectRole : BeginPutMembership(c, u, role)
             \/ BeginDeleteMembership(c, u)
      PROVE  MembersInv'
  <2>1. UNCHANGED <<user, member>>
    BY <1>1 DEF BeginPatchUser, BeginPutMembership, BeginDeleteMembership
  <2>2. PICK op \in {"user", "put", "delete"}, enabled \in BOOLEAN,
             role \in GlobalRole \cup ProjectRole \cup {"none"} :
          /\ Begins(c, op, u, role, enabled)
          /\ op = "user" => role \in GlobalRole
          /\ op # "user" => role \in ProjectRole \cup {"none"}
    BY <1>1 DEF BeginPatchUser, BeginPutMembership, BeginDeleteMembership
  <2>3. MembersTypeOK' /\ RequestsInOrder'
    BY <2>1, <2>2, RequestBegins DEF MembersInv
  <2>4. OwnerRemains'
    BY <2>1 DEF MembersInv, OwnerRemains, Administrators, ProjectOwners, Enabled
  <2>5. QED BY <2>3, <2>4 DEF MembersInv
<1>2. ASSUME NEW c \in Caller, PatchUser(c) PROVE MembersInv'
  BY <1>2, PatchUserStep
<1>3. ASSUME NEW c \in Caller, PutOrDeleteMembership(c) PROVE MembersInv'
  BY <1>3, MembershipStep
<1>4. CASE UNCHANGED memberVars
  BY <1>4 DEF memberVars, MembersInv, MembersTypeOK, RequestsInOrder, Doing, OwnerRemains,
              Administrators, ProjectOwners, Enabled
<1>5. QED BY <1>1, <1>2, <1>3, <1>4 DEF MembersNext

(* Users, members and requests hold values the code can write. *)
THEOREM MembersTypeCorrect == MembersSpec => []MembersTypeOK
<1>1. MembersInv => MembersTypeOK
  BY DEF MembersInv
<1>2. QED BY <1>1, MembersInitially, MembersStep, PTL DEF MembersSpec

(* Nobody is locked out: an enabled administrator and an owner of the project
   are left, however many requests overlap. *)
THEOREM SomebodyRemains == MembersSpec => []OwnerRemains
<1>1. MembersInv => OwnerRemains
  BY DEF MembersInv
<1>2. QED BY <1>1, MembersInitially, MembersStep, PTL DEF MembersSpec

-----------------------------------------------------------------------------
(* The project.  Its row is written by version, so who has claimed a version
   knows the status that goes with it; one request at most is making the
   project's workspace (OneMaker), and it finds no team. *)

Status == {"absent", "provisioning", "provision_failed", "active", "archived"}
Call == [op : Op, seen : Nat, on : Requested \cup Workcell \cup Status \cup {Unset}]
Bound == [status : {"pending", "ready", "failed"}, profile : BOOLEAN, version : 0..MaxSite]
Making == {"bindTeam", "provision", "activate", "giveUp", "rewrite"}
Claiming == Making \cup {"retry", "patch", "archive"}

(* What a request knows of the project p, its workspace w and its team t. *)
CallInOrder(k, p, w, t) ==
    /\ k.op \in Claiming => k.seen <= p.version
    /\ k.op = "retry" /\ k.seen = p.version => p.status = "provision_failed"
    /\ k.op = "patch" =>
          /\ k.on \in Status \ {"absent"}
          /\ k.seen = p.version => k.on = p.status
    /\ k.op = "admit" => k.on \in Requested
    /\ k.op \in {"verify", "qualify"} => k.seen < MaxSite
    /\ k.op = "activate" => w = "ready"
    /\ k.op \in Making => p.status \in {"provisioning", "archived"} /\ t = Unset

CallsInOrder == \A c \in Requester : CallInOrder(call[c], project, workspace, team)

OneMaker == \A b, c \in Requester : call[b].op \in Making /\ call[c].op \in Making => b = c

ProjectIsFresh ==
    /\ project.status = "absent" => project.version = 0 /\ team = Unset
    /\ project.status = "provision_failed" => team = Unset

UnboundHasNoProfile == \A w \in Workcell : site[w].status = "unbound" => ~site[w].profile

(* A binding that a request has looked at is there. *)
SitesAreBound ==
    \A c \in Requester : call[c].op \in {"verify", "qualify"} =>
        call[c].on \in Workcell /\ site[call[c].on].status # "unbound"

LifecycleRows ==
    /\ project \in [status : Status, version : Nat]
    /\ workspace \in {Unset, "provisioning", "ready", "failed"}
    /\ team \in {Unset, "provisioning", "active"}
    /\ site \in [Workcell -> [status : {"unbound", "pending", "ready", "failed"},
                              profile : BOOLEAN, version : 0..MaxSite]]
    /\ holder \in Requested \cup {Unset}
    /\ deliveries \in [Requested -> {"absent", "over"} \cup Underway]
    /\ onboarding \in [status : {"absent", "setup", "in_evaluation", "ready"},
                       by : Requested \cup {Unset}]

LifecycleInv ==
    /\ LifecycleRows /\ call \in [Requester -> Call]
    /\ CallsInOrder /\ OneMaker /\ ProjectIsFresh /\ UnboundHasNoProfile /\ SitesAreBound
    /\ ProjectInOrder

LEMMA CallKept ==
    ASSUME NEW k \in Call, NEW p, NEW w, NEW t, NEW p2, NEW w2, NEW t2,
           CallInOrder(k, p, w, t), p.version \in Nat,
           p2 = p \/ p2.version = p.version + 1,
           k.op \in Making => p2.status \in {"provisioning", "archived"} /\ t2 = Unset,
           k.op = "activate" => w2 = w
    PROVE  CallInOrder(k, p2, w2, t2)
<1>1. k.seen \in Nat
  BY DEF Call
<1>2. CASE p2 = p
  BY <1>2 DEF CallInOrder
<1>3. CASE p2.version = p.version + 1
  <2>1. k.op \in Claiming => k.seen <= p2.version /\ k.seen # p2.version
    BY <1>1, <1>3 DEF CallInOrder
  <2>2. QED BY <2>1 DEF CallInOrder, Claiming
<1>4. QED BY <1>2, <1>3

(* A request c goes on as k; the others stay. *)
LEMMA CallerStep ==
    ASSUME LifecycleInv, NEW c \in Requester, NEW k \in Call,
           call' = [call EXCEPT ![c] = k], LifecycleRows',
           CallInOrder(k, project', workspace', team'),
           project' = project \/ project'.version = project.version + 1,
           \A b \in Requester \ {c} : call[b].op \in Making =>
              /\ project'.status \in {"provisioning", "archived"}
              /\ team' = Unset /\ workspace' = workspace,
           k.op \in Making => \A b \in Requester \ {c} : call[b].op \notin Making,
           \A w \in Workcell : site[w].status # "unbound" => site'[w].status # "unbound",
           k.op \in {"verify", "qualify"} => k.on \in Workcell /\ site'[k.on].status # "unbound",
           ProjectIsFresh', UnboundHasNoProfile', ProjectInOrder'
    PROVE  LifecycleInv'
<1>1. call' \in [Requester -> Call]
  BY DEF LifecycleInv
<1>2. /\ call'[c] = k
      /\ \A b \in Requester \ {c} : call'[b] = call[b] /\ call[b] \in Call
  BY DEF LifecycleInv
<1>3. ASSUME NEW b \in Requester PROVE CallInOrder(call'[b], project', workspace', team')
  <2>1. CASE b = c
    BY <1>2, <2>1
  <2>2. CASE b # c
    <3>1. /\ call[b] \in Call /\ call'[b] = call[b] /\ project.version \in Nat
          /\ CallInOrder(call[b], project, workspace, team)
      BY <1>2, <2>2 DEF LifecycleInv, LifecycleRows, CallsInOrder
    <3>2. "activate" \in Making
      BY DEF Making
    <3>3. QED BY <2>2, <3>1, <3>2, CallKept
  <2>3. QED BY <2>1, <2>2
<1>4. OneMaker'
  BY <1>2 DEF LifecycleInv, OneMaker
<1>5. SitesAreBound'
  BY <1>2 DEF LifecycleInv, SitesAreBound
<1>6. QED BY <1>1, <1>3, <1>4, <1>5 DEF LifecycleInv, CallsInOrder

(* The same, of a request that makes nothing and does not touch the project. *)
LEMMA QuietStep ==
    ASSUME LifecycleInv, NEW c \in Requester, NEW k \in Call,
           call' = [call EXCEPT ![c] = k], LifecycleRows', k.op \notin Making,
           CallInOrder(k, project, workspace, team),
           \A w \in Workcell : site[w].status # "unbound" => site'[w].status # "unbound",
           k.op \in {"verify", "qualify"} => k.on \in Workcell /\ site'[k.on].status # "unbound",
           UNCHANGED <<project, workspace, team>>, UnboundHasNoProfile', ProjectInOrder'
    PROVE  LifecycleInv'
<1>1. \A b \in Requester : call[b].op \in Making =>
         /\ project.status \in {"provisioning", "archived"} /\ team = Unset
  BY DEF LifecycleInv, CallsInOrder, CallInOrder
<1>2. ProjectIsFresh'
  BY DEF LifecycleInv, ProjectIsFresh
<1>3. QED BY <1>1, <1>2, CallerStep

(* Requests that do nothing more, or begin. *)
LEMMA Idling ==
    /\ NoCall \in Call /\ NoCall.op \notin Making \cup {"verify", "qualify"}
    /\ \A p, w, t : CallInOrder(NoCall, p, w, t)
BY DEF NoCall, Call, Op, Making, Claiming, CallInOrder

LEMMA Unmoved ==
    ASSUME LifecycleInv, UNCHANGED rows
    PROVE  LifecycleRows' /\ ProjectIsFresh' /\ UnboundHasNoProfile' /\ ProjectInOrder'
BY DEF LifecycleInv, rows, LifecycleRows, ProjectIsFresh, UnboundHasNoProfile, ProjectInOrder

-----------------------------------------------------------------------------
(* Requests that write the project. *)

LEMMA CallGoesOn ==
    ASSUME NEW k \in Call, NEW op \in Op
    PROVE  LET next == [k EXCEPT !.op = op, !.seen = @ + 1] IN
           next \in Call /\ next.op = op /\ next.seen = k.seen + 1
<1> DEFINE once == [k EXCEPT !.op = op]
           next == [once EXCEPT !.seen = k.seen + 1]
<1>1. once \in Call /\ once.op = op /\ once.seen = k.seen
  BY DEF Call
<1> HIDE DEF once
<1>2. next \in Call /\ next.op = op /\ next.seen = k.seen + 1
  BY <1>1 DEF Call
<1>3. [k EXCEPT !.op = op, !.seen = @ + 1] = next
  BY DEF once, Call
<1>4. QED BY <1>2, <1>3

(* update_project: a claim that went through, or one that came late. *)
LEMMA UpdateKeeps ==
    ASSUME LifecycleInv, NEW c \in Requester, NEW status \in Status \ {"absent"}, NEW next \in Op,
           UpdateProject(c, status, next),
           UNCHANGED <<workspace, team, site, holder, deliveries, onboarding>>,
           call[c].op \in Claiming, next \in {"idle", "rewrite"},
           call[c].seen = project.version =>
              /\ status = "active" => workspace = "ready" /\ team # "provisioning"
              /\ status = "provision_failed" => team = Unset /\ holder = Unset
              /\ status = "provisioning" => holder = Unset
              /\ next = "rewrite" => status = "provisioning" /\ team = Unset
              /\ (\E b \in Requester \ {c} : call[b].op \in Making) =>
                    status \in {"provisioning", "archived"} /\ next # "rewrite"
    PROVE  LifecycleInv'
<1>1. call[c] \in Call /\ project \in [status : Status, version : Nat]
  BY DEF LifecycleInv, LifecycleRows
<1>2. CASE ~MayBecome(c, status)
  <2>1. call' = [call EXCEPT ![c] = NoCall] /\ UNCHANGED rows
    BY <1>2 DEF UpdateProject, Returns, rows
  <2>2. QED BY <2>1, Idling, Unmoved, QuietStep DEF rows
<1>3. CASE MayBecome(c, status)
  <2>1. call[c].seen = project.version /\ (status = "archived" => holder = Unset)
    BY <1>3 DEF MayBecome
  <2>2. /\ project'.status = status /\ project'.version = project.version + 1
        /\ project' \in [status : Status, version : Nat]
    BY <1>1, <1>3 DEF UpdateProject, Become
  <2>3. PICK k \in Call :
           /\ call' = [call EXCEPT ![c] = k]
           /\ \/ k = NoCall /\ next = "idle"
              \/ k.op = next /\ k.seen = call[c].seen + 1
    <3>1. CASE next = "idle"
      <4>1. call' = [call EXCEPT ![c] = NoCall]
        BY <1>3, <3>1 DEF UpdateProject, Returns
      <4>2. QED BY <3>1, <4>1, Idling
    <3>2. CASE next # "idle"
      <4> DEFINE k == [call[c] EXCEPT !.op = next, !.seen = @ + 1]
      <4>1. k \in Call /\ k.op = next /\ k.seen = call[c].seen + 1
        BY <1>1, CallGoesOn
      <4>2. call' = [call EXCEPT ![c] = k]
        BY <1>3, <3>2 DEF UpdateProject
      <4>3. QED BY <4>1, <4>2
    <3>3. QED BY <3>1, <3>2
  <2>4. LifecycleRows' /\ UnboundHasNoProfile'
    BY <2>2 DEF LifecycleInv, LifecycleRows, UnboundHasNoProfile
  <2>5. ProjectInOrder'
    BY <2>1, <2>2 DEF LifecycleInv, ProjectInOrder, Status
  <2>6. ProjectIsFresh'
    BY <2>1, <2>2 DEF ProjectIsFresh
  <2>7. CallInOrder(k, project', workspace', team')
    BY <1>1, <2>1, <2>2, <2>3, Idling DEF CallInOrder, Claiming, Making, Call
  <2>8. ASSUME NEW b \in Requester \ {c}, call[b].op \in Making
        PROVE  /\ project'.status \in {"provisioning", "archived"} /\ team' = Unset
               /\ next # "rewrite"
    BY <2>1, <2>2, <2>8 DEF LifecycleInv, CallsInOrder, CallInOrder
  <2>9. k.op \in Making => next = "rewrite"
    BY <2>3, Idling DEF Making
  <2>10. k.op \notin {"verify", "qualify"}
    BY <2>3, Idling
  <2>11. /\ project' = project \/ project'.version = project.version + 1
         /\ \A b \in Requester \ {c} : call[b].op \in Making =>
               /\ project'.status \in {"provisioning", "archived"}
               /\ team' = Unset /\ workspace' = workspace
    BY <2>2, <2>8
  <2>12. k.op \in Making => \A b \in Requester \ {c} : call[b].op \notin Making
    BY <2>8, <2>9
  <2>13. QED
    BY <2>3, <2>4, <2>5, <2>6, <2>7, <2>10, <2>11, <2>12, CallerStep
<1>4. QED BY <1>2, <1>3

LEMMA Alone ==
    ASSUME LifecycleInv, NEW c \in Requester, call[c].op \in Making
    PROVE  /\ project.status \in {"provisioning", "archived"} /\ team = Unset /\ holder = Unset
           /\ call[c].seen <= project.version /\ call[c] \in Call
           /\ \A b \in Requester \ {c} : call[b].op \notin Making
BY DEF LifecycleInv, CallsInOrder, CallInOrder, OneMaker, ProjectInOrder, Claiming

LEMMA CreateKeeps ==
    ASSUME LifecycleInv, NEW c \in Requester, NEW workcells \in BOOLEAN, NEW guided \in BOOLEAN,
           Create(c, workcells, guided)
    PROVE  LifecycleInv'
<1> DEFINE k == [op |-> IF workcells THEN "bindTeam" ELSE "provision", seen |-> 1, on |-> Unset]
<1>1. /\ call' = [call EXCEPT ![c] = k] /\ project.status = "absent" /\ project.version = 0
      /\ team = Unset /\ holder = Unset
      /\ project' = [status |-> "provisioning", version |-> 1]
      /\ UNCHANGED <<team, site, holder, deliveries>>
  BY DEF Create, BeginsCall, Become, LifecycleInv, ProjectIsFresh, ProjectInOrder
<1>2. k \in Call /\ k.op \in {"bindTeam", "provision"} /\ k.seen = 1
  BY DEF Call, Op
<1>3. LifecycleRows'
  BY <1>1 DEF Create, LifecycleInv, LifecycleRows, Status
<1>4. CallInOrder(k, project', workspace', team')
  BY <1>1, <1>2 DEF CallInOrder, Claiming, Making
<1>5. \A b \in Requester : call[b].op \notin Making
  BY <1>1, Alone
<1> HIDE DEF k
<1>6. ProjectIsFresh' /\ UnboundHasNoProfile' /\ ProjectInOrder'
  BY <1>1 DEF LifecycleInv, ProjectIsFresh, UnboundHasNoProfile, ProjectInOrder
<1>7. k.op \notin {"verify", "qualify"} /\ project'.version = project.version + 1
  BY <1>1, <1>2
<1>8. /\ \A b \in Requester \ {c} : call[b].op \notin Making
      /\ \A w \in Workcell : site'[w].status = site[w].status
  BY <1>1, <1>5
<1>9. QED BY <1>1, <1>2, <1>3, <1>4, <1>6, <1>7, <1>8, CallerStep

(* A maker goes on, alone, and writes what is there of workspace and team. *)
LEMMA MakerStep ==
    ASSUME LifecycleInv, NEW c \in Requester, call[c].op \in Making, NEW k \in Call,
           call' = [call EXCEPT ![c] = k], k.op \in Making => k.seen = call[c].seen,
           k.op \in Making \/ k = NoCall,
           k.op \in Making => team' = Unset, k.op = "activate" => workspace' = "ready",
           workspace' \in {Unset, "provisioning", "ready", "failed"},
           team' \in {Unset, "provisioning", "active"},
           UNCHANGED <<project, site, holder, deliveries, onboarding>>
    PROVE  LifecycleInv'
<1>1. /\ project.status \in {"provisioning", "archived"} /\ holder = Unset
      /\ call[c].seen <= project.version
      /\ \A b \in Requester \ {c} : call[b].op \notin Making
  BY Alone
<1>2. CallInOrder(k, project', workspace', team')
  <2>1. CASE k = NoCall
    BY <2>1, Idling
  <2>2. CASE k.op \in Making
    BY <1>1, <2>2 DEF CallInOrder, Making, Claiming
  <2>3. QED BY <2>1, <2>2
<1>3. LifecycleRows'
  BY DEF LifecycleInv, LifecycleRows
<1>4. ProjectIsFresh' /\ UnboundHasNoProfile' /\ ProjectInOrder'
  BY <1>1 DEF LifecycleInv, ProjectIsFresh, UnboundHasNoProfile, ProjectInOrder
<1>5. k.op \notin {"verify", "qualify"}
  BY Idling DEF Making
<1>6. QED BY <1>1, <1>2, <1>3, <1>4, <1>5, CallerStep

LEMMA MakingKeeps ==
    ASSUME LifecycleInv, NEW c \in Requester,
           BindTeam(c) \/ Provision(c) \/ Provisioned(c)
    PROVE  LifecycleInv'
<1>1. CASE BindTeam(c)
  <2>1. call[c].op \in Making /\ call' = [call EXCEPT ![c] = NoCall]
    BY <1>1 DEF BindTeam, Does, Returns, Making
  <2>2. /\ workspace' \in {Unset, "provisioning", "ready", "failed"}
        /\ team' \in {Unset, "provisioning", "active"}
    BY <1>1 DEF BindTeam, LifecycleInv, LifecycleRows
  <2>3. UNCHANGED <<project, workspace, site, holder, deliveries, onboarding>>
    BY <1>1 DEF BindTeam
  <2>4. "activate" \in Making /\ NoCall \in Call /\ NoCall.op \notin Making
    BY Idling DEF Making
  <2>5. QED BY <2>1, <2>2, <2>3, <2>4, MakerStep
<1>2. CASE Provision(c)
  <2>1. call[c].op \in Making /\ call[c] \in Call /\ team = Unset
    BY <1>2, Alone DEF Provision, Does, Making
  <2>2. PICK op \in {"activate", "giveUp"} :
           /\ call' = [call EXCEPT ![c].op = op]
           /\ workspace' = IF op = "activate" THEN "ready" ELSE "failed"
    BY <1>2 DEF Provision, Goes
  <2> DEFINE k == [call[c] EXCEPT !.op = op]
  <2>3. k \in Call /\ k.op = op /\ k.seen = call[c].seen
    BY <2>1 DEF Call, Op
  <2>4. call' = [call EXCEPT ![c] = k]
    BY <2>2
  <2>5. UNCHANGED <<project, team, site, holder, deliveries, onboarding>>
    BY <1>2 DEF Provision
  <2> HIDE DEF k
  <2>6. /\ k.op \in Making /\ (k.op = "activate" => workspace' = "ready")
        /\ workspace' \in {Unset, "provisioning", "ready", "failed"}
        /\ team' \in {Unset, "provisioning", "active"}
    BY <2>1, <2>2, <2>3, <2>5 DEF Making
  <2>7. QED BY <2>1, <2>3, <2>4, <2>5, <2>6, MakerStep
<1>3. CASE Provisioned(c)
  <2>1. /\ call[c].op \in Making /\ call[c].op \in Claiming /\ "idle" \in Op
        /\ {"active", "provision_failed"} \subseteq Status \ {"absent"}
    BY <1>3 DEF Provisioned, Does, Making, Claiming, Op, Status
  <2>2. /\ team = Unset /\ holder = Unset
        /\ \A b \in Requester \ {c} : call[b].op \notin Making
    BY <2>1, Alone
  <2>3. CASE Does(c, "activate") /\ UpdateProject(c, "active", "idle")
    <3>1. workspace = "ready"
      BY <2>3 DEF Does, LifecycleInv, CallsInOrder, CallInOrder
    <3>2. QED BY <1>3, <2>1, <2>2, <2>3, <3>1, UpdateKeeps DEF Provisioned, Unset
  <2>4. CASE UpdateProject(c, "provision_failed", "idle")
    BY <1>3, <2>1, <2>2, <2>4, UpdateKeeps DEF Provisioned
  <2>5. QED BY <1>3, <2>3, <2>4 DEF Provisioned
<1>4. QED BY <1>1, <1>2, <1>3
LEMMA BeginKeeps ==
    ASSUME LifecycleInv, NEW c \in Requester, NEW op \in Op, NEW seen \in Nat,
           NEW on \in Requested \cup Workcell \cup Status \cup {Unset},
           BeginsCall(c, op, seen, on), UNCHANGED rows, op \notin Making,
           CallInOrder([op |-> op, seen |-> seen, on |-> on], project, workspace, team),
           op \in {"verify", "qualify"} => on \in Workcell /\ site[on].status # "unbound"
    PROVE  LifecycleInv'
<1> DEFINE k == [op |-> op, seen |-> seen, on |-> on]
<1>1. k \in Call /\ k.op = op /\ k.on = on
  BY DEF Call
<1>2. call' = [call EXCEPT ![c] = k] /\ CallInOrder(k, project, workspace, team)
  BY DEF BeginsCall
<1> HIDE DEF k
<1>3. LifecycleRows' /\ UnboundHasNoProfile' /\ ProjectInOrder'
  BY Unmoved
<1>4. UNCHANGED <<project, workspace, team, site>>
  BY DEF rows
<1>5. QED BY <1>1, <1>2, <1>3, <1>4, QuietStep

LEMMA RetryKeeps ==
    ASSUME LifecycleInv, NEW c \in Requester, RetryWorkspace(c)
    PROVE  LifecycleInv'
<1>1. CASE BeginsCall(c, "retry", project.version, Unset) /\ project.status = "provision_failed"
           /\ UNCHANGED <<project, workspace>>
  <2>1. UNCHANGED rows /\ project.version \in Nat /\ "retry" \in Op \ Making
    BY <1>1 DEF RetryWorkspace, rows, LifecycleInv, LifecycleRows, Op, Making
  <2>2. CallInOrder([op |-> "retry", seen |-> project.version, on |-> Unset],
                    project, workspace, team)
    BY <1>1, <2>1 DEF CallInOrder, Making
  <2>3. QED BY <1>1, <2>1, <2>2, BeginKeeps
<1>2. CASE Does(c, "retry") /\ UpdateProject(c, "provisioning", "rewrite") /\ UNCHANGED workspace
  <2>1. call[c].op \in Claiming /\ "provisioning" \in Status \ {"absent"} /\ "rewrite" \in Op
    BY <1>2 DEF Does, Claiming, Status, Op
  <2>2. call[c].seen = project.version => project.status = "provision_failed"
    BY <1>2 DEF Does, LifecycleInv, CallsInOrder, CallInOrder
  <2>3. project.status = "provision_failed" =>
          /\ holder = Unset /\ team = Unset
          /\ \A b \in Requester \ {c} : call[b].op \notin Making
    BY Alone DEF LifecycleInv, ProjectInOrder, ProjectIsFresh
  <2>4. UNCHANGED <<workspace, team, site, holder, deliveries, onboarding>>
    BY <1>2 DEF RetryWorkspace
  <2>5. QED BY <1>2, <2>1, <2>2, <2>3, <2>4, UpdateKeeps
<1>3. CASE Does(c, "rewrite") /\ workspace' = "provisioning" /\ Goes(c, "provision")
           /\ UNCHANGED project
  <2>1. call[c].op \in Making /\ call[c] \in Call /\ team = Unset
    BY <1>3, Alone DEF Does, Making
  <2> DEFINE k == [call[c] EXCEPT !.op = "provision"]
  <2>2. k \in Call /\ k.op = "provision" /\ k.seen = call[c].seen
    BY <2>1 DEF Call, Op
  <2>3. call' = [call EXCEPT ![c] = k]
    BY <1>3 DEF Goes
  <2> HIDE DEF k
  <2>4. UNCHANGED <<project, team, site, holder, deliveries, onboarding>>
    BY <1>3 DEF RetryWorkspace
  <2>5. "provision" \in Making
    BY DEF Making
  <2>6. QED BY <1>3, <2>1, <2>2, <2>3, <2>4, <2>5, MakerStep
<1>4. QED BY <1>1, <1>2, <1>3 DEF RetryWorkspace

LEMMA PatchKeeps ==
    ASSUME LifecycleInv, NEW c \in Requester, Patch(c)
    PROVE  LifecycleInv'
<1>1. CASE BeginsCall(c, "patch", project.version, project.status)
           /\ project.status \notin {"absent", "archived"} /\ UNCHANGED project
  <2>1. UNCHANGED rows /\ project.version \in Nat /\ "patch" \in Op \ Making
        /\ project.status \in Status
    BY <1>1 DEF Patch, rows, LifecycleInv, LifecycleRows, Op, Making
  <2>2. CallInOrder([op |-> "patch", seen |-> project.version, on |-> project.status],
                    project, workspace, team)
    BY <1>1, <2>1 DEF CallInOrder, Making
  <2>3. QED BY <1>1, <2>1, <2>2, BeginKeeps
<1>2. CASE Does(c, "patch") /\ UpdateProject(c, call[c].on, "idle")
  <2>1. /\ call[c].op \in Claiming /\ "idle" \in Op
        /\ call[c].on \in Status \ {"absent"}
        /\ call[c].seen = project.version => call[c].on = project.status
    BY <1>2 DEF Does, LifecycleInv, CallsInOrder, CallInOrder, Claiming, Op
  <2>2. /\ project.status = "active" => workspace = "ready" /\ team # "provisioning"
        /\ project.status = "provision_failed" => team = Unset /\ holder = Unset
        /\ project.status = "provisioning" => holder = Unset
        /\ (\E b \in Requester \ {c} : call[b].op \in Making) =>
              project.status \in {"provisioning", "archived"}
    BY Alone DEF LifecycleInv, ProjectInOrder, ProjectIsFresh
  <2>3. UNCHANGED <<workspace, team, site, holder, deliveries, onboarding>>
    BY <1>2 DEF Patch
  <2> DEFINE status == call[c].on
  <2>4. /\ status \in Status \ {"absent"} /\ UpdateProject(c, status, "idle")
        /\ call[c].seen = project.version => status = project.status
    BY <1>2, <2>1
  <2> HIDE DEF status
  <2>5. QED BY <2>1, <2>2, <2>3, <2>4, UpdateKeeps
<1>3. QED BY <1>1, <1>2 DEF Patch

LEMMA ArchiveKeeps ==
    ASSUME LifecycleInv, NEW c \in Requester, Archive(c)
    PROVE  LifecycleInv'
<1>1. CASE BeginsCall(c, "archive", project.version, Unset) /\ UNCHANGED project
  <2>1. UNCHANGED rows /\ project.version \in Nat /\ "archive" \in Op \ Making
    BY <1>1 DEF Archive, rows, LifecycleInv, LifecycleRows, Op, Making
  <2>2. CallInOrder([op |-> "archive", seen |-> project.version, on |-> Unset],
                    project, workspace, team)
    BY <1>1, <2>1 DEF CallInOrder, Making
  <2>3. QED BY <1>1, <2>1, <2>2, BeginKeeps
<1>2. CASE Does(c, "archive") /\ UpdateProject(c, "archived", "idle")
  <2>1. call[c].op \in Claiming /\ "idle" \in Op /\ "archived" \in Status \ {"absent"}
    BY <1>2 DEF Does, Claiming, Op, Status
  <2>2. UNCHANGED <<workspace, team, site, holder, deliveries, onboarding>>
    BY <1>2 DEF Archive
  <2>3. QED BY <1>2, <2>1, <2>2, UpdateKeeps
<1>3. QED BY <1>1, <1>2 DEF Archive
-----------------------------------------------------------------------------
(* Deliveries, the team, and a restart. *)

LEMMA PrepareKeeps ==
    ASSUME LifecycleInv, NEW c \in Requester, NEW d \in Requested, NEW evaluation \in BOOLEAN,
           PrepareDelivery(c, d, evaluation)
    PROVE  LifecycleInv'
<1> DEFINE seen == IF evaluation THEN 1 ELSE 0
<1>1. BeginsCall(c, "admit", seen, d) /\ UNCHANGED rows /\ seen \in Nat /\ "admit" \in Op \ Making
  BY DEF PrepareDelivery, Op, Making
<1> HIDE DEF seen
<1>2. CallInOrder([op |-> "admit", seen |-> seen, on |-> d], project, workspace, team)
  BY DEF CallInOrder, Making, Claiming
<1>3. QED BY <1>1, <1>2, BeginKeeps

LEMMA AdmitKeeps ==
    ASSUME LifecycleInv, NEW c \in Requester, AdmitDelivery(c)
    PROVE  LifecycleInv'
<1>1. call[c].on \in Requested /\ call' = [call EXCEPT ![c] = NoCall]
      /\ UNCHANGED <<project, workspace, team, site>>
  BY DEF AdmitDelivery, Does, Returns, LifecycleInv, CallsInOrder, CallInOrder
<1> DEFINE d == call[c].on
<1>2. \/ UNCHANGED <<holder, deliveries, onboarding>>
      \/ /\ Admissible /\ holder' = d /\ deliveries' = [deliveries EXCEPT ![d] = "working"]
         /\ onboarding' \in {onboarding, [status |-> "in_evaluation", by |-> d]}
  BY DEF AdmitDelivery
<1> HIDE DEF d
<1>3. LifecycleRows'
  BY <1>1, <1>2 DEF LifecycleInv, LifecycleRows, Underway, d
<1>4. ProjectInOrder' /\ UnboundHasNoProfile'
  BY <1>1, <1>2, LifecycleAssumption DEF LifecycleInv, LifecycleRows, ProjectInOrder,
     Admissible, Underway, UnboundHasNoProfile, d
<1>5. QED BY <1>1, <1>3, <1>4, Idling, QuietStep

LEMMA CompleteKeeps ==
    ASSUME LifecycleInv, NEW c \in Requester, CompleteOnboarding(c)
    PROVE  LifecycleInv'
<1>1. CASE BeginsCall(c, "complete", 0, Unset) /\ UNCHANGED onboarding
  <2>1. UNCHANGED rows /\ "complete" \in Op \ Making
    BY <1>1 DEF CompleteOnboarding, rows, Op, Making
  <2>2. CallInOrder([op |-> "complete", seen |-> 0, on |-> Unset], project, workspace, team)
    BY DEF CallInOrder, Making, Claiming
  <2>3. QED BY <1>1, <2>1, <2>2, BeginKeeps
<1>2. CASE Returns(c) /\ onboarding' \in {onboarding, [onboarding EXCEPT !.status = "ready"]}
  <2>1. UNCHANGED <<project, workspace, team, site, holder, deliveries>>
    BY <1>2 DEF CompleteOnboarding
  <2>2. LifecycleRows' /\ UnboundHasNoProfile' /\ ProjectInOrder'
    BY <1>2, <2>1 DEF LifecycleInv, LifecycleRows, UnboundHasNoProfile, ProjectInOrder
  <2>3. QED BY <1>2, <2>1, <2>2, Idling, QuietStep DEF Returns
<1>3. QED BY <1>1, <1>2 DEF CompleteOnboarding

(* A request writes one workspace binding and returns. *)
LEMMA SiteStep ==
    ASSUME LifecycleInv, NEW c \in Requester, NEW w \in Workcell, Returns(c),
           NEW row \in Bound,
           site' = site \/ site' = [site EXCEPT ![w] = row],
           UNCHANGED <<project, workspace, team, holder, deliveries, onboarding>>
    PROVE  LifecycleInv'
<1>1. \A v \in Workcell : site'[v] = site[v] \/ site'[v] = row
  BY DEF LifecycleInv, LifecycleRows
<1>2. LifecycleRows'
  BY DEF LifecycleInv, LifecycleRows, Bound
<1>3. UnboundHasNoProfile'
  BY <1>1 DEF LifecycleInv, UnboundHasNoProfile, Bound
<1>4. ProjectInOrder'
  BY DEF LifecycleInv, ProjectInOrder
<1>5. \A v \in Workcell : site[v].status # "unbound" => site'[v].status # "unbound"
  BY <1>1 DEF Bound
<1>6. QED BY <1>2, <1>3, <1>4, <1>5, Idling, QuietStep DEF Returns

LEMMA LookKeeps ==
    ASSUME LifecycleInv, NEW c \in Requester, NEW w \in Workcell,
           NEW op \in {"verify", "qualify"}, Looks(c, op, w), UNCHANGED rows
    PROVE  LifecycleInv'
<1> DEFINE seen == site[w].version
<1>1. seen \in Nat /\ seen < MaxSite /\ site[w].status # "unbound" /\ op \in Op \ Making
  BY DEF Looks, LifecycleInv, LifecycleRows, Op, Making
<1>2. BeginsCall(c, op, seen, w)
  BY DEF Looks
<1> HIDE DEF seen
<1>3. CallInOrder([op |-> op, seen |-> seen, on |-> w], project, workspace, team)
  BY <1>1 DEF CallInOrder, Claiming, Making
<1>4. QED BY <1>1, <1>2, <1>3, BeginKeeps

(* A binding by its version, written with a row that is still bound. *)
LEMMA SwapKeeps ==
    ASSUME LifecycleInv, NEW c \in Requester, NEW w \in Workcell,
           call[c].op \in {"verify", "qualify"}, call[c].on = w, Returns(c),
           NEW row \in Bound,
           row.version = site[w].version,
           SwapSite(c, w, row) \/ UNCHANGED site,
           UNCHANGED <<project, workspace, team, holder, deliveries, onboarding>>
    PROVE  LifecycleInv'
<1>1. call[c].seen \in Nat /\ call[c].seen < MaxSite
  BY DEF LifecycleInv, CallsInOrder, CallInOrder, Call
<1>2. CASE UNCHANGED site
  BY <1>2, SiteStep
<1>3. CASE SwapSite(c, w, row) /\ site[w].version # call[c].seen
  BY <1>3, SiteStep DEF SwapSite
<1>4. CASE SwapSite(c, w, row) /\ site[w].version = call[c].seen
  <2> DEFINE next == [row EXCEPT !.version = @ + 1]
  <2>1. row.version \in 0..MaxSite /\ row.version < MaxSite /\ MaxSite \in Nat
    BY <1>1, <1>4, LifecycleAssumption DEF Bound
  <2>2. row.version + 1 \in 0..MaxSite
    BY <2>1
  <2>3. next \in Bound
    BY <2>2 DEF Bound
  <2>4. site' = [site EXCEPT ![w] = next]
    BY <1>4 DEF SwapSite
  <2> HIDE DEF next
  <2>5. QED BY <2>3, <2>4, SiteStep
<1>5. QED BY <1>2, <1>3, <1>4

LEMMA SitesKeep ==
    ASSUME LifecycleInv, NEW c \in Requester, NEW w \in Workcell,
           Assign(c, w) \/ VerifyWorkspace(c, w) \/ Qualify(c, w)
    PROVE  LifecycleInv'
<1>1. CASE Assign(c, w)
  <2>1. CASE BeginsCall(c, "assign", 0, w) /\ UNCHANGED site
    <3>1. UNCHANGED rows /\ "assign" \in Op \ Making
      BY <1>1, <2>1 DEF Assign, rows, Op, Making
    <3>2. CallInOrder([op |-> "assign", seen |-> 0, on |-> w], project, workspace, team)
      BY DEF CallInOrder, Making, Claiming
    <3>3. QED BY <2>1, <3>1, <3>2, BeginKeeps
  <2>2. CASE Does(c, "assign")
    <3> DEFINE row == [status |-> "pending", profile |-> FALSE, version |-> 1]
    <3>1. 1 \in 0..MaxSite
      BY LifecycleAssumption
    <3>2. row \in Bound
      BY <3>1 DEF Bound
    <3>3. ~BeginsCall(c, "assign", 0, w)
      BY <2>2 DEF BeginsCall, Does, NoCall
    <3>4. /\ site' = site \/ site' = [site EXCEPT ![w] = row]
          /\ Returns(c) /\ UNCHANGED <<project, workspace, team, holder, deliveries, onboarding>>
      BY <1>1, <3>3 DEF Assign
    <3> HIDE DEF row
    <3>5. QED BY <3>2, <3>4, SiteStep
  <2>3. QED BY <1>1, <2>1, <2>2 DEF Assign
<1>2. CASE VerifyWorkspace(c, w)
  <2>1. CASE Looks(c, "verify", w) /\ UNCHANGED site
    BY <1>2, <2>1, LookKeeps DEF VerifyWorkspace, rows
  <2>2. CASE Does(c, "verify") /\ call[c].on = w /\ Returns(c)
    <3>1. PICK status \in {"ready", "failed"} : SwapSite(c, w, [site[w] EXCEPT !.status = status])
      BY <1>2, <2>2 DEF VerifyWorkspace, Looks, BeginsCall, Does, NoCall
    <3> DEFINE row == [site[w] EXCEPT !.status = status]
    <3>2. /\ row \in Bound
          /\ row.version = site[w].version
      BY DEF LifecycleInv, LifecycleRows, Bound
    <3>3. SwapSite(c, w, row) /\ call[c].op \in {"verify", "qualify"}
      BY <2>2, <3>1 DEF Does
    <3>4. UNCHANGED <<project, workspace, team, holder, deliveries, onboarding>>
      BY <1>2 DEF VerifyWorkspace
    <3> HIDE DEF row
    <3>5. QED BY <2>2, <3>2, <3>3, <3>4, SwapKeeps
  <2>3. QED BY <1>2, <2>1, <2>2 DEF VerifyWorkspace
<1>3. CASE Qualify(c, w)
  <2>1. CASE Looks(c, "qualify", w) /\ UNCHANGED site
    BY <1>3, <2>1, LookKeeps DEF Qualify, rows
  <2>2. CASE Does(c, "qualify") /\ call[c].on = w /\ Returns(c)
    <3>1. PICK profile \in BOOLEAN :
             SwapSite(c, w, [site[w] EXCEPT !.profile = profile]) \/ UNCHANGED site
      BY <1>3, <2>2 DEF Qualify, Looks, BeginsCall, Does, NoCall
    <3> DEFINE row == [site[w] EXCEPT !.profile = profile]
    <3>2. site[w].status # "unbound" /\ call[c].op \in {"verify", "qualify"}
      BY <2>2 DEF Does, LifecycleInv, SitesAreBound
    <3>3. /\ row \in Bound
          /\ row.version = site[w].version
      BY <3>2 DEF LifecycleInv, LifecycleRows, Bound
    <3>4. SwapSite(c, w, row) \/ UNCHANGED site
      BY <3>1
    <3>5. UNCHANGED <<project, workspace, team, holder, deliveries, onboarding>>
      BY <1>3 DEF Qualify
    <3> HIDE DEF row
    <3>6. QED BY <2>2, <3>2, <3>3, <3>4, <3>5, SwapKeeps
  <2>3. QED BY <1>3, <2>1, <2>2 DEF Qualify
<1>4. QED BY <1>1, <1>2, <1>3

(* Who is making the workspace has found no team: activation is another's. *)
LEMMA ActivateTeamKeeps ==
    ASSUME LifecycleInv, NEW c \in Requester, ActivateTeam(c)
    PROVE  LifecycleInv'
<1>1. CASE BeginsCall(c, "activateTeam", 0, Unset) /\ UNCHANGED <<project, workspace, team>>
  <2>1. UNCHANGED rows /\ "activateTeam" \in Op \ Making
    BY <1>1 DEF ActivateTeam, rows, Op, Making
  <2>2. CallInOrder([op |-> "activateTeam", seen |-> 0, on |-> Unset], project, workspace, team)
    BY DEF CallInOrder, Making, Claiming
  <2>3. QED BY <1>1, <2>1, <2>2, BeginKeeps
<1>2. CASE Does(c, "activateTeam") /\ Returns(c)
  <2>1. call' = [call EXCEPT ![c] = NoCall] /\ UNCHANGED <<site, holder, deliveries, onboarding>>
    BY <1>2 DEF ActivateTeam, Returns
  <2>2. CASE UNCHANGED <<project, workspace, team>>
    <3>1. UNCHANGED rows
      BY <2>1, <2>2 DEF rows
    <3>2. LifecycleRows' /\ UnboundHasNoProfile' /\ ProjectInOrder'
      BY <3>1, Unmoved
    <3>3. QED BY <2>1, <2>2, <3>2, Idling, QuietStep
  <2>3. CASE /\ team = "provisioning" /\ project.status \in {"provisioning", "active"}
             /\ team' = "active"
             /\ project.status = "provisioning" => Become("active") /\ workspace' = "ready"
    <3>1. project.status = "provisioning"
      BY <2>3 DEF LifecycleInv, ProjectInOrder
    <3>2. /\ workspace' = "ready" /\ team' = "active"
          /\ project' = [status |-> "active", version |-> project.version + 1]
          /\ project.version \in Nat
      BY <2>3, <3>1 DEF Become, LifecycleInv, LifecycleRows
    <3>3. \A b \in Requester \ {c} : call[b].op \notin Making
      BY <2>3, Alone DEF Unset
    <3>4. LifecycleRows'
      BY <2>1, <3>2 DEF LifecycleInv, LifecycleRows, Status
    <3>5. ProjectIsFresh' /\ UnboundHasNoProfile' /\ ProjectInOrder'
      BY <2>1, <3>2 DEF LifecycleInv, ProjectIsFresh, UnboundHasNoProfile, ProjectInOrder
    <3>6. project'.version = project.version + 1 /\ \A w \in Workcell : site'[w] = site[w]
      BY <2>1, <3>2
    <3>7. QED BY <2>1, <3>3, <3>4, <3>5, <3>6, Idling, CallerStep
  <2>4. QED BY <1>2, <2>2, <2>3 DEF ActivateTeam, Does, BeginsCall, NoCall
<1>3. QED BY <1>1, <1>2 DEF ActivateTeam

LEMMA DeliveryMoves ==
    ASSUME LifecycleInv, NEW d \in Requested, OpenGate(d) \/ EndDelivery(d)
    PROVE  LifecycleInv'
<1>1. UNCHANGED <<project, workspace, team, site, onboarding, call>>
  BY DEF OpenGate, EndDelivery
<1>2. \/ deliveries[d] \in Underway /\ deliveries' = [deliveries EXCEPT ![d] = "candidate"]
         /\ UNCHANGED holder
      \/ deliveries[d] \in Underway /\ deliveries' = [deliveries EXCEPT ![d] = "over"]
         /\ UNCHANGED holder
      \/ deliveries[d] = "over" /\ holder = d /\ holder' = Unset /\ UNCHANGED deliveries
  BY DEF OpenGate, EndDelivery, Underway
<1>3. LifecycleRows'
  BY <1>1, <1>2 DEF LifecycleInv, LifecycleRows, Underway
<1>4. ProjectInOrder'
  BY <1>1, <1>2, LifecycleAssumption DEF LifecycleInv, LifecycleRows, ProjectInOrder, Underway
<1>5. CallsInOrder' /\ OneMaker' /\ SitesAreBound'
  BY <1>1 DEF LifecycleInv, CallsInOrder, OneMaker, SitesAreBound
<1>6. ProjectIsFresh' /\ UnboundHasNoProfile'
  BY <1>1 DEF LifecycleInv, ProjectIsFresh, UnboundHasNoProfile
<1>7. QED BY <1>1, <1>3, <1>4, <1>5, <1>6 DEF LifecycleInv

LEMMA RestartKeeps ==
    ASSUME LifecycleInv, RestartProject
    PROVE  LifecycleInv'
<1> DEFINE waiting == {d \in Requested : deliveries[d] = "candidate"}
<1>1. UNCHANGED <<team, site, onboarding>> /\ call' = [c \in Requester |-> NoCall]
      /\ deliveries' = [d \in Requested |->
                          IF deliveries[d] = "working" THEN "over" ELSE deliveries[d]]
  BY DEF RestartProject
<1>2. /\ holder' \in waiting => holder' = holder \/ holder \notin waiting
      /\ holder' \in waiting \cup {Unset}
      /\ holder \in waiting => holder' = holder
  BY DEF RestartProject
<1>3. \/ UNCHANGED <<project, workspace>>
      \/ /\ project.status = "provisioning" /\ team = Unset
         /\ \/ /\ workspace' = "ready"
               /\ project' = [status |-> "active", version |-> project.version + 1]
            \/ /\ workspace' = "failed"
               /\ project' = [status |-> "provision_failed", version |-> project.version + 1]
  BY DEF RestartProject, RecoverProvisioning, Become
<1>4. LifecycleRows'
  <2>1. project' \in [status : Status, version : Nat]
        /\ workspace' \in {Unset, "provisioning", "ready", "failed"}
    BY <1>3 DEF LifecycleInv, LifecycleRows, Status
  <2>2. deliveries' \in [Requested -> {"absent", "over"} \cup Underway]
    BY <1>1 DEF LifecycleInv, LifecycleRows, Underway
  <2>3. QED BY <1>1, <1>2, <2>1, <2>2 DEF LifecycleInv, LifecycleRows
<1>5. ProjectInOrder'
  <2>1. \A d \in Requested : deliveries'[d] \in Underway => d \in waiting /\ holder = d
    BY <1>1 DEF LifecycleInv, LifecycleRows, ProjectInOrder, Underway
  <2>2. \A d \in waiting : holder = d
    BY DEF LifecycleInv, ProjectInOrder, Underway
  <2>3. holder' # Unset => project.status = "active"
    BY <1>2, <2>2, LifecycleAssumption DEF LifecycleInv, ProjectInOrder
  <2>4. (\A d \in Requested : deliveries'[d] \in Underway => holder' = d)
    BY <1>2, <2>1
  <2>5. (project'.status = "active" => workspace' = "ready" /\ team' # "provisioning")
    BY <1>1, <1>3 DEF LifecycleInv, ProjectInOrder, Unset
  <2>6. QED BY <1>3, <2>3, <2>4, <2>5 DEF ProjectInOrder
<1>6. ProjectIsFresh' /\ UnboundHasNoProfile'
  BY <1>1, <1>3 DEF LifecycleInv, LifecycleRows, ProjectIsFresh, UnboundHasNoProfile
<1>7. call' \in [Requester -> Call] /\ \A c \in Requester : call'[c] = NoCall
  BY <1>1, Idling
<1>8. CallsInOrder' /\ OneMaker' /\ SitesAreBound'
  BY <1>7, Idling DEF CallsInOrder, OneMaker, SitesAreBound
<1>9. QED BY <1>4, <1>5, <1>6, <1>7, <1>8 DEF LifecycleInv

LEMMA LifecycleBegins ==
    ASSUME LifecycleInit
    PROVE  LifecycleInv
<1>1. 0 \in 0..MaxSite
  BY LifecycleAssumption
<1>2. LifecycleRows
  BY <1>1 DEF LifecycleInit, LifecycleRows, Unbound, Status
<1>3. call \in [Requester -> Call] /\ \A c \in Requester : call[c] = NoCall
  BY Idling DEF LifecycleInit
<1>4. CallsInOrder /\ OneMaker /\ SitesAreBound
  BY <1>3, Idling DEF CallsInOrder, OneMaker, SitesAreBound
<1>5. ProjectIsFresh /\ UnboundHasNoProfile /\ ProjectInOrder
  BY DEF LifecycleInit, ProjectIsFresh, UnboundHasNoProfile, ProjectInOrder, Unbound, Underway
<1>6. QED BY <1>2, <1>3, <1>4, <1>5 DEF LifecycleInv

LEMMA LifecycleStep ==
    ASSUME LifecycleInv, [LifecycleNext]_lifecycleVars
    PROVE  LifecycleInv'
<1>1. CASE UNCHANGED lifecycleVars
  <2>1. UNCHANGED rows /\ UNCHANGED <<call, project, workspace, team, site>>
    BY <1>1 DEF lifecycleVars, rows
  <2>2. LifecycleRows' /\ ProjectIsFresh' /\ UnboundHasNoProfile' /\ ProjectInOrder'
    BY <2>1, Unmoved
  <2>3. CallsInOrder' /\ OneMaker' /\ SitesAreBound'
    BY <2>1 DEF LifecycleInv, CallsInOrder, OneMaker, SitesAreBound
  <2>4. QED BY <2>1, <2>2, <2>3 DEF LifecycleInv
<1>2. ASSUME NEW c \in Requester, NEW workcells \in BOOLEAN, NEW guided \in BOOLEAN,
             Create(c, workcells, guided)
      PROVE  LifecycleInv'
  BY <1>2, CreateKeeps
<1>3. ASSUME NEW c \in Requester,
             BindTeam(c) \/ Provision(c) \/ Provisioned(c) \/ RetryWorkspace(c) \/ Patch(c)
             \/ Archive(c)
      PROVE  LifecycleInv'
  BY <1>3, MakingKeeps, RetryKeeps, PatchKeeps, ArchiveKeeps
<1>4. ASSUME NEW c \in Requester, AdmitDelivery(c) \/ CompleteOnboarding(c) \/ ActivateTeam(c)
      PROVE  LifecycleInv'
  BY <1>4, AdmitKeeps, CompleteKeeps, ActivateTeamKeeps
<1>5. ASSUME NEW c \in Requester, NEW d \in Requested, NEW evaluation \in BOOLEAN,
             PrepareDelivery(c, d, evaluation)
      PROVE  LifecycleInv'
  BY <1>5, PrepareKeeps
<1>6. ASSUME NEW c \in Requester, NEW w \in Workcell,
             Assign(c, w) \/ VerifyWorkspace(c, w) \/ Qualify(c, w)
      PROVE  LifecycleInv'
  BY <1>6, SitesKeep
<1>7. QED
  BY <1>1, <1>2, <1>3, <1>4, <1>5, <1>6, DeliveryMoves, RestartKeeps DEF LifecycleNext

(* No request writes a profile while a lease is held: one that was let in before
   is checked again. *)
LEMMA ProfileStep ==
    ASSUME LifecycleInv, [LifecycleNext]_lifecycleVars, holder # Unset, holder' = holder,
           NEW w \in Workcell
    PROVE  site'[w].profile = site[w].profile
<1>1. ASSUME NEW c \in Requester, NEW v \in Workcell, Assign(c, v)
      PROVE  site'[w].profile = site[w].profile
  <2>1. CASE UNCHANGED site
    BY <2>1
  <2>2. CASE site[v].status = "unbound"
             /\ site' = [site EXCEPT ![v] =
                           [status |-> "pending", profile |-> FALSE, version |-> 1]]
    <3>1. CASE v = w
      <4>1. site[w].profile \in BOOLEAN /\ ~site[w].profile
        BY <2>2, <3>1 DEF LifecycleInv, LifecycleRows, UnboundHasNoProfile
      <4>2. site'[w].profile = FALSE
        BY <2>2, <3>1 DEF LifecycleInv, LifecycleRows
      <4>3. QED BY <4>1, <4>2
    <3>2. CASE v # w
      BY <2>2, <3>2 DEF LifecycleInv, LifecycleRows
    <3>3. QED BY <3>1, <3>2
  <2>3. QED BY <1>1, <2>1, <2>2 DEF Assign
<1>2. ASSUME NEW c \in Requester, NEW v \in Workcell, VerifyWorkspace(c, v)
      PROVE  site'[w].profile = site[w].profile
  <2>1. CASE UNCHANGED site
    BY <2>1
  <2>2. CASE \E status \in {"ready", "failed"} :
                SwapSite(c, v, [site[v] EXCEPT !.status = status])
    <3>1. PICK status \in {"ready", "failed"} :
             SwapSite(c, v, [site[v] EXCEPT !.status = status])
      BY <2>2
    <3> DEFINE row == [site[v] EXCEPT !.status = status]
               next == [row EXCEPT !.version = @ + 1]
    <3>2. /\ site \in [Workcell -> [status : {"unbound", "pending", "ready", "failed"},
                                    profile : BOOLEAN, version : 0..MaxSite]]
          /\ row.profile = site[v].profile /\ next.profile = row.profile
      BY DEF LifecycleInv, LifecycleRows
    <3>3. site' = site \/ site' = [site EXCEPT ![v] = next]
      BY <3>1 DEF SwapSite
    <3> HIDE DEF row, next
    <3>4. QED BY <3>2, <3>3
  <2>3. QED BY <1>2, <2>1, <2>2 DEF VerifyWorkspace
<1>3. ASSUME NEW c \in Requester, NEW v \in Workcell, Qualify(c, v)
      PROVE  site'[w].profile = site[w].profile
  BY <1>3 DEF Qualify, ProfileAdmission
<1>4. CASE UNCHANGED site
  BY <1>4
<1>5. CASE \E c \in Requester, v \in Workcell :
              Assign(c, v) \/ VerifyWorkspace(c, v) \/ Qualify(c, v)
  BY <1>1, <1>2, <1>3, <1>5
<1>6. ASSUME NEW c \in Requester,
             \/ \E workcells, guided \in BOOLEAN : Create(c, workcells, guided)
             \/ BindTeam(c) \/ Provision(c) \/ Provisioned(c)
             \/ RetryWorkspace(c) \/ Patch(c) \/ Archive(c)
             \/ \E d \in Requested, evaluation \in BOOLEAN : PrepareDelivery(c, d, evaluation)
             \/ AdmitDelivery(c) \/ CompleteOnboarding(c) \/ ActivateTeam(c)
      PROVE  UNCHANGED site
  BY <1>6 DEF Create, BindTeam, Provision, Provisioned, RetryWorkspace, Patch, Archive,
              PrepareDelivery, rows, AdmitDelivery, CompleteOnboarding, ActivateTeam
<1>7. ASSUME NEW d \in Requested, OpenGate(d) \/ EndDelivery(d)
      PROVE  UNCHANGED site
  BY <1>7 DEF OpenGate, EndDelivery
<1>8. RestartProject \/ UNCHANGED lifecycleVars => UNCHANGED site
  BY DEF RestartProject, lifecycleVars, rows
<1>9. QED BY <1>4, <1>5, <1>6, <1>7, <1>8 DEF LifecycleNext

LEMMA LifecycleInvariance ==
    LifecycleSpec => []LifecycleInv
<1>1. LifecycleInit => LifecycleInv
  BY LifecycleBegins
<1>2. LifecycleInv /\ [LifecycleNext]_lifecycleVars => LifecycleInv'
  BY LifecycleStep
<1>3. QED BY <1>1, <1>2, PTL DEF LifecycleSpec

(* The rows of the project, its workspace, team, bindings, lease, deliveries and
   onboarding, and its requests, hold values the code can write: for any number
   of callers, deliveries and workcells. *)
THEOREM LifecycleTypeCorrect ==
    LifecycleSpec => []LifecycleTypeOK
<1>1. LifecycleInv => LifecycleTypeOK
  BY DEF LifecycleInv, LifecycleRows, LifecycleTypeOK, Call, Status
<1>2. QED BY <1>1, LifecycleInvariance, PTL

(* A delivery runs only on a project that is whole and stays so: whatever
   requests come between the checks and the commits, and wherever the process
   restarts. *)
THEOREM ProjectStaysInOrder ==
    LifecycleSpec => []ProjectInOrder
BY LifecycleInvariance, PTL DEF LifecycleInv

(* The verification profile a delivery was frozen with stays while it holds the
   lease: no qualification that was let in before changes it. *)
THEOREM ProfilesStayFrozen ==
    LifecycleSpec => ProfilesFrozen
<1>1. LifecycleInv /\ [LifecycleNext]_lifecycleVars =>
        [holder # Unset /\ holder' = holder =>
           \A w \in Workcell : site'[w].profile = site[w].profile]_lifecycleVars
  BY ProfileStep
<1>2. QED BY <1>1, LifecycleInvariance, PTL DEF LifecycleSpec, ProfilesFrozen

-----------------------------------------------------------------------------
(* The role document.  A revision of the agent has the artifact it was made
   from, one of a person has none: that, and the revision its publication
   expects, is what tells them apart. *)

PublicationRow == [status : {"absent", "pending", "failed", "published"},
                   artifact : Artifact \cup {Nil},
                   expected : 0..MaxRevision, target : 0..MaxRevision]
Revision == [by : {Agent, Human}, artifact : Artifact \cup {Nil}, base : 0..MaxRevision]

(* A publication that is there has an artifact. *)
PublicationHasArtifact == publication.status # "absent" => publication.artifact \in Artifact

(* A revision with an artifact is the agent's. *)
ArtifactsAreAgents ==
    \A r \in 1..Version : document[r].artifact # Nil => document[r].by = Agent

(* What a publication expects is the agent's last word, or no document. *)
ExpectsAgents ==
    publication.expected # 0 =>
        publication.expected \in 1..Version /\ document[publication.expected].by = Agent

(* A publication names a revision that is there. *)
TargetIsThere == publication.status = "published" => publication.target \in 1..Version

(* What is retried is there. *)
RetryIsOfPublication == retry # Nil => publication.status # "absent"

PublicationInv ==
    /\ PublicationTypeOK /\ Version <= MaxRevision
    /\ PublicationHasArtifact /\ RetryIsOfPublication /\ ArtifactsAreAgents
    /\ ExpectsAgents /\ TargetIsThere
    /\ DocumentInOrder

(* What an Append adds, and what it leaves. *)
LEMMA RevisionAppended ==
    ASSUME NEW doc \in Seq(Revision), NEW rev \in Revision
    PROVE  /\ Append(doc, rev) \in Seq(Revision) /\ Len(doc) \in Nat
           /\ Len(Append(doc, rev)) = Len(doc) + 1
           /\ Append(doc, rev)[Len(doc) + 1] = rev
           /\ \A r \in 1..Len(doc) : Append(doc, rev)[r] = doc[r]
BY AppendProperties, LenProperties

(* A new revision on top of the one its author has seen. *)
LEMMA ReviseKeeps ==
    ASSUME PublicationInv, Version < MaxRevision,
           NEW by \in {Agent, Human}, NEW artifact \in Artifact \cup {Nil},
           Revise(by, artifact, Version),
           artifact # Nil <=> by = Agent,
           by = Agent /\ Version # 0 => document[Version].by = Agent
    PROVE  /\ document' \in Seq(Revision) /\ Version' = Version + 1 /\ Version' <= MaxRevision
           /\ \A r \in 1..Version : document'[r] = document[r]
           /\ document'[Version'].by = by /\ document'[Version'].artifact = artifact
           /\ ArtifactsAreAgents'
           /\ \A r \in 1..Version' : document'[r].base = r - 1
           /\ \A r \in 2..Version' : document'[r].by = Agent => document'[r - 1].by = Agent
<1> DEFINE rev == [by |-> by, artifact |-> artifact, base |-> Version]
<1>1. document \in Seq(Revision) /\ Version \in Nat /\ MaxRevision \in Nat
  BY LenProperties, PublicationAssumption DEF PublicationInv, PublicationTypeOK, Revision,
     Version
<1>2. rev \in Revision
  BY <1>1 DEF Revision
<1>3. rev.by = by /\ rev.artifact = artifact /\ rev.base = Version
  OBVIOUS
<1>4. document' = Append(document, rev)
  BY DEF Revise
<1> HIDE DEF rev
<1>5. /\ document' \in Seq(Revision) /\ Len(document') = Len(document) + 1
      /\ document'[Len(document) + 1] = rev
      /\ \A r \in 1..Len(document) : document'[r] = document[r]
  BY <1>1, <1>2, <1>4, RevisionAppended
<1>6. /\ document' \in Seq(Revision) /\ Version' = Version + 1
      /\ document'[Version + 1] = rev
      /\ \A r \in 1..Version : document'[r] = document[r]
  BY <1>5 DEF Version
<1>7. ArtifactsAreAgents'
  <2>1. ASSUME NEW r \in 1..Version + 1, document'[r].artifact # Nil
        PROVE  document'[r].by = Agent
    BY <1>1, <1>3, <1>6, <2>1 DEF PublicationInv, ArtifactsAreAgents
  <2>2. QED BY <1>6, <2>1 DEF ArtifactsAreAgents
<1>8. \A r \in 1..Version' : document'[r].base = r - 1
  <2>1. ASSUME NEW r \in 1..Version + 1
        PROVE  document'[r].base = r - 1
    BY <1>1, <1>3, <1>6 DEF PublicationInv, DocumentInOrder
  <2>2. QED BY <1>6, <2>1
<1>9. \A r \in 2..Version' : document'[r].by = Agent => document'[r - 1].by = Agent
  <2>1. ASSUME NEW r \in 2..Version + 1, document'[r].by = Agent
        PROVE  document'[r - 1].by = Agent
    <3>1. CASE r = Version + 1
      BY <1>1, <1>3, <1>6, <2>1, <3>1
    <3>2. CASE r \in 2..Version
      <4>1. r \in 1..Version /\ r - 1 \in 1..Version
        BY <1>1, <3>2
      <4>2. document[r].by = Agent => document[r - 1].by = Agent
        BY <3>2 DEF PublicationInv, DocumentInOrder
      <4>3. QED BY <1>6, <2>1, <4>1, <4>2
    <3>3. QED BY <1>1, <3>1, <3>2
  <2>2. QED BY <1>6, <2>1
<1>10. Version' = Version + 1 /\ Version' <= MaxRevision
  <2>1. Version' = Version + 1
    BY <1>6
  <2>2. QED BY <1>1, <2>1
<1>11. document'[Version'].by = by /\ document'[Version'].artifact = artifact
  BY <1>3, <1>6
<1>12. document' \in Seq(Revision) /\ \A r \in 1..Version : document'[r] = document[r]
  BY <1>6
<1>13. QED BY <1>7, <1>8, <1>9, <1>10, <1>11, <1>12

(* The document stays as it is. *)
LEMMA DocumentStays ==
    ASSUME PublicationInv, PublicationTypeOK', UNCHANGED document,
           PublicationHasArtifact', RetryIsOfPublication', ExpectsAgents',
           publication'.status = "published" =>
              /\ publication'.target \in 1..Version
              /\ document[publication'.target].artifact = publication'.artifact
    PROVE  PublicationInv'
<1>1. Version' = Version
  BY DEF Version
<1>2. QED
  BY <1>1 DEF PublicationInv, ArtifactsAreAgents, TargetIsThere, DocumentInOrder

LEMMA PublishedRow ==
    ASSUME publication \in PublicationRow, NEW revision \in 0..MaxRevision, PublishedAt(revision)
    PROVE  /\ publication' \in PublicationRow
           /\ publication'.status = "published" /\ publication'.target = revision
           /\ publication'.expected = revision /\ publication'.artifact = publication.artifact
BY DEF PublicationRow, PublishedAt, Write

LEMMA PublishKeeps ==
    ASSUME PublicationInv, Publish, publication.status # "absent",
           UNCHANGED <<projectStatus, edit, hook>>, retry' \in {Nil, "current", "stale"}
    PROVE  PublicationInv'
<1>1. /\ publication.artifact \in Artifact /\ Nil \notin Artifact /\ MaxRevision \in Nat
      /\ document \in Seq(Revision) /\ Version \in Nat /\ Version <= MaxRevision
      /\ publication \in PublicationRow
  BY LenProperties, PublicationAssumption DEF PublicationInv, PublicationTypeOK,
     PublicationHasArtifact, Version, Revision, PublicationRow
<1>2. space' \in {Nil, "active", "archived"}
  BY DEF Publish, PublicationInv, PublicationTypeOK
<1>3. CASE PublicationFails /\ UNCHANGED document
  <2>1. /\ publication' = [publication EXCEPT !.status = "failed"] /\ UNCHANGED document
        /\ Version' = Version
    BY <1>3 DEF PublicationFails, Write, Version
  <2>2. PublicationTypeOK'
    BY <1>1, <1>2, <2>1 DEF PublicationInv, PublicationTypeOK, PublicationRow
  <2>3. publication'.status = "failed"
    BY <1>1, <2>1
  <2>4. PublicationHasArtifact' /\ RetryIsOfPublication' /\ ExpectsAgents'
    BY <1>1, <2>1, <2>3
       DEF PublicationInv, PublicationHasArtifact, RetryIsOfPublication, ExpectsAgents
  <2>5. QED BY <2>1, <2>2, <2>3, <2>4, DocumentStays
<1>4. CASE AtHead /\ PublishedAt(Version) /\ UNCHANGED document
  <2>1. /\ publication'.status = "published" /\ publication'.target = Version
        /\ publication'.expected = Version /\ publication'.artifact = publication.artifact
        /\ publication' \in PublicationRow
        /\ Version' = Version
    <3>1. Version \in 0..MaxRevision /\ publication \in PublicationRow
      BY <1>1
    <3>2. QED BY <3>1, <1>4, PublishedRow DEF Version
  <2>2. Version \in 1..Version /\ document[Version].artifact = publication.artifact
    <3>1. Len(document) \in Nat \ {0}
      BY <1>1, <1>4, EmptySeq DEF AtHead
    <3>2. QED BY <1>4, <3>1 DEF AtHead, Version
  <2>3. PublicationTypeOK'
    BY <1>2, <1>4, <2>1 DEF PublicationInv, PublicationTypeOK, PublicationRow
  <2>4. document[Version].by = Agent
    BY <1>1, <2>2 DEF PublicationInv, ArtifactsAreAgents
  <2>5. PublicationHasArtifact' /\ RetryIsOfPublication' /\ ExpectsAgents'
    BY <1>1, <1>4, <2>1, <2>2, <2>4
       DEF PublicationHasArtifact, RetryIsOfPublication, ExpectsAgents
  <2>6. QED BY <1>4, <2>1, <2>2, <2>3, <2>5, DocumentStays
<1>5. CASE /\ ExpectsHead /\ Version < MaxRevision
           /\ Revise(Agent, publication.artifact, publication.expected)
           /\ PublishedAt(Version + 1)
  <2>1. Revise(Agent, publication.artifact, Version)
    BY <1>5 DEF ExpectsHead
  <2>2. Version # 0 => document[Version].by = Agent
    BY <1>5 DEF ExpectsHead, PublicationInv, ExpectsAgents
  <2>3. /\ document' \in Seq(Revision) /\ Version' = Version + 1 /\ Version' <= MaxRevision
        /\ document'[Version'].by = Agent /\ document'[Version'].artifact = publication.artifact
        /\ ArtifactsAreAgents'
        /\ \A r \in 1..Version' : document'[r].base = r - 1
        /\ \A r \in 2..Version' : document'[r].by = Agent => document'[r - 1].by = Agent
    BY <1>1, <1>5, <2>1, <2>2, ReviseKeeps
  <2>4. /\ publication'.status = "published" /\ publication'.target = Version + 1
        /\ publication'.expected = Version + 1 /\ publication'.artifact = publication.artifact
        /\ publication' \in PublicationRow
    <3>1. Version + 1 \in 0..MaxRevision /\ publication \in PublicationRow
      BY <1>1, <1>5
    <3>2. QED BY <3>1, <1>5, PublishedRow
  <2>5. PublicationTypeOK'
    BY <1>2, <2>3, <2>4 DEF PublicationInv, PublicationTypeOK, PublicationRow, Revision
  <2>6. Version' \in 1..Version'
    BY <1>1, <2>3
  <2>7. PublicationHasArtifact' /\ RetryIsOfPublication' /\ ExpectsAgents' /\ TargetIsThere'
    BY <1>1, <2>3, <2>4, <2>6
       DEF PublicationHasArtifact, RetryIsOfPublication, ExpectsAgents, TargetIsThere
  <2>8. DocumentInOrder'
    BY <2>3, <2>4 DEF DocumentInOrder
  <2>9. QED BY <2>3, <2>5, <2>7, <2>8 DEF PublicationInv
<1>6. QED BY <1>3, <1>4, <1>5 DEF Publish

LEMMA StepKeepsPublication ==
    ASSUME PublicationInv, [PublicationNext]_publicationVars
    PROVE  PublicationInv'
<1>1. MaxRevision \in Nat /\ Version \in Nat /\ Version <= MaxRevision
      /\ document \in Seq(Revision)
  BY LenProperties, PublicationAssumption DEF PublicationInv, PublicationTypeOK, Version,
     Revision
<1>2. ASSUME NEW a \in Artifact, Register(a)
      PROVE  PublicationInv'
  <2>1. /\ publication'.status = "pending" /\ publication'.artifact = a
        /\ publication'.expected = publication.expected
        /\ UNCHANGED document /\ Version' = Version
    BY <1>2 DEF Register, Write, PublicationInv, PublicationTypeOK, Version
  <2>2. PublicationTypeOK'
    BY <1>2 DEF Register, Write, Outdated, PublicationInv, PublicationTypeOK
  <2>3. PublicationHasArtifact' /\ RetryIsOfPublication' /\ ExpectsAgents'
    BY <2>1
       DEF PublicationInv, PublicationHasArtifact, RetryIsOfPublication, ExpectsAgents
  <2>4. QED BY <2>1, <2>2, <2>3, DocumentStays
<1>3. CASE PublishRequired
  BY <1>3, PublishKeeps DEF PublishRequired, Outdated, PublicationInv, PublicationTypeOK
<1>4. ASSUME UNCHANGED <<publication, document>>, PublicationTypeOK', RetryIsOfPublication'
      PROVE  PublicationInv'
  BY <1>4, DocumentStays
     DEF PublicationInv, PublicationHasArtifact, ExpectsAgents, TargetIsThere, Version,
         DocumentInOrder
<1>5. CASE Retry
  <2>1. CASE Publish
    BY <1>5, <2>1, PublishKeeps DEF Retry, PublicationInv, RetryIsOfPublication
  <2>2. CASE UNCHANGED <<publication, document, space>>
    BY <1>4, <1>5, <2>2 DEF Retry, PublicationInv, PublicationTypeOK, RetryIsOfPublication
  <2>3. QED BY <1>5, <2>1, <2>2 DEF Retry
<1>6. CASE BeginRetry
  BY <1>4, <1>6 DEF BeginRetry, PublicationInv, PublicationTypeOK, RetryIsOfPublication
<1>7. CASE DeliveryEnds \/ ArchiveProject
           \/ (\E status \in {"active", "archived"} : ReconcileSpace(status))
           \/ RestartWiki \/ UNCHANGED publicationVars
  <2>1. UNCHANGED <<publication, document>> /\ retry' \in {retry, Nil}
    BY <1>7 DEF DeliveryEnds, ArchiveProject, ReconcileSpace, RestartWiki, publicationVars
  <2>2. PublicationTypeOK'
    <3>1. CASE RestartWiki
      BY <1>1, <3>1 DEF RestartWiki, PublicationInv, PublicationTypeOK
    <3>2. CASE DeliveryEnds \/ ArchiveProject \/ UNCHANGED publicationVars
      BY <3>2 DEF DeliveryEnds, ArchiveProject, publicationVars, PublicationInv,
         PublicationTypeOK
    <3>3. CASE \E status \in {"active", "archived"} : ReconcileSpace(status)
      BY <3>3 DEF ReconcileSpace, PublicationInv, PublicationTypeOK
    <3>4. QED BY <1>7, <3>1, <3>2, <3>3
  <2>3. QED BY <1>4, <2>1, <2>2 DEF PublicationInv, RetryIsOfPublication
<1>8. ASSUME NEW e \in Editor, BeginEdit(e)
      PROVE  PublicationInv'
  BY <1>1, <1>4, <1>8 DEF BeginEdit, PublicationInv, PublicationTypeOK, RetryIsOfPublication
<1>9. ASSUME NEW e \in Editor, CommitEdit(e)
      PROVE  PublicationInv'
  <2>1. /\ UNCHANGED <<publication, space, projectStatus, retry, hook>>
        /\ edit' \in [Editor -> 0..MaxRevision] /\ Version < MaxRevision
    BY <1>1, <1>9 DEF CommitEdit, PublicationInv, PublicationTypeOK
  <2>2. CASE UNCHANGED document
    BY <1>4, <2>1, <2>2 DEF PublicationInv, PublicationTypeOK, RetryIsOfPublication
  <2>3. CASE Revise(Human, Nil, Version)
    <3>1. /\ document' \in Seq(Revision) /\ Version' = Version + 1 /\ Version' <= MaxRevision
          /\ \A r \in 1..Version : document'[r] = document[r]
          /\ ArtifactsAreAgents'
          /\ \A r \in 1..Version' : document'[r].base = r - 1
          /\ \A r \in 2..Version' : document'[r].by = Agent => document'[r - 1].by = Agent
      BY <2>1, <2>3, ReviseKeeps DEF Agent, Human
    <3>2. PublicationTypeOK'
      BY <2>1, <3>1 DEF PublicationInv, PublicationTypeOK, Revision
    <3>3. PublicationHasArtifact' /\ RetryIsOfPublication'
      BY <2>1 DEF PublicationInv, PublicationHasArtifact, RetryIsOfPublication
    <3>4. ExpectsAgents' /\ TargetIsThere'
      BY <1>1, <2>1, <3>1 DEF PublicationInv, ExpectsAgents, TargetIsThere
    <3>5. DocumentInOrder'
      BY <1>1, <2>1, <3>1 DEF PublicationInv, DocumentInOrder, TargetIsThere
    <3>6. QED BY <3>1, <3>2, <3>3, <3>4, <3>5 DEF PublicationInv
  <2>4. QED BY <1>9, <2>2, <2>3 DEF CommitEdit, IsCurrent
<1>10. QED
  BY <1>2, <1>3, <1>5, <1>6, <1>7, <1>8, <1>9 DEF PublicationNext

LEMMA PublicationInvariance ==
    PublicationSpec => []PublicationInv
<1>1. PublicationInit => PublicationInv
  <2>1. Len(<<>>) = 0 /\ <<>> \in Seq(Revision)
    OBVIOUS
  <2>2. QED
    BY <2>1, PublicationAssumption DEF PublicationInit, PublicationInv, PublicationTypeOK,
       PublicationHasArtifact, RetryIsOfPublication, ArtifactsAreAgents, ExpectsAgents,
       TargetIsThere, DocumentInOrder, Version, Revision
<1>2. PublicationInv /\ [PublicationNext]_publicationVars => PublicationInv'
  BY StepKeepsPublication
<1>3. QED BY <1>1, <1>2, PTL DEF PublicationSpec

(* The rows of publication, document and space, and the requests about them,
   hold values the code can write, for any number of editors and artifacts. *)
THEOREM PublicationTypeCorrect ==
    PublicationSpec => []PublicationTypeOK
BY PublicationInvariance, PTL DEF PublicationInv

(* Nobody writes over a revision he has not seen, and what a publication calls
   published is there: through edits, retries, archives, late hooks and restarts
   in any order. *)
THEOREM DocumentsStayInOrder ==
    PublicationSpec => []DocumentInOrder
BY PublicationInvariance, PTL DEF PublicationInv

-----------------------------------------------------------------------------
(* The pipeline catalogue. *)

(* Rows whose versions are at most n. *)
InstanceUpTo(n) == [version : 1..n, enabled : BOOLEAN, healthy : BOOLEAN]
DeploymentUpTo(n) == [pinned : 1..n, status : {"unknown", "qualified", "failed"},
                      enabled : BOOLEAN, version : 1..n]
DraftUpTo(n) == [content : Content, version : 1..n, status : {"unknown", "valid", "invalid"}]
RevisionUpTo(n) == [content : Content, bound : DeploymentUpTo(n), by : {System, Operator}]

InstanceChange(n) == [op : {"patchInstance", "checkInstance"}, row : InstanceUpTo(n - 1)]
DeploymentChange(n) == [op : {"deployment"}, row : DeploymentUpTo(n)]
DraftChange(n) == [op : {"draft"}, row : DraftUpTo(n)]
SnapshotChange(n) == [op : {"validating", "publishing", "publish"}, row : DraftUpTo(n - 1),
                      bound : DeploymentUpTo(n)]
ActivateChange(n, last) == [op : {"activate"}, row : [active : 1..last, version : 1..n]]

AnyChange(n, last) ==
    {NoChange} \cup InstanceChange(n) \cup DeploymentChange(n) \cup DraftChange(n)
    \cup SnapshotChange(n) \cup ActivateChange(n, last)

(* A request bumps a version once, a startup four of them at most. *)
Top == 1 + changes + 4 * startups

CatalogTyped ==
    /\ changes \in 0..MaxChanges /\ startups \in 0..MaxStartups /\ online \in BOOLEAN
    /\ instance \in InstanceUpTo(Top) /\ deployment \in DeploymentUpTo(Top)
    /\ draft \in DraftUpTo(Top)
    /\ revisions \in Seq(RevisionUpTo(Top)) /\ Len(revisions) > 0
    /\ pipeline \in [active : 1..Len(revisions), version : 1..Top]

(* What a request has read, as long as nobody has written since. *)
ReadInOrder(k, dr, dep) ==
    /\ k.op = "draft" => (k.row.status = "valid" => k.row.content \in Sound)
    /\ k.op \in {"validating", "publishing", "publish"} =>
         /\ k.row.version <= dr.version
         /\ k.row.version = dr.version => k.row.content = dr.content
    /\ k.op = "publish" => k.bound.status = "qualified"
    /\ k.op = "deployment" =>
         /\ k.row.version <= dep.version + 1
         /\ k.row.version = dep.version + 1 => k.row.pinned = dep.pinned \/ ~k.row.enabled

ChangesInOrder ==
    /\ change \in [Author -> AnyChange(Top, Len(revisions))]
    /\ \A c \in Author : ReadInOrder(change[c], draft, deployment)

ValidDraftIsSound == draft.status = "valid" => draft.content \in Sound

CatalogInv == CatalogTyped /\ ChangesInOrder /\ ValidDraftIsSound

-----------------------------------------------------------------------------
LEMMA TopIsNumber ==
    ASSUME CatalogTyped
    PROVE  Top \in Nat /\ Top > 0 /\ changes \in Nat /\ startups \in Nat /\ Len(revisions) \in Nat
<1>1. changes \in Nat /\ startups \in Nat
  BY CatalogAssumption DEF CatalogTyped
<1>2. Len(revisions) \in Nat
  BY LenProperties DEF CatalogTyped
<1> QED BY <1>1, <1>2 DEF Top

LEMMA UpToGrows ==
    ASSUME NEW n \in Nat, NEW m \in Nat, n <= m
    PROVE  /\ InstanceUpTo(n) \subseteq InstanceUpTo(m)
           /\ InstanceUpTo(n - 1) \subseteq InstanceUpTo(m - 1)
           /\ DeploymentUpTo(n) \subseteq DeploymentUpTo(m)
           /\ DraftUpTo(n) \subseteq DraftUpTo(m)
           /\ DraftUpTo(n - 1) \subseteq DraftUpTo(m - 1)
<1>1. 1..n \subseteq 1..m /\ 1..(n - 1) \subseteq 1..(m - 1)
  OBVIOUS
<1> QED BY <1>1 DEF InstanceUpTo, DeploymentUpTo, DraftUpTo

LEMMA RevisionsGrow ==
    ASSUME NEW n \in Nat, NEW m \in Nat, n <= m, NEW s \in Seq(RevisionUpTo(n))
    PROVE  s \in Seq(RevisionUpTo(m))
<1>1. RevisionUpTo(n) \subseteq RevisionUpTo(m)
  BY UpToGrows DEF RevisionUpTo
<1> QED BY <1>1, SeqDef

LEMMA ChangesGrow ==
    ASSUME NEW n \in Nat, NEW m \in Nat, n <= m,
           NEW last \in Nat, NEW more \in Nat, last <= more,
           NEW k \in AnyChange(n, last)
    PROVE  k \in AnyChange(m, more)
<1>1. CASE k \in InstanceChange(n)
  BY <1>1, UpToGrows DEF InstanceChange, AnyChange
<1>2. CASE k \in DeploymentChange(n)
  BY <1>2, UpToGrows DEF DeploymentChange, AnyChange
<1>3. CASE k \in DraftChange(n)
  BY <1>3, UpToGrows DEF DraftChange, AnyChange
<1>4. CASE k \in SnapshotChange(n)
  BY <1>4, UpToGrows DEF SnapshotChange, AnyChange
<1>5. CASE k \in ActivateChange(n, last)
  <2>1. 1..last \subseteq 1..more /\ 1..n \subseteq 1..m
    OBVIOUS
  <2> QED BY <1>5, <2>1 DEF ActivateChange, AnyChange
<1> QED BY <1>1, <1>2, <1>3, <1>4, <1>5 DEF AnyChange

(* What an operation says of the change that asks for it. *)
LEMMA KindOfChange ==
    ASSUME NEW n, NEW last, NEW k \in AnyChange(n, last)
    PROVE  /\ k.op \in {"patchInstance", "checkInstance"} => k \in InstanceChange(n)
           /\ k.op = "deployment" => k \in DeploymentChange(n)
           /\ k.op = "draft" => k \in DraftChange(n)
           /\ k.op \in {"validating", "publishing", "publish"} => k \in SnapshotChange(n)
           /\ k.op = "activate" => k \in ActivateChange(n, last)
BY DEF AnyChange, NoChange, InstanceChange, DeploymentChange, DraftChange, SnapshotChange,
       ActivateChange

(* What was read stays true until its row is written, and says nothing then. *)
LEMMA ReadStays ==
    ASSUME NEW n \in Nat, NEW last, NEW k \in AnyChange(n, last),
           NEW dr \in DraftUpTo(n), NEW dr2, dr2 = dr \/ dr2.version = dr.version + 1,
           NEW dep \in DeploymentUpTo(n), NEW dep2, dep2 = dep \/ dep2.version = dep.version + 1,
           ReadInOrder(k, dr, dep)
    PROVE  ReadInOrder(k, dr2, dep2)
<1>1. dr.version \in Nat /\ dep.version \in Nat
  BY DEF DraftUpTo, DeploymentUpTo
<1>2. k.op \in {"validating", "publishing", "publish"} =>
        /\ k.row.version <= dr2.version
        /\ k.row.version = dr2.version => k.row.content = dr2.content
  <2> SUFFICES ASSUME k.op \in {"validating", "publishing", "publish"}
               PROVE  /\ k.row.version <= dr2.version
                      /\ k.row.version = dr2.version => k.row.content = dr2.content
    OBVIOUS
  <2>1. k \in SnapshotChange(n)
    BY KindOfChange
  <2>2. k.row.version \in Nat
    BY <2>1 DEF SnapshotChange, DraftUpTo
  <2>3. k.row.version <= dr.version /\ (k.row.version = dr.version => k.row.content = dr.content)
    BY DEF ReadInOrder
  <2> QED BY <1>1, <2>2, <2>3
<1>3. k.op = "deployment" =>
        /\ k.row.version <= dep2.version + 1
        /\ k.row.version = dep2.version + 1 => k.row.pinned = dep2.pinned \/ ~k.row.enabled
  <2> SUFFICES ASSUME k.op = "deployment"
               PROVE  /\ k.row.version <= dep2.version + 1
                      /\ k.row.version = dep2.version + 1 =>
                           k.row.pinned = dep2.pinned \/ ~k.row.enabled
    OBVIOUS
  <2>1. k \in DeploymentChange(n)
    BY KindOfChange
  <2>2. k.row.version \in Nat
    BY <2>1 DEF DeploymentChange, DeploymentUpTo
  <2>3. /\ k.row.version <= dep.version + 1
        /\ k.row.version = dep.version + 1 => k.row.pinned = dep.pinned \/ ~k.row.enabled
    BY DEF ReadInOrder
  <2> QED BY <1>1, <2>2, <2>3
<1> QED BY <1>2, <1>3 DEF ReadInOrder

(* A request that comes in. *)
LEMMA AskKeeps ==
    ASSUME CatalogInv, NEW c \in Author, NEW k, Asks(c, k),
           k \in AnyChange(Top + 1, Len(revisions)), ReadInOrder(k, draft, deployment)
    PROVE  CatalogInv'
<1>1. /\ changes' = changes + 1 /\ changes < MaxChanges /\ change' = [change EXCEPT ![c] = k]
      /\ UNCHANGED <<instance, deployment, draft, revisions, pipeline, online, startups>>
  BY DEF Asks, GoesOn, catalogRows
<1>2. Top \in Nat /\ changes \in Nat /\ startups \in Nat /\ Len(revisions) \in Nat
  BY TopIsNumber DEF CatalogInv
<1>3. Top' = Top + 1
  BY <1>1, <1>2 DEF Top
<1>4. CatalogTyped'
  <2>1. changes' \in 0..MaxChanges
    BY <1>1, <1>2, CatalogAssumption
  <2>2. /\ instance \in InstanceUpTo(Top + 1) /\ deployment \in DeploymentUpTo(Top + 1)
        /\ draft \in DraftUpTo(Top + 1)
    BY <1>2, UpToGrows DEF CatalogInv, CatalogTyped
  <2>3. revisions \in Seq(RevisionUpTo(Top + 1))
    BY <1>2, RevisionsGrow DEF CatalogInv, CatalogTyped
  <2>4. pipeline \in [active : 1..Len(revisions), version : 1..(Top + 1)]
    BY <1>2 DEF CatalogInv, CatalogTyped
  <2> QED BY <1>1, <1>3, <2>1, <2>2, <2>3, <2>4 DEF CatalogInv, CatalogTyped
<1>5. \A b \in Author : change[b] \in AnyChange(Top + 1, Len(revisions))
  BY <1>2, ChangesGrow DEF CatalogInv, ChangesInOrder
<1>6. change' \in [Author -> AnyChange(Top + 1, Len(revisions))]
  BY <1>1, <1>5 DEF CatalogInv, ChangesInOrder
<1>7. ChangesInOrder'
  BY <1>1, <1>3, <1>6 DEF CatalogInv, ChangesInOrder
<1> QED BY <1>1, <1>4, <1>7 DEF CatalogInv, ValidDraftIsSound

(* A request that goes on or ends. *)
LEMMA GoesOnKeeps ==
    ASSUME CatalogInv, NEW c \in Author, NEW k, GoesOn(c, k), CatalogTyped', Top' = Top,
           Len(revisions)' >= Len(revisions), ValidDraftIsSound',
           k \in AnyChange(Top, Len(revisions)'), ReadInOrder(k, draft', deployment'),
           draft' = draft \/ draft'.version = draft.version + 1,
           deployment' = deployment \/ deployment'.version = deployment.version + 1
    PROVE  CatalogInv'
<1>1. Top \in Nat /\ Len(revisions) \in Nat /\ Len(revisions)' \in Nat
  BY TopIsNumber, LenProperties DEF CatalogInv, CatalogTyped
<1>2. ASSUME NEW b \in Author
      PROVE  change[b] \in AnyChange(Top, Len(revisions)') /\ ReadInOrder(change[b], draft', deployment')
  <2>1. change[b] \in AnyChange(Top, Len(revisions)) /\ ReadInOrder(change[b], draft, deployment)
    BY DEF CatalogInv, ChangesInOrder
  <2>2. change[b] \in AnyChange(Top, Len(revisions)')
    BY <1>1, <2>1, ChangesGrow
  <2>3. draft \in DraftUpTo(Top) /\ deployment \in DeploymentUpTo(Top)
    BY DEF CatalogInv, CatalogTyped
  <2> QED BY <1>1, <2>1, <2>2, <2>3, ReadStays
<1>3. change' = [change EXCEPT ![c] = k] /\ DOMAIN change = Author
  BY DEF GoesOn, CatalogInv, ChangesInOrder
<1>4. change' \in [Author -> AnyChange(Top, Len(revisions)')]
  BY <1>2, <1>3 DEF CatalogInv, ChangesInOrder
<1>5. \A b \in Author : ReadInOrder(change'[b], draft', deployment')
  BY <1>2, <1>3
<1>6. ChangesInOrder'
  BY <1>4, <1>5 DEF ChangesInOrder
<1> QED BY <1>6 DEF CatalogInv

LEMMA NoChangeIsFine ==
    ASSUME NEW n, NEW last, NEW dr, NEW dep
    PROVE  NoChange \in AnyChange(n, last) /\ ReadInOrder(NoChange, dr, dep)
BY DEF AnyChange, NoChange, ReadInOrder

-----------------------------------------------------------------------------
(* What the writers make of a row. *)
LEMMA DeploymentBumped ==
    ASSUME NEW n \in Nat, NEW row \in DeploymentUpTo(n)
    PROVE  /\ Bump(row) \in DeploymentUpTo(n + 1) /\ Bump(row).version = row.version + 1
           /\ Bump(row).pinned = row.pinned /\ Bump(row).status = row.status
           /\ Bump(row).enabled = row.enabled
<1>1. row.version \in 1..n /\ row.pinned \in 1..n
  BY DEF DeploymentUpTo
<1>2. row.version + 1 \in 1..(n + 1) /\ row.pinned \in 1..(n + 1)
  BY <1>1
<1> QED BY <1>2 DEF Bump, DeploymentUpTo

LEMMA DeploymentMade ==
    ASSUME NEW n \in Nat, NEW row \in DeploymentUpTo(n), instance \in InstanceUpTo(n),
           NEW e \in BOOLEAN
    PROVE  /\ {Patched(row), Qualified(row), SetEnabled(row, e)} \subseteq DeploymentUpTo(n + 1)
           /\ Patched(row).version = row.version + 1 /\ ~Patched(row).enabled
           /\ Qualified(row).version = row.version + 1 /\ Qualified(row).pinned = row.pinned
           /\ SetEnabled(row, e).version = row.version + 1
           /\ SetEnabled(row, e).pinned = row.pinned /\ SetEnabled(row, e).status = row.status
           /\ SetEnabled(row, e).enabled = e
<1> DEFINE b == Bump(row)
<1>1. /\ b \in DeploymentUpTo(n + 1) /\ b.version = row.version + 1
      /\ b.pinned = row.pinned /\ b.status = row.status /\ b.enabled = row.enabled
  BY DeploymentBumped
<1>2. instance.version \in 1..(n + 1)
  BY DEF InstanceUpTo
<1>3. DOMAIN b = {"pinned", "status", "enabled", "version"} /\ b.enabled \in BOOLEAN
  BY <1>1 DEF DeploymentUpTo
<1>4. Patched(row) = [b EXCEPT !.pinned = instance.version, !.status = "unknown", !.enabled = FALSE]
  BY DEF Patched
<1>5. SetEnabled(row, e) = [b EXCEPT !.enabled = e]
  BY DEF SetEnabled
<1>6. Qualified(row) = [b EXCEPT !.status = IF Qualifies(row) THEN "qualified" ELSE "failed",
                                 !.enabled = b.enabled /\ Qualifies(row)]
  BY DEF Qualified
<1>7. \E s \in {"qualified", "failed"}, f \in BOOLEAN : Qualified(row) = [b EXCEPT !.status = s, !.enabled = f]
  <2>1. CASE Qualifies(row)
    <3>1. Qualified(row) = [b EXCEPT !.status = "qualified", !.enabled = b.enabled /\ TRUE]
      BY <1>6, <2>1
    <3>2. (b.enabled /\ TRUE) \in BOOLEAN
      OBVIOUS
    <3> QED BY <3>1, <3>2, Zenon
  <2>2. CASE ~Qualifies(row)
    <3>1. Qualified(row) = [b EXCEPT !.status = "failed", !.enabled = b.enabled /\ FALSE]
      BY <1>6, <2>2
    <3>2. (b.enabled /\ FALSE) \in BOOLEAN
      OBVIOUS
    <3> QED BY <3>1, <3>2, Zenon
  <2> QED BY <2>1, <2>2
<1> HIDE DEF b
<1>8. PICK s \in {"qualified", "failed"}, f \in BOOLEAN : Qualified(row) = [b EXCEPT !.status = s, !.enabled = f]
  BY <1>7
<1>9. {Patched(row), Qualified(row), SetEnabled(row, e)} \subseteq DeploymentUpTo(n + 1)
  <2>1. Patched(row) \in DeploymentUpTo(n + 1)
    BY <1>1, <1>2, <1>4 DEF DeploymentUpTo
  <2>2. Qualified(row) \in DeploymentUpTo(n + 1)
    BY <1>1, <1>8 DEF DeploymentUpTo
  <2>3. SetEnabled(row, e) \in DeploymentUpTo(n + 1)
    BY <1>1, <1>5 DEF DeploymentUpTo
  <2> QED BY <2>1, <2>2, <2>3
<1>10. /\ Patched(row).version = row.version + 1 /\ ~Patched(row).enabled
  BY <1>1, <1>3, <1>4
<1>11. Qualified(row).version = row.version + 1 /\ Qualified(row).pinned = row.pinned
  BY <1>1, <1>3, <1>8
<1>12. /\ SetEnabled(row, e).version = row.version + 1
       /\ SetEnabled(row, e).pinned = row.pinned /\ SetEnabled(row, e).status = row.status
       /\ SetEnabled(row, e).enabled = e
  BY <1>1, <1>3, <1>5
<1> QED BY <1>9, <1>10, <1>11, <1>12

LEMMA DraftValidated ==
    ASSUME NEW n \in Nat, NEW row \in DraftUpTo(n), NEW bound
    PROVE  /\ Validated(row, bound) \in DraftUpTo(n + 1)
           /\ Validated(row, bound).version = row.version + 1
           /\ Validated(row, bound).content = row.content
           /\ Validated(row, bound).status = "valid" => row.content \in Sound /\ Resolves(bound)
<1> DEFINE b == Bump(row)
<1>1. row.version \in 1..n
  BY DEF DraftUpTo
<1>2. row.version + 1 \in 1..(n + 1)
  BY <1>1
<1>3. b \in DraftUpTo(n + 1) /\ b.version = row.version + 1 /\ b.content = row.content
  BY <1>2 DEF Bump, DraftUpTo
<1>4. \E s \in {"valid", "invalid"} :
        /\ Validated(row, bound) = [b EXCEPT !.status = s]
        /\ s = "valid" => row.content \in Sound /\ Resolves(bound)
  BY Zenon DEF Validated
<1> HIDE DEF b
<1>5. PICK s \in {"valid", "invalid"} :
        /\ Validated(row, bound) = [b EXCEPT !.status = s]
        /\ s = "valid" => row.content \in Sound /\ Resolves(bound)
  BY <1>4
<1>6. Validated(row, bound) \in DraftUpTo(n + 1)
  BY <1>3, <1>5 DEF DraftUpTo
<1>7. /\ Validated(row, bound).version = row.version + 1
      /\ Validated(row, bound).content = row.content
      /\ Validated(row, bound).status = s
  BY <1>3, <1>5 DEF DraftUpTo
<1> QED BY <1>5, <1>6, <1>7

LEMMA InstanceWritten ==
    ASSUME NEW n \in Nat, NEW row \in InstanceUpTo(n - 1), NEW e \in BOOLEAN
    PROVE  /\ [Bump(row) EXCEPT !.enabled = e] \in InstanceUpTo(n)
           /\ [row EXCEPT !.healthy = e] \in InstanceUpTo(n)
<1> DEFINE b == Bump(row)
<1>1. row.version \in 1..(n - 1)
  BY DEF InstanceUpTo
<1>2. row.version \in 1..n /\ row.version + 1 \in 1..n
  BY <1>1
<1>3. b \in InstanceUpTo(n) /\ row \in InstanceUpTo(n)
  BY <1>2 DEF Bump, InstanceUpTo
<1> HIDE DEF b
<1>4. [b EXCEPT !.enabled = e] \in InstanceUpTo(n) /\ [row EXCEPT !.healthy = e] \in InstanceUpTo(n)
  BY <1>3 DEF InstanceUpTo
<1> QED BY <1>4 DEF b

-----------------------------------------------------------------------------
(* Requests come in. *)

LEMMA BeginInstanceKeeps ==
    ASSUME CatalogInv, NEW c \in Author, NEW op \in {"patchInstance", "checkInstance"},
           BeginInstance(c, op)
    PROVE  CatalogInv'
<1> DEFINE k == [op |-> op, row |-> instance]
<1>1. Top \in Nat
  BY TopIsNumber DEF CatalogInv
<1>2. k \in InstanceChange(Top + 1)
  <2>1. (Top + 1) - 1 = Top
    BY <1>1
  <2> QED BY <2>1 DEF InstanceChange, CatalogInv, CatalogTyped
<1>3. k \in AnyChange(Top + 1, Len(revisions))
  BY <1>2 DEF AnyChange
<1>4. ReadInOrder(k, draft, deployment)
  BY DEF ReadInOrder
<1>5. Asks(c, k)
  BY DEF BeginInstance
<1> HIDE DEF k
<1> QED BY <1>3, <1>4, <1>5, AskKeeps

LEMMA BeginDeploymentKeeps ==
    ASSUME CatalogInv, NEW c \in Author, BeginDeployment(c)
    PROVE  CatalogInv'
<1>1. PICK row \in {Patched(deployment), Qualified(deployment), SetEnabled(deployment, FALSE)}
                   \cup {SetEnabled(deployment, TRUE)} :
         Asks(c, [op |-> "deployment", row |-> row])
  BY DEF BeginDeployment
<1> DEFINE k == [op |-> "deployment", row |-> row]
<1>2. Top \in Nat /\ deployment \in DeploymentUpTo(Top) /\ instance \in InstanceUpTo(Top)
  BY TopIsNumber DEF CatalogInv, CatalogTyped
<1>3. /\ row \in DeploymentUpTo(Top + 1) /\ row.version = deployment.version + 1
      /\ row.pinned = deployment.pinned \/ ~row.enabled
  <2>1. \/ row = Patched(deployment) \/ row = Qualified(deployment)
        \/ \E e \in BOOLEAN : row = SetEnabled(deployment, e)
    BY <1>1
  <2>2. CASE row = Patched(deployment)
    BY <1>2, <2>2, DeploymentMade
  <2>3. CASE row = Qualified(deployment)
    BY <1>2, <2>3, DeploymentMade
  <2>4. CASE \E e \in BOOLEAN : row = SetEnabled(deployment, e)
    BY <1>2, <2>4, DeploymentMade
  <2> QED BY <2>1, <2>2, <2>3, <2>4
<1>4. k \in DeploymentChange(Top + 1)
  BY <1>3 DEF DeploymentChange
<1>5. k \in AnyChange(Top + 1, Len(revisions))
  BY <1>4 DEF AnyChange
<1>6. ReadInOrder(k, draft, deployment)
  <2>1. row.version \in Nat
    BY <1>3, <1>2 DEF DeploymentUpTo
  <2> QED BY <1>3, <2>1 DEF ReadInOrder
<1>7. Asks(c, k)
  BY <1>1
<1> HIDE DEF k
<1> QED BY <1>5, <1>6, <1>7, AskKeeps

LEMMA BeginPatchDraftKeeps ==
    ASSUME CatalogInv, NEW c \in Author, NEW content \in Content, BeginPatchDraft(c, content)
    PROVE  CatalogInv'
<1> DEFINE row == [content |-> content, version |-> draft.version + 1, status |-> "unknown"]
           k == [op |-> "draft", row |-> row]
<1>1. Top \in Nat /\ draft \in DraftUpTo(Top)
  BY TopIsNumber DEF CatalogInv, CatalogTyped
<1>2. row \in DraftUpTo(Top + 1)
  BY <1>1 DEF DraftUpTo
<1>3. k \in AnyChange(Top + 1, Len(revisions))
  BY <1>2 DEF DraftChange, AnyChange
<1>4. ReadInOrder(k, draft, deployment)
  BY DEF ReadInOrder
<1>5. Asks(c, k)
  BY DEF BeginPatchDraft
<1> HIDE DEF k
<1> QED BY <1>3, <1>4, <1>5, AskKeeps

LEMMA BeginSnapshotKeeps ==
    ASSUME CatalogInv, NEW c \in Author, NEW op \in {"validating", "publishing"},
           BeginSnapshot(c, op)
    PROVE  CatalogInv'
<1> DEFINE k == [op |-> op, row |-> draft, bound |-> deployment]
<1>1. Top \in Nat /\ draft \in DraftUpTo(Top) /\ deployment \in DeploymentUpTo(Top)
  BY TopIsNumber DEF CatalogInv, CatalogTyped
<1>2. k \in SnapshotChange(Top + 1)
  <2>1. (Top + 1) - 1 = Top
    BY <1>1
  <2>2. deployment \in DeploymentUpTo(Top + 1)
    BY <1>1, UpToGrows
  <2> QED BY <1>1, <2>1, <2>2 DEF SnapshotChange
<1>3. k \in AnyChange(Top + 1, Len(revisions))
  BY <1>2 DEF AnyChange
<1>4. ReadInOrder(k, draft, deployment)
  <2>1. draft.version \in Nat
    BY <1>1 DEF DraftUpTo
  <2> QED BY <2>1 DEF ReadInOrder
<1>5. Asks(c, k)
  BY DEF BeginSnapshot
<1> HIDE DEF k
<1> QED BY <1>3, <1>4, <1>5, AskKeeps

LEMMA BeginActivateKeeps ==
    ASSUME CatalogInv, NEW c \in Author, NEW revision \in DOMAIN revisions,
           BeginActivate(c, revision)
    PROVE  CatalogInv'
<1> DEFINE row == [active |-> revision, version |-> pipeline.version + 1]
           k == [op |-> "activate", row |-> row]
<1>1. Top \in Nat /\ pipeline \in [active : 1..Len(revisions), version : 1..Top]
      /\ revisions \in Seq(RevisionUpTo(Top))
  BY TopIsNumber DEF CatalogInv, CatalogTyped
<1>2. revision \in 1..Len(revisions)
  BY <1>1, LenProperties
<1>3. row \in [active : 1..Len(revisions), version : 1..(Top + 1)]
  BY <1>1, <1>2
<1>4. k \in AnyChange(Top + 1, Len(revisions))
  BY <1>3 DEF ActivateChange, AnyChange
<1>5. ReadInOrder(k, draft, deployment)
  BY DEF ReadInOrder
<1>6. Asks(c, k)
  BY DEF BeginActivate
<1> HIDE DEF k
<1> QED BY <1>4, <1>5, <1>6, AskKeeps

-----------------------------------------------------------------------------
(* Requests are carried out. *)

LEMMA SaveInstanceKeeps ==
    ASSUME CatalogInv, NEW c \in Author, SaveInstance(c)
    PROVE  CatalogInv'
<1>1. /\ change[c].op \in {"patchInstance", "checkInstance"} /\ GoesOn(c, NoChange)
      /\ UNCHANGED <<deployment, draft, revisions, pipeline, changes, online, startups>>
      /\ \/ \E e \in BOOLEAN : instance' = [Bump(change[c].row) EXCEPT !.enabled = e]
         \/ \E e \in BOOLEAN : instance' = [change[c].row EXCEPT !.healthy = e]
  BY DEF SaveInstance, Performs, Answered
<1>2. Top' = Top /\ Top \in Nat
  BY <1>1, TopIsNumber DEF Top, CatalogInv
<1>3. change[c] \in InstanceChange(Top)
  BY <1>1, KindOfChange DEF CatalogInv, ChangesInOrder
<1>4. change[c].row \in InstanceUpTo(Top - 1)
  BY <1>3 DEF InstanceChange
<1>5. instance' \in InstanceUpTo(Top)
  BY <1>1, <1>2, <1>4, InstanceWritten
<1>6. CatalogTyped'
  BY <1>1, <1>2, <1>5 DEF CatalogInv, CatalogTyped
<1>7. ValidDraftIsSound' /\ Len(revisions)' >= Len(revisions)
  BY <1>1, TopIsNumber DEF CatalogInv, ValidDraftIsSound
<1> QED BY <1>1, <1>2, <1>6, <1>7, NoChangeIsFine, GoesOnKeeps

LEMMA SaveDeploymentKeeps ==
    ASSUME CatalogInv, NEW c \in Author, SaveDeployment(c)
    PROVE  CatalogInv' /\ RepinnedIsDisabled
<1>1. /\ change[c].op = "deployment" /\ GoesOn(c, NoChange)
      /\ UNCHANGED <<instance, draft, revisions, pipeline, changes, online, startups>>
      /\ \/ deployment' = deployment
         \/ deployment' = change[c].row /\ change[c].row.version = deployment.version + 1
  BY DEF SaveDeployment, Performs, Answered, SwapsRow
<1>2. Top' = Top /\ Top \in Nat
  BY <1>1, TopIsNumber DEF Top, CatalogInv
<1>3. change[c] \in DeploymentChange(Top) /\ ReadInOrder(change[c], draft, deployment)
  BY <1>1, KindOfChange DEF CatalogInv, ChangesInOrder
<1>4. CatalogTyped'
  BY <1>1, <1>2, <1>3 DEF CatalogInv, CatalogTyped, DeploymentChange
<1>5. ValidDraftIsSound' /\ Len(revisions)' >= Len(revisions)
  BY <1>1, TopIsNumber DEF CatalogInv, ValidDraftIsSound
<1>6. CatalogInv'
  BY <1>1, <1>2, <1>4, <1>5, NoChangeIsFine, GoesOnKeeps
<1>7. RepinnedIsDisabled
  BY <1>1, <1>3 DEF RepinnedIsDisabled, ReadInOrder
<1> QED BY <1>6, <1>7

LEMMA TakeSnapshotKeeps ==
    ASSUME CatalogInv, NEW c \in Author, TakeSnapshot(c)
    PROVE  CatalogInv'
<1>1. UNCHANGED <<instance, deployment, draft, revisions, pipeline, changes, online, startups>>
  BY DEF TakeSnapshot, catalogRows
<1>2. Top' = Top /\ Top \in Nat /\ Len(revisions) \in Nat
  BY <1>1, TopIsNumber DEF Top, CatalogInv
<1>3. CatalogTyped' /\ ValidDraftIsSound' /\ Len(revisions)' >= Len(revisions)
  BY <1>1, <1>2 DEF CatalogInv, CatalogTyped, ValidDraftIsSound
<1>4. change[c].op \in {"validating", "publishing"}
  BY DEF TakeSnapshot, Performs
<1>5. change[c] \in SnapshotChange(Top) /\ ReadInOrder(change[c], draft, deployment)
  BY <1>4, KindOfChange DEF CatalogInv, ChangesInOrder
<1>6. change[c].row \in DraftUpTo(Top - 1) /\ change[c].bound \in DeploymentUpTo(Top)
  BY <1>5 DEF SnapshotChange
<1>7. CASE GoesOn(c, [op |-> "draft", row |-> Validated(change[c].row, change[c].bound)])
  <2> DEFINE row == Validated(change[c].row, change[c].bound)
             k == [op |-> "draft", row |-> row]
  <2>1. row \in DraftUpTo(Top) /\ (row.status = "valid" => row.content \in Sound)
    <3>1. Top - 1 \in Nat /\ (Top - 1) + 1 = Top
      BY <1>2, <1>3, TopIsNumber DEF CatalogInv
    <3> QED BY <3>1, <1>6, DraftValidated
  <2>2. k \in AnyChange(Top, Len(revisions)') /\ ReadInOrder(k, draft', deployment')
    BY <2>1 DEF DraftChange, AnyChange, ReadInOrder
  <2>3. GoesOn(c, k)
    BY <1>7
  <2> HIDE DEF k
  <2> QED BY <1>1, <1>2, <1>3, <2>2, <2>3, GoesOnKeeps
<1>8. CASE GoesOn(c, NoChange)
  BY <1>1, <1>2, <1>3, <1>8, NoChangeIsFine, GoesOnKeeps
<1>9. CASE /\ change[c].op = "publishing" /\ Resolves(change[c].bound)
           /\ change' = [change EXCEPT ![c].op = "publish"]
  <2> DEFINE k == [change[c] EXCEPT !.op = "publish"]
  <2>1. /\ k \in SnapshotChange(Top) /\ k.op = "publish"
        /\ k.row = change[c].row /\ k.bound = change[c].bound
    BY <1>5 DEF SnapshotChange
  <2>2. k.bound.status = "qualified"
    BY <1>9, <2>1 DEF Resolves
  <2>3. ReadInOrder(k, draft, deployment)
    BY <1>4, <1>5, <2>1, <2>2 DEF ReadInOrder
  <2>4. k \in AnyChange(Top, Len(revisions)') /\ ReadInOrder(k, draft', deployment')
    BY <1>1, <2>1, <2>3 DEF AnyChange
  <2>5. GoesOn(c, k)
    BY <1>9 DEF GoesOn
  <2> HIDE DEF k
  <2> QED BY <1>1, <1>2, <1>3, <2>4, <2>5, GoesOnKeeps
<1> QED BY <1>7, <1>8, <1>9 DEF TakeSnapshot, Performs, Answered

LEMMA SaveDraftKeeps ==
    ASSUME CatalogInv, NEW c \in Author, SaveDraft(c)
    PROVE  CatalogInv'
<1>1. /\ change[c].op = "draft" /\ GoesOn(c, NoChange)
      /\ UNCHANGED <<instance, deployment, revisions, pipeline, changes, online, startups>>
      /\ \/ draft' = draft
         \/ draft' = change[c].row /\ change[c].row.version = draft.version + 1
  BY DEF SaveDraft, Performs, Answered, SwapsRow
<1>2. Top' = Top /\ Top \in Nat /\ Len(revisions) \in Nat
  BY <1>1, TopIsNumber DEF Top, CatalogInv
<1>3. change[c] \in DraftChange(Top) /\ ReadInOrder(change[c], draft, deployment)
  BY <1>1, KindOfChange DEF CatalogInv, ChangesInOrder
<1>4. CatalogTyped'
  BY <1>1, <1>2, <1>3 DEF CatalogInv, CatalogTyped, DraftChange
<1>5. ValidDraftIsSound' /\ Len(revisions)' >= Len(revisions)
  BY <1>1, <1>2, <1>3 DEF CatalogInv, ValidDraftIsSound, ReadInOrder
<1> QED BY <1>1, <1>2, <1>4, <1>5, NoChangeIsFine, GoesOnKeeps

(* A revision more: all earlier ones are as they were. *)
LEMMA RevisionAdded ==
    ASSUME NEW n \in Nat, NEW s \in Seq(RevisionUpTo(n)), NEW rev \in RevisionUpTo(n)
    PROVE  /\ Append(s, rev) \in Seq(RevisionUpTo(n)) /\ Len(Append(s, rev)) = Len(s) + 1
           /\ SubSeq(Append(s, rev), 1, Len(s)) = s /\ Append(s, rev)[Len(s) + 1] = rev
           /\ Len(s) \in Nat
<1>1. /\ Append(s, rev) \in Seq(RevisionUpTo(n)) /\ Len(Append(s, rev)) = Len(s) + 1
      /\ \A i \in 1..Len(s) : Append(s, rev)[i] = s[i]
      /\ Append(s, rev)[Len(s) + 1] = rev /\ Len(s) \in Nat
  BY AppendProperties, LenProperties
<1>2. SubSeq(Append(s, rev), 1, Len(s)) = s
  BY <1>1, SubSeqProperties, SeqEqual
<1> QED BY <1>1, <1>2

LEMMA PublishDraftKeeps ==
    ASSUME CatalogInv, NEW c \in Author, PublishDraft(c)
    PROVE  CatalogInv' /\ RevisionIsDraft
<1> DEFINE rev == RevisionOf(change[c].row.content, change[c].bound, Operator)
<1>1. /\ change[c].op = "publish" /\ GoesOn(c, NoChange)
      /\ UNCHANGED <<instance, deployment, draft, pipeline, changes, online, startups>>
      /\ \/ revisions' = revisions
         \/ /\ revisions' = Append(revisions, rev)
            /\ draft.version = change[c].row.version /\ draft.status = "valid"
  BY DEF PublishDraft, Performs, Answered, IsUnchanged
<1>2. Top' = Top /\ Top \in Nat /\ Len(revisions) \in Nat
      /\ revisions \in Seq(RevisionUpTo(Top))
  BY <1>1, TopIsNumber DEF Top, CatalogInv, CatalogTyped
<1>3. change[c] \in SnapshotChange(Top) /\ ReadInOrder(change[c], draft, deployment)
  BY <1>1, KindOfChange DEF CatalogInv, ChangesInOrder
<1>4. rev \in RevisionUpTo(Top)
  BY <1>3 DEF RevisionOf, RevisionUpTo, SnapshotChange, DraftUpTo
<1>5. rev.content = change[c].row.content /\ rev.bound = change[c].bound
  BY DEF RevisionOf
<1> HIDE DEF rev
<1>6. /\ revisions' \in Seq(RevisionUpTo(Top))
      /\ Len(revisions') \in Nat /\ Len(revisions') >= Len(revisions)
  BY <1>1, <1>2, <1>4, RevisionAdded
<1>7. CatalogTyped'
  <2>1. pipeline' \in [active : 1..Len(revisions'), version : 1..Top]
    BY <1>1, <1>2, <1>6 DEF CatalogInv, CatalogTyped
  <2>2. Len(revisions') > 0
    BY <1>2, <1>6 DEF CatalogInv, CatalogTyped
  <2> QED BY <1>1, <1>2, <1>6, <2>1, <2>2 DEF CatalogInv, CatalogTyped
<1>8. ValidDraftIsSound'
  BY <1>1 DEF CatalogInv, ValidDraftIsSound
<1>9. CatalogInv'
  BY <1>1, <1>2, <1>6, <1>7, <1>8, NoChangeIsFine, GoesOnKeeps
<1>10. ASSUME revisions' # revisions
       PROVE  /\ Len(revisions') = Len(revisions) + 1
              /\ SubSeq(revisions', 1, Len(revisions)) = revisions
              /\ revisions'[Len(revisions) + 1].content = draft'.content /\ draft'.content \in Sound
              /\ draft'.status = "valid"
              /\ revisions'[Len(revisions) + 1].bound.status = "qualified"
  <2>1. /\ revisions' = Append(revisions, rev)
        /\ draft.version = change[c].row.version /\ draft.status = "valid" /\ draft' = draft
    BY <1>1, <1>10
  <2>2. change[c].row.content = draft.content /\ change[c].bound.status = "qualified"
    BY <1>1, <1>3, <2>1 DEF ReadInOrder
  <2>3. /\ Len(revisions') = Len(revisions) + 1 /\ revisions'[Len(revisions) + 1] = rev
        /\ SubSeq(revisions', 1, Len(revisions)) = revisions
    BY <1>2, <1>4, <2>1, RevisionAdded
  <2> QED BY <1>5, <2>1, <2>2, <2>3 DEF CatalogInv, ValidDraftIsSound
<1>11. RevisionIsDraft
  BY <1>10 DEF RevisionIsDraft
<1> QED BY <1>9, <1>11

LEMMA ActivateKeeps ==
    ASSUME CatalogInv, NEW c \in Author, Activate(c)
    PROVE  CatalogInv'
<1>1. /\ change[c].op = "activate" /\ GoesOn(c, NoChange)
      /\ UNCHANGED <<instance, deployment, draft, revisions, changes, online, startups>>
      /\ pipeline' \in {pipeline, change[c].row}
  BY DEF Activate, Performs, Answered
<1>2. Top' = Top /\ Top \in Nat /\ Len(revisions) \in Nat
  BY <1>1, TopIsNumber DEF Top, CatalogInv
<1>3. change[c] \in ActivateChange(Top, Len(revisions))
  BY <1>1, KindOfChange DEF CatalogInv, ChangesInOrder
<1>4. CatalogTyped'
  BY <1>1, <1>2, <1>3 DEF CatalogInv, CatalogTyped, ActivateChange
<1>5. ValidDraftIsSound' /\ Len(revisions)' >= Len(revisions)
  BY <1>1, <1>2 DEF CatalogInv, ValidDraftIsSound
<1> QED BY <1>1, <1>2, <1>4, <1>5, NoChangeIsFine, GoesOnKeeps

-----------------------------------------------------------------------------
(* A startup. *)

(* It bumps the deployment three times at most, and keeps what makes it run. *)
LEMMA RefreshMakes ==
    ASSUME CatalogInv
    PROVE  /\ Refreshed \in DeploymentUpTo(Top + 4) /\ Executable \in DeploymentUpTo(Top + 4)
           /\ Executable.status = Refreshed.status
<1>1. Top \in Nat /\ instance \in InstanceUpTo(Top) /\ deployment \in DeploymentUpTo(Top)
  BY TopIsNumber DEF CatalogInv, CatalogTyped
<1>2. /\ instance \in InstanceUpTo(Top + 1) /\ instance \in InstanceUpTo(Top + 2)
      /\ deployment \in DeploymentUpTo(Top + 1)
  BY <1>1, UpToGrows
<1>3. Fresh \in DeploymentUpTo(Top + 1)
  BY <1>1, <1>2, DeploymentMade DEF Fresh
<1>4. Refreshed \in DeploymentUpTo(Top + 2)
  <2>1. CASE Refreshed = Fresh
    BY <1>1, <1>3, <2>1, UpToGrows
  <2>2. CASE Refreshed = Qualified(Fresh)
    <3>1. PICK m \in Nat : m = Top + 1 /\ m + 1 = Top + 2
      BY <1>1
    <3>2. instance \in InstanceUpTo(m) /\ Fresh \in DeploymentUpTo(m)
      BY <1>2, <1>3, <3>1
    <3>3. Qualified(Fresh) \in DeploymentUpTo(m + 1)
      BY <3>2, DeploymentMade
    <3> QED BY <2>2, <3>1, <3>3
  <2> QED BY <2>1, <2>2 DEF Refreshed
<1>5. Executable \in DeploymentUpTo(Top + 3) /\ Executable.status = Refreshed.status
  <2>1. CASE Executable = Refreshed
    BY <1>1, <1>4, <2>1, UpToGrows
  <2>2. CASE Executable = SetEnabled(Refreshed, TRUE)
    <3>1. PICK m \in Nat : m = Top + 2 /\ m + 1 = Top + 3
      BY <1>1
    <3>2. instance \in InstanceUpTo(m) /\ Refreshed \in DeploymentUpTo(m)
      BY <1>2, <1>4, <3>1
    <3>3. /\ SetEnabled(Refreshed, TRUE) \in DeploymentUpTo(m + 1)
          /\ SetEnabled(Refreshed, TRUE).status = Refreshed.status
      BY <3>2, DeploymentMade
    <3> QED BY <2>2, <3>1, <3>3
  <2> QED BY <2>1, <2>2 DEF Executable
<1> QED BY <1>1, <1>4, <1>5, UpToGrows

(* The draft of what ships, twice bumped at most. *)
LEMMA ShippedIsChecked ==
    ASSUME CatalogInv, NEW shipped \in Content, NEW bound, NEW edited,
           edited = IF draft.content = shipped THEN draft
                    ELSE [Bump(draft) EXCEPT !.content = shipped]
    PROVE  LET checked == Validated(edited, bound) IN
           /\ checked \in DraftUpTo(Top + 4) /\ checked.content = shipped
           /\ checked.status = "valid" => shipped \in Sound
<1>1. Top \in Nat /\ draft \in DraftUpTo(Top)
  BY TopIsNumber DEF CatalogInv, CatalogTyped
<1>2. edited \in DraftUpTo(Top + 1) /\ edited.content = shipped
  <2>1. CASE draft.content = shipped
    BY <1>1, <2>1, UpToGrows
  <2>2. CASE draft.content # shipped
    <3>1. draft.version \in 1..Top
      BY <1>1 DEF DraftUpTo
    <3>2. draft.version + 1 \in 1..(Top + 1)
      BY <1>1, <3>1
    <3> DEFINE b == Bump(draft)
    <3>3. b \in DraftUpTo(Top + 1)
      BY <1>1, <3>2 DEF Bump, DraftUpTo
    <3>4. edited = [b EXCEPT !.content = shipped]
      BY <2>2
    <3> HIDE DEF b
    <3> QED BY <3>3, <3>4 DEF DraftUpTo
  <2> QED BY <2>1, <2>2
<1>3. PICK m \in Nat : m = Top + 1 /\ m + 1 \in Nat /\ m + 1 <= Top + 4 /\ Top + 4 \in Nat
  BY <1>1
<1>4. edited \in DraftUpTo(m)
  BY <1>2, <1>3
<1> DEFINE checked == Validated(edited, bound)
<1>5. /\ checked \in DraftUpTo(m + 1) /\ checked.content = shipped
      /\ checked.status = "valid" => shipped \in Sound
  BY <1>2, <1>4, DraftValidated
<1> HIDE DEF checked
<1>6. checked \in DraftUpTo(Top + 4)
  BY <1>3, <1>5, UpToGrows
<1> QED BY <1>5, <1>6 DEF checked

LEMMA MigrateMakes ==
    ASSUME CatalogInv, NEW shipped \in Sound, Migrate(shipped), Refreshed.status = "qualified"
    PROVE  /\ draft' \in DraftUpTo(Top + 4) /\ online' \in BOOLEAN
           /\ draft'.status = "valid" => draft'.content \in Sound
           /\ \/ UNCHANGED <<revisions, pipeline>>
              \/ \E rev \in RevisionUpTo(Top + 4) :
                   /\ revisions' = Append(revisions, rev)
                   /\ pipeline' = [active |-> Len(revisions) + 1, version |-> pipeline.version + 1]
                   /\ rev.content = draft'.content /\ rev.bound.status = "qualified"
                   /\ draft'.status = "valid" /\ draft'.content \in Sound
<1> DEFINE edited == IF draft.content = shipped THEN draft
                     ELSE [Bump(draft) EXCEPT !.content = shipped]
           checked == Validated(edited, Executable)
           rev == RevisionOf(shipped, Executable, System)
<1>1. shipped \in Content
  BY CatalogAssumption
<1>2. /\ draft' = checked /\ online' = (checked.status = "valid")
      /\ \/ UNCHANGED <<revisions, pipeline>>
         \/ /\ checked.status = "valid" /\ revisions' = Append(revisions, rev)
            /\ pipeline' = [active |-> Len(revisions) + 1, version |-> pipeline.version + 1]
  BY DEF Migrate
<1>3. /\ checked \in DraftUpTo(Top + 4) /\ checked.content = shipped
      /\ checked.status = "valid" => shipped \in Sound
  <2> HIDE DEF edited
  <2> QED BY <1>1, ShippedIsChecked DEF edited
<1>4. rev \in RevisionUpTo(Top + 4) /\ rev.content = shipped /\ rev.bound.status = "qualified"
  BY <1>1, RefreshMakes DEF RevisionOf, RevisionUpTo
<1>5. online' \in BOOLEAN
  BY <1>2
<1> HIDE DEF checked, rev
<1> QED BY <1>2, <1>3, <1>4, <1>5

LEMMA StartupKeeps ==
    ASSUME CatalogInv, NEW shipped \in Sound, Startup(shipped)
    PROVE  CatalogInv' /\ RevisionIsDraft /\ OperatorsRevisionStays /\ startups' # startups
<1>1. /\ startups < MaxStartups /\ startups' = startups + 1
      /\ change' = [c \in Author |-> NoChange] /\ instance' = instance /\ changes' = changes
      /\ deployment' \in {Executable, Refreshed}
      /\ \/ Refreshed.status = "qualified" /\ Migrates(shipped) /\ Migrate(shipped)
         \/ online' \in BOOLEAN /\ UNCHANGED <<draft, revisions, pipeline>>
  BY DEF Startup
<1>2. /\ Top \in Nat /\ changes \in Nat /\ startups \in Nat /\ Len(revisions) \in Nat
      /\ revisions \in Seq(RevisionUpTo(Top))
      /\ pipeline.active \in 1..Len(revisions) /\ pipeline.version \in 1..Top
      /\ pipeline \in [active : 1..Len(revisions), version : 1..Top]
  BY TopIsNumber DEF CatalogInv, CatalogTyped
<1>3. Top' = Top + 4 /\ startups' \in 0..MaxStartups
  BY <1>1, <1>2, CatalogAssumption DEF Top
<1>4. deployment' \in DeploymentUpTo(Top + 4) /\ instance' \in InstanceUpTo(Top + 4)
  BY <1>1, <1>2, RefreshMakes, UpToGrows DEF CatalogInv, CatalogTyped
<1>5. revisions \in Seq(RevisionUpTo(Top + 4))
  BY <1>2, RevisionsGrow
<1>6. CASE UNCHANGED <<draft, revisions, pipeline>> /\ online' \in BOOLEAN
  <2>1. draft \in DraftUpTo(Top + 4)
    BY <1>2, UpToGrows DEF CatalogInv, CatalogTyped
  <2>2. pipeline \in [active : 1..Len(revisions), version : 1..(Top + 4)]
    BY <1>2
  <2>3. CatalogTyped'
    BY <1>1, <1>3, <1>4, <1>5, <1>6, <2>1, <2>2 DEF CatalogInv, CatalogTyped
  <2>4. ChangesInOrder'
    BY <1>1, NoChangeIsFine DEF ChangesInOrder
  <2>5. ValidDraftIsSound'
    BY <1>6 DEF CatalogInv, ValidDraftIsSound
  <2>6. RevisionIsDraft /\ OperatorsRevisionStays
    BY <1>6 DEF RevisionIsDraft, OperatorsRevisionStays
  <2> QED BY <1>1, <1>2, <2>3, <2>4, <2>5, <2>6 DEF CatalogInv
<1>7. CASE Refreshed.status = "qualified" /\ Migrates(shipped) /\ Migrate(shipped)
  <2>1. /\ draft' \in DraftUpTo(Top + 4) /\ online' \in BOOLEAN
        /\ draft'.status = "valid" => draft'.content \in Sound
    BY <1>7, MigrateMakes
  <2>2. CASE UNCHANGED <<revisions, pipeline>>
    <3>1. pipeline \in [active : 1..Len(revisions), version : 1..(Top + 4)]
      BY <1>2
    <3>2. CatalogTyped'
      BY <1>1, <1>3, <1>4, <1>5, <2>1, <2>2, <3>1 DEF CatalogInv, CatalogTyped
    <3>3. ChangesInOrder'
      BY <1>1, NoChangeIsFine DEF ChangesInOrder
    <3>4. ValidDraftIsSound'
      BY <2>1 DEF ValidDraftIsSound
    <3>5. RevisionIsDraft /\ OperatorsRevisionStays
      BY <2>2 DEF RevisionIsDraft, OperatorsRevisionStays
    <3> QED BY <1>1, <1>2, <3>2, <3>3, <3>4, <3>5 DEF CatalogInv
  <2>3. CASE \E rev \in RevisionUpTo(Top + 4) :
               /\ revisions' = Append(revisions, rev)
               /\ pipeline' = [active |-> Len(revisions) + 1, version |-> pipeline.version + 1]
               /\ rev.content = draft'.content /\ rev.bound.status = "qualified"
               /\ draft'.status = "valid" /\ draft'.content \in Sound
    <3>1. PICK rev \in RevisionUpTo(Top + 4) :
               /\ revisions' = Append(revisions, rev)
               /\ pipeline' = [active |-> Len(revisions) + 1, version |-> pipeline.version + 1]
               /\ rev.content = draft'.content /\ rev.bound.status = "qualified"
               /\ draft'.status = "valid" /\ draft'.content \in Sound
      BY <2>3
    <3>2. Top + 4 \in Nat
      BY <1>2
    <3>3. /\ revisions' \in Seq(RevisionUpTo(Top + 4)) /\ Len(revisions') = Len(revisions) + 1
          /\ SubSeq(revisions', 1, Len(revisions)) = revisions
          /\ revisions'[Len(revisions) + 1] = rev
      BY <1>5, <3>1, <3>2, RevisionAdded
    <3>4. pipeline' \in [active : 1..Len(revisions'), version : 1..(Top + 4)] /\ Len(revisions') > 0
      BY <1>2, <3>1, <3>3
    <3>5. CatalogTyped'
      BY <1>1, <1>3, <1>4, <2>1, <3>3, <3>4 DEF CatalogInv, CatalogTyped
    <3>6. ChangesInOrder'
      BY <1>1, NoChangeIsFine DEF ChangesInOrder
    <3>7. ValidDraftIsSound'
      BY <2>1 DEF ValidDraftIsSound
    <3>8. RevisionIsDraft
      BY <3>1, <3>3 DEF RevisionIsDraft
    <3>9. OperatorsRevisionStays
      BY <1>7 DEF OperatorsRevisionStays, Migrates, System, Operator
    <3> QED BY <1>1, <1>2, <3>5, <3>6, <3>7, <3>8, <3>9 DEF CatalogInv
  <2> QED BY <1>7, <2>2, <2>3, MigrateMakes
<1> QED BY <1>1, <1>6, <1>7

-----------------------------------------------------------------------------
LEMMA CatalogStarts == CatalogInit => CatalogInv
<1> SUFFICES ASSUME CatalogInit PROVE CatalogInv
  OBVIOUS
<1>1. Top = 1 /\ changes = 0 /\ startups = 0
  BY DEF CatalogInit, Top
<1>2. deployment \in DeploymentUpTo(1)
  BY DEF CatalogInit, DeploymentUpTo
<1>3. RevisionOf(First, deployment, System) \in RevisionUpTo(1)
  BY <1>2, CatalogAssumption DEF RevisionOf, RevisionUpTo
<1>4. revisions \in Seq(RevisionUpTo(1)) /\ Len(revisions) = 1
  BY <1>3 DEF CatalogInit
<1>5. CatalogTyped
  BY <1>1, <1>2, <1>4, CatalogAssumption DEF CatalogInit, CatalogTyped, InstanceUpTo, DraftUpTo
<1>6. ChangesInOrder
  BY NoChangeIsFine DEF CatalogInit, ChangesInOrder
<1>7. ValidDraftIsSound
  BY CatalogAssumption DEF CatalogInit, ValidDraftIsSound
<1> QED BY <1>5, <1>6, <1>7 DEF CatalogInv

(* Neither publishes, nor restarts, nor writes a deployment. *)
LEMMA NothingIsRevised ==
    ASSUME UNCHANGED <<revisions, startups, deployment>>
    PROVE  RevisionIsDraft /\ OperatorsRevisionStays /\ RepinnedIsDisabled
BY DEF RevisionIsDraft, OperatorsRevisionStays, RepinnedIsDisabled

LEMMA CatalogGoesOn ==
    ASSUME CatalogInv, [CatalogNext]_catalogVars
    PROVE  CatalogInv' /\ RevisionIsDraft /\ OperatorsRevisionStays /\ RepinnedIsDisabled
<1> USE DEF catalogRows
<1>1. ASSUME NEW c \in Author, NEW op \in {"patchInstance", "checkInstance"}, BeginInstance(c, op)
      PROVE  CatalogInv' /\ UNCHANGED <<revisions, startups, deployment>>
  BY <1>1, BeginInstanceKeeps DEF BeginInstance, Asks
<1>2. ASSUME NEW c \in Author, NEW op \in {"validating", "publishing"}, BeginSnapshot(c, op)
      PROVE  CatalogInv' /\ UNCHANGED <<revisions, startups, deployment>>
  BY <1>2, BeginSnapshotKeeps DEF BeginSnapshot, Asks
<1>3. ASSUME NEW c \in Author, NEW content \in Content, BeginPatchDraft(c, content)
      PROVE  CatalogInv' /\ UNCHANGED <<revisions, startups, deployment>>
  BY <1>3, BeginPatchDraftKeeps DEF BeginPatchDraft, Asks
<1>4. ASSUME NEW c \in Author, NEW revision \in DOMAIN revisions, BeginActivate(c, revision)
      PROVE  CatalogInv' /\ UNCHANGED <<revisions, startups, deployment>>
  BY <1>4, BeginActivateKeeps DEF BeginActivate, Asks
<1>5. ASSUME NEW c \in Author, BeginDeployment(c)
      PROVE  CatalogInv' /\ UNCHANGED <<revisions, startups, deployment>>
  BY <1>5, BeginDeploymentKeeps DEF BeginDeployment, Asks
<1>6. ASSUME NEW c \in Author, TakeSnapshot(c)
      PROVE  CatalogInv' /\ UNCHANGED <<revisions, startups, deployment>>
  BY <1>6, TakeSnapshotKeeps DEF TakeSnapshot
<1>7. ASSUME NEW c \in Author, SaveInstance(c)
      PROVE  CatalogInv' /\ UNCHANGED <<revisions, startups, deployment>>
  BY <1>7, SaveInstanceKeeps DEF SaveInstance
<1>8. ASSUME NEW c \in Author, SaveDraft(c)
      PROVE  CatalogInv' /\ UNCHANGED <<revisions, startups, deployment>>
  BY <1>8, SaveDraftKeeps DEF SaveDraft
<1>9. ASSUME NEW c \in Author, Activate(c)
      PROVE  CatalogInv' /\ UNCHANGED <<revisions, startups, deployment>>
  BY <1>9, ActivateKeeps DEF Activate
<1>10. ASSUME NEW c \in Author, SaveDeployment(c)
       PROVE  CatalogInv' /\ RevisionIsDraft /\ OperatorsRevisionStays /\ RepinnedIsDisabled
  BY <1>10, SaveDeploymentKeeps DEF SaveDeployment, RevisionIsDraft, OperatorsRevisionStays
<1>11. ASSUME NEW c \in Author, PublishDraft(c)
       PROVE  CatalogInv' /\ RevisionIsDraft /\ OperatorsRevisionStays /\ RepinnedIsDisabled
  BY <1>11, PublishDraftKeeps DEF PublishDraft, OperatorsRevisionStays, RepinnedIsDisabled
<1>12. ASSUME NEW shipped \in Sound, Startup(shipped)
       PROVE  CatalogInv' /\ RevisionIsDraft /\ OperatorsRevisionStays /\ RepinnedIsDisabled
  BY <1>12, StartupKeeps DEF RepinnedIsDisabled
<1>13. CASE UNCHANGED catalogVars
  <2>1. UNCHANGED <<revisions, startups, deployment>>
    BY <1>13 DEF catalogVars
  <2>2. CatalogTyped' /\ ChangesInOrder' /\ ValidDraftIsSound'
    BY <1>13 DEF catalogVars, CatalogInv, CatalogTyped, Top, ChangesInOrder, ValidDraftIsSound
  <2> QED BY <2>1, <2>2, NothingIsRevised DEF CatalogInv
<1>14. CASE CatalogNext
  BY <1>1, <1>2, <1>3, <1>4, <1>5, <1>6, <1>7, <1>8, <1>9, <1>10, <1>11, <1>12, <1>14,
     NothingIsRevised DEF CatalogNext
<1> QED BY <1>13, <1>14

(* The catalogue's records hold what the code writes, whatever the authors do and
   however often the process restarts; versions grow by the writes. *)
THEOREM CatalogTypeCorrect == CatalogSpec => []CatalogTypeOK
<1>1. CatalogInit => CatalogInv
  BY CatalogStarts
<1>2. CatalogInv /\ [CatalogNext]_catalogVars => CatalogInv'
  BY CatalogGoesOn
<1>3. CatalogInv => CatalogTypeOK
  <2> SUFFICES ASSUME CatalogInv PROVE CatalogTypeOK
    OBVIOUS
  <2> DEFINE all == 1 + MaxChanges + 4 * MaxStartups
  <2>1. Top \in Nat /\ all \in Nat /\ Top <= all
    BY TopIsNumber, CatalogAssumption DEF CatalogInv, CatalogTyped, Top
  <2>2. RowVersion = 1..all /\ DeploymentRow = DeploymentUpTo(all)
    BY DEF RowVersion, DeploymentRow, DeploymentUpTo
  <2> HIDE DEF all
  <2>3. deployment \in DeploymentRow
    BY <2>1, <2>2, UpToGrows DEF CatalogInv, CatalogTyped
  <2>4. draft \in DraftUpTo(all) /\ instance \in InstanceUpTo(all)
    BY <2>1, UpToGrows DEF CatalogInv, CatalogTyped
  <2>5. revisions \in Seq(RevisionUpTo(all))
    BY <2>1, RevisionsGrow DEF CatalogInv, CatalogTyped
  <2>6. pipeline.active \in DOMAIN revisions
    BY LenProperties DEF CatalogInv, CatalogTyped
  <2>7. pipeline.version \in 1..all
    BY <2>1 DEF CatalogInv, CatalogTyped
  <2>8. online \in BOOLEAN
    BY DEF CatalogInv, CatalogTyped
  <2> QED
    BY <2>2, <2>3, <2>4, <2>5, <2>6, <2>7, <2>8
    DEF CatalogTypeOK, InstanceUpTo, DraftUpTo, RevisionUpTo
<1> QED BY <1>1, <1>2, <1>3, PTL DEF CatalogSpec

(* What is published is the validated draft as it stands; an operator's revision
   outlives every upgrade; a deployment that comes to pin another instance version
   is disabled by the same write: over every interleaving of any number of
   authors and restarts. *)
THEOREM CatalogStaysInOrder == CatalogSpec => CatalogInOrder
<1>1. CatalogInit => CatalogInv
  BY CatalogStarts
<1>2. CatalogInv /\ [CatalogNext]_catalogVars => CatalogInv'
  BY CatalogGoesOn
<1>3. CatalogInv /\ [CatalogNext]_catalogVars =>
        [RevisionIsDraft /\ OperatorsRevisionStays /\ RepinnedIsDisabled]_catalogVars
  BY CatalogGoesOn
<1> QED BY <1>1, <1>2, <1>3, PTL DEF CatalogSpec, CatalogInOrder

-----------------------------------------------------------------------------
(* The evaluation of a pipeline. *)

Comparison == {"self", "paired", "live"}
RunRow == [kind : Comparison, status : {"absent", "queued", "running"} \cup Terminal,
           version : 0..3]
Late == {"cases", "build", "save", "calibrate", "insert", "end", "error", "fail"}
Execution == [pc : {"idle", "read", "begin"} \cup Late, version : 0..3,
              gate : Gate \cup {"none"}, sample : SUBSET Run]

EvaluationTyped ==
    /\ run \in [Run -> RunRow] /\ report \in [Run -> Gate \cup {"none"}]
    /\ stamped \in Seq(Run) /\ IsInjective(stamped) /\ calibration \in SUBSET Run
    /\ execution \in [Run -> Execution] /\ cancelling \in [Run -> 0..2]
    /\ troubles \in 0..MaxTroubles

(* A run's status says its version; its execution, cancel request and report are
   where that status lets them be. *)
RowInOrder(row) ==
    /\ row.status = "absent" <=> row.version = 0
    /\ row.status = "queued" <=> row.version = 1
    /\ row.version = 2 => row.status \in {"running", "cancelled"}
    /\ row.status = "running" => row.version = 2

ExecutionInOrder(row, x, c, rep, built) ==
    /\ row.status = "absent" => x.pc = "idle" /\ c = 0 /\ ~built
    /\ x.pc = "read" => row.status \in {"queued", "cancelled"}
    /\ x.pc = "begin" => x.version = 1
    /\ x.pc \in Late => x.version = 2 /\ row.version >= 2 /\ (row.version = 2 => row.status = "running")
    /\ c # 0 => row.version >= c /\ (row.version = c => row.status \in {"queued", "running"})
    /\ x.pc \in {"read", "begin", "cases", "build"} => ~built
    /\ rep # "none" => built
    /\ x.pc = "save" => built /\ rep = "none" /\ x.gate \in Gate
    /\ x.pc \in {"calibrate", "insert", "end"} \/ row.status = "completed" => rep # "none"

RunsInOrder ==
    \A r \in Run : /\ RowInOrder(run[r])
                   /\ ExecutionInOrder(run[r], execution[r], cancelling[r], report[r],
                                       r \in Range(stamped))

(* Three reported self-comparisons that no calibration gated. *)
Fits(s) ==
    /\ Cardinality(s) = 3
    /\ \A r \in s : run[r].kind = "self" /\ report[r] \notin {"none", "passed"}

(* Who will be a completed self-comparison, if nobody interferes. *)
Contends(row, x) ==
    /\ row.kind = "self"
    /\ row.status = "completed" \/ (x.pc = "end" /\ row.status = "running")

Contenders == {r \in Run : Contends(run[r], execution[r])}

CalibrationInOrder ==
    /\ Calibrated => Fits(calibration)
    /\ \A r \in Run : /\ execution[r].pc = "insert" => Fits(execution[r].sample)
                      /\ execution[r].pc = "save" /\ execution[r].gate = "passed" => Calibrated
                      /\ report[r] = "passed" => Calibrated
    /\ ~Calibrated => Cardinality(Contenders) <= 2

EvaluationInv == EvaluationTyped /\ RunsInOrder /\ CalibrationInOrder

-----------------------------------------------------------------------------
LEMMA Shrinks ==
    ASSUME EvaluationInv, NEW r \in Run, NEW row, NEW x,
           run' = [run EXCEPT ![r] = row], execution' = [execution EXCEPT ![r] = x],
           Contends(row, x) => Contends(run[r], execution[r])
    PROVE  ~Calibrated => Cardinality(Contenders') <= 2
<1>1. /\ DOMAIN run = Run /\ DOMAIN execution = Run
  BY DEF EvaluationInv, EvaluationTyped
<1>2. \A q \in Run : Contends(run'[q], execution'[q]) => Contends(run[q], execution[q])
  BY <1>1
<1>3. Contenders' \subseteq Contenders /\ Contenders \subseteq Run
  BY <1>2 DEF Contenders
<1>4. IsFiniteSet(Contenders)
  BY <1>3, EvaluationAssumption, FS_Subset
<1>5. Cardinality(Contenders') <= Cardinality(Contenders)
  BY <1>3, <1>4, FS_Subset
<1>6. Cardinality(Contenders) \in Nat /\ Cardinality(Contenders') \in Nat
  BY <1>3, <1>4, FS_Subset, FS_CardinalityType
<1> QED BY <1>5, <1>6 DEF EvaluationInv, CalibrationInOrder

(* Only what belongs to r changes. *)
LEMMA OneRunMoves ==
    ASSUME EvaluationInv, NEW r \in Run, NEW row \in RunRow, NEW x \in Execution, NEW c \in 0..2,
           NEW rep \in Gate \cup {"none"}, NEW all \in Seq(Run),
           run' = [run EXCEPT ![r] = row], execution' = [execution EXCEPT ![r] = x],
           cancelling' = [cancelling EXCEPT ![r] = c], report' = [report EXCEPT ![r] = rep],
           stamped' = all, UNCHANGED calibration, troubles' \in 0..MaxTroubles,
           row.kind = run[r].kind, RowInOrder(row),
           report[r] \in {rep, "none"}, rep = "passed" => Calibrated,
           IsInjective(all),
           \A q \in Run : q # r => (q \in Range(all) <=> q \in Range(stamped)),
           ExecutionInOrder(row, x, c, rep, r \in Range(all)),
           x.pc = "insert" => Fits(x.sample), x.pc = "save" /\ x.gate = "passed" => Calibrated,
           ~Calibrated => Cardinality(Contenders') <= 2,
           run[r].status \in Terminal => row = run[r]
    PROVE  EvaluationInv' /\ EndedStays
<1>1. EvaluationTyped'
  BY DEF EvaluationInv, EvaluationTyped
<1>2. /\ \A q \in Run : q # r => /\ run'[q] = run[q] /\ execution'[q] = execution[q]
                                 /\ cancelling'[q] = cancelling[q] /\ report'[q] = report[q]
      /\ run'[r] = row /\ execution'[r] = x /\ cancelling'[r] = c /\ report'[r] = rep
      /\ calibration' = calibration
  BY DEF EvaluationInv, EvaluationTyped
<1>3. RunsInOrder'
  <2> SUFFICES ASSUME NEW q \in Run
               PROVE  /\ RowInOrder(run'[q])
                      /\ ExecutionInOrder(run'[q], execution'[q], cancelling'[q], report'[q],
                                          q \in Range(all))
    BY DEF RunsInOrder
  <2>1. CASE q = r
    BY <1>2, <2>1
  <2>2. CASE q # r
    <3>1. q \in Range(all) <=> q \in Range(stamped)
      BY <2>2
    <3>2. /\ RowInOrder(run[q])
          /\ ExecutionInOrder(run[q], execution[q], cancelling[q], report[q], q \in Range(stamped))
      BY DEF EvaluationInv, RunsInOrder
    <3>3. ExecutionInOrder(run[q], execution[q], cancelling[q], report[q], q \in Range(all))
      BY <3>1, <3>2 DEF ExecutionInOrder
    <3> QED BY <1>2, <2>2, <3>2, <3>3
  <2> QED BY <2>1, <2>2
<1>4. \A q \in Run : run'[q].kind = run[q].kind
  BY <1>2
<1>5. ASSUME NEW s \in SUBSET Run, Fits(s)
      PROVE  Fits(s)'
  <2>1. \A q \in s : report'[q] = report[q]
    BY <1>2, <1>5 DEF Fits
  <2> QED BY <1>4, <1>5, <2>1 DEF Fits
<1>6. Calibrated' = Calibrated
  BY <1>2 DEF Calibrated
<1>7. CalibrationInOrder'
  <2>1. Calibrated' => Fits(calibration)'
    BY <1>2, <1>5, <1>6 DEF EvaluationInv, EvaluationTyped, CalibrationInOrder
  <2>2. ASSUME NEW q \in Run, execution'[q].pc = "insert"
        PROVE  Fits(execution[q].sample)'
    <3>1. PICK s \in SUBSET Run : s = execution'[q].sample /\ Fits(s)
      BY <1>2, <2>2 DEF EvaluationInv, EvaluationTyped, CalibrationInOrder, Execution
    <3>2. Fits(s)'
      BY <1>5, <3>1
    <3> QED BY <3>1, <3>2 DEF Fits
  <2>3. ASSUME NEW q \in Run
        PROVE  /\ execution'[q].pc = "save" /\ execution'[q].gate = "passed" => Calibrated'
               /\ report'[q] = "passed" => Calibrated'
    BY <1>2, <1>6 DEF EvaluationInv, CalibrationInOrder
  <2>4. ~Calibrated' => Cardinality(Contenders') <= 2
    BY <1>6
  <2>5. (\A q \in Run : /\ execution[q].pc = "insert" => Fits(execution[q].sample)
                        /\ execution[q].pc = "save" /\ execution[q].gate = "passed" => Calibrated
                        /\ report[q] = "passed" => Calibrated)'
    BY <2>2, <2>3
  <2> QED BY <2>1, <2>4, <2>5 DEF CalibrationInOrder
<1>8. EndedStays
  BY <1>2 DEF EndedStays
<1> QED BY <1>1, <1>3, <1>7, <1>8 DEF EvaluationInv

(* Reports and their order stay. *)
LEMMA RunMoves ==
    ASSUME EvaluationInv, NEW r \in Run, NEW row \in RunRow, NEW x \in Execution, NEW c \in 0..2,
           run' = [run EXCEPT ![r] = row], execution' = [execution EXCEPT ![r] = x],
           cancelling' = [cancelling EXCEPT ![r] = c],
           UNCHANGED <<report, stamped, calibration>>, troubles' \in 0..MaxTroubles,
           row.kind = run[r].kind, RowInOrder(row),
           ExecutionInOrder(row, x, c, report[r], r \in Range(stamped)),
           x.pc = "insert" => Fits(x.sample), x.pc = "save" => x = execution[r],
           ~Calibrated => Cardinality(Contenders') <= 2,
           run[r].status \in Terminal => row = run[r]
    PROVE  EvaluationInv' /\ EndedStays
<1>1. PICK rep \in Gate \cup {"none"} : rep = report[r]
  BY DEF EvaluationInv, EvaluationTyped
<1>2. PICK all \in Seq(Run) : all = stamped /\ IsInjective(all)
  BY DEF EvaluationInv, EvaluationTyped
<1>3. report' = [report EXCEPT ![r] = rep] /\ stamped' = all /\ UNCHANGED calibration
  BY <1>1, <1>2 DEF EvaluationInv, EvaluationTyped
<1>4. rep = "passed" => Calibrated
  BY <1>1 DEF EvaluationInv, CalibrationInOrder
<1>5. x.pc = "save" /\ x.gate = "passed" => Calibrated
  BY DEF EvaluationInv, CalibrationInOrder
<1>6. ExecutionInOrder(row, x, c, rep, r \in Range(all))
  BY <1>1, <1>2
<1> QED BY <1>1, <1>2, <1>3, <1>4, <1>5, <1>6, OneRunMoves

(* Only the execution of r moves, or nothing but a counter. *)
LEMMA ExecutionMoves ==
    ASSUME EvaluationInv, NEW r \in Run, NEW x \in Execution,
           execution' = [execution EXCEPT ![r] = x],
           UNCHANGED <<evaluationRows, cancelling>>, troubles' \in 0..MaxTroubles,
           ExecutionInOrder(run[r], x, cancelling[r], report[r], r \in Range(stamped)),
           x.pc = "insert" => Fits(x.sample), x.pc # "save",
           ~Calibrated => Cardinality(Contenders') <= 2
    PROVE  EvaluationInv' /\ EndedStays
<1>1. run[r] \in RunRow /\ cancelling[r] \in 0..2 /\ RowInOrder(run[r])
  BY DEF EvaluationInv, EvaluationTyped, RunsInOrder
<1>2. run' = [run EXCEPT ![r] = run[r]] /\ cancelling' = [cancelling EXCEPT ![r] = cancelling[r]]
  BY DEF EvaluationInv, EvaluationTyped, evaluationRows
<1>3. UNCHANGED <<report, stamped, calibration>>
  BY DEF evaluationRows
<1> QED BY <1>1, <1>2, <1>3, RunMoves

(* What is known of r. *)
LEMMA KnownOf ==
    ASSUME EvaluationInv, NEW r \in Run
    PROVE  /\ run[r] \in RunRow /\ execution[r] \in Execution /\ cancelling[r] \in 0..2
           /\ RowInOrder(run[r])
           /\ ExecutionInOrder(run[r], execution[r], cancelling[r], report[r], r \in Range(stamped))
           /\ troubles \in 0..MaxTroubles /\ report[r] \in Gate \cup {"none"}
BY DEF EvaluationInv, EvaluationTyped, RunsInOrder

LEMMA LeavesMeans ==
    ASSUME NEW r \in Run, Leaves(r)
    PROVE  /\ execution' = [execution EXCEPT ![r] = NoExecution]
           /\ NoExecution \in Execution /\ NoExecution.pc = "idle"
<1>1. NoExecution \in Execution /\ NoExecution.pc = "idle"
  BY DEF NoExecution, Execution
<1> QED BY <1>1 DEF Leaves

LEMMA AtMeans ==
    ASSUME EvaluationInv, NEW r \in Run, NEW pc, ExecutionAt(r, pc)
    PROVE  execution' = [execution EXCEPT ![r] = [pc |-> pc, version |-> execution[r].version,
                            gate |-> execution[r].gate, sample |-> execution[r].sample]]
<1> DEFINE x == [execution[r] EXCEPT !.pc = pc]
<1>1. execution' = [execution EXCEPT ![r] = x]
  BY DEF ExecutionAt
<1>2. execution[r] \in Execution
  BY KnownOf
<1>3. x = [pc |-> pc, version |-> execution[r].version, gate |-> execution[r].gate,
           sample |-> execution[r].sample]
  BY <1>2 DEF Execution
<1> HIDE DEF x
<1> QED BY <1>1, <1>3

LEMMA WrittenMeans ==
    ASSUME EvaluationInv, NEW r \in Run, NEW v, NEW status, RunWritten(r, v, status)
    PROVE  run' = [run EXCEPT ![r] = [kind |-> run[r].kind, status |-> status, version |-> v + 1]]
<1> DEFINE row == [run[r] EXCEPT !.status = status]
           final == [kind |-> run[r].kind, status |-> status, version |-> v + 1]
<1>1. run' = [run EXCEPT ![r] = [row EXCEPT !.version = v + 1]]
  BY DEF RunWritten, EvaluationInv, EvaluationTyped
<1>2. run[r] \in RunRow
  BY KnownOf
<1>3. row = [kind |-> run[r].kind, status |-> status, version |-> run[r].version]
  BY <1>2 DEF RunRow
<1> HIDE DEF row
<1>4. [row EXCEPT !.version = v + 1] = final
  BY <1>3
<1> HIDE DEF final
<1> QED BY <1>1, <1>4 DEF final

-----------------------------------------------------------------------------
(* The thread of r returns. *)
LEMMA LeavesKeeps ==
    ASSUME EvaluationInv, NEW r \in Run, Leaves(r),
           UNCHANGED <<evaluationRows, cancelling>>, troubles' \in 0..MaxTroubles,
           execution[r].pc # "idle"
    PROVE  EvaluationInv' /\ EndedStays
<1>1. /\ execution' = [execution EXCEPT ![r] = NoExecution] /\ NoExecution \in Execution
      /\ NoExecution.pc = "idle"
  BY LeavesMeans
<1>2. ExecutionInOrder(run[r], NoExecution, cancelling[r], report[r], r \in Range(stamped))
  BY <1>1, KnownOf DEF ExecutionInOrder, Late
<1>3. run' = [run EXCEPT ![r] = run[r]]
  BY DEF EvaluationInv, EvaluationTyped, evaluationRows
<1>4. ~Calibrated => Cardinality(Contenders') <= 2
  BY <1>1, <1>3, Shrinks DEF Contends
<1> QED BY <1>1, <1>2, <1>4, ExecutionMoves

LEMMA CreateRunKeeps ==
    ASSUME EvaluationInv, NEW r \in Run, CreateRun(r)
    PROVE  EvaluationInv' /\ EndedStays
<1> DEFINE row == [kind |-> run[r].kind, status |-> "queued", version |-> 1]
           x == [pc |-> "read", version |-> execution[r].version, gate |-> execution[r].gate,
                 sample |-> execution[r].sample]
<1>1. /\ RunWritten(r, 0, "queued") /\ ExecutionAt(r, "read") /\ run[r].status = "absent"
      /\ UNCHANGED <<report, stamped, calibration, cancelling, troubles>>
  BY DEF CreateRun, RunWritten, ExecutionAt, Others
<1>2. run' = [run EXCEPT ![r] = row] /\ execution' = [execution EXCEPT ![r] = x]
  BY <1>1, WrittenMeans, AtMeans
<1>3. cancelling' = [cancelling EXCEPT ![r] = cancelling[r]] /\ troubles' \in 0..MaxTroubles
  BY <1>1 DEF EvaluationInv, EvaluationTyped
<1>4. row \in RunRow /\ row.kind = run[r].kind /\ RowInOrder(row)
  BY KnownOf DEF RunRow, RowInOrder
<1>5. x \in Execution /\ x.pc = "read"
  BY KnownOf DEF Execution
<1>6. ExecutionInOrder(row, x, cancelling[r], report[r], r \in Range(stamped))
  BY <1>1, KnownOf DEF ExecutionInOrder, Late
<1>7. ~Contends(row, x)
  BY DEF Contends
<1>8. run[r].status \notin Terminal
  BY <1>1 DEF Terminal
<1> HIDE DEF row, x
<1>9. ~Calibrated => Cardinality(Contenders') <= 2
  BY <1>2, <1>7, Shrinks
<1>10. cancelling[r] \in 0..2
  BY KnownOf
<1> QED BY <1>1, <1>2, <1>3, <1>4, <1>5, <1>6, <1>8, <1>9, <1>10, RunMoves

LEMMA ReadKeeps ==
    ASSUME EvaluationInv, NEW r \in Run, Read(r)
    PROVE  EvaluationInv' /\ EndedStays
<1>1. UNCHANGED <<evaluationRows, cancelling, troubles>> /\ execution[r].pc = "read"
  BY DEF Read, Others, At
<1>2. troubles' \in 0..MaxTroubles
  BY <1>1, KnownOf
<1>3. run' = [run EXCEPT ![r] = run[r]]
  BY <1>1 DEF EvaluationInv, EvaluationTyped, evaluationRows
<1>4. CASE Leaves(r)
  BY <1>1, <1>2, <1>4, LeavesKeeps
<1>5. CASE /\ run[r].status \notin {"completed", "blocked", "cancelled"}
           /\ execution' = [execution EXCEPT ![r].pc = "begin", ![r].version = run[r].version]
  <2> DEFINE x == [pc |-> "begin", version |-> run[r].version, gate |-> execution[r].gate,
                   sample |-> execution[r].sample]
             y == [execution[r] EXCEPT !.pc = "begin"]
             z == [y EXCEPT !.version = run[r].version]
  <2>1. execution' = [execution EXCEPT ![r] = z]
    BY <1>5 DEF EvaluationInv, EvaluationTyped
  <2>2. z = x
    <3>1. y = [pc |-> "begin", version |-> execution[r].version, gate |-> execution[r].gate,
               sample |-> execution[r].sample]
      BY KnownOf DEF Execution
    <3> HIDE DEF y
    <3> QED BY <3>1
  <2>3. x.pc = "begin" /\ x.version = run[r].version
    OBVIOUS
  <2>4. run[r].version = 1
    BY <1>1, <1>5, KnownOf DEF ExecutionInOrder, RowInOrder
  <2>5. x \in Execution
    BY <2>4, KnownOf DEF Execution
  <2> HIDE DEF x, y, z
  <2>6. ExecutionInOrder(run[r], x, cancelling[r], report[r], r \in Range(stamped))
    BY <1>1, <2>3, <2>4, KnownOf DEF ExecutionInOrder, Late
  <2>7. ~Calibrated => Cardinality(Contenders') <= 2
    BY <1>3, <2>1, <2>2, <2>3, Shrinks DEF Contends
  <2> QED BY <1>1, <1>2, <2>1, <2>2, <2>3, <2>5, <2>6, <2>7, ExecutionMoves
<1> QED BY <1>4, <1>5 DEF Read

LEMMA BeginExecutionKeeps ==
    ASSUME EvaluationInv, NEW r \in Run, Begin(r)
    PROVE  EvaluationInv' /\ EndedStays
<1>1. /\ UNCHANGED <<report, stamped, calibration, cancelling, troubles>>
      /\ execution[r].pc = "begin"
  BY DEF Begin, Others, At
<1>2. troubles' \in 0..MaxTroubles /\ execution[r].version = 1
  BY <1>1, KnownOf DEF ExecutionInOrder
<1>3. CASE Leaves(r) /\ UNCHANGED run
  BY <1>1, <1>2, <1>3, LeavesKeeps DEF evaluationRows
<1>4. CASE /\ Swaps(r, execution[r].version) /\ RunWritten(r, execution[r].version, "running")
           /\ execution' = [execution EXCEPT ![r].pc = "cases",
                                             ![r].version = execution[r].version + 1]
  <2> DEFINE row == [kind |-> run[r].kind, status |-> "running", version |-> 2]
             x == [pc |-> "cases", version |-> 2, gate |-> execution[r].gate,
                   sample |-> execution[r].sample]
             y == [execution[r] EXCEPT !.pc = "cases"]
             z == [y EXCEPT !.version = 2]
  <2>1. execution' = [execution EXCEPT ![r] = z]
    <3>1. execution' = [execution EXCEPT ![r] = [y EXCEPT !.version = execution[r].version + 1]]
      BY <1>4 DEF EvaluationInv, EvaluationTyped
    <3>2. execution[r].version + 1 = 2
      BY <1>2
    <3> QED BY <3>1, <3>2
  <2>2. z = x
    <3>1. y = [pc |-> "cases", version |-> execution[r].version, gate |-> execution[r].gate,
               sample |-> execution[r].sample]
      BY KnownOf DEF Execution
    <3> HIDE DEF y
    <3> QED BY <3>1
  <2>3. run' = [run EXCEPT ![r] = row]
    BY <1>2, <1>4, WrittenMeans
  <2>4. run[r].version = 1 /\ run[r].status = "queued"
    BY <1>2, <1>4, KnownOf DEF Swaps, RowInOrder
  <2>5. row \in RunRow /\ row.kind = run[r].kind /\ RowInOrder(row)
    BY KnownOf DEF RunRow, RowInOrder
  <2>6. x \in Execution /\ x.pc = "cases"
    BY KnownOf DEF Execution, Late
  <2>7. ExecutionInOrder(row, x, cancelling[r], report[r], r \in Range(stamped))
    <3>1. row.version = 2 /\ row.status = "running" /\ x.version = 2 /\ x.pc = "cases"
      OBVIOUS
    <3>2. r \notin Range(stamped) /\ report[r] = "none" /\ cancelling[r] \in {0, 1}
      BY <1>1, <2>4, KnownOf DEF ExecutionInOrder
    <3> HIDE DEF row, x
    <3> QED BY <3>1, <3>2 DEF ExecutionInOrder, Late
  <2>8. ~Contends(row, x)
    BY DEF Contends
  <2>9. run[r].status \notin Terminal
    BY <2>4 DEF Terminal
  <2>10. cancelling' = [cancelling EXCEPT ![r] = cancelling[r]] /\ cancelling[r] \in 0..2
    BY <1>1 DEF EvaluationInv, EvaluationTyped
  <2> HIDE DEF row, x, y, z
  <2>11. ~Calibrated => Cardinality(Contenders') <= 2
    BY <2>1, <2>2, <2>3, <2>8, Shrinks
  <2> QED BY <1>1, <1>2, <2>1, <2>2, <2>3, <2>5, <2>6, <2>7, <2>9, <2>10, <2>11, RunMoves
<1> QED BY <1>3, <1>4 DEF Begin

(* Nothing but the execution of r moves, towards its end. *)
LEMMA GoesToKeeps ==
    ASSUME EvaluationInv, NEW r \in Run, NEW pc \in {"build", "end", "error"}, ExecutionAt(r, pc),
           UNCHANGED <<evaluationRows, cancelling>>, troubles' \in 0..MaxTroubles,
           execution[r].pc \in Late, pc = "build" => execution[r].pc = "cases",
           pc = "end" => /\ report[r] # "none"
                         /\ ~Calibrated => Cardinality(Contenders') <= 2
    PROVE  EvaluationInv' /\ EndedStays
<1> DEFINE x == [pc |-> pc, version |-> execution[r].version, gate |-> execution[r].gate,
                 sample |-> execution[r].sample]
<1>1. execution' = [execution EXCEPT ![r] = x]
  BY AtMeans
<1>2. x \in Execution /\ x.pc = pc /\ x.version = execution[r].version
  BY KnownOf DEF Execution, Late
<1> HIDE DEF x
<1>3. ExecutionInOrder(run[r], x, cancelling[r], report[r], r \in Range(stamped))
  BY <1>2, KnownOf DEF ExecutionInOrder, Late
<1>4. run' = [run EXCEPT ![r] = run[r]]
  BY DEF EvaluationInv, EvaluationTyped, evaluationRows
<1>5. ~Calibrated => Cardinality(Contenders') <= 2
  <2>1. CASE pc # "end"
    BY <1>1, <1>2, <1>4, <2>1, Shrinks DEF Contends
  <2> QED BY <2>1
<1> QED BY <1>1, <1>2, <1>3, <1>5, ExecutionMoves

LEMMA RunCasesKeeps ==
    ASSUME EvaluationInv, NEW r \in Run, RunCases(r)
    PROVE  EvaluationInv' /\ EndedStays
<1>1. /\ UNCHANGED <<evaluationRows, cancelling, troubles>> /\ execution[r].pc = "cases"
      /\ Leaves(r) \/ ExecutionAt(r, "build")
  BY DEF RunCases, Others, At
<1>2. troubles' \in 0..MaxTroubles
  BY <1>1, KnownOf
<1>3. "cases" \in Late
  BY DEF Late
<1> QED BY <1>1, <1>2, <1>3, LeavesKeeps, GoesToKeeps

LEMMA FaultKeeps ==
    ASSUME EvaluationInv, NEW r \in Run, Fault(r)
    PROVE  EvaluationInv' /\ EndedStays
<1>1. /\ UNCHANGED <<evaluationRows, cancelling>> /\ ExecutionAt(r, "error")
      /\ execution[r].pc \in Late
  BY DEF Fault, Late
<1>2. troubles' \in 0..MaxTroubles
  BY KnownOf, EvaluationAssumption DEF Fault, Trouble
<1> QED BY <1>1, <1>2, GoesToKeeps

-----------------------------------------------------------------------------
(* A report is built once. *)
LEMMA StampedOnce ==
    ASSUME EvaluationInv, NEW r \in Run, r \notin Range(stamped)
    PROVE  LET all == Append(stamped, r) IN
           /\ all \in Seq(Run) /\ IsInjective(all) /\ r \in Range(all)
           /\ \A q \in Run : q # r => (q \in Range(all) <=> q \in Range(stamped))
<1> DEFINE all == Append(stamped, r)
           n == Len(stamped)
<1>1. stamped \in Seq(Run) /\ IsInjective(stamped)
  BY DEF EvaluationInv, EvaluationTyped
<1>2. /\ all \in Seq(Run) /\ n \in Nat /\ DOMAIN stamped = 1..n /\ DOMAIN all = 1..(n + 1)
      /\ \A i \in 1..n : all[i] = stamped[i]
      /\ all[n + 1] = r
  BY <1>1, AppendProperties, LenProperties
<1> HIDE DEF all, n
<1>3. \A i \in 1..(n + 1) : i \in 1..n \/ i = n + 1
  BY <1>2
<1>4. n + 1 \in 1..(n + 1) /\ 1..n \subseteq 1..(n + 1)
  BY <1>2
<1>5. \A i \in 1..n : stamped[i] # r
  BY <1>2 DEF Range
<1>6. IsInjective(all)
  <2> SUFFICES ASSUME NEW i \in 1..(n + 1), NEW j \in 1..(n + 1), all[i] = all[j]
               PROVE  i = j
    BY <1>2 DEF IsInjective
  <2>1. i \in 1..n /\ j \in 1..n => i = j
    BY <1>1, <1>2 DEF IsInjective
  <2> QED BY <1>2, <1>3, <1>5, <2>1
<1>7. r \in Range(all)
  BY <1>2, <1>4 DEF Range
<1>8. \A q \in Run : q # r => (q \in Range(all) <=> q \in Range(stamped))
  BY <1>2, <1>3, <1>4 DEF Range
<1> QED BY <1>2, <1>6, <1>7, <1>8 DEF all

LEMMA BuildReportKeeps ==
    ASSUME EvaluationInv, NEW r \in Run, BuildReport(r)
    PROVE  EvaluationInv' /\ EndedStays
<1> DEFINE gate == GateOf(run[r].kind)
           y == [execution[r] EXCEPT !.pc = "save"]
           z == [y EXCEPT !.gate = gate]
           x == [pc |-> "save", version |-> execution[r].version, gate |-> gate,
                 sample |-> execution[r].sample]
           all == Append(stamped, r)
<1>1. /\ UNCHANGED <<run, report, calibration, cancelling, troubles>>
      /\ execution[r].pc = "build" /\ stamped' = all
  BY DEF BuildReport, Others, At
<1>2. gate \in Gate /\ (gate = "passed" => Calibrated)
  BY KnownOf DEF GateOf, RunRow, Comparison, Gate
<1> HIDE DEF gate
<1>3. execution' = [execution EXCEPT ![r] = z]
  BY DEF BuildReport, EvaluationInv, EvaluationTyped, gate
<1>4. z = x
  <2>1. y = [pc |-> "save", version |-> execution[r].version, gate |-> execution[r].gate,
             sample |-> execution[r].sample]
    BY KnownOf DEF Execution
  <2> HIDE DEF y
  <2> QED BY <2>1
<1>5. /\ x \in Execution /\ x.pc = "save" /\ x.gate = gate
      /\ x.version = execution[r].version
  BY <1>2, KnownOf DEF Execution, Late
<1> HIDE DEF x, y, z
<1>6. r \notin Range(stamped) /\ report[r] = "none"
  BY <1>1, KnownOf DEF ExecutionInOrder
<1>7. /\ all \in Seq(Run) /\ IsInjective(all) /\ r \in Range(all)
      /\ \A q \in Run : q # r => (q \in Range(all) <=> q \in Range(stamped))
  BY <1>6, StampedOnce
<1> HIDE DEF all
<1>8. ExecutionInOrder(run[r], x, cancelling[r], report[r], r \in Range(all))
  BY <1>1, <1>2, <1>5, <1>6, <1>7, KnownOf DEF ExecutionInOrder, Late
<1>9. /\ run' = [run EXCEPT ![r] = run[r]] /\ report' = [report EXCEPT ![r] = report[r]]
      /\ cancelling' = [cancelling EXCEPT ![r] = cancelling[r]] /\ UNCHANGED calibration
  BY <1>1 DEF EvaluationInv, EvaluationTyped
<1>10. /\ run[r] \in RunRow /\ RowInOrder(run[r]) /\ cancelling[r] \in 0..2
       /\ troubles' \in 0..MaxTroubles /\ report[r] \in Gate \cup {"none"}
  BY <1>1, KnownOf
<1>11. ~Calibrated => Cardinality(Contenders') <= 2
  BY <1>3, <1>4, <1>5, <1>9, Shrinks DEF Contends
<1>12. report[r] \in {report[r], "none"} /\ report[r] # "passed"
  BY <1>6
<1> QED BY <1>1, <1>2, <1>3, <1>4, <1>5, <1>7, <1>8, <1>9, <1>10, <1>11, <1>12, OneRunMoves

LEMMA SaveReportKeeps ==
    ASSUME EvaluationInv, NEW r \in Run, SaveReport(r)
    PROVE  EvaluationInv' /\ EndedStays
<1> DEFINE x == [pc |-> "calibrate", version |-> execution[r].version,
                 gate |-> execution[r].gate, sample |-> execution[r].sample]
           rep == execution[r].gate
<1>1. /\ UNCHANGED <<run, stamped, calibration, cancelling, troubles>>
      /\ execution[r].pc = "save" /\ ExecutionAt(r, "calibrate")
      /\ report' = [report EXCEPT ![r] = rep]
  BY DEF SaveReport, Others, At
<1>2. execution' = [execution EXCEPT ![r] = x]
  BY <1>1, AtMeans
<1>3. x \in Execution /\ x.pc = "calibrate" /\ x.version = execution[r].version
  BY KnownOf DEF Execution, Late
<1>4. /\ rep \in Gate /\ rep # "none" /\ report[r] = "none" /\ r \in Range(stamped)
      /\ rep = "passed" => Calibrated
  BY <1>1, KnownOf DEF ExecutionInOrder, EvaluationInv, CalibrationInOrder, Gate
<1> HIDE DEF x, rep
<1>5. ExecutionInOrder(run[r], x, cancelling[r], rep, r \in Range(stamped))
  BY <1>1, <1>3, <1>4, KnownOf DEF ExecutionInOrder, Late
<1>6. /\ run' = [run EXCEPT ![r] = run[r]]
      /\ cancelling' = [cancelling EXCEPT ![r] = cancelling[r]] /\ UNCHANGED calibration
      /\ stamped \in Seq(Run) /\ IsInjective(stamped)
  BY <1>1 DEF EvaluationInv, EvaluationTyped
<1>7. /\ run[r] \in RunRow /\ RowInOrder(run[r]) /\ cancelling[r] \in 0..2
      /\ troubles' \in 0..MaxTroubles
  BY <1>1, KnownOf
<1>8. ~Calibrated => Cardinality(Contenders') <= 2
  BY <1>2, <1>3, <1>6, Shrinks DEF Contends
<1>9. PICK all \in Seq(Run) : all = stamped /\ IsInjective(all) /\ stamped' = all
  BY <1>1, <1>6
<1>10. ExecutionInOrder(run[r], x, cancelling[r], rep, r \in Range(all))
  BY <1>5, <1>9
<1>11. \A q \in Run : q # r => (q \in Range(all) <=> q \in Range(stamped))
  BY <1>9
<1> QED
  BY <1>1, <1>2, <1>3, <1>4, <1>6, <1>7, <1>8, <1>9, <1>10, <1>11, OneRunMoves

LEMMA EndRunKeeps ==
    ASSUME EvaluationInv, NEW r \in Run, EndRun(r)
    PROVE  EvaluationInv' /\ EndedStays
<1>1. /\ UNCHANGED <<report, stamped, calibration, cancelling, troubles>>
      /\ execution[r].pc = "end"
  BY DEF EndRun, Others, At
<1>2. /\ execution[r].version = 2 /\ execution[r].pc \in Late /\ troubles' \in 0..MaxTroubles
      /\ report[r] # "none"
  BY <1>1, KnownOf DEF ExecutionInOrder, Late
<1>3. CASE ExecutionAt(r, "error") /\ UNCHANGED run
  BY <1>1, <1>2, <1>3, GoesToKeeps DEF evaluationRows
<1>4. CASE /\ Swaps(r, execution[r].version) /\ Leaves(r)
           /\ \E status \in {"blocked", "completed"} : RunWritten(r, execution[r].version, status)
  <2>1. PICK status \in {"blocked", "completed"} : RunWritten(r, execution[r].version, status)
    BY <1>4
  <2> DEFINE row == [kind |-> run[r].kind, status |-> status, version |-> 3]
  <2>2. run' = [run EXCEPT ![r] = row]
    <3>1. execution[r].version + 1 = 3
      BY <1>2
    <3> QED BY <2>1, <3>1, WrittenMeans
  <2>3. /\ execution' = [execution EXCEPT ![r] = NoExecution] /\ NoExecution \in Execution
        /\ NoExecution.pc = "idle"
    BY <1>4, LeavesMeans
  <2>4. run[r].version = 2 /\ run[r].status = "running"
    BY <1>2, <1>4, KnownOf DEF Swaps, ExecutionInOrder
  <2>5. /\ row \in RunRow /\ row.kind = run[r].kind /\ RowInOrder(row)
        /\ row.version = 3 /\ row.status \in {"blocked", "completed"}
    BY KnownOf DEF RunRow, RowInOrder, Terminal
  <2>6. Contends(row, NoExecution) => Contends(run[r], execution[r])
    BY <1>1, <2>3, <2>4, <2>5 DEF Contends
  <2> HIDE DEF row
  <2>7. ExecutionInOrder(row, NoExecution, cancelling[r], report[r], r \in Range(stamped))
    <3>1. cancelling[r] \in 0..2 /\ (report[r] # "none" => r \in Range(stamped))
      BY KnownOf DEF ExecutionInOrder
    <3> QED BY <1>2, <2>3, <2>5, <3>1 DEF ExecutionInOrder, Late
  <2>8. run[r].status \notin Terminal
    BY <2>4 DEF Terminal
  <2>9. cancelling' = [cancelling EXCEPT ![r] = cancelling[r]] /\ cancelling[r] \in 0..2
    BY <1>1 DEF EvaluationInv, EvaluationTyped
  <2>10. ~Calibrated => Cardinality(Contenders') <= 2
    BY <2>2, <2>3, <2>6, Shrinks
  <2> QED BY <1>1, <1>2, <2>2, <2>3, <2>5, <2>7, <2>8, <2>9, <2>10, RunMoves
<1> QED BY <1>3, <1>4 DEF EndRun

(* except: the run is failed by the version it has. *)
LEMMA ReadErrorKeeps ==
    ASSUME EvaluationInv, NEW r \in Run, ReadError(r)
    PROVE  EvaluationInv' /\ EndedStays
<1>1. UNCHANGED <<evaluationRows, cancelling, troubles>> /\ execution[r].pc = "error"
  BY DEF ReadError, Others, At
<1>2. troubles' \in 0..MaxTroubles
  BY <1>1, KnownOf
<1>3. CASE Leaves(r)
  BY <1>1, <1>2, <1>3, LeavesKeeps
<1>4. CASE /\ run[r].status = "running"
           /\ execution' = [execution EXCEPT ![r].pc = "fail", ![r].version = run[r].version]
  <2> DEFINE x == [pc |-> "fail", version |-> run[r].version, gate |-> execution[r].gate,
                   sample |-> execution[r].sample]
             y == [execution[r] EXCEPT !.pc = "fail"]
             z == [y EXCEPT !.version = run[r].version]
  <2>1. execution' = [execution EXCEPT ![r] = z]
    BY <1>4 DEF EvaluationInv, EvaluationTyped
  <2>2. z = x
    <3>1. y = [pc |-> "fail", version |-> execution[r].version, gate |-> execution[r].gate,
               sample |-> execution[r].sample]
      BY KnownOf DEF Execution
    <3> HIDE DEF y
    <3> QED BY <3>1
  <2>3. x.pc = "fail" /\ x.version = run[r].version
    OBVIOUS
  <2>4. run[r].version = 2
    BY <1>4, KnownOf DEF RowInOrder
  <2>5. x \in Execution
    BY <2>4, KnownOf DEF Execution, Late
  <2> HIDE DEF x, y, z
  <2>6. ExecutionInOrder(run[r], x, cancelling[r], report[r], r \in Range(stamped))
    BY <1>1, <1>4, <2>3, <2>4, KnownOf DEF ExecutionInOrder, Late
  <2>7. run' = [run EXCEPT ![r] = run[r]]
    BY <1>1 DEF EvaluationInv, EvaluationTyped, evaluationRows
  <2>8. ~Calibrated => Cardinality(Contenders') <= 2
    BY <2>1, <2>2, <2>3, <2>7, Shrinks DEF Contends
  <2> QED BY <1>1, <1>2, <2>1, <2>2, <2>3, <2>5, <2>6, <2>8, ExecutionMoves
<1> QED BY <1>3, <1>4 DEF ReadError

LEMMA FailKeeps ==
    ASSUME EvaluationInv, NEW r \in Run, Fail(r)
    PROVE  EvaluationInv' /\ EndedStays
<1>1. /\ UNCHANGED <<report, stamped, calibration, cancelling, troubles>>
      /\ execution[r].pc = "fail" /\ Leaves(r)
  BY DEF Fail, Others, At
<1>2. execution[r].version = 2 /\ troubles' \in 0..MaxTroubles
  BY <1>1, KnownOf DEF ExecutionInOrder, Late
<1>3. CASE UNCHANGED run
  BY <1>1, <1>2, <1>3, LeavesKeeps DEF evaluationRows
<1>4. CASE Swaps(r, execution[r].version) /\ RunWritten(r, execution[r].version, "failed")
  <2> DEFINE row == [kind |-> run[r].kind, status |-> "failed", version |-> 3]
  <2>1. run' = [run EXCEPT ![r] = row]
    <3>1. execution[r].version + 1 = 3
      BY <1>2
    <3> QED BY <1>4, <3>1, WrittenMeans
  <2>2. /\ execution' = [execution EXCEPT ![r] = NoExecution] /\ NoExecution \in Execution
        /\ NoExecution.pc = "idle"
    BY <1>1, LeavesMeans
  <2>3. run[r].version = 2 /\ run[r].status = "running"
    BY <1>1, <1>2, <1>4, KnownOf DEF Swaps, ExecutionInOrder, Late
  <2>4. /\ row \in RunRow /\ row.kind = run[r].kind /\ RowInOrder(row)
        /\ row.version = 3 /\ row.status = "failed"
    BY KnownOf DEF RunRow, RowInOrder, Terminal
  <2> HIDE DEF row
  <2>5. ~Contends(row, NoExecution)
    BY <2>2, <2>4 DEF Contends
  <2>6. ExecutionInOrder(row, NoExecution, cancelling[r], report[r], r \in Range(stamped))
    <3>1. cancelling[r] \in 0..2 /\ (report[r] # "none" => r \in Range(stamped))
      BY KnownOf DEF ExecutionInOrder
    <3> QED BY <2>2, <2>4, <3>1 DEF ExecutionInOrder, Late
  <2>7. run[r].status \notin Terminal
    BY <2>3 DEF Terminal
  <2>8. cancelling' = [cancelling EXCEPT ![r] = cancelling[r]] /\ cancelling[r] \in 0..2
    BY <1>1 DEF EvaluationInv, EvaluationTyped
  <2>9. ~Calibrated => Cardinality(Contenders') <= 2
    BY <2>1, <2>2, <2>5, Shrinks
  <2> QED BY <1>1, <1>2, <2>1, <2>2, <2>4, <2>6, <2>7, <2>8, <2>9, RunMoves
<1> QED BY <1>3, <1>4 DEF Fail

-----------------------------------------------------------------------------
(* A request that cancels. *)
LEMMA BeginCancelKeeps ==
    ASSUME EvaluationInv, NEW r \in Run, BeginCancel(r)
    PROVE  EvaluationInv' /\ EndedStays
<1>1. /\ UNCHANGED <<run, report, stamped, calibration, execution>>
      /\ run[r].status \in {"queued", "running"}
      /\ cancelling' = [cancelling EXCEPT ![r] = run[r].version]
  BY DEF BeginCancel, evaluationRows
<1>2. troubles' \in 0..MaxTroubles
  BY KnownOf, EvaluationAssumption DEF BeginCancel, Trouble
<1>3. run[r].version \in {1, 2}
  BY <1>1, KnownOf DEF RowInOrder
<1>4. PICK c \in 0..2 : c = run[r].version /\ c # 0
  BY <1>3
<1>5. PICK row \in RunRow, x \in Execution :
        /\ row = run[r] /\ x = execution[r] /\ RowInOrder(row)
        /\ x.pc = "insert" => Fits(x.sample)
  BY KnownOf DEF EvaluationInv, CalibrationInOrder
<1>6. ExecutionInOrder(row, x, c, report[r], r \in Range(stamped))
  BY <1>1, <1>3, <1>4, <1>5, KnownOf DEF ExecutionInOrder
<1>7. /\ run' = [run EXCEPT ![r] = row] /\ execution' = [execution EXCEPT ![r] = x]
      /\ cancelling' = [cancelling EXCEPT ![r] = c]
  BY <1>1, <1>4, <1>5 DEF EvaluationInv, EvaluationTyped
<1>8. ~Calibrated => Cardinality(Contenders') <= 2
  BY <1>5, <1>7, Shrinks
<1> QED BY <1>1, <1>2, <1>4, <1>5, <1>6, <1>7, <1>8, RunMoves

LEMMA CancelKeeps ==
    ASSUME EvaluationInv, NEW r \in Run, Cancel(r)
    PROVE  EvaluationInv' /\ EndedStays
<1>1. /\ UNCHANGED <<report, stamped, calibration, execution, troubles>>
      /\ cancelling[r] # 0 /\ cancelling' = [cancelling EXCEPT ![r] = 0]
  BY DEF Cancel
<1>2. /\ execution' = [execution EXCEPT ![r] = execution[r]] /\ execution[r] \in Execution
      /\ troubles' \in 0..MaxTroubles
      /\ execution[r].pc = "insert" => Fits(execution[r].sample)
  BY <1>1, KnownOf DEF EvaluationInv, EvaluationTyped, CalibrationInOrder
<1>3. \E row \in RunRow :
        /\ run' = [run EXCEPT ![r] = row] /\ row.kind = run[r].kind /\ RowInOrder(row)
        /\ row = run[r] \/ (/\ run[r].status \in {"queued", "running"}
                           /\ row.status = "cancelled" /\ row.version = run[r].version + 1)
  <2>1. CASE UNCHANGED run
    <3>1. run' = [run EXCEPT ![r] = run[r]] /\ run[r] \in RunRow /\ RowInOrder(run[r])
      BY <2>1, KnownOf DEF EvaluationInv, EvaluationTyped
    <3> QED BY <3>1
  <2>2. CASE Swaps(r, cancelling[r]) /\ RunWritten(r, cancelling[r], "cancelled")
    <3> DEFINE row == [kind |-> run[r].kind, status |-> "cancelled", version |-> cancelling[r] + 1]
    <3>1. run' = [run EXCEPT ![r] = row]
      BY <2>2, WrittenMeans
    <3>2. /\ run[r].version = cancelling[r] /\ run[r].status \in {"queued", "running"}
          /\ cancelling[r] \in {1, 2}
      BY <1>1, <2>2, KnownOf DEF Swaps, ExecutionInOrder
    <3>3. cancelling[r] + 1 \in {2, 3}
      BY <3>2
    <3>4. row \in RunRow /\ row.kind = run[r].kind /\ RowInOrder(row)
      BY <3>3, KnownOf DEF RunRow, RowInOrder, Terminal
    <3>5. row.status = "cancelled" /\ row.version = run[r].version + 1
      BY <3>2
    <3> HIDE DEF row
    <3> QED BY <3>1, <3>2, <3>4, <3>5
  <2> QED BY <2>1, <2>2 DEF Cancel
<1>4. PICK row \in RunRow :
        /\ run' = [run EXCEPT ![r] = row] /\ row.kind = run[r].kind /\ RowInOrder(row)
        /\ row = run[r] \/ (/\ run[r].status \in {"queued", "running"}
                           /\ row.status = "cancelled" /\ row.version = run[r].version + 1)
  BY <1>3
<1>5. ExecutionInOrder(row, execution[r], 0, report[r], r \in Range(stamped))
  <2>1. CASE row = run[r]
    BY <2>1, KnownOf DEF ExecutionInOrder
  <2>2. CASE /\ run[r].status \in {"queued", "running"}
             /\ row.status = "cancelled" /\ row.version = run[r].version + 1
    <3>1. run[r].version \in {1, 2} /\ (run[r].version = 1 <=> run[r].status = "queued")
      BY <2>2, KnownOf DEF RowInOrder
    <3>2. execution[r].pc \in Late => row.version = 3
      BY <2>2, <3>1, KnownOf DEF ExecutionInOrder
    <3> QED BY <2>2, <3>1, <3>2, KnownOf DEF ExecutionInOrder
  <2> QED BY <1>4, <2>1, <2>2
<1>6. Contends(row, execution[r]) => Contends(run[r], execution[r])
  BY <1>4 DEF Contends
<1>7. ~Calibrated => Cardinality(Contenders') <= 2
  BY <1>2, <1>4, <1>6, Shrinks
<1>8. run[r].status \in Terminal => row = run[r]
  BY <1>4 DEF Terminal
<1>9. PICK c \in 0..2 : c = 0
  OBVIOUS
<1> QED BY <1>1, <1>2, <1>4, <1>5, <1>7, <1>8, <1>9, RunMoves

LEMMA RestartEvaluationKeeps ==
    ASSUME EvaluationInv, RestartEvaluation
    PROVE  EvaluationInv' /\ EndedStays
<1>1. /\ UNCHANGED <<run, report, stamped, calibration>>
      /\ execution' = [r \in Run |-> NoExecution] /\ cancelling' = [r \in Run |-> 0]
  BY DEF RestartEvaluation, evaluationRows
<1>2. troubles' \in 0..MaxTroubles
  BY EvaluationAssumption DEF RestartEvaluation, Trouble, EvaluationInv, EvaluationTyped
<1>3. NoExecution \in Execution /\ NoExecution.pc = "idle"
  BY DEF NoExecution, Execution
<1>4. EvaluationTyped'
  BY <1>1, <1>2, <1>3 DEF EvaluationInv, EvaluationTyped
<1>5. RunsInOrder'
  BY <1>1, <1>3 DEF EvaluationInv, RunsInOrder, ExecutionInOrder, Late
<1>6. CalibrationInOrder'
  <2>1. Contenders' \subseteq Contenders /\ Contenders \subseteq Run
    BY <1>1, <1>3 DEF Contenders, Contends
  <2>2. IsFiniteSet(Contenders)
    BY <2>1, EvaluationAssumption, FS_Subset
  <2>3. Cardinality(Contenders') <= Cardinality(Contenders)
    BY <2>1, <2>2, FS_Subset
  <2>4. Cardinality(Contenders) \in Nat /\ Cardinality(Contenders') \in Nat
    BY <2>1, <2>2, FS_Subset, FS_CardinalityType
  <2>5. ~Calibrated' => Cardinality(Contenders') <= 2
    BY <1>1, <2>3, <2>4 DEF EvaluationInv, CalibrationInOrder, Calibrated
  <2>6. Calibrated' => Fits(calibration)'
    BY <1>1 DEF EvaluationInv, CalibrationInOrder, Calibrated, Fits
  <2>7. (\A r \in Run : /\ execution[r].pc = "insert" => Fits(execution[r].sample)
                        /\ execution[r].pc = "save" /\ execution[r].gate = "passed" => Calibrated
                        /\ report[r] = "passed" => Calibrated)'
    BY <1>1, <1>3 DEF EvaluationInv, CalibrationInOrder, Calibrated
  <2> QED BY <2>5, <2>6, <2>7 DEF CalibrationInOrder
<1>7. EndedStays
  BY <1>1 DEF EndedStays
<1> QED BY <1>4, <1>5, <1>6, <1>7 DEF EvaluationInv

-----------------------------------------------------------------------------
(* The three earliest reports. *)
LEMMA EarliestIsOne ==
    ASSUME EvaluationInv, NEW S \in SUBSET Range(stamped), S # {}
    PROVE  Earliest(S) \in S
<1> DEFINE at == {i \in DOMAIN stamped : stamped[i] \in S}
<1>1. DOMAIN stamped \subseteq Nat
  BY LenProperties DEF EvaluationInv, EvaluationTyped
<1>2. at \subseteq Nat /\ at # {}
  BY <1>1 DEF Range
<1>3. PICK i \in at : \A j \in at : <<j, i>> \notin OpToRel(<, Nat)
  <2> HIDE DEF at
  <2> QED BY <1>2, NatLessThanWellFounded, WFMin
<1>4. \A j \in at : ~(j < i)
  BY <1>2, <1>3 DEF OpToRel
<1>5. \A j \in DOMAIN stamped : stamped[j] \in S => i <= j
  BY <1>1, <1>2, <1>4
<1>6. \E r \in S : \E k \in DOMAIN stamped :
         stamped[k] = r /\ \A j \in DOMAIN stamped : stamped[j] \in S => k <= j
  BY <1>5
<1> QED BY <1>6 DEF Earliest

(* A sample holds three reports, if as many are there. *)
LEMMA SampleIsThree ==
    ASSUME EvaluationInv
    PROVE  /\ Reported \subseteq Run /\ IsFiniteSet(Reported)
           /\ Sample \subseteq Reported
           /\ Sample = {} => Cardinality(Reported) <= 2
           /\ Sample # {} => Cardinality(Sample) = 3
<1> DEFINE one == Earliest(Reported)
           two == Earliest(Reported \ {one})
           three == Earliest(Reported \ {one, two})
<1>1. Reported \subseteq Run /\ Reported \subseteq Range(stamped)
  <2>1. Range(stamped) \subseteq Run
    BY ElementOfSeq, LenProperties DEF EvaluationInv, EvaluationTyped, Range
  <2> QED BY <2>1 DEF Reported
<1>2. IsFiniteSet(Reported) /\ Cardinality(Reported) \in Nat
  BY <1>1, EvaluationAssumption, FS_Subset, FS_CardinalityType
<1>3. CASE Cardinality(Reported) < 3
  BY <1>1, <1>2, <1>3 DEF Sample
<1>4. CASE ~(Cardinality(Reported) < 3)
  <2>1. Reported # {}
    BY <1>2, <1>4, FS_EmptySet
  <2>2. one \in Reported
    BY <1>1, <2>1, EarliestIsOne
  <2> HIDE DEF one
  <2>3. /\ IsFiniteSet({one}) /\ Cardinality({one}) = 1
    BY FS_Singleton
  <2>4. Reported \ {one} # {}
    <3> SUFFICES ASSUME Reported \ {one} = {} PROVE FALSE
      OBVIOUS
    <3>1. Reported = {one}
      BY <2>2
    <3> QED BY <1>4, <2>3, <3>1
  <2>5. two \in Reported \ {one}
    BY <1>1, <2>4, EarliestIsOne
  <2> HIDE DEF two
  <2>6. IsFiniteSet({one} \cup {two}) /\ Cardinality({one} \cup {two}) = 2
    BY <2>3, <2>5, FS_AddElement
  <2>7. Reported \ {one, two} # {}
    <3> SUFFICES ASSUME Reported \ {one, two} = {} PROVE FALSE
      OBVIOUS
    <3>1. Reported = {one} \cup {two}
      BY <2>2, <2>5
    <3> QED BY <1>4, <2>6, <3>1
  <2>8. three \in Reported \ {one, two}
    BY <1>1, <2>7, EarliestIsOne
  <2> HIDE DEF three
  <2>9. Cardinality(({one} \cup {two}) \cup {three}) = 3
    BY <2>6, <2>8, FS_AddElement
  <2>10. {one, two, three} = ({one} \cup {two}) \cup {three}
    OBVIOUS
  <2>11. Sample = {one, two, three}
    BY <1>4 DEF Sample, one, two, three
  <2> QED BY <1>1, <1>2, <2>2, <2>5, <2>8, <2>9, <2>10, <2>11
<1> QED BY <1>3, <1>4

LEMMA ReadSampleKeeps ==
    ASSUME EvaluationInv, NEW r \in Run, ReadSample(r)
    PROVE  EvaluationInv' /\ EndedStays
<1>1. UNCHANGED <<evaluationRows, cancelling, troubles>> /\ execution[r].pc = "calibrate"
  BY DEF ReadSample, Others, At
<1>2. /\ troubles' \in 0..MaxTroubles /\ execution[r].pc \in Late
      /\ report[r] # "none" /\ r \in Range(stamped)
  BY <1>1, KnownOf DEF ExecutionInOrder, Late
<1>3. run' = [run EXCEPT ![r] = run[r]]
  BY <1>1 DEF EvaluationInv, EvaluationTyped, evaluationRows
<1>4. CASE /\ run[r].kind # "self" \/ Calibrated \/ Sample = {}
           /\ ExecutionAt(r, "end")
  <2> DEFINE x == [pc |-> "end", version |-> execution[r].version, gate |-> execution[r].gate,
                   sample |-> execution[r].sample]
  <2>1. execution' = [execution EXCEPT ![r] = x]
    BY <1>4, AtMeans
  <2> HIDE DEF x
  <2>2. CASE run[r].kind # "self"
    BY <1>1, <1>2, <1>3, <1>4, <2>1, <2>2, GoesToKeeps, Shrinks DEF Contends
  <2>3. CASE Calibrated
    BY <1>1, <1>2, <1>4, <2>3, GoesToKeeps
  <2>4. CASE Sample = {}
    <3>1. \A q \in Run : q # r => execution'[q] = execution[q]
      BY <2>1 DEF EvaluationInv, EvaluationTyped
    <3>2. run' = run
      BY <1>1 DEF evaluationRows
    <3>3. ASSUME NEW q \in Run, Contends(run'[q], execution'[q])
          PROVE  q \in Reported
      <4>1. CASE q = r
        BY <1>2, <3>2, <3>3, <4>1, KnownOf DEF Contends, Reported, Counts
      <4>2. CASE q # r
        <5>1. report[q] # "none" /\ q \in Range(stamped)
          BY <3>1, <3>2, <3>3, <4>2, KnownOf DEF Contends, ExecutionInOrder
        <5> QED BY <3>2, <3>3, <5>1 DEF Contends, Reported, Counts
      <4> QED BY <4>1, <4>2
    <3>4. Contenders' \subseteq Reported
      BY <3>3 DEF Contenders
    <3>5. Cardinality(Contenders') <= 2
      <4>1. IsFiniteSet(Reported) /\ Cardinality(Reported) <= 2
        BY <2>4, SampleIsThree
      <4>2. /\ Cardinality(Contenders') <= Cardinality(Reported)
            /\ Cardinality(Contenders') \in Nat /\ Cardinality(Reported) \in Nat
        BY <3>4, <4>1, FS_Subset, FS_CardinalityType
      <4> QED BY <4>1, <4>2
    <3> QED BY <1>1, <1>2, <1>4, <3>5, GoesToKeeps
  <2> QED BY <1>4, <2>2, <2>3, <2>4
<1>5. CASE /\ ~Calibrated /\ Sample # {}
           /\ execution' = [execution EXCEPT ![r].pc = "insert", ![r].sample = Sample]
  <2>1. Fits(Sample) /\ Sample \in SUBSET Run
    <3>1. Sample \subseteq Reported /\ Cardinality(Sample) = 3 /\ Reported \subseteq Run
      BY <1>5, SampleIsThree
    <3>2. \A q \in Reported : run[q].kind = "self" /\ report[q] \notin {"none", "passed"}
      BY <1>5, <3>1 DEF Reported, Counts, EvaluationInv, CalibrationInOrder
    <3> QED BY <3>1, <3>2 DEF Fits
  <2>2. PICK s \in SUBSET Run : s = Sample /\ Fits(s)
    BY <2>1
  <2> DEFINE x == [pc |-> "insert", version |-> execution[r].version,
                   gate |-> execution[r].gate, sample |-> s]
             y == [execution[r] EXCEPT !.pc = "insert"]
             z == [y EXCEPT !.sample = s]
  <2>3. execution' = [execution EXCEPT ![r] = z]
    BY <1>5, <2>2 DEF EvaluationInv, EvaluationTyped
  <2>4. z = x
    <3>1. y = [pc |-> "insert", version |-> execution[r].version, gate |-> execution[r].gate,
               sample |-> execution[r].sample]
      BY KnownOf DEF Execution
    <3> HIDE DEF y
    <3> QED BY <3>1
  <2>5. x \in Execution /\ x.pc = "insert" /\ x.version = execution[r].version /\ x.sample = s
    BY KnownOf DEF Execution, Late
  <2> HIDE DEF x, y, z
  <2>6. ExecutionInOrder(run[r], x, cancelling[r], report[r], r \in Range(stamped))
    BY <1>1, <1>2, <2>5, KnownOf DEF ExecutionInOrder, Late
  <2>7. ~Calibrated => Cardinality(Contenders') <= 2
    BY <1>3, <2>3, <2>4, <2>5, Shrinks DEF Contends
  <2> QED BY <1>1, <1>2, <2>2, <2>3, <2>4, <2>5, <2>6, <2>7, ExecutionMoves
<1> QED BY <1>4, <1>5 DEF ReadSample

(* INSERT OR IGNORE: whoever is first. *)
LEMMA SaveCalibrationKeeps ==
    ASSUME EvaluationInv, NEW r \in Run, SaveCalibration(r)
    PROVE  EvaluationInv' /\ EndedStays
<1> DEFINE x == [pc |-> "end", version |-> execution[r].version, gate |-> execution[r].gate,
                 sample |-> execution[r].sample]
<1>1. /\ UNCHANGED <<run, report, stamped, cancelling, troubles>> /\ execution[r].pc = "insert"
      /\ calibration' = IF Calibrated THEN calibration ELSE execution[r].sample
      /\ ExecutionAt(r, "end")
  BY DEF SaveCalibration, Others, At
<1>2. execution' = [execution EXCEPT ![r] = x]
  BY <1>1, AtMeans
<1>3. x \in Execution /\ x.pc = "end" /\ x.version = execution[r].version
  BY KnownOf DEF Execution, Late
<1> HIDE DEF x
<1>4. PICK made \in SUBSET Run : calibration' = made /\ Fits(made)
  BY <1>1, KnownOf DEF EvaluationInv, EvaluationTyped, CalibrationInOrder, Execution
<1>5. Calibrated'
  <2>1. made # {}
    BY <1>4, FS_EmptySet DEF Fits
  <2> QED BY <1>4, <2>1 DEF Calibrated
<1>6. /\ \A q \in Run : q # r => execution'[q] = execution[q]
      /\ execution'[r] = x
  BY <1>2 DEF EvaluationInv, EvaluationTyped
<1>7. EvaluationTyped'
  BY <1>1, <1>2, <1>3, <1>4 DEF EvaluationInv, EvaluationTyped
<1>8. RunsInOrder'
  <2>1. ExecutionInOrder(run[r], x, cancelling[r], report[r], r \in Range(stamped))
    BY <1>1, <1>3, KnownOf DEF ExecutionInOrder, Late
  <2> QED BY <1>1, <1>6, <2>1 DEF EvaluationInv, RunsInOrder
<1>9. CalibrationInOrder'
  <2>1. Fits(calibration)'
    BY <1>1, <1>4 DEF Fits
  <2>2. ASSUME NEW q \in Run, execution'[q].pc = "insert"
        PROVE  Fits(execution[q].sample)'
    <3>1. PICK s : s = execution'[q].sample /\ Fits(s)
      BY <1>3, <1>6, <2>2 DEF EvaluationInv, CalibrationInOrder
    <3> QED BY <1>1, <3>1 DEF Fits
  <2> QED BY <1>5, <2>1, <2>2 DEF CalibrationInOrder
<1>10. EndedStays
  BY <1>1 DEF EndedStays
<1> QED BY <1>7, <1>8, <1>9, <1>10 DEF EvaluationInv

-----------------------------------------------------------------------------
LEMMA EvaluationStarts == EvaluationInit => EvaluationInv
<1> SUFFICES ASSUME EvaluationInit PROVE EvaluationInv
  OBVIOUS
<1>1. PICK kinds \in Kinds :
        run = [r \in Run |-> [kind |-> kinds[r], status |-> "absent", version |-> 0]]
  BY DEF EvaluationInit
<1>2. kinds \in [Run -> Comparison]
  BY EvaluationAssumption DEF Comparison
<1>3. NoExecution \in Execution /\ NoExecution.pc = "idle"
  BY DEF NoExecution, Execution
<1>4. stamped = <<>> /\ Range(stamped) = {} /\ IsInjective(stamped) /\ stamped \in Seq(Run)
  BY DEF EvaluationInit, Range, IsInjective
<1>5. EvaluationTyped
  BY <1>1, <1>2, <1>3, <1>4, EvaluationAssumption DEF EvaluationInit, EvaluationTyped, RunRow
<1>6. RunsInOrder
  BY <1>1, <1>3, <1>4 DEF EvaluationInit, RunsInOrder, RowInOrder, ExecutionInOrder, Late
<1>7. CalibrationInOrder
  <2>1. Contenders = {}
    BY <1>1, <1>3 DEF EvaluationInit, Contenders, Contends
  <2>2. Cardinality(Contenders) = 0
    BY <2>1, FS_EmptySet
  <2> QED BY <1>3, <2>2 DEF EvaluationInit, CalibrationInOrder, Calibrated
<1> QED BY <1>5, <1>6, <1>7 DEF EvaluationInv

LEMMA EvaluationGoesOn ==
    ASSUME EvaluationInv, [EvaluationNext]_evaluationVars
    PROVE  EvaluationInv' /\ EndedStays
<1>1. CASE UNCHANGED evaluationVars
  <2>1. EvaluationTyped' /\ RunsInOrder'
    BY <1>1 DEF evaluationVars, evaluationRows, EvaluationInv, EvaluationTyped, RunsInOrder
  <2>2. CalibrationInOrder'
    BY <1>1 DEF evaluationVars, evaluationRows, EvaluationInv, CalibrationInOrder, Calibrated,
                Fits, Contenders
  <2>3. EndedStays
    BY <1>1 DEF evaluationVars, evaluationRows, EndedStays
  <2> QED BY <2>1, <2>2, <2>3 DEF EvaluationInv
<1>2. CASE EvaluationNext
  BY <1>2, CreateRunKeeps, ReadKeeps, BeginExecutionKeeps, RunCasesKeeps, BuildReportKeeps,
     SaveReportKeeps, ReadSampleKeeps, SaveCalibrationKeeps, EndRunKeeps, FaultKeeps,
     ReadErrorKeeps, FailKeeps, BeginCancelKeeps, CancelKeeps, RestartEvaluationKeeps
  DEF EvaluationNext
<1> QED BY <1>1, <1>2

LEMMA FairByInvariant ==
    ASSUME EvaluationInv
    PROVE  CalibrationIsFair
<1>1. Calibrated =>
        /\ Cardinality(calibration) = 3
        /\ \A r \in calibration : run[r].kind = "self" /\ report[r] # "passed"
  BY DEF EvaluationInv, CalibrationInOrder, Fits
<1>2. \A r \in Run : report[r] = "passed" => Calibrated
  BY DEF EvaluationInv, CalibrationInOrder
<1>3. Cardinality({r \in Run : CompletedSelf(r)}) >= 3 => Calibrated
  <2>1. {r \in Run : CompletedSelf(r)} \subseteq Contenders /\ Contenders \subseteq Run
    BY DEF CompletedSelf, Contenders, Contends
  <2>2. IsFiniteSet(Contenders)
    BY <2>1, EvaluationAssumption, FS_Subset
  <2>3. /\ Cardinality({r \in Run : CompletedSelf(r)}) <= Cardinality(Contenders)
        /\ Cardinality({r \in Run : CompletedSelf(r)}) \in Nat /\ Cardinality(Contenders) \in Nat
    BY <2>1, <2>2, FS_Subset, FS_CardinalityType
  <2>4. ~Calibrated => Cardinality(Contenders) <= 2
    BY DEF EvaluationInv, CalibrationInOrder
  <2> QED BY <2>3, <2>4
<1> QED BY <1>1, <1>2, <1>3 DEF CalibrationIsFair

(* The rows of runs, reports and the calibration hold what the code writes; a
   report is built and saved once. *)
THEOREM EvaluationTypeCorrect == EvaluationSpec => []EvaluationTypeOK
<1>1. EvaluationInit => EvaluationInv
  BY EvaluationStarts
<1>2. EvaluationInv /\ [EvaluationNext]_evaluationVars => EvaluationInv'
  BY EvaluationGoesOn
<1>3. EvaluationInv => EvaluationTypeOK
  BY DEF EvaluationInv, EvaluationTyped, EvaluationTypeOK, RunRow, Comparison, RunsInOrder,
         ExecutionInOrder
<1> QED BY <1>1, <1>2, <1>3, PTL DEF EvaluationSpec

(* The calibration is made of three ungated self-comparisons, is there once three
   have completed whichever of them looks last, and nothing passes before; what is
   over stays as it ended: for any number of runs side by side, cancel requests,
   faults and restarts. *)
THEOREM EvaluationStaysInOrder == EvaluationSpec => EvaluationInOrder
<1>1. EvaluationInit => EvaluationInv
  BY EvaluationStarts
<1>2. EvaluationInv /\ [EvaluationNext]_evaluationVars => EvaluationInv'
  BY EvaluationGoesOn
<1>3. EvaluationInv => CalibrationIsFair
  BY FairByInvariant
<1>4. EvaluationInv /\ [EvaluationNext]_evaluationVars => [EndedStays]_evaluationRows
  BY EvaluationGoesOn
<1> QED BY <1>1, <1>2, <1>3, <1>4, PTL DEF EvaluationSpec, EvaluationInOrder
=============================================================================
