-------------------------- MODULE ProjectLifecycle --------------------------
(***************************************************************************)
(* One project: its lifecycle, the repository it is provisioned with, the  *)
(* team and workspaces of a Workcell project, its onboarding, and the      *)
(* lease its deliveries take in turn.                                      *)
(*                                                                         *)
(* The project's handlers are synchronous functions that FastAPI runs in a *)
(* thread pool, next to the event loop that creates and ends deliveries.   *)
(* A caller is one such request: it reads and checks, then commits one     *)
(* transaction after the other; anything may happen in between.            *)
(***************************************************************************)
EXTENDS Naturals, FiniteSets

CONSTANTS
    Requested,        \* deliveries requested, one request each
    Workcell,         \* workcells of the team template
    Requester,        \* requests under way at once
    MaxProjectVersion,   \* bound: version of the project row
    MaxSite,          \* bound: version of a workspace binding
    MaxProjectRestarts   \* bound: restarts of the process

Unset == "none"

(* No delivery is nobody, and a workspace can be bound. *)
ASSUME LifecycleAssumption ==
    Unset \notin Requested /\ MaxSite \in Nat \ {0}

VARIABLES
    project,          \* projects: lifecycle_status, version
    workspace,        \* project_workspaces.status
    team,             \* project_team_bindings.status, or "none"
    site,             \* workspace_bindings, per workcell: status, profile, version
    holder,           \* project_delivery_leases
    deliveries,       \* deliveries of the project
    onboarding,       \* project_onboarding: status, evaluation_delivery_id
    call,             \* per caller: what it will commit next, and what it saw
    projectRestarts

rows == <<project, workspace, team, site, holder, deliveries, onboarding>>
lifecycleVars == <<rows, call, projectRestarts>>

Underway == {"working", "candidate"}
Op == {"idle", "bindTeam", "provision", "activate", "giveUp", "retry", "rewrite",
       "patch", "archive", "admit", "assign", "verify", "qualify", "activateTeam",
       "complete"}

NoCall == [op |-> "idle", seen |-> 0, on |-> Unset]
Unbound == [status |-> "unbound", profile |-> FALSE, version |-> 0]

LifecycleInit ==
    /\ project = [status |-> "absent", version |-> 0]
    /\ workspace = Unset /\ team = Unset
    /\ site = [w \in Workcell |-> Unbound]
    /\ holder = Unset
    /\ deliveries = [d \in Requested |-> "absent"]
    /\ onboarding = [status |-> "absent", by |-> Unset]
    /\ call = [c \in Requester |-> NoCall]
    /\ projectRestarts = 0

Does(c, op) == call[c].op = op
BeginsCall(c, op, seen, on) ==
    /\ call[c] = NoCall
    /\ call' = [call EXCEPT ![c] = [op |-> op, seen |-> seen, on |-> on]]
Goes(c, op) == call' = [call EXCEPT ![c].op = op]
Returns(c) == call' = [call EXCEPT ![c] = NoCall]

-----------------------------------------------------------------------------
(* update_project: by version; an archived project may hold no lease.  The
   caller goes on, or raises. *)

(* Mutant: the lease is only looked at before, not in the transaction. *)
MayBecomeUnchecked(c, status) ==
    /\ project.version = call[c].seen

MayBecome(c, status) ==
    /\ project.version = call[c].seen
    /\ status = "archived" => holder = Unset

Become(status) == project' = [status |-> status, version |-> project.version + 1]

UpdateProject(c, status, next) ==
    IF MayBecome(c, status)
    THEN Become(status) /\ IF next = "idle" THEN Returns(c)
                           ELSE call' = [call EXCEPT ![c].op = next, ![c].seen = @ + 1]
    ELSE UNCHANGED project /\ Returns(c)

(* POST /v1/projects: the row, its workspace and onboarding in one
   transaction; then the team is bound, or the repository provisioned. *)
Create(c, workcells, guided) ==
    /\ project.status = "absent"
    /\ BeginsCall(c, IF workcells THEN "bindTeam" ELSE "provision", 1, Unset)
    /\ Become("provisioning")
    /\ workspace' = "provisioning"
    /\ onboarding' = [status |-> IF guided THEN "setup" ELSE "ready", by |-> Unset]
    /\ UNCHANGED <<team, site, holder, deliveries, projectRestarts>>

BindTeam(c) ==
    /\ Does(c, "bindTeam")
    /\ team' = IF team = Unset THEN "provisioning" ELSE team
    /\ Returns(c)
    /\ UNCHANGED <<project, workspace, site, holder, deliveries, onboarding, projectRestarts>>

(* _provision: Git answers, the workspace row is written, whatever it is by
   now; then the project row, by the version this call last wrote. *)
Provision(c) ==
    /\ Does(c, "provision")
    /\ \/ workspace' = "ready" /\ Goes(c, "activate")
       \/ workspace' = "failed" /\ Goes(c, "giveUp")
    /\ UNCHANGED <<project, team, site, holder, deliveries, onboarding, projectRestarts>>

Provisioned(c) ==
    /\ \/ Does(c, "activate") /\ UpdateProject(c, "active", "idle")
       \/ Does(c, "giveUp") /\ UpdateProject(c, "provision_failed", "idle")
    /\ UNCHANGED <<workspace, team, site, holder, deliveries, onboarding, projectRestarts>>

(* Mutant: the workspace is reset before the project row is claimed. *)
RewriteFirst(c) ==
    /\ \/ /\ BeginsCall(c, "rewrite", project.version, Unset)
          /\ project.status = "provision_failed" /\ project.version < MaxProjectVersion
          /\ UNCHANGED <<project, workspace>>
       \/ /\ Does(c, "rewrite")
          /\ workspace' = "provisioning"
          /\ Goes(c, "retry")
          /\ UNCHANGED project
       \/ Does(c, "retry") /\ UpdateProject(c, "provisioning", "provision") /\ UNCHANGED workspace
    /\ UNCHANGED <<team, site, holder, deliveries, onboarding, projectRestarts>>

(* retry_workspace: the project row is claimed, then the workspace is reset and
   provisioned again. *)
RetryWorkspace(c) ==
    /\ \/ /\ BeginsCall(c, "retry", project.version, Unset)
          /\ project.status = "provision_failed" /\ project.version < MaxProjectVersion
          /\ UNCHANGED <<project, workspace>>
       \/ Does(c, "retry") /\ UpdateProject(c, "provisioning", "rewrite") /\ UNCHANGED workspace
       \/ /\ Does(c, "rewrite")
          /\ workspace' = "provisioning"
          /\ Goes(c, "provision")
          /\ UNCHANGED project
    /\ UNCHANGED <<team, site, holder, deliveries, onboarding, projectRestarts>>

(* patch keeps the status it read. *)
Patch(c) ==
    /\ \/ /\ BeginsCall(c, "patch", project.version, project.status)
          /\ project.status \notin {"absent", "archived"} /\ project.version < MaxProjectVersion
          /\ UNCHANGED project
       \/ Does(c, "patch") /\ UpdateProject(c, call[c].on, "idle")
    /\ UNCHANGED <<workspace, team, site, holder, deliveries, onboarding, projectRestarts>>

Archive(c) ==
    /\ \/ /\ BeginsCall(c, "archive", project.version, Unset)
          /\ project.status \notin {"absent", "archived"} /\ holder = Unset
          /\ UNCHANGED project
       \/ Does(c, "archive") /\ UpdateProject(c, "archived", "idle")
    /\ UNCHANGED <<workspace, team, site, holder, deliveries, onboarding, projectRestarts>>

-----------------------------------------------------------------------------
(* Deliveries.  The request checks readiness, settings and workspaces and
   freezes what it read; the first save rechecks the status and takes the
   lease. *)
Ready(w) == site[w].status = "ready" /\ site[w].profile

PrepareDelivery(c, d, evaluation) ==
    /\ deliveries[d] = "absent"
    /\ \A b \in Requester : ~(Does(b, "admit") /\ call[b].on = d)
    /\ onboarding.status = IF evaluation THEN "setup" ELSE "ready"
    /\ project.status = "active" /\ workspace = "ready"
    /\ team # Unset => team = "active" /\ \A w \in Workcell : Ready(w)
    /\ BeginsCall(c, "admit", IF evaluation THEN 1 ELSE 0, d)
    /\ UNCHANGED <<rows, projectRestarts>>

(* Mutant: the lifecycle is not read again in the transaction. *)
AdmissibleUnchecked == holder = Unset
Admissible == project.status = "active" /\ holder = Unset

AdmitDelivery(c) ==
    /\ Does(c, "admit")
    /\ LET d == call[c].on
           evaluation == call[c].seen = 1 IN
       IF Admissible /\ (evaluation => onboarding.status = "setup")
       THEN /\ holder' = d
            /\ deliveries' = [deliveries EXCEPT ![d] = "working"]
            /\ onboarding' = IF evaluation THEN [status |-> "in_evaluation", by |-> d]
                             ELSE onboarding
       ELSE UNCHANGED <<holder, deliveries, onboarding>>
    /\ Returns(c)
    /\ UNCHANGED <<project, workspace, team, site, projectRestarts>>

(* The candidate gate opens. *)
OpenGate(d) ==
    /\ deliveries[d] = "working"
    /\ deliveries' = [deliveries EXCEPT ![d] = "candidate"]
    /\ UNCHANGED <<project, workspace, team, site, holder, onboarding, call, projectRestarts>>

(* Mutant: the lease is given back before the terminal save. *)
ReleaseThenEnd(d) ==
    /\ deliveries[d] \in Underway
    /\ IF holder = d THEN holder' = Unset /\ UNCHANGED deliveries
       ELSE deliveries' = [deliveries EXCEPT ![d] = "over"] /\ UNCHANGED holder
    /\ UNCHANGED <<project, workspace, team, site, onboarding, call, projectRestarts>>

(* Completed, rejected, failed or cancelled: the row, then the lease. *)
EndDelivery(d) ==
    /\ \/ /\ deliveries[d] \in Underway
          /\ deliveries' = [deliveries EXCEPT ![d] = "over"]
          /\ UNCHANGED holder
       \/ deliveries[d] = "over" /\ holder = d /\ holder' = Unset /\ UNCHANGED deliveries
    /\ UNCHANGED <<project, workspace, team, site, onboarding, call, projectRestarts>>

(* complete_onboarding: the bound evaluation stands at its candidate gate. *)
CompleteOnboarding(c) ==
    /\ \/ /\ BeginsCall(c, "complete", 0, Unset)
          /\ onboarding.status = "in_evaluation" /\ deliveries[onboarding.by] = "candidate"
          /\ UNCHANGED onboarding
       \/ /\ Does(c, "complete")
          /\ onboarding' = IF onboarding.status = "in_evaluation"
                           THEN [onboarding EXCEPT !.status = "ready"] ELSE onboarding
          /\ Returns(c)
    /\ UNCHANGED <<project, workspace, team, site, holder, deliveries, projectRestarts>>

-----------------------------------------------------------------------------
(* The team of a Workcell project. *)

(* create_workspace_binding, while the team is being provisioned. *)
Assign(c, w) ==
    /\ \/ /\ BeginsCall(c, "assign", 0, w)
          /\ team = "provisioning" /\ UNCHANGED site
       \/ /\ Does(c, "assign") /\ call[c].on = w
          /\ site' = IF site[w].status = "unbound"
                     THEN [site EXCEPT ![w] = [status |-> "pending", profile |-> FALSE, version |-> 1]]
                     ELSE site
          /\ Returns(c)
    /\ UNCHANGED <<project, workspace, team, holder, deliveries, onboarding, projectRestarts>>

(* A workspace binding by its version. *)
SwapSite(c, w, row) ==
    site' = IF site[w].version = call[c].seen
            THEN [site EXCEPT ![w] = [row EXCEPT !.version = @ + 1]] ELSE site

Looks(c, op, w) ==
    /\ BeginsCall(c, op, site[w].version, w)
    /\ site[w].status # "unbound" /\ site[w].version < MaxSite

(* verify_workspace: any time, also of an active team. *)
VerifyWorkspace(c, w) ==
    /\ \/ Looks(c, "verify", w) /\ UNCHANGED site
       \/ /\ Does(c, "verify") /\ call[c].on = w
          /\ \E status \in {"ready", "failed"} : SwapSite(c, w, [site[w] EXCEPT !.status = status])
          /\ Returns(c)
    /\ UNCHANGED <<project, workspace, team, holder, deliveries, onboarding, projectRestarts>>

(* _profile_admission: no delivery is active, the project is not archived. *)
ProfileAdmission == holder = Unset /\ project.status # "archived"

(* Mutant: the admission is checked when the request comes in, only. *)
QualifyUnguarded(c, w) ==
    /\ \/ Looks(c, "qualify", w) /\ ProfileAdmission /\ UNCHANGED site
       \/ /\ Does(c, "qualify") /\ call[c].on = w
          /\ \E profile \in BOOLEAN : SwapSite(c, w, [site[w] EXCEPT !.profile = profile])
          /\ Returns(c)
    /\ UNCHANGED <<project, workspace, team, holder, deliveries, onboarding, projectRestarts>>

(* set_verification_profile and qualify_verification_profile: the admission is
   checked again inside the transaction. *)
Qualify(c, w) ==
    /\ \/ Looks(c, "qualify", w) /\ ProfileAdmission /\ UNCHANGED site
       \/ /\ Does(c, "qualify") /\ call[c].on = w
          /\ IF ProfileAdmission
             THEN \E profile \in BOOLEAN : SwapSite(c, w, [site[w] EXCEPT !.profile = profile])
             ELSE UNCHANGED site
          /\ Returns(c)
    /\ UNCHANGED <<project, workspace, team, holder, deliveries, onboarding, projectRestarts>>

(* Mutant: the team becomes active, its project some other time. *)
ActivateTeamOnly(c) ==
    /\ \/ /\ BeginsCall(c, "activateTeam", 0, Unset)
          /\ team = "provisioning"
          /\ \A w \in Workcell : site[w].status = "ready"
          /\ UNCHANGED <<project, workspace, team>>
       \/ /\ Does(c, "activateTeam")
          /\ IF team = "provisioning" /\ project.status \in {"provisioning", "active"}
             THEN team' = "active" /\ Become("active")
             ELSE UNCHANGED <<team, project>>
          /\ Returns(c) /\ UNCHANGED workspace
    /\ UNCHANGED <<site, holder, deliveries, onboarding, projectRestarts>>

(* activate: all workspaces are bound and ready when it looks; team, project
   and workspace become active in one transaction. *)
ActivateTeam(c) ==
    /\ \/ /\ BeginsCall(c, "activateTeam", 0, Unset)
          /\ team = "provisioning"
          /\ \A w \in Workcell : site[w].status = "ready"
          /\ UNCHANGED <<project, workspace, team>>
       \/ /\ Does(c, "activateTeam")
          /\ IF team = "provisioning" /\ project.status \in {"provisioning", "active"}
             THEN /\ team' = "active"
                  /\ IF project.status = "provisioning"
                     THEN Become("active") /\ workspace' = "ready"
                     ELSE UNCHANGED <<project, workspace>>
             ELSE UNCHANGED <<team, project, workspace>>
          /\ Returns(c)
    /\ UNCHANGED <<site, holder, deliveries, onboarding, projectRestarts>>

-----------------------------------------------------------------------------
(* recover_provisioning: a project that is being provisioned and has no team is
   provisioned (again); nobody else runs yet. *)
RecoverProvisioning ==
    IF project.status = "provisioning" /\ team = Unset
    THEN \/ workspace' = "ready" /\ Become("active")
         \/ workspace' = "failed" /\ Become("provision_failed")
    ELSE UNCHANGED <<project, workspace>>

(* reconcile_leases and recover: what was executing has failed, a gate waits on,
   the lease is its own or nobody's. *)
RestartProject ==
    /\ projectRestarts < MaxProjectRestarts /\ projectRestarts' = projectRestarts + 1
    /\ RecoverProvisioning
    /\ deliveries' = [d \in Requested |->
                        IF deliveries[d] = "working" THEN "over" ELSE deliveries[d]]
    /\ LET waiting == {d \in Requested : deliveries[d] = "candidate"} IN
         holder' \in IF holder \in waiting THEN {holder}
                    ELSE IF waiting = {} THEN {Unset} ELSE waiting
    /\ call' = [c \in Requester |-> NoCall]
    /\ UNCHANGED <<team, site, onboarding>>

LifecycleNext ==
    \/ \E c \in Requester :
         \/ \E workcells, guided \in BOOLEAN : Create(c, workcells, guided)
         \/ BindTeam(c) \/ Provision(c) \/ Provisioned(c)
         \/ RetryWorkspace(c) \/ Patch(c) \/ Archive(c)
         \/ \E d \in Requested, evaluation \in BOOLEAN : PrepareDelivery(c, d, evaluation)
         \/ AdmitDelivery(c) \/ CompleteOnboarding(c) \/ ActivateTeam(c)
         \/ \E w \in Workcell : Assign(c, w) \/ VerifyWorkspace(c, w) \/ Qualify(c, w)
    \/ \E d \in Requested : OpenGate(d) \/ EndDelivery(d)
    \/ RestartProject

LifecycleSpec == LifecycleInit /\ [][LifecycleNext]_lifecycleVars

-----------------------------------------------------------------------------
(* Every row and call holds a value its table or its code allows. *)
LifecycleTypeOK ==
    /\ project \in [status : {"absent", "provisioning", "provision_failed", "active",
                              "archived"},
                    version : Nat]
    /\ workspace \in {Unset, "provisioning", "ready", "failed"}
    /\ team \in {Unset, "provisioning", "active"}
    /\ site \in [Workcell -> [status : {"unbound", "pending", "ready", "failed"},
                              profile : BOOLEAN, version : 0..MaxSite]]
    /\ holder \in Requested \cup {Unset}
    /\ deliveries \in [Requested -> {"absent", "over"} \cup Underway]
    /\ onboarding.status \in {"absent", "setup", "in_evaluation", "ready"}
    /\ onboarding.by \in Requested \cup {Unset}
    /\ \A c \in Requester : call[c].op \in Op

(* A delivery runs only on a project that is whole and stays so: it holds the
   project's lease, alone; an active project has the workspace and, if it has a
   team, the active team that running takes; and an archived one is idle.  The
   checks that say so are made before, and other requests come between. *)
ProjectInOrder ==
    /\ \A d \in Requested : deliveries[d] \in Underway => holder = d
    /\ holder # Unset => project.status = "active"
    /\ project.status = "active" => workspace = "ready" /\ team # "provisioning"

(* The verification profile a delivery was frozen with stays the one of its
   workspace while it runs: no request that was let in before it was admitted
   changes it. *)
ProfilesFrozen ==
    [][holder # Unset /\ holder' = holder =>
         \A w \in Workcell : site'[w].profile = site[w].profile]_lifecycleVars
=============================================================================
