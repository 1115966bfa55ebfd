--------------------------- MODULE PipelineCatalog ---------------------------
(***************************************************************************)
(* A built-in pipeline: its draft, its published revisions and the active  *)
(* one; the agent deployment its stages are bound to; the runtime instance *)
(* the deployment pins; and the startup that brings them up to date.       *)
(*                                                                         *)
(* Handlers are synchronous functions in a thread pool (the health check   *)
(* is a coroutine that awaits the probe): a request reads, then writes.    *)
(* Drafts, deployments and pipelines are written by version; instances are *)
(* not, they are saved as they were read.                                  *)
(***************************************************************************)
EXTENDS Naturals, Sequences

CONSTANTS
    Content,       \* definitions a draft can have
    Sound,         \* those of them that compile and pass the policy
    First,         \* what the first build ships
    Author,        \* requests under way at once
    MaxChanges,    \* bound: requests made
    MaxStartups    \* bound: restarts of the process

(* What the build ships compiles. *)
ASSUME CatalogAssumption ==
    /\ Sound \subseteq Content /\ First \in Sound
    /\ MaxChanges \in Nat /\ MaxStartups \in Nat

VARIABLES
    instance,      \* control_records agent-instance: version, enabled, healthy
    deployment,    \* agent_deployments: instance_version, status, enabled, version
    draft,         \* pipeline_drafts: content, version, status
    revisions,     \* pipeline_revisions, in order: content, frozen deployment, publisher
    pipeline,      \* pipelines: active_revision, version
    change,        \* per caller: what it has read, what it will write
    changes,       \* how many there were
    online,        \* the last startup succeeded
    startups       \* restarts

catalogRows == <<instance, deployment, draft, revisions, pipeline>>
catalogVars == <<catalogRows, change, changes, online, startups>>

System == "system"
Operator == "operator"
NoChange == [op |-> "idle"]

RevisionOf(content, bound, by) == [content |-> content, bound |-> bound, by |-> by]

(* A first startup has published and activated what the build ships. *)
CatalogInit ==
    /\ instance = [version |-> 1, enabled |-> TRUE, healthy |-> TRUE]
    /\ deployment = [pinned |-> 1, status |-> "qualified", enabled |-> TRUE, version |-> 1]
    /\ draft = [content |-> First, version |-> 1, status |-> "valid"]
    /\ revisions = <<RevisionOf(First, deployment, System)>>
    /\ pipeline = [active |-> 1, version |-> 1]
    /\ change = [c \in Author |-> NoChange] /\ changes = 0
    /\ online = TRUE
    /\ startups = 0

Performs(c, op) == change[c].op = op
GoesOn(c, r) == change' = [change EXCEPT ![c] = r]
Answered(c) == GoesOn(c, NoChange)
Asks(c, r) ==
    /\ online /\ change[c] = NoChange
    /\ changes < MaxChanges /\ changes' = changes + 1
    /\ GoesOn(c, r)
    /\ UNCHANGED <<catalogRows, online, startups>>

Bump(row) == [row EXCEPT !.version = @ + 1]

-----------------------------------------------------------------------------
(* Runtime instances.  patch_instance compares the version it was sent with the
   one it read; check_instance awaits the probe in between. *)
BeginInstance(c, op) ==
    Asks(c, [op |-> op, row |-> instance])

SaveInstance(c) ==
    /\ \/ /\ Performs(c, "patchInstance")
          /\ \E enabled \in BOOLEAN :
               instance' = [Bump(change[c].row) EXCEPT !.enabled = enabled]
       \/ /\ Performs(c, "checkInstance")
          /\ \E healthy \in BOOLEAN : instance' = [change[c].row EXCEPT !.healthy = healthy]
    /\ Answered(c)
    /\ UNCHANGED <<deployment, draft, revisions, pipeline, changes, online, startups>>

InstanceRuns == instance.enabled /\ instance.healthy

-----------------------------------------------------------------------------
(* Deployments: what patch, qualify and set_enabled make of a row. *)
Patched(row) ==
    [Bump(row) EXCEPT !.pinned = instance.version, !.status = "unknown", !.enabled = FALSE]

Qualifies(row) == row.pinned = instance.version /\ InstanceRuns

Qualified(row) ==
    [Bump(row) EXCEPT !.status = IF Qualifies(row) THEN "qualified" ELSE "failed",
                      !.enabled = @ /\ Qualifies(row)]

SetEnabled(row, enabled) == [Bump(row) EXCEPT !.enabled = enabled]

BeginDeployment(c) ==
    \E row \in {Patched(deployment), Qualified(deployment), SetEnabled(deployment, FALSE)}
               \cup (IF deployment.status = "qualified"
                     THEN {SetEnabled(deployment, TRUE)} ELSE {}) :
        Asks(c, [op |-> "deployment", row |-> row])

(* Mutant: a deployment is saved as instances are. *)
SwapsRowAlways(row, read) == TRUE

(* compare_and_swap: by the version that was read. *)
SwapsRow(row, read) == row.version + 1 = read.version

SaveDeployment(c) ==
    /\ Performs(c, "deployment")
    /\ deployment' = IF SwapsRow(deployment, change[c].row) THEN change[c].row ELSE deployment
    /\ Answered(c)
    /\ UNCHANGED <<instance, draft, revisions, pipeline, changes, online, startups>>

-----------------------------------------------------------------------------
(* Drafts. *)
BeginPatchDraft(c, content) ==
    Asks(c, [op |-> "draft",
             row |-> [content |-> content, version |-> draft.version + 1, status |-> "unknown"]])

(* validate_draft and publish_draft read the draft and take a snapshot of the
   bindings: the deployment, then its instance. *)
BeginSnapshot(c, op) ==
    /\ op = "publishing" => draft.status = "valid"
    /\ Asks(c, [op |-> op, row |-> draft, bound |-> deployment])

(* AgentDeploymentBindingResolver.snapshot. *)
Resolves(bound) ==
    /\ bound.enabled /\ bound.status = "qualified"
    /\ instance.version = bound.pinned /\ InstanceRuns

Validated(row, bound) ==
    [Bump(row) EXCEPT !.status =
        IF row.content \in Sound /\ Resolves(bound) THEN "valid" ELSE "invalid"]

TakeSnapshot(c) ==
    /\ \/ /\ Performs(c, "validating")
          /\ GoesOn(c, [op |-> "draft", row |-> Validated(change[c].row, change[c].bound)])
       \/ /\ Performs(c, "publishing")
          /\ IF Resolves(change[c].bound) THEN change' = [change EXCEPT ![c].op = "publish"]
             ELSE Answered(c)
    /\ UNCHANGED <<catalogRows, changes, online, startups>>

SaveDraft(c) ==
    /\ Performs(c, "draft")
    /\ draft' = IF SwapsRow(draft, change[c].row) THEN change[c].row ELSE draft
    /\ Answered(c)
    /\ UNCHANGED <<instance, deployment, revisions, pipeline, changes, online, startups>>

(* Mutant: the draft is taken as it was read. *)
IsUnchangedAlways(row) == TRUE

(* publish, in its transaction: version and status are what was read. *)
IsUnchanged(row) == draft.version = row.version /\ draft.status = "valid"

PublishDraft(c) ==
    /\ Performs(c, "publish")
    /\ revisions' = IF IsUnchanged(change[c].row)
                    THEN Append(revisions,
                                RevisionOf(change[c].row.content, change[c].bound, Operator))
                    ELSE revisions
    /\ Answered(c)
    /\ UNCHANGED <<instance, deployment, draft, pipeline, changes, online, startups>>

(* activate_revision, by the pipeline's version. *)
BeginActivate(c, revision) ==
    Asks(c, [op |-> "activate", row |-> [active |-> revision, version |-> pipeline.version + 1]])

Activate(c) ==
    /\ Performs(c, "activate")
    /\ pipeline' = IF SwapsRow(pipeline, change[c].row) THEN change[c].row ELSE pipeline
    /\ Answered(c)
    /\ UNCHANGED <<instance, deployment, draft, revisions, changes, online, startups>>

-----------------------------------------------------------------------------
(* Startup, before any request.  _refresh_builtin_deployment: a deployment of an
   older instance version is patched, one that is not qualified is qualified,
   and what is qualified is enabled; if that fails there is no startup. *)
Fresh == IF deployment.pinned = instance.version THEN deployment ELSE Patched(deployment)
Refreshed == IF Fresh.status = "qualified" THEN Fresh ELSE Qualified(Fresh)
Executable == IF Refreshed.enabled THEN Refreshed ELSE SetEnabled(Refreshed, TRUE)

(* Mutant: what the build ships replaces whatever is active. *)
MigratesAlways(shipped) == revisions[pipeline.active].content # shipped

(* ensure_builtin_pipeline: only its own revision is replaced, by what the build
   ships now. *)
Migrates(shipped) ==
    /\ revisions[pipeline.active].content # shipped
    /\ revisions[pipeline.active].by = System

(* The draft is patched, validated and published, the revision activated. *)
Migrate(shipped) ==
    LET edited == IF draft.content = shipped THEN draft
                  ELSE [Bump(draft) EXCEPT !.content = shipped]
        checked == Validated(edited, Executable) IN
    /\ draft' = checked
    /\ online' = (checked.status = "valid")
    /\ IF checked.status = "valid"
       THEN /\ revisions' = Append(revisions, RevisionOf(shipped, Executable, System))
            /\ pipeline' = [active |-> Len(revisions) + 1, version |-> pipeline.version + 1]
       ELSE UNCHANGED <<revisions, pipeline>>

Startup(shipped) ==
    /\ startups < MaxStartups /\ startups' = startups + 1
    /\ change' = [c \in Author |-> NoChange]
    /\ IF Refreshed.status = "qualified"
       THEN /\ deployment' = Executable
            /\ IF Migrates(shipped) THEN Migrate(shipped)
               ELSE online' = TRUE /\ UNCHANGED <<draft, revisions, pipeline>>
       ELSE /\ deployment' = Refreshed
            /\ online' = FALSE
            /\ UNCHANGED <<draft, revisions, pipeline>>
    /\ UNCHANGED <<instance, changes>>

CatalogNext ==
    \/ \E c \in Author :
         \/ \E op \in {"patchInstance", "checkInstance"} : BeginInstance(c, op)
         \/ \E op \in {"validating", "publishing"} : BeginSnapshot(c, op)
         \/ \E content \in Content : BeginPatchDraft(c, content)
         \/ \E revision \in DOMAIN revisions : BeginActivate(c, revision)
         \/ BeginDeployment(c) \/ TakeSnapshot(c)
         \/ SaveInstance(c) \/ SaveDeployment(c) \/ SaveDraft(c) \/ PublishDraft(c) \/ Activate(c)
    \/ \E shipped \in Sound : Startup(shipped)

CatalogSpec == CatalogInit /\ [][CatalogNext]_catalogVars

-----------------------------------------------------------------------------
RowVersion == 1..(1 + MaxChanges + 4 * MaxStartups)
DeploymentRow == [pinned : RowVersion, status : {"unknown", "qualified", "failed"},
                  enabled : BOOLEAN, version : RowVersion]

(* The records hold values the code can write, and the active revision exists. *)
CatalogTypeOK ==
    /\ instance \in [version : RowVersion, enabled : BOOLEAN, healthy : BOOLEAN]
    /\ deployment \in DeploymentRow
    /\ draft \in [content : Content, version : RowVersion, status : {"unknown", "valid", "invalid"}]
    /\ revisions \in Seq([content : Content, bound : DeploymentRow, by : {System, Operator}])
    /\ pipeline.active \in DOMAIN revisions /\ pipeline.version \in RowVersion
    /\ online \in BOOLEAN

(* What is published is the draft as it stands, and it stands validated: no edit
   slips in between the check and the revision; what is published before stays
   as it was. *)
RevisionIsDraft ==
    revisions' # revisions =>
        LET n == Len(revisions) IN
        /\ Len(revisions') = n + 1 /\ SubSeq(revisions', 1, n) = revisions
        /\ revisions'[n + 1].content = draft'.content /\ draft'.content \in Sound
        /\ draft'.status = "valid"
        /\ revisions'[n + 1].bound.status = "qualified"

(* A startup leaves the operator's revision active. *)
OperatorsRevisionStays ==
    startups' # startups /\ revisions[pipeline.active].by = Operator => pipeline' = pipeline

(* What a deployment pins changes only with its being disabled: nobody who read
   it before enables, or brings back, what was never qualified as it is now. *)
RepinnedIsDisabled ==
    deployment'.pinned # deployment.pinned /\ startups' = startups => ~deployment'.enabled

(* The catalogue keeps its word through concurrent edits, validations,
   publications, activations and upgrades. *)
CatalogInOrder == [][RevisionIsDraft /\ OperatorsRevisionStays /\ RepinnedIsDisabled]_catalogVars
=============================================================================
