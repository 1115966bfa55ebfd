---------------------------- MODULE MCGovernance ----------------------------
(* Small instances of what governs a project: the external forward release and
   the release of a managed project, the project's lifecycle, its members, a role
   document, the pipeline catalogue, the evaluation of a pipeline, and the
   delegation limits of a workcell.  They share no variable here (each sees the
   others as an environment that does anything), so a behaviour is one of one
   part: GovernanceInit picks it, the others stand still.  The components with
   theorems are extended, so that the run checks the properties the theorems
   state; the others are instances. *)
EXTENDS ForwardRelease, ProjectMembers, ProjectLifecycle, RolePublication, PipelineCatalog,
        Evaluation, ManagedRelease, TLC

CONSTANTS Main, a1, a2, a3       \* Main, slots

(* What the runs of an evaluation compare. *)
Compared == {<<"self", "self", "self", "self">>, <<"self", "paired", "self", "self">>,
             <<"live", "self", "self", "self">>}

VARIABLES part,
    workcell, agent, attempts, delegated, verification, validation, reviews, result,
    clock, caller

FanOut == INSTANCE WorkcellKernel WITH
    Slot <- {a1, a2, a3},
    Purpose <- (a1 :> "artifact") @@ (a2 :> "artifact") @@ (a3 :> "artifact"),
    Client <- 1..2, MaxChildren <- 3, MaxConcurrency <- 2, MaxWriters <- 1,
    MaxAttempts <- 1, MaxTransientAttempts <- 1,
    run <- workcell, plan <- delegated, call <- caller

fanOut == <<workcell, agent, attempts, delegated, verification, validation, reviews, result,
            clock, caller>>
everything ==
    <<part, vars, lifecycleVars, memberVars, publicationVars, catalogVars, evaluationVars,
      managedVars, fanOut>>

GovernanceInit ==
    /\ part \in {"release", "lifecycle", "members", "publication", "catalog", "managed",
                 "evaluation", "fanout"}
    /\ Init /\ LifecycleInit /\ MembersInit /\ PublicationInit /\ CatalogInit
    /\ EvaluationInit /\ ManagedInit /\ FanOut!Init
    /\ part # "evaluation" => \A r \in Run : run[r].kind = "self"

GovernanceNext ==
    \/ part = "release" /\ Next
       /\ UNCHANGED <<part, lifecycleVars, memberVars, publicationVars, catalogVars,
                       evaluationVars, managedVars, fanOut>>
    \/ part = "lifecycle" /\ LifecycleNext
       /\ UNCHANGED <<part, vars, memberVars, publicationVars, catalogVars, evaluationVars,
                       managedVars, fanOut>>
    \/ part = "members" /\ MembersNext
       /\ UNCHANGED <<part, vars, lifecycleVars, publicationVars, catalogVars,
                       evaluationVars, managedVars, fanOut>>
    \/ part = "publication" /\ PublicationNext
       /\ UNCHANGED <<part, vars, lifecycleVars, memberVars, catalogVars, evaluationVars,
                       managedVars, fanOut>>
    \/ part = "catalog" /\ CatalogNext
       /\ UNCHANGED <<part, vars, lifecycleVars, memberVars, publicationVars, evaluationVars,
                       managedVars, fanOut>>
    \/ part = "evaluation" /\ EvaluationNext
       /\ UNCHANGED <<part, vars, lifecycleVars, memberVars, publicationVars, catalogVars,
                       managedVars, fanOut>>
    \/ part = "managed" /\ ManagedNext
       /\ UNCHANGED <<part, vars, lifecycleVars, memberVars, publicationVars, catalogVars,
                       evaluationVars, fanOut>>
    \/ part = "fanout" /\ FanOut!Next
       /\ UNCHANGED <<part, vars, lifecycleVars, memberVars, publicationVars, catalogVars,
                       evaluationVars, managedVars>>

GovernanceSpec == GovernanceInit /\ [][GovernanceNext]_everything

(* The rows, requests and workers of the part hold values the code can write. *)
GovernanceTypeOK ==
    /\ part = "release" => ReleaseTypeOK
    /\ part = "lifecycle" => LifecycleTypeOK
    /\ part = "members" => MembersTypeOK
    /\ part = "publication" => PublicationTypeOK
    /\ part = "catalog" => CatalogTypeOK
    /\ part = "managed" => ManagedTypeOK
    /\ part = "evaluation" => EvaluationTypeOK

(* WorkcellStore: no more Attempts run than the DelegationPolicy allows. *)
ProviderLoadBounded == FanOut!ProviderLoadBounded
=============================================================================
