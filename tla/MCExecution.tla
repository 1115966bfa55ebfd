---------------------------- MODULE MCExecution ----------------------------
(* Small instances of what executes a delivery: the delivery itself; one
   execute() of the stage driver for each of the two shapes of workcells, a
   Writer with two Reviewers and two Artifact delegates; the workspaces of a
   code workcell; the machine verification of a chain of
   workcells; the loops of the built-in pipelines (code-repair of the
   backend one, implementation-repair of the full-stack one, and a planning one
   under a knowledge guard; Init picks the loop); the deliveries of a workspace that run without a
   pipeline.  They share no variable here (the delivery sees a workcell as a
   coroutine that returns, fails or stops), so a behaviour is one of one part:
   Init picks it. *)
EXTENDS Delivery, PipelineTurns, WriterWorkspace, LinearDelivery, TLC

CONSTANTS Main, w, r1, r2, a1, a2,           \* Main, slots
          designer, api, console             \* workcells of the pipeline

VARIABLES part,
    run, agent, attempts, plan, verification, validation, reviews, result, clock,
    pc, slots, batch,
    runs, verifying, group, reaper, root, tools, interrupts

Code == INSTANCE StageDriver WITH
    Slot <- {w, r1, r2},
    Purpose <- (w :> "workspace_write") @@ (r1 :> "review") @@ (r2 :> "review"),
    MaxChildren <- 3, MaxConcurrency <- 2, MaxWriters <- 1,
    MaxAttempts <- 2, MaxTransientAttempts <- 2, lane <- slots
Artifact == INSTANCE StageDriver WITH
    Slot <- {a1, a2}, Purpose <- (a1 :> "artifact") @@ (a2 :> "artifact"),
    MaxChildren <- 3, MaxConcurrency <- 2, MaxWriters <- 1,
    MaxAttempts <- 2, MaxTransientAttempts <- 2, lane <- slots

(* The acceptance of the release judges the rows the driver has left. *)
CodeJudged == INSTANCE WorkcellAcceptance WITH
    Slot <- {w, r1, r2},
    Purpose <- (w :> "workspace_write") @@ (r1 :> "review") @@ (r2 :> "review"),
    MaxChildren <- 3, MaxConcurrency <- 2, MaxWriters <- 1,
    MaxAttempts <- 2, MaxTransientAttempts <- 2
ArtifactJudged == INSTANCE WorkcellAcceptance WITH
    Slot <- {a1, a2}, Purpose <- (a1 :> "artifact") @@ (a2 :> "artifact"),
    MaxChildren <- 3, MaxConcurrency <- 2, MaxWriters <- 1,
    MaxAttempts <- 2, MaxTransientAttempts <- 2

NodeOf(kind, lanes) == [kind |-> kind, lanes |-> lanes]
Pipeline == <<NodeOf("role", {}), NodeOf("plan", {}),
              NodeOf("work", {designer}), NodeOf("design", {}),
              NodeOf("work", {api, console}), NodeOf("candidate", {})>>

CodeRepair == Definition({"backend"}, {}, {}, {}, FALSE, FALSE, 3)
FullRepair == Definition({"backend", "frontend", "qa"},
                         {<<"backend", "qa">>, <<"frontend", "qa">>},
                         {}, {"design"}, TRUE, FALSE, 2)
GuardedPlan == Definition({"requirements", "tasking"}, {<<"requirements", "tasking">>},
                          {"requirements", "tasking"}, {}, FALSE, TRUE, 2)
Loops == {CodeRepair, FullRepair, GuardedPlan}

Reviewers == {r1, r2}                         \* in the workspaces of a code workcell

(* The code of the pipeline verifies against the design, QA against both. *)
Machine == INSTANCE MachineVerification WITH
    Workcell <- {"design", "backend", "qa"},
    Sources <- ("design" :> {}) @@ ("backend" :> {"design"}) @@ ("qa" :> {"design", "backend"}),
    Steps <- ("design" :> 1) @@ ("backend" :> 2) @@ ("qa" :> 1),
    Fullstack <- {"design", "backend", "qa"},
    MaxIterations <- 2, MaxCancels <- 2, MaxChanges <- 1,
    call <- verifying, asked <- interrupts
InWorktree == INSTANCE MachineVerification WITH      \* a V1 profile of two commands
    Workcell <- {"backend"}, Sources <- "backend" :> {}, Steps <- "backend" :> 2, Fullstack <- {},
    MaxIterations <- 2, MaxCancels <- 2, MaxChanges <- 1,
    call <- verifying, asked <- interrupts

driver == <<run, agent, attempts, plan, verification, validation, reviews, result, clock,
            pc, slots, batch>>
machine == <<runs, verifying, group, reaper, root, tools, interrupts>>
executionVars == <<part, driver, vars, directVars, turnsVars, workspaceVars, machine>>

ExecutionInit ==
    /\ part \in {"code", "artifact", "delivery", "direct", "workspaces",
                "machine", "machine-v1", "loop"}
    /\ IF part = "artifact" THEN Artifact!Init ELSE Code!Init
    /\ Init /\ DirectInit /\ WorkspaceInit
    /\ TurnsInit /\ (part # "loop" => definition = CodeRepair)
    /\ IF part = "machine-v1" THEN InWorktree!Init ELSE Machine!Init
    /\ part # "delivery" => row.status = "queued" /\ row.external /\ publication = "none"

DriverPart(p) == part = p /\ UNCHANGED <<part, vars, directVars, turnsVars, workspaceVars, machine>>
DeliveryPart ==
    part = "delivery" /\ UNCHANGED <<part, driver, directVars, turnsVars, workspaceVars, machine>>
DirectPart == part = "direct" /\ UNCHANGED <<part, driver, vars, turnsVars, workspaceVars, machine>>
LoopPart ==
    part = "loop" /\ UNCHANGED <<part, definition, driver, vars, directVars, workspaceVars, machine>>
WorkspacesPart == part = "workspaces" /\ UNCHANGED <<part, driver, vars, directVars, turnsVars, machine>>
MachinePart(p) == part = p /\ UNCHANGED <<part, driver, vars, directVars, turnsVars, workspaceVars>>

ExecutionNext ==
    \/ DriverPart("code") /\ Code!Next
    \/ DriverPart("artifact") /\ Artifact!Next
    \/ DeliveryPart /\ Next
    \/ DirectPart /\ DirectNext
    \/ LoopPart /\ TurnsNext
    \/ WorkspacesPart /\ WorkspaceNext
    \/ MachinePart("machine") /\ Machine!Next
    \/ MachinePart("machine-v1") /\ InWorktree!Next

(* The fairness of the part that was picked.  The part never changes, so that a
   condition may name one action of each. *)
Lanes == <<w, r1, r2>>
Delegates == <<a1, a2>>
StagesAt == <<{"backend", "requirements"}, {"frontend", "tasking"}, {"qa"}>>
Workcells == <<designer, api, console>>

Coordinates ==
    \/ DriverPart("code") /\ Code!DriverStep
    \/ DriverPart("artifact") /\ Artifact!DriverStep
    \/ DeliveryPart /\ Restart
    \/ LoopPart /\ LoopStep
    \/ MachinePart("machine") /\ Machine!CallStep
    \/ MachinePart("machine-v1") /\ InWorktree!CallStep

Works(i) ==
    \/ DriverPart("code") /\ Code!LaneStep(Lanes[i])
    \/ i <= 2 /\ DriverPart("artifact") /\ Artifact!LaneStep(Delegates[i])
    \/ DeliveryPart /\ GoesOn(i)
    \/ LoopPart /\ \E s \in Stage \cap StagesAt[i] : Turn(s)

ExecutionFairness ==
    /\ WF_executionVars(Coordinates)
    /\ \A i \in 1..3 :
         /\ WF_executionVars(Works(i))
         /\ WF_executionVars(DeliveryPart /\ LaneStops(Workcells[i]))

ExecutionSpec == ExecutionInit /\ [][ExecutionNext]_executionVars /\ ExecutionFairness

OfDriver(code, artifact) ==
    (part = "code" => code) /\ (part = "artifact" => artifact)
(* Rows, coroutines and tasks hold values the code can write. *)
ExecutionTypeOK ==
    /\ OfDriver(Code!DriverTypeOK, Artifact!DriverTypeOK)
    /\ part = "delivery" => DeliveryTypeOK
    /\ part = "direct" => LinearTypeOK
    /\ part = "workspaces" => WorkspaceTypeOK
    /\ part = "machine" => Machine!VerificationTypeOK
    /\ part = "machine-v1" => InWorktree!VerificationTypeOK
    /\ TurnsTypeOK

(* StageDriver: however execute() ends, its run is over and says so, no lane is
   at work, and a repair sees all reviews of the batch; a code workcell leaves no
   Attempt open (two Artifact delegates may, and another run shows it). *)
DriverInOrder ==
    OfDriver(Code!DriverInOrder /\ Code!NoPhantomAttempts, Artifact!DriverInOrder)

(* WorkcellAcceptance: what the driver calls a success is accepted with the
   release, unless a producer has had a second Attempt. *)
SuccessIsAccepted == OfDriver(CodeJudged!SuccessIsAccepted, ArtifactJudged!SuccessIsAccepted)

(* MachineVerification: nothing of a process group outlives its call, what passed
   was verified against what was reviewed, and who was asked to stop starts
   nothing. *)
VerificationInOrder ==
    [][/\ part = "machine" => Machine!VerificationInOrder'
       /\ part = "machine-v1" => InWorktree!VerificationInOrder'
       /\ Machine!StartsNothing]_executionVars

(* StageDriver, PipelineTurns, MachineVerification, Delivery: execute() returns,
   or dies with the process, a loop comes to its end whatever its agents do, a
   verification whatever it runs, and a cancel request returns. *)
EverythingReturns ==
    \A t \in Tid :
        []<>/\ part \in {"code", "artifact"} => pc \in Code!Returned \cup {"dead"}
            /\ part = "loop" => Over
            /\ part \in {"machine", "machine-v1"} => Machine!Idle
            /\ part = "delivery" => ~CancelPending(t)

(* StageDriver: one execution takes the steps WorkcellContract allows. *)
ImplementsContract ==
    /\ OfDriver(Code!Contract!Init, Artifact!Contract!Init)
    /\ [][OfDriver(UNCHANGED Code!Contract!contract \/ Code!Contract!Next,
                   UNCHANGED Artifact!Contract!contract \/ Artifact!Contract!Next)]_executionVars
=============================================================================
