---------------------------- MODULE PipelineTurns ----------------------------
(***************************************************************************)
(* A bounded loop of a pipeline graph and the agent turns of its stages:   *)
(* PipelineExecutionModule._execute_loop, the runtime dispatch below it    *)
(* and the AgentRun it writes for each turn.                               *)
(*                                                                         *)
(* A stage is a coroutine (lane) that waits for a dispatch, which is a     *)
(* task of its own; a batch of lanes runs in an asyncio.TaskGroup.  What   *)
(* happens between two awaits is one step.  The graph engine is external:  *)
(* nodes become ready when their sources succeeded.                        *)
(***************************************************************************)
EXTENDS Integers, Sequences, SequencesExt

CONSTANTS
    Definitions,    \* loops of the pipelines
    MaxPatches      \* bound: patches of the runtime instance

(* A loop as the frozen pipeline of a delivery defines it. *)
Definition(stages, edges, planners, before, bundled, guarded, iterations) ==
    [stages |-> stages,       \* stages of the loop's body
     edges |-> edges,         \* pairs <<source, target>> of stages
     planners |-> planners,   \* role turns of a Hermes instance; the others write code
     before |-> before,       \* repository roles with a candidate when the loop begins
     bundled |-> bundled,     \* the loop exits with a release bundle of all roles
     guarded |-> guarded,     \* a knowledge guard is configured
     iterations |-> iterations]   \* max_iterations of the loop

(* The body is a graph without cycles.  What ends a loop is the bundle that one
   stage completes after all others, the candidate of its one code stage, or the
   last planner. *)
ASSUME TurnsAssumption ==
    /\ MaxPatches \in Nat
    /\ \A d \in Definitions :
         /\ d = Definition(d.stages, d.edges, d.planners, d.before, d.bundled, d.guarded, d.iterations)
         /\ d.edges \subseteq d.stages \X d.stages
         /\ \A S \in SUBSET d.stages :
              S # {} => \E s \in S : \A t \in S : <<t, s>> \notin d.edges
         /\ d.planners \subseteq d.stages /\ d.before \cap d.stages = {}
         /\ d.bundled \in BOOLEAN /\ d.guarded \in BOOLEAN /\ d.iterations \in Nat \ {0}
         /\ \/ /\ d.bundled /\ d.planners = {}
               /\ \E last \in d.stages : \A s \in d.stages \ {last} : <<s, last>> \in d.edges
            \/ ~d.bundled /\ d.planners = {} /\ d.stages = {"backend"}
            \/ ~d.bundled /\ d.planners = d.stages

VARIABLES
    definition, \* the loop
    loop,      \* [status, iteration]
    node,      \* per stage: its node of the iteration
    emitted,   \* conditions activated in the iteration
    turn,      \* coroutines of the stages
    dispatch,  \* dispatch tasks of the stages
    recorded,  \* repository_candidates: role -> verification
    bundle,    \* release_bundle: the candidates it was made of
    ledger,    \* AgentRuns of a stage, oldest first: their status
    instance,  \* the runtime instance: [version, ready]
    revoked,   \* the authorization of the delivery's knowledge is revoked
    delivery,  \* [status, error]
    asked      \* the delivery's task is asked to stop

turnsVars == <<definition, loop, node, emitted, turn, dispatch, recorded, bundle, ledger, instance,
               revoked, delivery, asked>>

Stage == definition.stages
Edges == definition.edges
Planner == definition.planners
Bundled == definition.bundled
Guarded == definition.guarded
MaxIterations == definition.iterations
AtWork == {"created", "turn", "repair"}     \* dispatches of an agent at work
Role == definition.before \cup (Stage \ Planner)
NoBundle == [r \in {} |-> "none"]

TurnsInit ==
    /\ definition \in Definitions
    /\ loop = [status |-> "running", iteration |-> 0]
    /\ node = [s \in Stage |-> "succeeded"]
    /\ emitted = {}
    /\ turn = [s \in Stage |-> "idle"]
    /\ dispatch = [s \in Stage |-> "none"]
    /\ recorded = [r \in Role |-> IF r \in definition.before THEN "passed" ELSE "none"]
    /\ bundle = NoBundle
    /\ ledger = [s \in Stage |-> <<>>]
    /\ instance = [version |-> 1, ready |-> TRUE]
    /\ revoked = FALSE /\ asked = FALSE
    /\ delivery = [status |-> "executing", error |-> "none"]

Batch == {s \in Stage : turn[s] # "idle"}
Live == {s \in Stage : turn[s] \in {"start", "waiting"}}
Running == loop.status = "running" /\ delivery.status \notin {"failed", "cancelled"}
GroupStopping == asked \/ \E s \in Batch : turn[s] \in {"agent", "verification", "stopped"}

-----------------------------------------------------------------------------
(* The loop, between two batches: nothing is awaited. *)

StageSources(s) == {t \in Stage : <<t, s>> \in Edges}
Ready(nodes) == {s \in Stage : nodes[s] = "pending" /\ \A t \in StageSources(s) : nodes[t] = "succeeded"}

(* TaskGroup: a lane for each node that is ready. *)
Launches(nodes) ==
    /\ node' = [s \in Stage |-> IF s \in Ready(nodes) THEN "running" ELSE nodes[s]]
    /\ turn' = [s \in Stage |-> IF s \in Ready(nodes) THEN "start" ELSE "idle"]

(* Mutant: an iteration of a full-stack loop ends it when one stage passed. *)
ExitMetByAny(conditions) == conditions \cap {"tests-passed", "task-ready"} # {}

(* The exit condition: emitted in this iteration, or met by what the delivery
   has recorded. *)
ExitMet(conditions) ==
    IF Bundled THEN "release-bundle-verified" \in conditions \/ bundle # NoBundle
    ELSE \/ conditions \cap {"tests-passed", "task-ready"} # {}
         \/ "backend" \in Role /\ recorded["backend"] = "passed"

StartIteration ==
    /\ Running /\ loop.iteration = 0
    /\ loop' = [loop EXCEPT !.iteration = 1]
    /\ emitted' = {}
    /\ Launches([s \in Stage |-> "pending"])
    /\ UNCHANGED <<dispatch, recorded, bundle, ledger, instance, revoked, delivery, asked>>

(* All lanes of the batch returned: the next batch, the end of the loop or the
   next iteration. *)
BatchEnds ==
    /\ Running /\ Batch # {} /\ \A s \in Batch : turn[s] = "done"
    /\ LET nodes == [s \in Stage |-> IF s \in Batch THEN "succeeded" ELSE node[s]] IN
       \/ /\ Ready(nodes) # {}
          /\ Launches(nodes)
          /\ UNCHANGED <<loop, emitted, delivery>>
       \/ /\ Ready(nodes) = {} /\ ExitMet(emitted)
          /\ loop' = [loop EXCEPT !.status = "succeeded"]
          /\ node' = nodes /\ turn' = [s \in Stage |-> "idle"]
          /\ UNCHANGED <<emitted, delivery>>
       \/ /\ Ready(nodes) = {} /\ ~ExitMet(emitted) /\ loop.iteration < MaxIterations
          /\ loop' = [loop EXCEPT !.iteration = @ + 1]
          /\ emitted' = {}
          /\ Launches([s \in Stage |-> "pending"])
          /\ UNCHANGED delivery
       \/ /\ Ready(nodes) = {} /\ ~ExitMet(emitted) /\ loop.iteration = MaxIterations
          /\ loop' = [loop EXCEPT !.status = "failed"]
          /\ node' = nodes /\ turn' = [s \in Stage |-> "idle"]
          /\ delivery' = [status |-> "failed", error |-> "exhausted"]
          /\ UNCHANGED emitted
    /\ UNCHANGED <<dispatch, recorded, bundle, ledger, instance, revoked, asked>>

(* A lane raised, or the delivery is cancelled, and no lane is left: advance()
   fails the delivery, the cancellation ends it. *)
GroupFails ==
    /\ Running /\ Live = {}
    /\ \E s \in Batch : turn[s] # "done"
    /\ turn' = [s \in Stage |-> "idle"]
    /\ loop' = [loop EXCEPT !.status = "failed"]
    /\ delivery' = IF \E s \in Batch : turn[s] \in {"agent", "verification"}
                   THEN [status |-> "failed",
                         error |-> IF \E s \in Batch : turn[s] = "verification" THEN "verification"
                                   ELSE "agent"]
                   ELSE [status |-> "cancelled", error |-> "none"]
    /\ UNCHANGED <<node, emitted, dispatch, recorded, bundle, ledger, instance, revoked, asked>>

-----------------------------------------------------------------------------
(* The lane of a stage *)

Finished(s, status) == ledger' = [ledger EXCEPT ![s] = ReplaceAt(@, Len(@), status)]

(* _execute_loop_capability: knowledge is admitted, an AgentRun begins, and the
   dispatch becomes a task. *)
Begin(s) ==
    /\ turn[s] = "start" /\ ~GroupStopping
    /\ IF Guarded /\ revoked
       THEN turn' = [turn EXCEPT ![s] = "agent"] /\ UNCHANGED <<dispatch, ledger>>
       ELSE /\ turn' = [turn EXCEPT ![s] = "waiting"]
            /\ dispatch' = [dispatch EXCEPT ![s] = "created"]
            /\ ledger' = [ledger EXCEPT ![s] = Append(@, "running")]
    /\ UNCHANGED <<loop, node, emitted, recorded, bundle, instance, revoked, delivery, asked>>

Dispatches(s, pc) ==
    /\ dispatch' = [dispatch EXCEPT ![s] = pc]
    /\ UNCHANGED <<loop, node, emitted, turn, recorded, bundle, ledger, instance, revoked,
                   delivery, asked>>

(* The instance a planner is bound to is the one the pipeline has frozen. *)
Resolves(s) == s \notin Planner \/ (instance.version = 1 /\ instance.ready)

(* Runtime dispatcher and adapter up to the agent's turn. *)
Resolve(s) ==
    /\ dispatch[s] = "created"
    /\ Dispatches(s, IF Resolves(s) THEN "turn" ELSE "raised")

(* The agent answers, or fails; a planner's answer that does not match its
   schema is asked for once more. *)
Answers(s) ==
    /\ dispatch[s] \in {"turn", "repair"}
    /\ \/ Dispatches(s, "answered")
       \/ Dispatches(s, "raised")
       \/ s \in Planner /\ dispatch[s] = "turn" /\ Dispatches(s, "repair")

(* The knowledge of the delivery is revoked while the lane waits: it cancels the
   dispatch and raises. *)
Polls(s) ==
    /\ turn[s] = "waiting" /\ Guarded /\ revoked
    /\ dispatch[s] \in AtWork
    /\ turn' = [turn EXCEPT ![s] = "agent"]
    /\ dispatch' = [dispatch EXCEPT ![s] = "none"]
    /\ Finished(s, "failed")
    /\ UNCHANGED <<loop, node, emitted, recorded, bundle, instance, revoked, delivery, asked>>

(* Mutant: a bundle is made of what has been recorded. *)
VerifiesRecorded(candidates) == \A r \in Role : candidates[r] # "none"

(* FullStackVerifier: every role has a candidate and every candidate passed. *)
Verifies(candidates) == \A r \in Role : candidates[r] = "passed"
Complete(candidates) == \A r \in Role : candidates[r] # "none"

(* _record_repository_candidate, under the lock of the delivery. *)
Records(s, verification) ==
    LET candidates == [recorded EXCEPT ![s] = verification]
        verified == Bundled /\ verification = "passed" /\ Complete(candidates) IN
    /\ recorded' = candidates
    /\ IF verified /\ ~Verifies(candidates)
       THEN /\ turn' = [turn EXCEPT ![s] = "verification"]
            /\ Finished(s, "failed")
            /\ UNCHANGED <<bundle, emitted>>
       ELSE /\ turn' = [turn EXCEPT ![s] = "done"]
            /\ Finished(s, "succeeded")
            /\ bundle' = IF verified THEN candidates ELSE bundle
            /\ emitted' = emitted
                 \cup (IF verification = "passed" THEN {"tests-passed"} ELSE {"tests-failed"})
                 \cup (IF verified THEN {"release-bundle-verified"} ELSE {})

(* The dispatch of a code stage answered: the candidate is verified, in the same
   stretch, and recorded. *)
RecordCandidate(s) ==
    /\ turn[s] = "waiting" /\ dispatch[s] = "answered" /\ s \notin Planner
    /\ ~(Guarded /\ revoked)
    /\ \E verification \in {"passed", "failed"} : Records(s, verification)
    /\ dispatch' = [dispatch EXCEPT ![s] = "none"]
    /\ delivery' = [delivery EXCEPT !.status = "verifying"]
    /\ UNCHANGED <<loop, node, instance, revoked, asked>>

RecordPlan(s) ==
    /\ turn[s] = "waiting" /\ dispatch[s] = "answered" /\ s \in Planner
    /\ ~(Guarded /\ revoked)
    /\ turn' = [turn EXCEPT ![s] = "done"]
    /\ dispatch' = [dispatch EXCEPT ![s] = "none"]
    /\ emitted' = emitted \cup (IF \E t \in Stage : <<s, t>> \in Edges THEN {} ELSE {"task-ready"})
    /\ delivery' = [delivery EXCEPT !.status = "planning"]
    /\ Finished(s, "succeeded")
    /\ UNCHANGED <<loop, node, recorded, bundle, instance, revoked, asked>>

(* The dispatch raised, or its citations are not admitted any more. *)
Raises(s) ==
    /\ turn[s] = "waiting"
    /\ dispatch[s] = "raised" \/ (dispatch[s] = "answered" /\ Guarded /\ revoked)
    /\ turn' = [turn EXCEPT ![s] = "agent"]
    /\ dispatch' = [dispatch EXCEPT ![s] = "none"]
    /\ Finished(s, "failed")
    /\ UNCHANGED <<loop, node, emitted, recorded, bundle, instance, revoked, delivery, asked>>

(* Mutant: what a stopped lane waits for is never stopped. *)
StoppedDispatchNever(s) == dispatch[s]

(* A lane that is stopped while it awaits the dispatch takes it along; one that
   waits with asyncio.wait, under a guard, leaves it at work. *)
StoppedDispatch(s) == IF Guarded THEN dispatch[s] ELSE "none"

(* A sibling raised or the delivery is cancelled. *)
StopsLane(s) ==
    /\ turn[s] \in {"start", "waiting"}
    /\ GroupStopping
    /\ turn' = [turn EXCEPT ![s] = "stopped"]
    /\ dispatch' = [dispatch EXCEPT ![s] = StoppedDispatch(s)]
    /\ UNCHANGED <<loop, node, emitted, recorded, bundle, ledger, instance, revoked, delivery, asked>>

-----------------------------------------------------------------------------
(* Around the loop *)

Cancel ==
    /\ Running /\ Live # {} /\ ~asked
    /\ asked' = TRUE
    /\ delivery' = [delivery EXCEPT !.status = "cancelling"]
    /\ UNCHANGED <<loop, node, emitted, turn, dispatch, recorded, bundle, ledger, instance, revoked>>

(* An operator patches the instance, or its health check fails. *)
PatchInstance ==
    /\ instance.version <= MaxPatches /\ Planner # {}
    /\ instance' \in {[instance EXCEPT !.version = @ + 1], [instance EXCEPT !.ready = FALSE]}
    /\ UNCHANGED <<loop, node, emitted, turn, dispatch, recorded, bundle, ledger, revoked, delivery,
                   asked>>

Revoke ==
    /\ Guarded /\ ~revoked /\ revoked' = TRUE
    /\ UNCHANGED <<loop, node, emitted, turn, dispatch, recorded, bundle, ledger, instance, delivery,
                   asked>>

LaneStep(s) == Begin(s) \/ Polls(s) \/ RecordCandidate(s) \/ RecordPlan(s) \/ Raises(s) \/ StopsLane(s)
LoopStep == StartIteration \/ BatchEnds \/ GroupFails

(* What the event loop runs, and the agents' answers, which have a time limit. *)
Turn(s) == LaneStep(s) \/ Resolve(s) \/ Answers(s)

(* The definition is the one of the pipeline's snapshot. *)
TurnsNext ==
    /\ UNCHANGED definition
    /\ \/ LoopStep
       \/ \E s \in Stage : Turn(s)
       \/ Cancel \/ PatchInstance \/ Revoke

TurnsSpec == TurnsInit /\ [][TurnsNext]_turnsVars

-----------------------------------------------------------------------------
Newest(s) == IF ledger[s] = <<>> THEN "none" ELSE Last(ledger[s])
Over == delivery.status \in {"failed", "cancelled"} \/ loop.status # "running"

LaneState == {"idle", "start", "waiting", "done", "agent", "verification", "stopped"}
TurnStatus == {"running", "succeeded", "failed"}

TurnsTypeOK ==
    /\ definition \in Definitions
    /\ loop \in [status : {"running", "succeeded", "failed"}, iteration : 0..MaxIterations]
    /\ node \in [Stage -> {"pending", "running", "succeeded"}]
    /\ emitted \subseteq {"tests-passed", "tests-failed", "task-ready", "release-bundle-verified"}
    /\ turn \in [Stage -> LaneState]
    /\ dispatch \in [Stage -> {"none", "answered", "raised"} \cup AtWork]
    /\ recorded \in [Role -> {"none", "passed", "failed"}]
    /\ bundle \in {NoBundle} \cup [Role -> {"passed"}]
    /\ ledger \in [Stage -> Seq(TurnStatus)]
    /\ instance \in [version : 1..MaxPatches + 1, ready : BOOLEAN]
    /\ revoked \in BOOLEAN /\ asked \in BOOLEAN
    /\ delivery \in [status : {"executing", "planning", "verifying", "cancelling", "failed",
                               "cancelled"},
                     error : {"none", "agent", "verification", "exhausted"}]

(* A loop that succeeded has what its exit condition promises: every stage ended
   in this iteration, and the candidates that go to the gate are the ones that
   passed. *)
LoopKeepsPromise ==
    loop.status = "succeeded" =>
      /\ \A s \in Stage : node[s] = "succeeded" /\ Newest(s) = "succeeded"
      /\ \A r \in Role : recorded[r] = "passed"
      /\ Bundled => bundle = recorded

(* A stage has one AgentRun an iteration, and only its newest one runs. *)
NewestTurnRuns ==
    \A s \in Stage :
      /\ Len(ledger[s]) <= loop.iteration
      /\ \A k \in 1..Len(ledger[s]) : ledger[s][k] = "running" =>
           k = Len(ledger[s]) /\ (Running => turn[s] \in {"waiting", "stopped"})

(* Without a guard no agent is at work for a delivery that is over. *)
NoDetachedTurn == Over /\ ~Guarded => \A s \in Stage : dispatch[s] \notin AtWork

(* The promise of the exit condition, one running AgentRun a stage, and no turn
   that goes on behind a delivery that is over. *)
TurnsInOrder == LoopKeepsPromise /\ NewestTurnRuns /\ NoDetachedTurn

(* A candidate that fails its verification costs an iteration of the repair
   loop; it fails the delivery only when none is left. *)
FailureIsRepaired == delivery.error = "verification" => loop.iteration = MaxIterations

=============================================================================
