------------------------------ MODULE Delivery ------------------------------
(***************************************************************************)
(* One delivery: the row of DeliveryCoordinator, the pipeline graph run    *)
(* that PipelineExecution drives, the background tasks and requests that   *)
(* act on both, and the process that may die under them.                   *)
(*                                                                         *)
(* All coroutines share one event loop: between two awaits a coroutine     *)
(* runs alone, so such a stretch is one step here.  Its commits are listed *)
(* in order (writes), because the process may die after any of them.       *)
(*                                                                         *)
(* The row is saved in two ways: compare-and-set on version and status     *)
(* (save_if_current), or plainly, over whatever is there (save).           *)
(***************************************************************************)
EXTENDS Integers, Sequences

CONSTANTS
    Graph,           \* the pipeline: nodes in their order, with kind and workcells
    MaxTasks,        \* bound: tasks and requests alive at once
    MaxRestarts,     \* bound: restarts of the process
    PatientClients   \* no gate is decided while a task is registered

(* The pipelines of the product: stages of roles, the plan gate that judges what
   they produce, workcells and the design gate, the candidate gate; each gate
   once (BackendDeliveryPipelinePolicy). *)
ASSUME DeliveryAssumption ==
    /\ {MaxTasks, Len(Graph)} \subseteq Nat \ {0}
    /\ \A n \in 1..Len(Graph) : Graph[n].kind \in {"role", "plan", "work", "design", "candidate"}
    /\ \A n, m \in 1..Len(Graph) :
         Graph[n].kind = Graph[m].kind /\ n # m => Graph[n].kind \in {"role", "work"}
    /\ Graph[Len(Graph)].kind = "candidate"
    /\ \E plan \in 1..Len(Graph) :
         /\ Graph[plan].kind = "plan"
         /\ \A n \in 1..Len(Graph) : Graph[n].kind = "role" <=> n < plan

VARIABLES
    row,         \* the delivery, with its gate decisions and projections
    graph,       \* its PipelineRun: status, current node and that node's state
    publication, \* the role document of the delivery
    lease,       \* project_delivery_leases: who holds the project
    task,        \* background tasks, cancel requests, the recovery at startup
    registry,    \* _background: the task registered for the delivery, or 0
    lane,        \* per workcell: what its coroutine is doing or returned
    up, restarts

vars == <<row, graph, publication, lease, task, registry, lane, up, restarts>>
env == <<up, restarts>>

Tid == 1..MaxTasks
Lane == UNION {Graph[n].lanes : n \in 1..Len(Graph)}
Gate == {"plan", "design", "candidate"}
Terminal == {"completed", "rejected", "failed", "cancelled"}
Awaiting == [plan |-> "awaiting_plan_decision", design |-> "awaiting_design_decision",
             candidate |-> "awaiting_candidate_decision"]
Status == {"preparing_context", "queued", "planning", "executing", "verifying",
           "applying", "needs_attention", "cancelling"}
              \cup Terminal \cup {Awaiting[g] : g \in Gate}
Protected == {"cancelling", "applying", "needs_attention"}

NoTask == [pc |-> "free", what |-> "none", decision |-> "none", version |-> 0,
           asked |-> FALSE, on |-> 0, copy |-> <<>>]
Scheduled(t) == task[t].what \in {"prepare", "advance"} \cup Gate
Booting == \E t \in Tid : task[t].what = "boot"
Free == {t \in Tid : task[t].pc = "free" /\ \A s \in Tid : task[s].on # t}

(* A request comes in, while the application serves. *)
Arrives(t) == up /\ ~Booting /\ t \in Free /\ \A s \in Free : t <= s

(* The kind and the workcells of the node a run is at, the workcells before it. *)
Node(g) == Graph[g.node].kind
Crew(g) == Graph[g.node].lanes
Preceding(g) == UNION {Graph[n].lanes : n \in 1..(g.node - 1)}
NodeRuns(g) == g.status = "running" /\ g.state = "running"

(* External: the ACWM reducers, as the ledger uses them. *)
Started(g) == [g EXCEPT !.state = "running"]
Succeeded(g) == IF g.node = Len(Graph) THEN [g EXCEPT !.status = "completed", !.state = "done"]
                ELSE [g EXCEPT !.node = @ + 1, !.state = "ready"]
Failed(g) == IF NodeRuns(g) THEN [g EXCEPT !.status = "failed"] ELSE g
Cancelled(g) == IF g.status = "running" THEN [g EXCEPT !.status = "cancelled"] ELSE g

NoGraph == [status |-> "none", node |-> 1, state |-> "ready"]
NewGraph == [NoGraph EXCEPT !.status = "running"]

(* enqueue(): with a knowledge context to prepare, or ready to run; the first
   task is scheduled. *)
Init ==
    /\ \E preparing \in BOOLEAN, external \in BOOLEAN :
         /\ row = [status |-> IF preparing THEN "preparing_context" ELSE "queued",
                   version |-> 1, gate |-> [g \in Gate |-> "none"], opened |-> [g \in Gate |-> 0],
                   projected |-> {}, receipt |-> FALSE, external |-> external]
         /\ graph = IF preparing THEN NoGraph ELSE NewGraph
         /\ task = [t \in Tid |-> IF t # 1 THEN NoTask ELSE
                      [NoTask EXCEPT !.pc = "start",
                                     !.what = IF preparing THEN "prepare" ELSE "advance"]]
    /\ publication \in {"none", "required"}
    /\ lease = "self"
    /\ registry = 1
    /\ lane = [l \in Lane |-> "idle"]
    /\ up = TRUE /\ restarts = 0

-----------------------------------------------------------------------------
(* A stretch of a coroutine: the commits it makes and where it awaits next
   ("end": it returns).  save() releases the lease after a terminal status. *)

Stretch(writes, pc) == [writes |-> writes, pc |-> pc]
To(r, g) == [row |-> r, graph |-> g]
Then(first, next) == Stretch(first \o next.writes, next.pc)
Nothing == Stretch(<<>>, "end")

(* Mutant: the project is given away as soon as the delivery is cancelled. *)
LeaseAfterCancel(r) == IF r.status \in Terminal \cup {"cancelling"} /\ lease = "self"
                       THEN "none" ELSE lease

LeaseAfter(r) == IF r.status \in Terminal /\ lease = "self" THEN "none" ELSE lease

(* A task that is over leaves its done callback behind; a request or the
   recovery at startup is gone at once. *)
Ended(t) == IF Scheduled(t) THEN [task[t] EXCEPT !.pc = "returned"] ELSE NoTask

(* t runs the stretch, or the process dies between two of its commits. *)
Runs(t, stretch) ==
    LET commits == stretch.writes
        n == Len(commits) IN
    \/ /\ row' = IF n = 0 THEN row ELSE commits[n].row
       /\ graph' = IF n = 0 THEN graph ELSE commits[n].graph
       /\ lease' = IF n = 0 THEN lease ELSE LeaseAfter(commits[n].row)
       /\ task' = [task EXCEPT ![t] =
              IF stretch.pc = "end" THEN Ended(t)
              ELSE [task[t] EXCEPT !.pc = stretch.pc,
                                !.copy = IF stretch.pc \in {"role", "apply"} THEN row' ELSE NoTask.copy]]
       /\ lane' = [l \in Lane |-> IF stretch.pc # "work" THEN lane[l]
                               ELSE IF l \in Crew(graph') THEN "running" ELSE "idle"]
       /\ UNCHANGED env
    \/ \E k \in 1..(n - 1) :
         /\ restarts < MaxRestarts
         /\ row' = commits[k].row /\ graph' = commits[k].graph
         /\ up' = FALSE
         /\ UNCHANGED <<lease, task, lane, restarts>>

(* _save_failed: a late error must not hide a release, a cleanup or an end. *)
SaveFailed(r) ==
    [r EXCEPT !.status = IF @ \in Terminal \cup Protected THEN @ ELSE "failed"]

(* PipelineExecution.fail: the running node fails, then the row, plainly. *)
Fail(r, g) == Stretch(<<To(r, Failed(g)), To([r EXCEPT !.status = "failed"], Failed(g))>>, "end")

(* Every registered role document is published. *)
Published(document) == document \in {"none", "required", "published"}

(* Mutant: the row is saved before the node is started. *)
OpenGateRowFirst(r, g) ==
    LET opened == [r EXCEPT !.status = Awaiting[Node(g)], !.gate[Node(g)] = "open",
                            !.opened[Node(g)] = r.version] IN
    Stretch(<<To(opened, g), To(opened, Started(g))>>, "end")

(* _open_gate: the node starts, the subject is checked, the row is saved. *)
OpenGate(r, g) ==
    IF ~(Preceding(g) \subseteq r.projected)
    THEN Then(<<To(r, Started(g))>>, Fail(r, Started(g)))
    ELSE Stretch(<<To(r, Started(g)),
                   To([r EXCEPT !.status = Awaiting[Node(g)], !.gate[Node(g)] = "open",
                                !.opened[Node(g)] = r.version], Started(g))>>, "end")

(* advance(), with a role document in a given state, up to its next await. *)
Advance(r, g, document) ==
    CASE g.status = "completed" ->
           IF ~Published(document) THEN Nothing
           ELSE IF ~r.receipt THEN Fail(r, g)
           ELSE Stretch(<<To([r EXCEPT !.status = "completed"], g)>>, "end")
      [] g.status \in {"failed", "cancelled"} ->
           IF r.status \in Terminal THEN Nothing
           ELSE Stretch(<<To([r EXCEPT !.status = g.status], g)>>, "end")
      [] g.status = "running" /\ g.state = "running" -> Nothing
      [] g.status = "running" /\ g.state = "ready" ->
           IF Node(g) \in {"role", "work"} THEN Stretch(<<To(r, Started(g))>>, Node(g))
           ELSE IF Published(document) THEN OpenGate(r, g) ELSE Nothing
      [] OTHER -> Nothing

-----------------------------------------------------------------------------
(* Knowledge context, role stages and workcell stages. *)

(* A scheduled task starts: one that is asked to stop never runs. *)
Starts(t, what) == up /\ task[t].pc = "start" /\ task[t].what = what /\ ~task[t].asked
Awaits(t, pc) == up /\ task[t].pc = pc /\ ~task[t].asked

BeginPrepare(t) ==
    /\ Starts(t, "prepare")
    /\ Runs(t, Stretch(<<>>, "prepare"))
    /\ UNCHANGED <<publication, registry>>

BeginAdvance(t) ==
    /\ Starts(t, "advance")
    /\ Runs(t, Advance(row, graph, publication))
    /\ UNCHANGED <<publication, registry>>

(* The context is ready: queued with its snapshot, the run is created, and the
   same coroutine advances it. *)
PrepareReturns(t) ==
    /\ Awaits(t, "prepare")
    /\ LET queued == [row EXCEPT !.status = "queued", !.version = @ + 1] IN
       IF row.status # "preparing_context" THEN Runs(t, Nothing)
       ELSE Runs(t, Then(<<To(queued, graph), To(queued, NewGraph)>>,
                         Advance(queued, NewGraph, publication)))
    /\ UNCHANGED <<publication, registry>>

PrepareFails(t) ==
    /\ Awaits(t, "prepare")
    /\ Runs(t, Stretch(<<To(SaveFailed(row), graph)>>, "end"))
    /\ UNCHANGED <<publication, registry>>

(* The row saved after a role stage is a copy of the one read before it. *)
Projected(t) == [task[t].copy EXCEPT !.status = "planning"]

(* Without a role document: row, then graph. *)
RoleReturns(t) ==
    /\ Awaits(t, "role") /\ publication = "none"
    /\ Runs(t, IF NodeRuns(graph)
               THEN Then(<<To(Projected(t), graph), To(Projected(t), Succeeded(graph))>>,
                         Advance(Projected(t), Succeeded(graph), publication))
               ELSE Then(<<To(Projected(t), graph)>>, Fail(Projected(t), graph)))
    /\ UNCHANGED <<publication, registry>>

(* With one: row, graph and publication in one transaction, then the attempt
   to publish, whose failure is the publication's own. *)
RoleReturnsDocument(t) ==
    /\ Awaits(t, "role") /\ publication # "none"
    /\ IF NodeRuns(graph)
       THEN \/ \E outcome \in {"published", "failed"} :
                 /\ publication' = outcome
                 /\ Runs(t, Then(<<To(Projected(t), Succeeded(graph))>>,
                                 Advance(Projected(t), Succeeded(graph), outcome)))
            \/ /\ restarts < MaxRestarts
               /\ row' = Projected(t) /\ graph' = Succeeded(graph)
               /\ publication' = "pending"
               /\ up' = FALSE
               /\ UNCHANGED <<lease, task, lane, restarts>>
       ELSE Runs(t, Fail(row, graph)) /\ UNCHANGED publication
    /\ UNCHANGED registry

(* A workcell of the node returns: its candidate is projected on the row read
   under the delivery's lock, whatever its status is by then. *)
LaneReturns(l) ==
    /\ up /\ lane[l] = "running"
    /\ lane' = [lane EXCEPT ![l] = "done"]
    /\ row' = [row EXCEPT !.status = "verifying", !.projected = @ \cup {l}]
    /\ lease' = LeaseAfter(row')
    /\ UNCHANGED <<graph, publication, task, registry, env>>

(* The first error makes the TaskGroup cancel the other workcells; a workcell
   that is cancelled may end in an error of its cleanup. *)
Stopping == [l \in Lane |-> IF lane[l] = "running" THEN "stopping" ELSE lane[l]]

LaneFails(l) ==
    /\ up /\ lane[l] \in {"running", "stopping"}
    /\ lane' = [Stopping EXCEPT ![l] = "failed"]
    /\ UNCHANGED <<row, graph, publication, lease, task, registry, env>>

LaneStops(l) ==
    /\ up /\ lane[l] = "stopping"
    /\ lane' = [lane EXCEPT ![l] = "stopped"]
    /\ UNCHANGED <<row, graph, publication, lease, task, registry, env>>

(* The TaskGroup is left: with the errors of its workcells, else as asked. *)
WorkEnds(t) ==
    /\ up /\ task[t].pc = "work"
    /\ \A l \in Lane : lane[l] \notin {"running", "stopping"}
    /\ Runs(t, IF \E l \in Lane : lane[l] = "failed" THEN Fail(row, graph)
               ELSE IF task[t].asked THEN Nothing
               ELSE IF ~NodeRuns(graph) THEN Fail(row, graph)
               ELSE Then(<<To(row, Succeeded(graph))>>,
                         Advance(row, Succeeded(graph), publication)))
    /\ UNCHANGED <<publication, registry>>

RoleFails(t) ==
    /\ Awaits(t, "role")
    /\ Runs(t, Fail(row, graph))
    /\ UNCHANGED <<publication, registry>>

(* Cancellation reaches a coroutine at its await, or before it started. *)
Stops(t) ==
    /\ up /\ task[t].asked
    /\ task[t].pc \in {"start", "prepare", "role"}
    /\ Runs(t, Nothing)
    /\ UNCHANGED <<publication, registry>>

(* The done callback removes whatever is registered by now. *)
DoneCallback(t) ==
    /\ up /\ task[t].pc = "returned"
    /\ task' = [task EXCEPT ![t] = NoTask]
    /\ registry' = 0
    /\ UNCHANGED <<row, graph, publication, lease, lane, env>>

-----------------------------------------------------------------------------
(* Gates.  A request is checked against the row it finds and schedules a task,
   which checks again against the row it finds. *)

RequestDecision(t, g, decision) ==
    /\ Arrives(t)
    /\ row.status = Awaiting[g]
    /\ PatientClients => registry = 0
    /\ task' = [task EXCEPT ![t] = [NoTask EXCEPT !.pc = "start", !.what = g,
                                    !.decision = decision, !.version = row.version]]
    /\ registry' = t
    /\ UNCHANGED <<row, graph, publication, lease, lane, env>>

(* Mutant: the gate is given the status of the delivery. *)
DecidedAsStatus(r, g, decision, status) ==
    [r EXCEPT !.status = status, !.version = @ + 1, !.gate[g] = status]

Decided(r, g, decision, status) ==
    [r EXCEPT !.status = status, !.version = @ + 1, !.gate[g] = decision]

(* decide_plan and decide_design: saved plainly; a decision that comes too late
   is an error, and the error is saved. *)
DecideEarlyGate(t, g) ==
    /\ g # "candidate" /\ Starts(t, g)
    /\ LET decision == task[t].decision
           approved == Decided(row, g, decision, "executing")
           rejected == Decided(row, g, decision, "rejected") IN
       Runs(t,
         IF row.gate[g] = decision THEN Nothing
         ELSE IF row.gate[g] \in {"approve", "reject"} \/ row.version # task[t].version
                   \/ row.status # Awaiting[g] \/ row.opened[g] # row.version
                   \/ (decision = "reject" /\ graph.status # "running")
           THEN Stretch(<<To(SaveFailed(row), graph)>>, "end")
         ELSE IF decision = "reject"
           THEN Stretch(<<To(row, Cancelled(graph)), To(rejected, Cancelled(graph))>>, "end")
         ELSE IF ~NodeRuns(graph)
           THEN Stretch(<<To(approved, graph), To(SaveFailed(approved), graph)>>, "end")
         ELSE Then(<<To(approved, graph), To(approved, Succeeded(graph))>>,
                   Advance(approved, Succeeded(graph), publication)))
    /\ UNCHANGED <<publication, registry>>

(* Mutant: a rejected candidate ends like any other cancellation. *)
FinishCancelled(r, g) ==
    Stretch(<<To([r EXCEPT !.status = "cancelled"], Cancelled(g))>>, "end")

(* _finish_cancellation after the wait: what still runs is cancelled, then the
   row ends as its gate says, if nobody moved it. *)
Finish(r, g) ==
    LET ended == [r EXCEPT !.status = IF r.gate["candidate"] = "reject"
                                      THEN "rejected" ELSE "cancelled"] IN
    IF r.status = "cancelling"
    THEN Stretch(<<To(r, Cancelled(g)), To(ended, Cancelled(g))>>, "end")
    ELSE Stretch(<<To(r, Cancelled(g))>>, "end")

(* decide_candidate.  A stale version is ignored, a decided gate is an error.
   Reject: cancelling by compare-and-set, then the cleanup.  Accept: applying
   by compare-and-set, then Apply. *)
DecideCandidate(t) ==
    /\ Starts(t, "candidate")
    /\ LET decision == task[t].decision
           applying == Decided(row, "candidate", "approve", "applying")
           cancelling == Decided(row, "candidate", "reject", "cancelling") IN
       IF row.gate["candidate"] = decision
         THEN Runs(t, IF row.status = "cancelling" THEN Finish(row, graph) ELSE Nothing)
       ELSE IF row.gate["candidate"] \in {"approve", "reject"}
         THEN Runs(t, Stretch(<<To(SaveFailed(row), graph)>>, "end"))
       ELSE IF row.version # task[t].version \/ row.opened["candidate"] # row.version
         THEN Runs(t, Nothing)
       ELSE IF row.status # Awaiting["candidate"]
         THEN Runs(t, Stretch(<<To(SaveFailed(row), graph)>>, "end"))
       ELSE IF decision = "approve"
         THEN Runs(t, Stretch(<<To(applying, graph)>>, "apply"))
       ELSE \/ Runs(t, Then(<<To(cancelling, graph)>>, Finish(cancelling, graph)))
            \/ Runs(t, Stretch(<<To(cancelling, graph)>>, "end"))
    /\ UNCHANGED <<publication, registry>>

-----------------------------------------------------------------------------
(* Apply, as the release modules do it: ForwardRelease for external projects,
   an idempotent local apply for managed ones. *)

(* Mutant: the delivery completes without its receipt. *)
ReleasedUnrecorded(r) == [r EXCEPT !.status = IF r.external THEN "completed" ELSE @]

Released(r) == [r EXCEPT !.status = IF r.external THEN "completed" ELSE @, !.receipt = TRUE]

(* The release is recorded; the gate node succeeds, unless it is over already,
   and the graph is advanced. *)
Close(r, g) ==
    Then(<<To(r, g)>>, IF NodeRuns(g) THEN Then(<<To(r, Succeeded(g))>>,
                                               Advance(r, Succeeded(g), publication))
                       ELSE Nothing)

ApplyReturns(t) ==
    /\ Awaits(t, "apply")
    /\ Runs(t, Close(Released(task[t].copy), graph))
    /\ UNCHANGED <<publication, registry>>

(* The error leaves the delivery in applying, where nobody can cancel it. *)
ApplyFails(t) ==
    /\ Awaits(t, "apply")
    /\ Runs(t, Stretch(<<To(SaveFailed(row), graph)>>, "end"))
    /\ UNCHANGED <<publication, registry>>

(* External: repositories were released in part. *)
ApplyNeedsAttention(t) ==
    /\ Awaits(t, "apply") /\ row.external
    /\ Runs(t, Stretch(<<To([row EXCEPT !.status = "needs_attention"], graph)>>, "end"))
    /\ UNCHANGED <<publication, registry>>

(* resume-forward succeeds, and finalize_external_release follows. *)
ResumeForward(t) ==
    /\ Arrives(t)
    /\ row.status = "needs_attention"
    /\ Runs(t, Close(Released(row), graph))
    /\ UNCHANGED <<publication, registry>>

-----------------------------------------------------------------------------
(* Requests that act on a running delivery. *)

(* Mutant: the task is waited for, and nobody told it to stop. *)
RequestCancelQuietly(t) ==
    /\ Arrives(t)
    /\ row.status \notin Terminal \cup {"applying", "needs_attention"}
    /\ row' = [row EXCEPT !.status = "cancelling", !.version = @ + 1]
    /\ task' = [task EXCEPT ![t] =
           [NoTask EXCEPT !.pc = "waiting", !.what = "cancel", !.on = registry]]
    /\ UNCHANGED <<graph, publication, lease, registry, lane, env>>

(* Mutant: a delivery that is being applied is cancelled too. *)
RequestCancelAnyTime(t) ==
    /\ Arrives(t)
    /\ row.status \notin Terminal \cup {"cancelling"}
    /\ row' = [row EXCEPT !.status = "cancelling", !.version = @ + 1]
    /\ task' = [s \in Tid |->
           IF s = t THEN [NoTask EXCEPT !.pc = "waiting", !.what = "cancel", !.on = registry]
           ELSE IF s = registry THEN [task[s] EXCEPT !.asked = TRUE]
           ELSE task[s]]
    /\ UNCHANGED <<graph, publication, lease, registry, lane, env>>

(* cancel(): cancelling by compare-and-set, then the registered task is asked
   to stop and waited for.  Release statuses refuse. *)
RequestCancel(t) ==
    /\ Arrives(t)
    /\ row.status \notin Terminal \cup {"applying", "needs_attention"}
    /\ row' = IF row.status = "cancelling" THEN row
              ELSE [row EXCEPT !.status = "cancelling", !.version = @ + 1]
    /\ task' = [s \in Tid |->
           IF s = t THEN [NoTask EXCEPT !.pc = "waiting", !.what = "cancel", !.on = registry]
           ELSE IF s = registry THEN [task[s] EXCEPT !.asked = TRUE]
           ELSE task[s]]
    /\ lane' = IF registry # 0 /\ task[registry].pc = "work" THEN Stopping ELSE lane
    /\ UNCHANGED <<graph, publication, lease, registry, env>>

Unfinished == {t \in Tid : task[t].pc \notin {"free", "returned"}}

(* The cleanup ends the delivery, or fails and leaves it cancelling. *)
FinishCancel(t) ==
    /\ up /\ task[t].what = "cancel" /\ task[t].on \notin Unfinished
    /\ Runs(t, Finish(row, graph)) \/ Runs(t, Nothing)
    /\ UNCHANGED <<publication, registry>>

(* resume_publications: the documents are published again, and with all of
   them published the graph goes on. *)
ResumePublications(t) ==
    /\ Arrives(t)
    /\ publication \in {"pending", "failed"}
    /\ \E outcome \in {"published", "failed"} :
         /\ publication' = outcome
         /\ Runs(t, IF outcome = "failed" THEN Nothing ELSE Advance(row, graph, outcome))
    /\ UNCHANGED registry

(* Another delivery of the project is admitted once the lease is free. *)
Rival ==
    /\ up
    /\ \/ lease = "none" /\ lease' = "rival"
       \/ lease = "rival" /\ lease' = "none"
    /\ UNCHANGED <<row, graph, publication, task, registry, lane, env>>

-----------------------------------------------------------------------------
(* The process dies with its tasks, and comes back. *)

Crash ==
    /\ up /\ restarts < MaxRestarts
    /\ up' = FALSE
    /\ UNCHANGED <<row, graph, publication, lease, task, registry, lane, restarts>>

(* reconcile_leases: an active delivery gets the free lease, or fails when
   another one has it; a finished one gives it back. *)
Restart ==
    /\ ~up /\ up' = TRUE /\ restarts' = restarts + 1
    /\ lease' = IF row.status \in Terminal
                  THEN IF lease = "self" THEN "none" ELSE lease
                ELSE IF lease = "none" THEN "self" ELSE lease
    /\ row' = IF row.status \notin Terminal /\ lease = "rival"
              THEN [row EXCEPT !.status = "failed", !.version = @ + 1] ELSE row
    /\ task' = [t \in Tid |-> IF t = 1 THEN [NoTask EXCEPT !.pc = "recover", !.what = "boot"]
                              ELSE NoTask]
    /\ registry' = 0
    /\ lane' = [l \in Lane |-> "idle"]
    /\ UNCHANGED <<graph, publication>>

(* recover(), by the status the delivery was left in.  Gates, needs_attention,
   queued and an external applying are left alone. *)
Interrupted == row.status \in {"planning", "executing", "verifying"}

Recover(t) ==
    /\ up /\ task[t].pc = "recover"
    /\ IF Interrupted /\ graph.status = "running" /\ publication \in {"pending", "failed", "published"}
       THEN \E outcome \in IF publication = "published" THEN {"published"}
                           ELSE {"published", "failed"} :
              /\ publication' = outcome
              /\ Runs(t, IF outcome = "failed" THEN Nothing ELSE Advance(row, graph, outcome))
       ELSE
         /\ UNCHANGED publication
         /\ \/ row.status = "cancelling" /\ Runs(t, Finish(row, graph))
            \/ row.status = "cancelling" /\ Runs(t, Nothing)
            \/ row.status = "preparing_context" /\ Runs(t, Stretch(<<>>, "prepare"))
            \/ row.status = "applying" /\ ~row.external /\ Runs(t, Stretch(<<>>, "apply"))
            \/ Interrupted /\ graph.status \in {"failed", "cancelled"}
                 /\ Runs(t, Stretch(<<To([row EXCEPT !.status = graph.status], graph)>>, "end"))
            \/ Interrupted /\ graph.status \in {"running", "completed"} /\ Runs(t, Fail(row, graph))
            \/ /\ ~Interrupted /\ row.status \notin {"cancelling", "preparing_context"}
               /\ row.status = "applying" => row.external
               /\ Runs(t, Nothing)
    /\ UNCHANGED registry

Work(t) ==
    \/ BeginPrepare(t) \/ BeginAdvance(t) \/ PrepareReturns(t) \/ PrepareFails(t)
    \/ RoleReturns(t) \/ RoleReturnsDocument(t) \/ RoleFails(t) \/ WorkEnds(t)
    \/ Stops(t) \/ DoneCallback(t)
    \/ \E g \in Gate : DecideEarlyGate(t, g)
    \/ DecideCandidate(t)
    \/ ApplyReturns(t) \/ ApplyFails(t) \/ ApplyNeedsAttention(t)
    \/ FinishCancel(t) \/ Recover(t)

Request(t) ==
    \/ \E g \in Gate, decision \in {"approve", "reject"} : RequestDecision(t, g, decision)
    \/ RequestCancel(t) \/ ResumeForward(t) \/ ResumePublications(t)

Next ==
    \/ \E t \in Tid : Work(t) \/ Request(t)
    \/ \E l \in Lane : LaneReturns(l) \/ LaneFails(l) \/ LaneStops(l)
    \/ Rival \/ Crash \/ Restart

(* Steps of a task that waits for no provider. *)
GoesOn(t) ==
    \/ Stops(t) \/ WorkEnds(t) \/ DoneCallback(t) \/ FinishCancel(t)
    \/ \E g \in Gate : DecideEarlyGate(t, g)
    \/ DecideCandidate(t)

(* What the event loop owes: a task that waits for nobody goes on, so do done
   callbacks and cancellations, a workcell that is stopping stops, and the
   service manager restarts a dead process.  Providers owe nothing. *)
Fairness ==
    /\ \A t \in Tid : WF_vars(GoesOn(t))
    /\ \A l \in Lane : WF_vars(LaneStops(l))
    /\ WF_vars(Restart)

Spec == Init /\ [][Next]_vars /\ Fairness

-----------------------------------------------------------------------------
(* Rows, graph, tasks and registry hold values the code can write. *)
DeliveryTypeOK ==
    /\ row.status \in Status /\ row.version \in Nat
    /\ row.gate \in [Gate -> {"none", "open", "approve", "reject"}]
    /\ row.projected \subseteq Lane
    /\ graph.status \in {"none", "running", "completed", "failed", "cancelled"}
    /\ graph.node \in 1..Len(Graph) /\ graph.state \in {"ready", "running", "done"}
    /\ publication \in {"none", "required", "pending", "failed", "published"}
    /\ lease \in {"self", "rival", "none"}
    /\ registry \in Tid \cup {0}
    /\ lane \in [Lane -> {"idle", "running", "stopping", "done", "failed", "stopped"}]

(* Nothing is applied, and nothing completed, that the plan gate and the
   candidate gate did not both approve; completed means applied. *)
AppliedAsApproved ==
    /\ row.receipt \/ row.status \in {"applying", "needs_attention", "completed"} =>
         row.gate["plan"] = "approve" /\ row.gate["candidate"] = "approve"
    /\ row.status = "completed" => row.receipt

(* A delivery that awaits a decision has its graph run at that gate's node,
   started, and all candidates of the node before it: also when the process
   died inside _open_gate or inside a decision. *)
GateAtItsNode ==
    \A g \in Gate : row.status = Awaiting[g] =>
        /\ Node(graph) = g /\ graph.state = "running"
        /\ Preceding(graph) \subseteq row.projected

(* The gates mean what they say: what is applied was approved at both, and what is
   judged at one is complete. *)
GatesHold == AppliedAsApproved /\ GateAtItsNode

(* While the delivery is not over it holds the lease of its project, so no
   other delivery is admitted: through every late save and every restart. *)
ActiveHoldsLease ==
    up /\ row.status \notin Terminal => lease = "self"

(* A rejected candidate ends as rejected, whichever cancel request or restart
   finishes the cleanup (ADR-0015: the intent is frozen with the gate). *)
RejectStaysReject ==
    row.gate["candidate"] = "reject" => row.status \in {"cancelling", "rejected"}

(* Cancel and accept exclude each other: a delivery that is being cancelled,
   or was, is applied by nobody, now or later. *)
CancelExcludesApply ==
    row.status \in {"cancelling", "cancelled", "rejected"} =>
        /\ ~row.receipt
        /\ up => \A t \in Tid : task[t].pc # "apply"

(* What a person has decided stands: through cancellations, late tasks and
   restarts a rejection ends as one, and what is given up is applied by nobody. *)
DecisionsHold == RejectStaysReject /\ CancelExcludesApply

(* A cancel request has not returned.  It does in the end: the task it waits for
   is told to stop, and never waits for the request in turn. *)
CancelPending(t) == task[t].what = "cancel"

(* ADR-0015: a late error or a decision that lost the race changes neither a
   delivery that is over nor one that is being cancelled or released. *)
LateErrorsYield ==
    [][/\ row.status \in Terminal => row'.status = row.status
       /\ row.status \in Protected => row'.status # "failed"]_vars
=============================================================================
