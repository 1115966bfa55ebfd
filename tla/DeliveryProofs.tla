--------------------------- MODULE DeliveryProofs ---------------------------
(***************************************************************************)
(* One delivery for every pipeline of the product, any number of tasks and *)
(* requests at once and any number of restarts, as long as nobody decides  *)
(* a gate while a task is registered (PatientClients).                     *)
(*                                                                         *)
(* RowInOrder relates what is stored: the row, the graph run and the role  *)
(* document; it holds after every commit, so also where the process dies.  *)
(* TasksInOrder relates the tasks to it while the process lives: one task  *)
(* at a time drives the delivery, the others have been asked to stop or    *)
(* only finish a cancellation.                                             *)
(*                                                                         *)
(* Below it, the loops of a pipeline for any acyclic body: lanes follow    *)
(* the nodes of the iteration, AgentRuns and dispatches follow the lanes,  *)
(* and a bundle exists only once the last stage has passed after all       *)
(* others.                                                                 *)
(***************************************************************************)
EXTENDS Delivery, PipelineTurns, SequenceTheorems, TLAPS

LastNode == Len(Graph)
PlanAt == CHOOSE n \in 1..LastNode : Graph[n].kind = "plan"
Unpublished == {"pending", "failed"}
Given == {"applying", "needs_attention", "completed"}

(* Row, graph run and role document as commits leave them. *)
GatesInOrder(r, g) ==
    /\ \A gate \in Gate : r.gate[gate] # "none" =>
         \E n \in 1..g.node : Graph[n].kind = gate /\ (n < g.node \/ g.state # "ready")
    /\ g.node > PlanAt => r.gate["plan"] = "approve"
    /\ r.gate["candidate"] = "approve" <=> r.status \in Given
    /\ r.gate["candidate"] = "reject" => r.status \in {"cancelling", "rejected"}
    /\ \A gate \in Gate : r.status = Awaiting[gate] =>
         Node(g) = gate /\ g.state = "running" /\ Preceding(g) \subseteq r.projected

StatusInOrder(r, g, document) ==
    /\ r.receipt => r.status \in Given
    /\ r.status = "completed" => r.receipt
    /\ r.status = "preparing_context" => g.status = "none"
    /\ g.status = "none" => g = NoGraph
    /\ g.status = "completed" => g.node = LastNode
    /\ document \in Unpublished =>
         /\ g.node < PlanAt \/ (g.node = PlanAt /\ g.state = "ready")
         /\ ~(r.status \in Terminal /\ g.status = "running" /\ g.state = "ready")

RowInOrder ==
    /\ GatesInOrder(row, graph)
    /\ StatusInOrder(row, graph, publication)
    /\ row.status \notin Terminal => lease = "self"

(* The tasks that may still write what they like. *)
Driving(t) ==
    \/ task[t].pc \in {"role", "work", "apply", "recover"}
    \/ task[t].pc \in {"start", "prepare"} /\ ~task[t].asked

GivenUp == Terminal \cup {"cancelling"}

(* What a driving task finds when it goes on. *)
DriverInOrder(t) ==
    /\ task[t].pc = "start" /\ ~task[t].asked =>
         /\ task[t].what = "prepare" => graph.status = "none" /\ publication \notin Unpublished
         /\ task[t].what = "advance" =>
              row.status = "queued" /\ graph = NewGraph /\ publication \notin Unpublished
         /\ task[t].what \in Gate =>
              graph.state = "running" /\ graph.node >= PlanAt /\ row.gate["candidate"] # "approve"
    /\ task[t].pc = "prepare" /\ ~task[t].asked => graph.status = "none"
    /\ task[t].pc = "role" =>
         /\ Node(graph) = "role" /\ graph.state = "running"
         /\ \A gate \in Gate : task[t].copy.gate[gate] = "none"
         /\ ~task[t].copy.receipt
         /\ task[t].what = "none" =>
              /\ publication \in {"pending", "failed", "published"}
              /\ row.status \in Terminal => graph.status # "running"
         /\ task[t].what # "none" /\ ~task[t].asked =>
              row.status \notin GivenUp /\ graph.status = "running"
    /\ task[t].pc = "work" =>
         /\ Node(graph) = "work" /\ graph.state = "running"
         /\ ~task[t].asked => row.status \notin GivenUp
    /\ task[t].pc = "apply" => task[t].copy = row /\ row.status = "applying"

(* Which tasks there are. *)
KindsInOrder(t) ==
    /\ Scheduled(t) <=> registry = t
    /\ task[t].pc = "free" => task[t] = NoTask
    /\ task[t].what = "none" => task[t].pc \in {"free", "role"}
    /\ task[t].what = "cancel" => task[t].pc = "waiting"
    /\ task[t].what = "boot" => t = 1 /\ task[t].pc \in {"recover", "prepare", "role", "work", "apply"}
    /\ task[t].what \in Gate => task[t].decision \in {"approve", "reject"}
    /\ task[t].pc \in {"returned", "start"} => Scheduled(t)
    /\ task[t].pc = "prepare" => task[t].what \in {"prepare", "boot"}
    /\ task[t].pc = "recover" => task[t].what = "boot"
    /\ task[t].pc = "role" => task[t].what \in {"prepare", "advance", "boot", "none"}
    /\ task[t].pc = "work" => task[t].what \in {"plan", "design", "boot"}
    /\ task[t].pc = "apply" => task[t].what \in {"candidate", "boot"}
    /\ task[t].asked => Scheduled(t)

(* One task at most drives; at startup there is none beside the recovery; who
   prepares or advances a delivery that is being cancelled knows it. *)
OneDrives == \A t, s \in Tid : Driving(t) /\ Driving(s) => t = s
BootsAlone == Booting => \A t \in Tid \ {1} : task[t] = NoTask
CancelAsks ==
    \A t, s \in Tid :
        task[t].what \in {"prepare", "advance"} /\ ~task[t].asked /\ task[t].pc # "returned" =>
            task[s].what # "cancel"

(* Workcells are at work for a task that waits for them. *)
LanesInOrder ==
    \A l \in Lane :
        /\ lane[l] = "running" => \E t \in Tid : task[t].pc = "work" /\ ~task[t].asked
        /\ lane[l] = "stopping" => \E t \in Tid : task[t].pc = "work"

TasksInOrder ==
    /\ \A t \in Tid : KindsInOrder(t) /\ DriverInOrder(t)
    /\ OneDrives /\ BootsAlone /\ CancelAsks /\ LanesInOrder

DeliveryInv == RowInOrder /\ (up => TasksInOrder)

-----------------------------------------------------------------------------
(* Types, and the pipeline.                                                *)

Kind == {"role", "plan", "work", "design", "candidate"}
Document == {"none", "required", "pending", "failed", "published"}
RowRecord ==
    [status : Status, version : Nat, gate : [Gate -> {"none", "open", "approve", "reject"}],
     opened : [Gate -> Nat], projected : SUBSET Lane, receipt : BOOLEAN, external : BOOLEAN]
GraphRecord ==
    [status : {"none", "running", "completed", "failed", "cancelled"}, node : 1..LastNode,
     state : {"ready", "running", "done"}]
TaskRecord ==
    [pc : {"free", "start", "prepare", "role", "work", "apply", "returned", "waiting", "recover"},
     what : {"none", "prepare", "advance", "cancel", "boot"} \cup Gate,
     decision : {"none", "approve", "reject"}, version : Nat, asked : BOOLEAN,
     on : Tid \cup {0}, copy : RowRecord \cup {<<>>}]

Typed ==
    /\ row \in RowRecord /\ graph \in GraphRecord /\ publication \in Document
    /\ lease \in {"self", "rival", "none"} /\ registry \in Tid \cup {0}
    /\ task \in [Tid -> TaskRecord]
    /\ \A t \in Tid : task[t].pc \in {"role", "apply"} => task[t].copy \in RowRecord
    /\ lane \in [Lane -> {"idle", "running", "stopping", "done", "failed", "stopped"}]
    /\ up \in BOOLEAN

LEMMA PipelineShape ==
    /\ LastNode \in Nat /\ LastNode >= 1 /\ PlanAt \in 1..LastNode /\ PlanAt < LastNode
    /\ Graph[PlanAt].kind = "plan" /\ Graph[LastNode].kind = "candidate"
    /\ \A n \in 1..LastNode : Graph[n].kind \in Kind
    /\ \A n \in 1..LastNode : Graph[n].kind = "plan" => n = PlanAt
    /\ \A n \in 1..LastNode : Graph[n].kind = "candidate" => n = LastNode
    /\ \A n \in 1..LastNode : Graph[n].kind = "role" <=> n < PlanAt
<1>1. LastNode \in Nat /\ LastNode >= 1 /\ Graph[LastNode].kind = "candidate"
  BY DeliveryAssumption DEF LastNode
<1>2. PICK p \in 1..LastNode : /\ Graph[p].kind = "plan"
                           /\ \A n \in 1..LastNode : Graph[n].kind = "role" <=> n < p
  BY DeliveryAssumption DEF LastNode
<1>3. PlanAt \in 1..LastNode /\ Graph[PlanAt].kind = "plan"
  BY <1>2 DEF PlanAt
<1>4. \A n \in 1..LastNode : Graph[n].kind \in Kind
  BY DeliveryAssumption DEF LastNode, Kind
<1>5. \A n, m \in 1..LastNode :
        Graph[n].kind = Graph[m].kind /\ n # m => Graph[n].kind \in {"role", "work"}
  BY DeliveryAssumption DEF LastNode
<1>6. p = PlanAt
  BY <1>2, <1>3, <1>5
<1>7. \A n \in 1..LastNode : Graph[n].kind = "plan" => n = PlanAt
  BY <1>3, <1>5
<1>8. \A n \in 1..LastNode : Graph[n].kind = "candidate" => n = LastNode
  BY <1>1, <1>5
<1>9. PlanAt < LastNode
  BY <1>1, <1>3
<1>10. QED BY <1>1, <1>2, <1>3, <1>4, <1>6, <1>7, <1>8, <1>9

LEMMA Statuses ==
    /\ \A gate \in Gate : Awaiting[gate] \in Status \ (Given \cup GivenUp)
    /\ \A gate \in Gate : Awaiting[gate] \notin {"preparing_context", "queued", "planning",
                                                 "executing", "verifying"}
    /\ Awaiting["candidate"] = "awaiting_candidate_decision"
    /\ Gate = {"plan", "design", "candidate"}
    /\ {"planning", "executing", "verifying", "queued", "preparing_context", "applying",
        "needs_attention", "cancelling", "failed", "cancelled", "rejected", "completed"}
         \subseteq Status
BY DEF Awaiting, Gate, Status, Terminal, Given, GivenUp

(* How the reducers move a run. *)
LEMMA GraphMoves ==
    ASSUME NEW g \in GraphRecord
    PROVE  /\ Started(g) \in GraphRecord /\ Succeeded(g) \in GraphRecord
           /\ Failed(g) \in GraphRecord /\ Cancelled(g) \in GraphRecord
           /\ Started(g).status = g.status /\ Started(g).node = g.node
           /\ Started(g).state = "running"
           /\ g.node = LastNode => Succeeded(g).status = "completed" /\ Succeeded(g).node = LastNode
                               /\ Succeeded(g).state = "done"
           /\ g.node # LastNode => Succeeded(g).status = g.status /\ Succeeded(g).node = g.node + 1
                               /\ Succeeded(g).state = "ready"
           /\ Failed(g).node = g.node /\ Failed(g).state = g.state
           /\ Failed(g).status = IF NodeRuns(g) THEN "failed" ELSE g.status
           /\ Cancelled(g).node = g.node /\ Cancelled(g).state = g.state
           /\ Cancelled(g).status = IF g.status = "running" THEN "cancelled" ELSE g.status
<1>1. LastNode \in Nat /\ g.node \in 1..LastNode
  BY PipelineShape DEF GraphRecord
<1>2. g.node # LastNode => g.node + 1 \in 1..LastNode
  BY <1>1
<1>3. Started(g) \in GraphRecord /\ Failed(g) \in GraphRecord /\ Cancelled(g) \in GraphRecord
  BY DEF Started, Failed, Cancelled, GraphRecord
<1>4. CASE g.node = LastNode
  BY <1>3, <1>4 DEF Started, Failed, Cancelled, Succeeded, GraphRecord, LastNode
<1>5. CASE g.node # LastNode
  BY <1>2, <1>3, <1>5 DEF Started, Failed, Cancelled, Succeeded, GraphRecord, LastNode
<1>6. QED BY <1>4, <1>5

-----------------------------------------------------------------------------
(* Stretches: what each of their commits leaves, and where they lead.      *)

(* The commits that leave row and graph in order, and a delivery that was over
   over. *)
Lawful(from, document) ==
    {c \in [row : RowRecord, graph : GraphRecord] :
       /\ GatesInOrder(c.row, c.graph) /\ StatusInOrder(c.row, c.graph, document)
       /\ from.status \in Terminal => c.row.status \in Terminal}

Ends(stretch, r, g) ==
    IF Len(stretch.writes) = 0 THEN To(r, g) ELSE stretch.writes[Len(stretch.writes)]

LEMMA ShortWrites ==
    ASSUME NEW S, NEW a \in S, NEW b \in S
    PROVE  /\ <<>> \in Seq(S) /\ <<a>> \in Seq(S) /\ <<a, b>> \in Seq(S)
           /\ Len(<<>>) = 0 /\ Len(<<a>>) = 1 /\ Len(<<a, b>>) = 2
           /\ <<a>>[1] = a /\ <<a, b>>[1] = a /\ <<a, b>>[2] = b
OBVIOUS

LEMMA Commit ==
    ASSUME NEW r \in RowRecord, NEW g \in GraphRecord, NEW from, NEW document,
           GatesInOrder(r, g), StatusInOrder(r, g, document),
           from.status \in Terminal => r.status \in Terminal
    PROVE  To(r, g) \in Lawful(from, document)
<1>1. To(r, g) \in [row : RowRecord, graph : GraphRecord]
      /\ To(r, g).row = r /\ To(r, g).graph = g
  BY DEF To
<1>2. QED BY <1>1 DEF Lawful

(* The stretches of no, one and two commits. *)
LEMMA NoWrites ==
    ASSUME NEW S, NEW pc, NEW r, NEW g
    PROVE  /\ Stretch(<<>>, pc).writes \in Seq(S) /\ Stretch(<<>>, pc).pc = pc
           /\ Ends(Stretch(<<>>, pc), r, g) = To(r, g)
BY DEF Stretch, Ends

LEMMA WritesNothing ==
    ASSUME NEW S, NEW r, NEW g
    PROVE  /\ Nothing.writes \in Seq(S) /\ Nothing.pc = "end"
           /\ Ends(Nothing, r, g).row = r /\ Ends(Nothing, r, g).graph = g
<1>1. Nothing.writes \in Seq(S) /\ Nothing.pc = "end" /\ Ends(Nothing, r, g) = To(r, g)
  BY NoWrites DEF Nothing
<1>2. To(r, g).row = r /\ To(r, g).graph = g
  BY DEF To
<1>3. QED BY <1>1, <1>2

LEMMA OneWrite ==
    ASSUME NEW S, NEW a \in S, NEW pc, NEW r, NEW g
    PROVE  /\ Stretch(<<a>>, pc).writes \in Seq(S) /\ Stretch(<<a>>, pc).pc = pc
           /\ Ends(Stretch(<<a>>, pc), r, g) = a
BY ShortWrites DEF Stretch, Ends

LEMMA TwoWrites ==
    ASSUME NEW S, NEW a \in S, NEW b \in S, NEW pc, NEW r, NEW g
    PROVE  /\ Stretch(<<a, b>>, pc).writes \in Seq(S) /\ Stretch(<<a, b>>, pc).pc = pc
           /\ Ends(Stretch(<<a, b>>, pc), r, g) = b
BY ShortWrites DEF Stretch, Ends

(* A stretch after one or two commits. *)
LEMMA ThenWrites ==
    ASSUME NEW S, NEW first \in Seq(S), Len(first) # 0,
           NEW next, next.writes \in Seq(S), NEW r, NEW g
    PROVE  /\ Then(first, next).writes \in Seq(S) /\ Then(first, next).pc = next.pc
           /\ Ends(Then(first, next), r, g)
                = IF Len(next.writes) = 0 THEN first[Len(first)]
                  ELSE next.writes[Len(next.writes)]
<1> DEFINE both == first \o next.writes
<1>1. Then(first, next) = [writes |-> both, pc |-> next.pc]
  BY DEF Then, Stretch
<1>2. both \in Seq(S) /\ Len(both) = Len(first) + Len(next.writes)
  BY ConcatProperties
<1>3. Len(first) \in Nat /\ Len(next.writes) \in Nat
  BY LenProperties
<1>4. Len(both) # 0
  BY <1>2, <1>3
<1>5. both[Len(both)] = IF Len(next.writes) = 0 THEN first[Len(first)]
                        ELSE next.writes[Len(next.writes)]
  BY <1>2, <1>3, ConcatProperties
<1>6. QED BY <1>1, <1>2, <1>4, <1>5 DEF Ends

LEMMA AfterOne ==
    ASSUME NEW S, NEW a \in S, NEW next, next.writes \in Seq(S), NEW r, NEW g
    PROVE  /\ Then(<<a>>, next).writes \in Seq(S) /\ Then(<<a>>, next).pc = next.pc
           /\ Ends(Then(<<a>>, next), r, g)
                = IF Len(next.writes) = 0 THEN a ELSE next.writes[Len(next.writes)]
<1> DEFINE first == <<a>>
<1>1. first \in Seq(S) /\ Len(first) # 0 /\ first[Len(first)] = a
  BY ShortWrites
<1> HIDE DEF first
<1>2. /\ Then(first, next).writes \in Seq(S) /\ Then(first, next).pc = next.pc
      /\ Ends(Then(first, next), r, g)
           = IF Len(next.writes) = 0 THEN first[Len(first)] ELSE next.writes[Len(next.writes)]
  BY <1>1, ThenWrites
<1>3. QED BY <1>1, <1>2 DEF first

LEMMA AfterTwo ==
    ASSUME NEW S, NEW a \in S, NEW b \in S, NEW next, next.writes \in Seq(S), NEW r, NEW g
    PROVE  /\ Then(<<a, b>>, next).writes \in Seq(S) /\ Then(<<a, b>>, next).pc = next.pc
           /\ Ends(Then(<<a, b>>, next), r, g)
                = IF Len(next.writes) = 0 THEN b ELSE next.writes[Len(next.writes)]
<1> DEFINE first == <<a, b>>
<1>1. first \in Seq(S) /\ Len(first) # 0 /\ first[Len(first)] = b
  BY ShortWrites
<1> HIDE DEF first
<1>2. /\ Then(first, next).writes \in Seq(S) /\ Then(first, next).pc = next.pc
      /\ Ends(Then(first, next), r, g)
           = IF Len(next.writes) = 0 THEN first[Len(first)] ELSE next.writes[Len(next.writes)]
  BY <1>1, ThenWrites
<1>3. QED BY <1>1, <1>2 DEF first

-----------------------------------------------------------------------------
(* What one change does to the order of row and graph.                     *)

(* The status of the graph alone may change, unless it was never started or
   completes. *)
LEMMA GraphStatusChanges ==
    ASSUME NEW r \in RowRecord, NEW g \in GraphRecord, NEW document \in Document,
           GatesInOrder(r, g), StatusInOrder(r, g, document)
    PROVE  /\ GatesInOrder(r, Failed(g)) /\ StatusInOrder(r, Failed(g), document)
           /\ GatesInOrder(r, Cancelled(g)) /\ StatusInOrder(r, Cancelled(g), document)
<1>1. ASSUME NEW h \in {Failed(g), Cancelled(g)}
      PROVE  GatesInOrder(r, h) /\ StatusInOrder(r, h, document)
  <2>1. h \in GraphRecord /\ h.node = g.node /\ h.state = g.state
        /\ (h = g \/ (h.status \in {"failed", "cancelled"} /\ g.status = "running"))
    <3>1. h = g \/ g.status = "running"
      BY DEF Failed, Cancelled, NodeRuns
    <3>2. h = g \/ h.status \in {"failed", "cancelled"}
      BY DEF Failed, Cancelled, GraphRecord
    <3>3. QED BY <3>1, <3>2, GraphMoves
  <2>2. GatesInOrder(r, h)
    BY <2>1 DEF GatesInOrder, Node, Preceding
  <2>3. StatusInOrder(r, h, document)
    BY <2>1 DEF StatusInOrder
  <2>4. QED BY <2>2, <2>3
<1>2. QED BY <1>1

(* The row fails: nothing had been released or refused. *)
LEMMA RowFails ==
    ASSUME NEW r \in RowRecord, NEW g \in GraphRecord, NEW document \in Document,
           GatesInOrder(r, g), StatusInOrder(r, g, document),
           NEW status \in {"failed", "cancelled"},
           r.gate["candidate"] \notin {"approve", "reject"},
           document \in Unpublished => ~(g.status = "running" /\ g.state = "ready")
    PROVE  LET failed == [r EXCEPT !.status = status] IN
           /\ failed \in RowRecord
           /\ failed.status = status /\ failed.gate = r.gate /\ failed.receipt = r.receipt
           /\ GatesInOrder(failed, g) /\ StatusInOrder(failed, g, document)
<1> DEFINE failed == [r EXCEPT !.status = status]
<1>1. /\ failed \in RowRecord /\ failed.status = status
      /\ failed.gate = r.gate /\ failed.receipt = r.receipt
  BY Statuses DEF RowRecord
<1>2. status \notin Given /\ \A gate \in Gate : status # Awaiting[gate]
  BY Statuses DEF Given, GivenUp, Terminal
<1> HIDE DEF failed
<1>3. GatesInOrder(failed, g)
  BY <1>1, <1>2 DEF GatesInOrder
<1>4. StatusInOrder(failed, g, document)
  BY <1>1, <1>2 DEF StatusInOrder, GatesInOrder
<1>5. QED BY <1>1, <1>3, <1>4 DEF failed

(* PipelineExecution.fail leaves row and graph in order. *)
LEMMA Failing ==
    ASSUME NEW r \in RowRecord, NEW g \in GraphRecord, NEW document \in Document, NEW from,
           GatesInOrder(r, g), StatusInOrder(r, g, document),
           from.status \in Terminal => r.status \in Terminal,
           r.gate["candidate"] \notin {"approve", "reject"},
           document \in Unpublished => ~(g.status = "running" /\ g.state = "ready")
    PROVE  /\ Fail(r, g).writes \in Seq(Lawful(from, document)) /\ Fail(r, g).pc = "end"
           /\ Len(Fail(r, g).writes) = 2
           /\ Fail(r, g).writes[2] = To([r EXCEPT !.status = "failed"], Failed(g))
<1> DEFINE failed == [r EXCEPT !.status = "failed"]
<1>1. Failed(g) \in GraphRecord /\ GatesInOrder(r, Failed(g))
      /\ StatusInOrder(r, Failed(g), document)
  BY GraphMoves, GraphStatusChanges
<1>2. document \in Unpublished => ~(Failed(g).status = "running" /\ Failed(g).state = "ready")
  BY GraphMoves DEF NodeRuns
<1>3. failed \in RowRecord /\ failed.status = "failed"
      /\ GatesInOrder(failed, Failed(g)) /\ StatusInOrder(failed, Failed(g), document)
  BY <1>1, <1>2, RowFails
<1>4. To(r, Failed(g)) \in Lawful(from, document)
  BY <1>1, Commit
<1>5. To(failed, Failed(g)) \in Lawful(from, document)
  BY <1>1, <1>3, Commit DEF Terminal
<1>6. QED BY <1>4, <1>5, TwoWrites, ShortWrites DEF Fail, Stretch

(* The node is started. *)
LEMMA NodeStarts ==
    ASSUME NEW r \in RowRecord, NEW g \in GraphRecord, NEW document \in Document,
           GatesInOrder(r, g), StatusInOrder(r, g, document),
           g.status = "running", g.state = "ready",
           Node(g) = "role" \/ document \notin Unpublished
    PROVE  /\ Started(g) \in GraphRecord
           /\ GatesInOrder(r, Started(g)) /\ StatusInOrder(r, Started(g), document)
<1>1. /\ Started(g) \in GraphRecord /\ Started(g).status = g.status
      /\ Started(g).node = g.node /\ Started(g).state = "running"
  BY GraphMoves
<1>2. Node(g) = "role" => g.node < PlanAt
  BY PipelineShape DEF Node, GraphRecord
<1>3. GatesInOrder(r, Started(g))
  BY <1>1 DEF GatesInOrder, Node, Preceding
<1>4. StatusInOrder(r, Started(g), document)
  BY <1>1, <1>2 DEF StatusInOrder
<1>5. QED BY <1>1, <1>3, <1>4

(* A gate opens at its node, which has been started. *)
LEMMA GateOpens ==
    ASSUME NEW r \in RowRecord, NEW g \in GraphRecord, NEW document \in Document,
           GatesInOrder(r, g), StatusInOrder(r, g, document),
           g.status = "running", g.state = "ready", Node(g) \in Gate,
           document \notin Unpublished, Preceding(g) \subseteq r.projected
    PROVE  LET opened == [r EXCEPT !.status = Awaiting[Node(g)], !.gate[Node(g)] = "open",
                                   !.opened[Node(g)] = r.version] IN
           /\ opened \in RowRecord
           /\ GatesInOrder(opened, Started(g)) /\ StatusInOrder(opened, Started(g), document)
<1> DEFINE gate == Node(g)
           opened == [r EXCEPT !.status = Awaiting[gate], !.gate[gate] = "open",
                               !.opened[gate] = r.version]
<1>1. /\ Started(g) \in GraphRecord /\ Started(g).status = "running"
      /\ Started(g).node = g.node /\ Started(g).state = "running" /\ g.node \in 1..LastNode
  BY GraphMoves DEF GraphRecord
<1>2. /\ r.gate \in [Gate -> {"none", "open", "approve", "reject"}]
      /\ r.opened \in [Gate -> Nat] /\ r.version \in Nat /\ Awaiting[gate] \in Status
  BY Statuses DEF RowRecord
<1>3. /\ opened \in RowRecord
      /\ opened.status = Awaiting[gate] /\ opened.projected = r.projected
      /\ opened.receipt = r.receipt
      /\ opened.gate = [r.gate EXCEPT ![gate] = "open"]
  BY <1>2 DEF RowRecord
<1>4. /\ opened.gate[gate] = "open"
      /\ \A other \in Gate \ {gate} : opened.gate[other] = r.gate[other]
  BY <1>2, <1>3
<1> HIDE DEF opened
(* A candidate gate that was decided lies behind. *)
<1>5. r.gate["candidate"] = "none"
  <2>1. SUFFICES ASSUME r.gate["candidate"] # "none" PROVE FALSE
    OBVIOUS
  <2>2. PICK n \in 1..g.node : Graph[n].kind = "candidate" /\ n < g.node
    BY <2>1, Statuses DEF GatesInOrder
  <2>3. n \in 1..LastNode /\ n = LastNode
    BY <1>1, <2>2, PipelineShape
  <2>4. QED BY <1>1, <2>2, <2>3, PipelineShape
<1>6. \A other \in Gate : Awaiting[gate] = Awaiting[other] => other = gate
  BY DEF Awaiting, Gate
<1>7. Awaiting[gate] \notin Given \cup GivenUp \cup {"preparing_context"}
  BY Statuses
<1>8. gate = "plan" => g.node = PlanAt
  BY <1>1, PipelineShape DEF Node
<1>9. GatesInOrder(opened, Started(g))
  <2>1. ASSUME NEW other \in Gate, opened.gate[other] # "none"
        PROVE  \E n \in 1..Started(g).node :
                 Graph[n].kind = other
                 /\ (n < Started(g).node \/ Started(g).state # "ready")
    <3>1. CASE other = gate
      BY <1>1, <3>1 DEF Node
    <3>2. CASE other # gate
      BY <1>1, <1>4, <2>1, <3>2 DEF GatesInOrder
    <3>3. QED BY <3>1, <3>2
  <2>2. Started(g).node > PlanAt => opened.gate["plan"] = "approve"
    BY <1>1, <1>4, <1>8, Statuses, PipelineShape DEF GatesInOrder
  <2>3. opened.gate["candidate"] \notin {"approve", "reject"}
    BY <1>4, <1>5, Statuses
  <2>4. \A other \in Gate : opened.status = Awaiting[other] =>
          Node(Started(g)) = other /\ Started(g).state = "running"
          /\ Preceding(Started(g)) \subseteq opened.projected
    BY <1>1, <1>3, <1>6 DEF Node, Preceding
  <2>5. QED BY <1>3, <1>7, <2>1, <2>2, <2>3, <2>4 DEF GatesInOrder
<1>10. StatusInOrder(opened, Started(g), document)
  <2>1. ~r.receipt
    BY <1>5 DEF StatusInOrder, GatesInOrder
  <2>2. Started(g).status # "none" /\ Started(g).status # "completed"
    BY <1>1
  <2>3. opened.status # "completed"
    BY <1>3, <1>7 DEF Given
  <2>4. QED BY <1>3, <1>7, <2>1, <2>2, <2>3 DEF StatusInOrder
<1>11. QED BY <1>3, <1>9, <1>10 DEF opened

-----------------------------------------------------------------------------
(* What advance() does to row and graph.                                   *)

GoesOnWith(stretch, r, g) ==
    stretch.pc \in {"role", "work"} =>
      /\ stretch.pc = Node(g) /\ g.status = "running" /\ g.state = "ready"
      /\ Len(stretch.writes) = 1 /\ stretch.writes[1] = To(r, Started(g))

LEMMA OpeningGate ==
    ASSUME NEW r \in RowRecord, NEW g \in GraphRecord, NEW document \in Document, NEW from,
           GatesInOrder(r, g), StatusInOrder(r, g, document),
           from.status \notin Terminal, g.status = "running", g.state = "ready",
           Node(g) \in Gate, Published(document)
    PROVE  /\ OpenGate(r, g).writes \in Seq(Lawful(from, document)) /\ OpenGate(r, g).pc = "end"
<1>1. document \notin Unpublished
  BY DEF Published, Unpublished
<1>2. /\ Started(g) \in GraphRecord
      /\ GatesInOrder(r, Started(g)) /\ StatusInOrder(r, Started(g), document)
  BY <1>1, NodeStarts
<1>3. To(r, Started(g)) \in Lawful(from, document)
  BY <1>2, Commit
<1>4. CASE Preceding(g) \subseteq r.projected
  <2> DEFINE opened == [r EXCEPT !.status = Awaiting[Node(g)], !.gate[Node(g)] = "open",
                                 !.opened[Node(g)] = r.version]
  <2>1. opened \in RowRecord
        /\ GatesInOrder(opened, Started(g)) /\ StatusInOrder(opened, Started(g), document)
    BY <1>1, <1>4, GateOpens
  <2>2. To(opened, Started(g)) \in Lawful(from, document)
    BY <1>2, <2>1, Commit
  <2>3. OpenGate(r, g) = Stretch(<<To(r, Started(g)), To(opened, Started(g))>>, "end")
    BY <1>4 DEF OpenGate
  <2> HIDE DEF opened
  <2>4. QED BY <1>3, <2>2, <2>3, TwoWrites
<1>5. CASE ~(Preceding(g) \subseteq r.projected)
  <2>1. OpenGate(r, g) = Then(<<To(r, Started(g))>>, Fail(r, Started(g)))
    BY <1>5 DEF OpenGate
  <2>2. r.gate["candidate"] \notin {"approve", "reject"}
    <3>1. SUFFICES ASSUME r.gate["candidate"] # "none" PROVE FALSE
      OBVIOUS
    <3>2. PICK n \in 1..g.node : Graph[n].kind = "candidate" /\ n < g.node
      BY <3>1, Statuses DEF GatesInOrder
    <3>3. g.node \in 1..LastNode /\ n \in 1..LastNode /\ n = LastNode
      BY <3>2, PipelineShape DEF GraphRecord
    <3>4. QED BY <3>2, <3>3, PipelineShape
  <2>3. Fail(r, Started(g)).writes \in Seq(Lawful(from, document)) /\ Fail(r, Started(g)).pc = "end"
    BY <1>1, <1>2, <2>2, Failing
  <2>4. QED BY <1>3, <2>1, <2>3, AfterOne
<1>6. QED BY <1>4, <1>5

LEMMA Advancing ==
    ASSUME NEW r \in RowRecord, NEW g \in GraphRecord, NEW document \in Document, NEW from,
           GatesInOrder(r, g), StatusInOrder(r, g, document),
           from.status \in Terminal => r.status \in Terminal,
           g.status = "completed" => r.receipt,
           g.status \in {"failed", "cancelled"} /\ r.status \notin Terminal =>
             r.gate["candidate"] \notin {"approve", "reject"},
           g.status = "running" /\ g.state = "ready" => from.status \notin Terminal
    PROVE  /\ Advance(r, g, document).writes \in Seq(Lawful(from, document))
           /\ Advance(r, g, document).pc \in {"end", "role", "work"}
           /\ GoesOnWith(Advance(r, g, document), r, g)
<1> DEFINE s == Advance(r, g, document)
           IsLawful(x) == /\ x.writes \in Seq(Lawful(from, document))
                          /\ x.pc \in {"end", "role", "work"} /\ GoesOnWith(x, r, g)
<1>1. ASSUME NEW x, x.writes \in Seq(Lawful(from, document)), x.pc = "end" PROVE IsLawful(x)
  BY <1>1 DEF GoesOnWith
<1>2. IsLawful(Nothing)
  <2>1. Nothing.writes \in Seq(Lawful(from, document)) /\ Nothing.pc = "end"
    BY NoWrites DEF Nothing
  <2>2. QED BY <1>1, <2>1
<1>3. CASE g.status = "completed"
  <2>1. CASE ~Published(document)
    BY <1>2, <1>3, <2>1 DEF Advance
  <2>2. CASE Published(document)
    <3> DEFINE completed == [r EXCEPT !.status = "completed"]
    <3>1. s = Stretch(<<To(completed, g)>>, "end")
      BY <1>3, <2>2 DEF Advance
    <3>2. /\ completed \in RowRecord /\ completed.status = "completed" /\ completed.receipt
          /\ completed.gate = r.gate
      BY <1>3, Statuses DEF RowRecord
    <3>3. r.gate["candidate"] = "approve" /\ document \notin Unpublished
      BY <1>3, <2>2 DEF StatusInOrder, GatesInOrder, Published, Unpublished
    <3> HIDE DEF completed
    <3>4. "completed" \in Given /\ \A gate \in Gate : Awaiting[gate] # "completed"
      BY Statuses DEF Given
    <3>5. GatesInOrder(completed, g)
      BY <3>2, <3>3, <3>4 DEF GatesInOrder
    <3>6. StatusInOrder(completed, g, document)
      BY <3>2, <3>3, <3>4 DEF StatusInOrder
    <3>7. To(completed, g) \in Lawful(from, document)
      BY <3>2, <3>5, <3>6, Commit DEF Terminal
    <3>8. s.writes \in Seq(Lawful(from, document)) /\ s.pc = "end"
      BY <3>1, <3>7, OneWrite
    <3>9. QED BY <1>1, <3>8
  <2>3. QED BY <2>1, <2>2
<1>4. CASE g.status \in {"failed", "cancelled"}
  <2>1. CASE r.status \in Terminal
    BY <1>2, <1>4, <2>1 DEF Advance
  <2>2. CASE r.status \notin Terminal
    <3> DEFINE ended == [r EXCEPT !.status = g.status]
    <3>1. s = Stretch(<<To(ended, g)>>, "end")
      BY <1>4, <2>2 DEF Advance
    <3>2. /\ ended \in RowRecord /\ ended.status = g.status
          /\ GatesInOrder(ended, g) /\ StatusInOrder(ended, g, document)
      BY <1>4, <2>2, RowFails
    <3> HIDE DEF ended
    <3>3. To(ended, g) \in Lawful(from, document)
      BY <1>4, <3>2, Commit DEF Terminal
    <3>4. s.writes \in Seq(Lawful(from, document)) /\ s.pc = "end"
      BY <3>1, <3>3, OneWrite
    <3>5. QED BY <1>1, <3>4
  <2>3. QED BY <2>1, <2>2
<1>5. CASE g.status = "running" /\ g.state = "ready"
  <2>1. g.node \in 1..LastNode /\ Node(g) \in Kind
    BY PipelineShape DEF GraphRecord, Node
  <2>2. CASE Node(g) \in {"role", "work"}
    <3>1. s = Stretch(<<To(r, Started(g))>>, Node(g))
      BY <1>5, <2>2 DEF Advance
    <3>2. Node(g) = "work" => document \notin Unpublished
      BY <2>1, PipelineShape DEF StatusInOrder, Node
    <3>3. Started(g) \in GraphRecord
          /\ GatesInOrder(r, Started(g)) /\ StatusInOrder(r, Started(g), document)
      BY <1>5, <2>2, <3>2, NodeStarts
    <3>4. To(r, Started(g)) \in Lawful(from, document)
      BY <3>3, Commit
    <3>5. s.writes \in Seq(Lawful(from, document)) /\ s.pc = Node(g)
          /\ s.writes = <<To(r, Started(g))>>
      BY <3>1, <3>4, OneWrite DEF Stretch
    <3>6. QED BY <1>5, <2>2, <3>5, ShortWrites DEF GoesOnWith
  <2>3. CASE Node(g) \in Gate /\ Published(document)
    <3>1. s = OpenGate(r, g)
      BY <1>5, <2>3 DEF Advance, Gate
    <3>2. s.writes \in Seq(Lawful(from, document)) /\ s.pc = "end"
      BY <1>5, <2>3, <3>1, OpeningGate
    <3>3. QED BY <1>1, <3>2
  <2>4. CASE Node(g) \in Gate /\ ~Published(document)
    <3>1. s = Nothing
      BY <1>5, <2>4 DEF Advance, Gate
    <3>2. QED BY <1>2, <3>1
  <2>5. QED BY <2>1, <2>2, <2>3, <2>4 DEF Kind, Gate
<1>6. CASE g.status = "none" \/ (g.status = "running" /\ g.state # "ready")
  <2>1. s = Nothing
    BY <1>6 DEF Advance
  <2>2. QED BY <1>2, <2>1
<1>7. QED BY <1>3, <1>4, <1>5, <1>6 DEF GraphRecord

-----------------------------------------------------------------------------
(* A task runs a stretch.                                                  *)

AwaitedAt == {"prepare", "role", "work", "apply"}

(* The stretch was run to its end. *)
Completes(t, stretch) ==
    /\ row' = Ends(stretch, row, graph).row /\ graph' = Ends(stretch, row, graph).graph
    /\ lease' = lease \/ lease' = LeaseAfter(row')
    /\ task' = [task EXCEPT ![t] =
           IF stretch.pc = "end" THEN Ended(t)
           ELSE [task[t] EXCEPT !.pc = stretch.pc,
                                !.copy = IF stretch.pc \in {"role", "apply"} THEN row' ELSE <<>>]]
    /\ lane' = [l \in Lane |-> IF stretch.pc # "work" THEN lane[l]
                               ELSE IF l \in Crew(graph') THEN "running" ELSE "idle"]
    /\ up' = up

LEMMA RunsOrDies ==
    ASSUME NEW t \in Tid, NEW stretch, Runs(t, stretch)
    PROVE  LET commits == stretch.writes
               n == Len(commits) IN
           \/ /\ Completes(t, stretch)
              /\ \/ n = 0 /\ row' = row /\ graph' = graph /\ lease' = lease
                 \/ n # 0 /\ row' = commits[n].row /\ graph' = commits[n].graph
                    /\ lease' = LeaseAfter(commits[n].row)
           \/ /\ up' = FALSE /\ UNCHANGED <<lease, task, lane>>
              /\ \E k \in 1..(n - 1) : row' = commits[k].row /\ graph' = commits[k].graph
<1> DEFINE commits == stretch.writes
           n == Len(commits)
           Dies == /\ up' = FALSE /\ UNCHANGED <<lease, task, lane>>
                   /\ \E k \in 1..(n - 1) : row' = commits[k].row /\ graph' = commits[k].graph
           Ran == /\ row' = IF n = 0 THEN row ELSE commits[n].row
                  /\ graph' = IF n = 0 THEN graph ELSE commits[n].graph
                  /\ lease' = IF n = 0 THEN lease ELSE LeaseAfter(commits[n].row)
                  /\ task' = [task EXCEPT ![t] =
                       IF stretch.pc = "end" THEN Ended(t)
                       ELSE [task[t] EXCEPT !.pc = stretch.pc,
                              !.copy = IF stretch.pc \in {"role", "apply"} THEN row' ELSE NoTask.copy]]
                  /\ lane' = [l \in Lane |-> IF stretch.pc # "work" THEN lane[l]
                                             ELSE IF l \in Crew(graph') THEN "running" ELSE "idle"]
                  /\ UNCHANGED env
<1>1. Ran \/ Dies
  BY Zenon DEF Runs
<1>2. ASSUME Ran
      PROVE  /\ Completes(t, stretch)
             /\ \/ n = 0 /\ row' = row /\ graph' = graph /\ lease' = lease
                \/ n # 0 /\ row' = commits[n].row /\ graph' = commits[n].graph
                   /\ lease' = LeaseAfter(commits[n].row)
  <2>1. NoTask.copy = <<>> /\ up' = up
    BY <1>2 DEF NoTask, env
  <2>2. row' = Ends(stretch, row, graph).row /\ graph' = Ends(stretch, row, graph).graph
    BY <1>2 DEF Ends, To
  <2>3. lease' = lease \/ lease' = LeaseAfter(row')
    BY <1>2
  <2>4. Completes(t, stretch)
    BY <1>2, <2>1, <2>2, <2>3 DEF Completes
  <2>5. QED BY <1>2, <2>4
<1>3. QED BY <1>1, <1>2

(* The row keeps its order, whether the stretch ends or the process dies in it. *)
LEMMA RunsKeepRow ==
    ASSUME Typed, RowInOrder, NEW t \in Tid, NEW stretch, Runs(t, stretch),
           stretch.writes \in Seq(Lawful(row, publication')),
           StatusInOrder(row, graph, publication')
    PROVE  /\ RowInOrder' /\ row' \in RowRecord /\ graph' \in GraphRecord
           /\ lease' \in {"self", "rival", "none"} /\ up' \in BOOLEAN
<1> DEFINE commits == stretch.writes
           n == Len(commits)
<1>1. n \in Nat /\ \A k \in 1..n : commits[k] \in Lawful(row, publication')
  BY LenProperties
<1>2. /\ row \in RowRecord /\ graph \in GraphRecord /\ up \in BOOLEAN
      /\ lease \in {"self", "rival", "none"}
  BY DEF Typed
<1>3. GatesInOrder(row, graph) /\ (row.status \notin Terminal => lease = "self")
  BY DEF RowInOrder
<1>4. ASSUME NEW c \in Lawful(row, publication'), row' = c.row, graph' = c.graph,
             lease' = lease \/ lease' = LeaseAfter(c.row)
      PROVE  RowInOrder' /\ row' \in RowRecord /\ graph' \in GraphRecord
             /\ lease' \in {"self", "rival", "none"}
  <2>1. /\ row' \in RowRecord /\ graph' \in GraphRecord
        /\ GatesInOrder(row', graph') /\ StatusInOrder(row', graph', publication')
        /\ row.status \in Terminal => row'.status \in Terminal
    BY <1>4 DEF Lawful
  <2>2. lease' \in {lease, "none"}
    BY <1>4 DEF LeaseAfter
  <2>3. row'.status \notin Terminal => lease' = "self"
    BY <1>3, <1>4, <2>1 DEF LeaseAfter
  <2>4. QED BY <1>2, <2>1, <2>2, <2>3 DEF RowInOrder
<1>5. up' \in BOOLEAN
  BY <1>2, RunsOrDies DEF Completes
<1>6. CASE n = 0 /\ row' = row /\ graph' = graph /\ lease' = lease
  BY <1>2, <1>3, <1>5, <1>6 DEF RowInOrder
<1>7. CASE n # 0 /\ row' = commits[n].row /\ graph' = commits[n].graph
           /\ lease' = LeaseAfter(commits[n].row)
  <2>1. n \in 1..n
    BY <1>1, <1>7
  <2>2. QED BY <1>1, <1>4, <1>5, <1>7, <2>1
<1>8. CASE /\ up' = FALSE /\ lease' = lease
           /\ \E k \in 1..(n - 1) : row' = commits[k].row /\ graph' = commits[k].graph
  <2>1. PICK k \in 1..(n - 1) : row' = commits[k].row /\ graph' = commits[k].graph
    BY <1>8
  <2>2. commits[k] \in Lawful(row, publication')
    BY <1>1
  <2>3. QED BY <1>4, <1>5, <1>8, <2>1, <2>2
<1>9. QED BY <1>6, <1>7, <1>8, RunsOrDies

(* What the task finds when it goes on from where the stretch has led it. *)
NextInOrder(t, pc, r, g, document) ==
    /\ pc = "prepare" => task[t].what \in {"prepare", "boot"} /\ g.status = "none"
    /\ pc = "role" =>
         /\ task[t].what \in {"prepare", "advance", "boot", "none"}
         /\ Node(g) = "role" /\ g.state = "running"
         /\ \A gate \in Gate : r.gate[gate] = "none"
         /\ ~r.receipt
         /\ task[t].what = "none" =>
              /\ document \in {"pending", "failed", "published"}
              /\ r.status \in Terminal => g.status # "running"
         /\ task[t].what # "none" => r.status \notin GivenUp /\ g.status = "running"
    /\ pc = "work" =>
         /\ task[t].what \in {"plan", "design", "boot"}
         /\ Node(g) = "work" /\ g.state = "running" /\ r.status \notin GivenUp
    /\ pc = "apply" => task[t].what \in {"candidate", "boot"} /\ r.status = "applying"

(* The record of the task that ran. *)
LEMMA RanTask ==
    ASSUME Typed, NEW t \in Tid, NEW stretch, Completes(t, stretch), row' \in RowRecord,
           stretch.pc \in AwaitedAt \cup {"end"}
    PROVE  /\ \A s \in Tid \ {t} : task'[s] = task[s]
           /\ stretch.pc = "end" => task'[t] = Ended(t)
           /\ stretch.pc # "end" =>
                /\ task'[t].pc = stretch.pc /\ task'[t].what = task[t].what
                /\ task'[t].asked = task[t].asked /\ task'[t].decision = task[t].decision
                /\ stretch.pc \in {"role", "apply"} => task'[t].copy = row'
           /\ task' \in [Tid -> TaskRecord]
           /\ \A s \in Tid : task'[s].pc \in {"role", "apply"} => task'[s].copy \in RowRecord
<1> DEFINE next == [task[t] EXCEPT !.pc = stretch.pc,
                       !.copy = IF stretch.pc \in {"role", "apply"} THEN row' ELSE <<>>]
<1>1. task \in [Tid -> TaskRecord] /\ task[t] \in TaskRecord
      /\ \A s \in Tid : task[s].pc \in {"role", "apply"} => task[s].copy \in RowRecord
  BY DEF Typed
<1>2. task' = [task EXCEPT ![t] = IF stretch.pc = "end" THEN Ended(t) ELSE next]
  BY DEF Completes
<1>3. (IF stretch.pc \in {"role", "apply"} THEN row' ELSE <<>>) \in RowRecord \cup {<<>>}
  OBVIOUS
<1>4. stretch.pc # "end" =>
        /\ next \in TaskRecord /\ next.pc = stretch.pc /\ next.what = task[t].what
        /\ next.asked = task[t].asked /\ next.decision = task[t].decision
        /\ stretch.pc \in {"role", "apply"} => next.copy = row'
  BY <1>1, <1>3 DEF TaskRecord, AwaitedAt
<1>5. Ended(t) \in TaskRecord /\ Ended(t).pc \in {"returned", "free"}
  <2>1. NoTask \in TaskRecord /\ NoTask.pc = "free"
    BY DEF NoTask, TaskRecord
  <2>2. [task[t] EXCEPT !.pc = "returned"] \in TaskRecord
        /\ [task[t] EXCEPT !.pc = "returned"].pc = "returned"
    BY <1>1 DEF TaskRecord
  <2>3. QED BY <2>1, <2>2 DEF Ended
<1> HIDE DEF next
<1>6. \A s \in Tid \ {t} : task'[s] = task[s]
  BY <1>1, <1>2
<1>7. task'[t] = IF stretch.pc = "end" THEN Ended(t) ELSE next
  BY <1>1, <1>2
<1>8. task' \in [Tid -> TaskRecord]
  BY <1>1, <1>2, <1>4, <1>5
<1>9. \A s \in Tid : task'[s].pc \in {"role", "apply"} => task'[s].copy \in RowRecord
  BY <1>1, <1>4, <1>5, <1>6, <1>7
<1>10. QED BY <1>4, <1>6, <1>7, <1>8, <1>9

(* A task that is over is a stranger to everything but the registry. *)
LEMMA OverIsIdle ==
    ASSUME Typed, NEW t \in Tid, KindsInOrder(t)
    PROVE  /\ Ended(t).pc \in {"returned", "free"}
           /\ Ended(t) = NoTask \/ (Scheduled(t) /\ Ended(t).pc = "returned")
           /\ Scheduled(t) => /\ Ended(t).what = task[t].what
                              /\ Ended(t).decision = task[t].decision
           /\ NoTask.pc = "free" /\ NoTask.what = "none" /\ ~NoTask.asked
           /\ NoTask.decision = "none"
<1>1. task[t] \in TaskRecord
  BY DEF Typed
<1>2. /\ NoTask.pc = "free" /\ NoTask.what = "none" /\ NoTask.asked = FALSE
      /\ NoTask.decision = "none"
  BY DEF NoTask
<1>3. /\ [task[t] EXCEPT !.pc = "returned"].pc = "returned"
      /\ [task[t] EXCEPT !.pc = "returned"].what = task[t].what
      /\ [task[t] EXCEPT !.pc = "returned"].decision = task[t].decision
  BY <1>1 DEF TaskRecord
<1>4. QED BY <1>2, <1>3 DEF Ended

Inv == Typed /\ DeliveryInv

(* A task runs a stretch that the row allows, nobody else drives unless the task
   ends and leaves the other what it counts on, and it goes on in order. *)
LEMMA TaskRuns ==
    ASSUME Inv, up, NEW t \in Tid, NEW stretch, Runs(t, stretch),
           stretch.writes \in Seq(Lawful(row, publication')),
           StatusInOrder(row, graph, publication'), publication' \in Document,
           registry' = registry,
           stretch.pc \in AwaitedAt \cup {"end"},
           \A s \in Tid \ {t} : Driving(s) =>
             /\ stretch.pc = "end"
             /\ Completes(t, stretch) => DriverInOrder(s)',
           Booting => t = 1,
           task[t].pc # "returned",
           task[t].pc = "work" => \A l \in Lane : lane[l] \notin {"running", "stopping"},
           stretch.pc # "end" =>
             /\ ~task[t].asked
             /\ LET last == Ends(stretch, row, graph) IN
                NextInOrder(t, stretch.pc, last.row, last.graph, publication')
    PROVE  Inv'
<1> USE DEF Inv
<1>1. Typed /\ RowInOrder /\ TasksInOrder
  BY DEF DeliveryInv
<1>2. /\ RowInOrder' /\ row' \in RowRecord /\ graph' \in GraphRecord
      /\ lease' \in {"self", "rival", "none"} /\ up' \in BOOLEAN
  BY <1>1, RunsKeepRow
<1>3. CASE up' = FALSE /\ UNCHANGED <<lease, task, lane>>
  <2>1. Typed'
    BY <1>1, <1>2, <1>3 DEF Typed
  <2>2. QED BY <1>2, <1>3, <2>1 DEF DeliveryInv
<1>4. CASE Completes(t, stretch)
  <2>1. /\ \A s \in Tid \ {t} : task'[s] = task[s]
        /\ stretch.pc = "end" => task'[t] = Ended(t)
        /\ stretch.pc # "end" =>
             /\ task'[t].pc = stretch.pc /\ task'[t].what = task[t].what
             /\ task'[t].asked = task[t].asked /\ task'[t].decision = task[t].decision
             /\ stretch.pc \in {"role", "apply"} => task'[t].copy = row'
        /\ task' \in [Tid -> TaskRecord]
        /\ \A s \in Tid : task'[s].pc \in {"role", "apply"} => task'[s].copy \in RowRecord
    BY <1>1, <1>2, <1>4, RanTask
  <2>2. lane \in [Lane -> {"idle", "running", "stopping", "done", "failed", "stopped"}]
    BY <1>1 DEF Typed
  <2>3. lane' = [l \in Lane |-> IF stretch.pc # "work" THEN lane[l]
                                ELSE IF l \in Crew(graph') THEN "running" ELSE "idle"]
    BY <1>4 DEF Completes
  <2>4. Typed'
    <3>1. lane' \in [Lane -> {"idle", "running", "stopping", "done", "failed", "stopped"}]
      BY <2>2, <2>3
    <3>2. registry' \in Tid \cup {0}
      BY <1>1 DEF Typed
    <3>3. QED BY <1>2, <2>1, <3>1, <3>2 DEF Typed
  <2>5. /\ Ended(t).pc \in {"returned", "free"}
        /\ Ended(t) = NoTask \/ (Scheduled(t) /\ Ended(t).pc = "returned")
        /\ Scheduled(t) => /\ Ended(t).what = task[t].what
                           /\ Ended(t).decision = task[t].decision
        /\ NoTask.pc = "free" /\ NoTask.what = "none" /\ ~NoTask.asked
        /\ NoTask.decision = "none"
    BY <1>1, OverIsIdle DEF TasksInOrder
  <2>6. \A s \in Tid \ {t} : (Driving(s)' <=> Driving(s)) /\ (Scheduled(s)' <=> Scheduled(s))
    BY <2>1 DEF Driving, Scheduled
  <2>7. Driving(t)' => stretch.pc # "end"
    BY <2>1, <2>5 DEF Driving
  <2>8. ASSUME NEW s \in Tid PROVE KindsInOrder(s)'
    <3>1. CASE s # t
      <4>1. task'[s] = task[s] /\ (Scheduled(s)' <=> Scheduled(s))
        BY <2>1, <2>6, <3>1
      <4>2. KindsInOrder(s)
        BY <1>1 DEF TasksInOrder
      <4>3. QED BY <4>1, <4>2 DEF KindsInOrder
    <3>2. CASE s = t /\ stretch.pc = "end"
      <4>1. task'[t] = Ended(t) /\ KindsInOrder(t)
        BY <1>1, <2>1, <3>2 DEF TasksInOrder
      <4>2. CASE Ended(t) = NoTask
        <5>1. ~Scheduled(t)
          <6>1. Scheduled(t) => Ended(t).what # "none"
            BY <2>5 DEF Scheduled, Gate
          <6>2. QED BY <2>5, <4>2, <6>1
        <5>2. ~Scheduled(t)' /\ task'[t].what \notin Gate
          BY <2>5, <4>1, <4>2 DEF Scheduled, Gate
        <5>3. QED BY <2>5, <3>2, <4>1, <4>2, <5>1, <5>2 DEF KindsInOrder
      <4>3. CASE Scheduled(t) /\ Ended(t).pc = "returned"
        <5>1. Scheduled(t)' /\ task'[t].pc = "returned" /\ task'[t].what = task[t].what
              /\ task'[t].decision = task[t].decision
          BY <2>5, <4>1, <4>3 DEF Scheduled
        <5>2. task'[t].what \notin {"none", "cancel", "boot"}
          BY <5>1 DEF Scheduled, Gate
        <5>3. QED BY <3>2, <4>1, <4>3, <5>1, <5>2 DEF KindsInOrder
      <4>4. QED BY <2>5, <4>2, <4>3
    <3>3. CASE s = t /\ stretch.pc # "end"
      <4>1. KindsInOrder(t) /\ ~task[t].asked
        BY <1>1, <3>3 DEF TasksInOrder
      <4>2. /\ task'[t].pc = stretch.pc /\ task'[t].what = task[t].what
            /\ ~task'[t].asked /\ task'[t].decision = task[t].decision
            /\ (Scheduled(t)' <=> Scheduled(t))
        BY <2>1, <3>3, <4>1 DEF Scheduled
      <4>3. /\ stretch.pc = "prepare" => task[t].what \in {"prepare", "boot"}
            /\ stretch.pc = "role" => task[t].what \in {"prepare", "advance", "boot", "none"}
            /\ stretch.pc = "work" => task[t].what \in {"plan", "design", "boot"}
            /\ stretch.pc = "apply" => task[t].what \in {"candidate", "boot"}
        BY <3>3 DEF NextInOrder
      <4>4. stretch.pc \in AwaitedAt /\ stretch.pc \notin {"free", "returned", "start", "recover"}
        BY <3>3 DEF AwaitedAt
      <4>5. task[t].what # "cancel"
        BY <4>3, <4>4 DEF AwaitedAt
      <4>6. task[t].what = "none" => stretch.pc = "role"
        BY <4>3, <4>4 DEF AwaitedAt
      <4>7. QED BY <3>3, <4>1, <4>2, <4>3, <4>4, <4>5, <4>6 DEF KindsInOrder, AwaitedAt
    <3>4. QED BY <3>1, <3>2, <3>3
  <2>9. ASSUME NEW s \in Tid PROVE DriverInOrder(s)'
    <3>1. CASE s # t /\ Driving(s)
      BY <1>4, <3>1
    <3>2. CASE ~Driving(s)'
      BY <3>2 DEF DriverInOrder, Driving
    <3>3. CASE s = t /\ stretch.pc # "end"
      <4>1. /\ row' = Ends(stretch, row, graph).row /\ graph' = Ends(stretch, row, graph).graph
        BY <1>4 DEF Completes
      <4>2. NextInOrder(t, stretch.pc, row', graph', publication')
        BY <3>3, <4>1
      <4>3. /\ task'[t].pc = stretch.pc /\ task'[t].what = task[t].what
            /\ stretch.pc \in {"role", "apply"} => task'[t].copy = row'
            /\ stretch.pc # "start"
        BY <2>1, <3>3 DEF AwaitedAt
      <4>4. QED BY <3>3, <4>2, <4>3 DEF NextInOrder, DriverInOrder
    <3>4. QED BY <2>6, <2>7, <3>1, <3>2, <3>3
  <2>10. OneDrives'
    BY <1>1, <2>6, <2>7 DEF OneDrives, TasksInOrder
  <2>11. BootsAlone'
    <3>1. SUFFICES ASSUME Booting', NEW s \in Tid \ {1} PROVE task'[s] = NoTask
      BY DEF BootsAlone
    <3>2. PICK u \in Tid : task'[u].what = "boot"
      BY <3>1 DEF Booting
    <3>3. task[u].what = "boot"
      BY <2>1, <2>5, <3>2
    <3>4. Booting
      BY <3>3 DEF Booting
    <3>5. QED BY <1>1, <2>1, <3>4 DEF BootsAlone, TasksInOrder
  <2>12. CancelAsks'
    <3>1. SUFFICES ASSUME NEW s \in Tid, NEW u \in Tid,
                          task'[s].what \in {"prepare", "advance"}, ~task'[s].asked,
                          task'[s].pc # "returned", task'[u].what = "cancel"
                   PROVE  FALSE
      BY DEF CancelAsks
    <3>2. task[u].what = "cancel"
      BY <2>1, <2>5, <3>1
    <3>3. task[s].what \in {"prepare", "advance"} /\ ~task[s].asked /\ task[s].pc # "returned"
      BY <2>1, <2>5, <3>1
    <3>4. QED BY <1>1, <3>2, <3>3 DEF CancelAsks, TasksInOrder
  <2>13. LanesInOrder'
    <3>1. CASE stretch.pc = "work"
      <4>1. task'[t].pc = "work" /\ ~task'[t].asked
        BY <2>1, <3>1
      <4>2. QED BY <4>1 DEF LanesInOrder
    <3>2. CASE stretch.pc # "work"
      <4>1. lane' = lane
        BY <2>2, <2>3, <3>2
      <4>2. task[t].pc = "work" => LanesInOrder'
        BY <4>1 DEF LanesInOrder
      <4>3. task[t].pc # "work" => \A s \in Tid : task[s].pc = "work" => task'[s] = task[s]
        BY <2>1
      <4>4. QED BY <1>1, <4>1, <4>2, <4>3 DEF LanesInOrder, TasksInOrder
    <3>3. QED BY <3>1, <3>2
  <2>14. QED
    BY <1>2, <2>4, <2>8, <2>9, <2>10, <2>11, <2>12, <2>13 DEF DeliveryInv, TasksInOrder
<1>5. QED BY <1>3, <1>4, RunsOrDies

-----------------------------------------------------------------------------
(* The stretches of the handlers.                                          *)

(* Before the plan gate is open no gate has been, and nothing is released. *)
LEMMA EarlyGates ==
    ASSUME NEW r \in RowRecord, NEW g \in GraphRecord, NEW document,
           GatesInOrder(r, g), StatusInOrder(r, g, document),
           g.node < PlanAt \/ (g.node = PlanAt /\ g.state = "ready")
    PROVE  (\A gate \in Gate : r.gate[gate] = "none") /\ ~r.receipt
<1>1. ASSUME NEW gate \in Gate, r.gate[gate] # "none" PROVE FALSE
  <2>1. PICK n \in 1..g.node : Graph[n].kind = gate /\ (n < g.node \/ g.state # "ready")
    BY <1>1 DEF GatesInOrder
  <2>2. g.node \in 1..LastNode /\ n \in 1..LastNode /\ n < PlanAt
    BY <2>1, PipelineShape DEF GraphRecord
  <2>3. Graph[n].kind = "role"
    BY <2>2, PipelineShape
  <2>4. QED BY <2>1, <2>3 DEF Gate
<1>2. r.gate["candidate"] = "none" /\ "candidate" \in Gate
  BY <1>1, Statuses
<1>3. ~r.receipt
  BY <1>2 DEF GatesInOrder, StatusInOrder
<1>4. QED BY <1>1, <1>3

(* A decided candidate is at the last node. *)
LEMMA CandidateIsLast ==
    ASSUME NEW r, NEW g \in GraphRecord, GatesInOrder(r, g), r.gate["candidate"] # "none"
    PROVE  g.node = LastNode /\ g.state # "ready" /\ Node(g) = "candidate"
<1>1. PICK n \in 1..g.node : Graph[n].kind = "candidate" /\ (n < g.node \/ g.state # "ready")
  BY Statuses DEF GatesInOrder
<1>2. g.node \in 1..LastNode /\ n \in 1..LastNode /\ n = LastNode
  BY <1>1, PipelineShape DEF GraphRecord
<1>3. QED BY <1>1, <1>2, PipelineShape DEF Node

(* Where the nodes of each kind are. *)
LEMMA NodeKinds ==
    ASSUME NEW g \in GraphRecord
    PROVE  /\ g.node \in 1..LastNode /\ Node(g) \in Kind
           /\ Node(g) = "role" <=> g.node < PlanAt
           /\ Node(g) = "plan" <=> g.node = PlanAt
           /\ Node(g) \in {"work", "design"} => g.node > PlanAt /\ g.node < LastNode
           /\ Node(g) = "candidate" <=> g.node = LastNode
<1>1. g.node \in 1..LastNode
  BY DEF GraphRecord
<1>2. QED BY <1>1, PipelineShape DEF Node, Kind

(* A stretch that ends in advance() with this row and run, by its commits. *)
Advances(s, r, g, document) ==
    /\ s.writes \in Seq(Lawful(row, document)) /\ s.pc \in {"end", "role", "work"}
    /\ s.pc # "end" => /\ s.pc = Node(g) /\ g.status = "running" /\ g.state = "ready"
                       /\ Ends(s, row, graph) = To(r, Started(g))

(* Row and run as advance() may find them. *)
MayAdvance(r, g, document) ==
    /\ r \in RowRecord /\ g \in GraphRecord /\ document \in Document
    /\ GatesInOrder(r, g) /\ StatusInOrder(r, g, document)
    /\ row.status \in Terminal => r.status \in Terminal
    /\ g.status = "completed" => r.receipt
    /\ g.status \in {"failed", "cancelled"} /\ r.status \notin Terminal =>
         r.gate["candidate"] \notin {"approve", "reject"}
    /\ g.status = "running" /\ g.state = "ready" => row.status \notin Terminal

LEMMA AdvancesNow ==
    ASSUME NEW r, NEW g, NEW document, MayAdvance(r, g, document)
    PROVE  Advances(Advance(r, g, document), r, g, document)
<1> DEFINE S == Lawful(row, document)
           next == Advance(r, g, document)
<1>1. next.writes \in Seq(S) /\ next.pc \in {"end", "role", "work"} /\ GoesOnWith(next, r, g)
  BY Advancing DEF MayAdvance
<1> HIDE DEF next
<1>2. Advances(next, r, g, document)
  BY <1>1 DEF Advances, GoesOnWith, Ends
<1>3. QED BY <1>2 DEF next

LEMMA AdvancesAfterOne ==
    ASSUME NEW r, NEW g, NEW document, MayAdvance(r, g, document),
           NEW a \in Lawful(row, document)
    PROVE  Advances(Then(<<a>>, Advance(r, g, document)), r, g, document)
<1> DEFINE S == Lawful(row, document)
           next == Advance(r, g, document)
           s == Then(<<a>>, next)
<1>1. next.writes \in Seq(S) /\ next.pc \in {"end", "role", "work"} /\ GoesOnWith(next, r, g)
  BY Advancing DEF MayAdvance
<1> HIDE DEF next, S
<1>2. /\ s.writes \in Seq(S) /\ s.pc = next.pc
      /\ Ends(s, row, graph) = IF Len(next.writes) = 0 THEN a ELSE next.writes[Len(next.writes)]
  BY <1>1, AfterOne DEF S
<1> HIDE DEF s
<1>3. Advances(s, r, g, document)
  BY <1>1, <1>2 DEF Advances, GoesOnWith, S
<1>4. QED BY <1>3 DEF s, next

LEMMA AdvancesAfterTwo ==
    ASSUME NEW r, NEW g, NEW document, MayAdvance(r, g, document),
           NEW a \in Lawful(row, document), NEW b \in Lawful(row, document)
    PROVE  Advances(Then(<<a, b>>, Advance(r, g, document)), r, g, document)
<1> DEFINE S == Lawful(row, document)
           next == Advance(r, g, document)
           s == Then(<<a, b>>, next)
<1>1. next.writes \in Seq(S) /\ next.pc \in {"end", "role", "work"} /\ GoesOnWith(next, r, g)
  BY Advancing DEF MayAdvance
<1> HIDE DEF next, S
<1>2. /\ s.writes \in Seq(S) /\ s.pc = next.pc
      /\ Ends(s, row, graph) = IF Len(next.writes) = 0 THEN b ELSE next.writes[Len(next.writes)]
  BY <1>1, AfterTwo DEF S
<1> HIDE DEF s
<1>3. Advances(s, r, g, document)
  BY <1>1, <1>2 DEF Advances, GoesOnWith, S
<1>4. QED BY <1>3 DEF s, next

(* A row that is given a status and a version. *)
LEMMA RowMoves ==
    ASSUME NEW r \in RowRecord, NEW status \in Status
    PROVE  LET moved == [r EXCEPT !.status = status, !.version = @ + 1] IN
           /\ moved \in RowRecord /\ moved.status = status /\ moved.gate = r.gate
           /\ moved.receipt = r.receipt /\ moved.projected = r.projected
<1>1. r.version + 1 \in Nat
  BY DEF RowRecord
<1>2. QED BY <1>1 DEF RowRecord

(* _save_failed keeps the order. *)
LEMMA SavingFailed ==
    ASSUME NEW r \in RowRecord, NEW g \in GraphRecord, NEW document \in Document, NEW from,
           GatesInOrder(r, g), StatusInOrder(r, g, document),
           from.status \in Terminal => r.status \in Terminal,
           document \in Unpublished => ~(g.status = "running" /\ g.state = "ready")
    PROVE  To(SaveFailed(r), g) \in Lawful(from, document)
<1> DEFINE failed == [r EXCEPT !.status = "failed"]
<1>1. CASE r.status \in Terminal \cup Protected
  <2>1. SaveFailed(r) = r
    BY <1>1 DEF SaveFailed, RowRecord
  <2>2. QED BY <2>1, Commit
<1>2. CASE r.status \notin Terminal \cup Protected
  <2>1. SaveFailed(r) = failed
    BY <1>2 DEF SaveFailed
  <2>2. r.gate["candidate"] \notin {"approve", "reject"}
    BY <1>2 DEF GatesInOrder, Given, Terminal, Protected
  <2>3. failed \in RowRecord /\ failed.status = "failed"
        /\ GatesInOrder(failed, g) /\ StatusInOrder(failed, g, document)
    BY <2>2, RowFails
  <2> HIDE DEF failed
  <2>4. QED BY <2>1, <2>3, Commit DEF Terminal
<1>3. QED BY <1>1, <1>2

(* _finish_cancellation keeps the order: what still runs is cancelled, and the
   row ends as its gate says. *)
LEMMA Finishing ==
    ASSUME NEW r \in RowRecord, NEW g \in GraphRecord, NEW document \in Document, NEW from,
           GatesInOrder(r, g), StatusInOrder(r, g, document),
           from.status \in Terminal => r.status \in Terminal
    PROVE  /\ Finish(r, g).writes \in Seq(Lawful(from, document)) /\ Finish(r, g).pc = "end"
           /\ Ends(Finish(r, g), row, graph).graph = Cancelled(g)
           /\ r.status # "cancelling" => Ends(Finish(r, g), row, graph).row = r
           /\ Ends(Finish(r, g), row, graph).row.gate = r.gate
<1> DEFINE verdict == IF r.gate["candidate"] = "reject" THEN "rejected" ELSE "cancelled"
           ended == [r EXCEPT !.status = verdict]
<1>1. Cancelled(g) \in GraphRecord /\ Cancelled(g).status # "running"
      /\ GatesInOrder(r, Cancelled(g)) /\ StatusInOrder(r, Cancelled(g), document)
  BY GraphMoves, GraphStatusChanges
<1>2. To(r, Cancelled(g)) \in Lawful(from, document)
      /\ To(r, Cancelled(g)).graph = Cancelled(g) /\ To(r, Cancelled(g)).row = r
  BY <1>1, Commit DEF To
<1>3. CASE r.status # "cancelling"
  <2>1. Finish(r, g) = Stretch(<<To(r, Cancelled(g))>>, "end")
    BY <1>3 DEF Finish
  <2>2. QED BY <1>2, <1>3, <2>1, OneWrite
<1>4. CASE r.status = "cancelling"
  <2>1. Finish(r, g) = Stretch(<<To(r, Cancelled(g)), To(ended, Cancelled(g))>>, "end")
    BY <1>4 DEF Finish
  <2>2. /\ ended \in RowRecord /\ ended.status = verdict /\ ended.gate = r.gate
        /\ ended.receipt = r.receipt /\ ended.projected = r.projected
    BY Statuses DEF RowRecord
  <2>3. /\ verdict \in {"rejected", "cancelled"}
        /\ verdict \notin Given /\ verdict # "preparing_context"
        /\ \A gate \in Gate : verdict # Awaiting[gate]
    BY Statuses DEF Given, GivenUp, Terminal
  <2>4. r.gate["candidate"] # "approve" /\ ~r.receipt
    BY <1>4 DEF GatesInOrder, StatusInOrder, Given
  <2>5. r.gate["candidate"] = "reject" => verdict = "rejected"
    OBVIOUS
  <2> HIDE DEF ended, verdict
  <2>6. GatesInOrder(ended, Cancelled(g))
    BY <1>1, <2>2, <2>3, <2>4, <2>5 DEF GatesInOrder
  <2>7. StatusInOrder(ended, Cancelled(g), document)
    BY <1>1, <2>2, <2>3, <2>4 DEF StatusInOrder, Given
  <2>8. To(ended, Cancelled(g)) \in Lawful(from, document)
        /\ To(ended, Cancelled(g)).graph = Cancelled(g) /\ To(ended, Cancelled(g)).row = ended
    BY <1>1, <2>2, <2>3, <2>6, <2>7, Commit DEF Terminal, To
  <2>9. QED BY <1>2, <1>4, <2>1, <2>2, <2>8, TwoWrites
<1>5. QED BY <1>3, <1>4

(* The release is recorded, and the gate of the candidate succeeds. *)
LEMMA Closing ==
    ASSUME NEW g \in GraphRecord, publication \in Document, NEW from \in RowRecord,
           GatesInOrder(from, g), StatusInOrder(from, g, publication),
           from.status \in {"applying", "needs_attention"},
           row.status \notin Terminal
    PROVE  /\ Close(Released(from), g).writes \in Seq(Lawful(row, publication))
           /\ Close(Released(from), g).pc = "end"
<1> DEFINE r == Released(from)
           S == Lawful(row, publication)
<1>1. /\ r \in RowRecord /\ r.gate = from.gate /\ r.receipt /\ r.status \in Given
      /\ r.projected = from.projected
  BY Statuses DEF Released, RowRecord, Given
<1>2. from.gate["candidate"] = "approve"
  BY DEF GatesInOrder, Given
<1>3. g.node = LastNode /\ g.state # "ready" /\ LastNode > PlanAt /\ g.status # "none"
  BY <1>2, CandidateIsLast, PipelineShape DEF StatusInOrder, NoGraph
<1>4. publication \notin Unpublished
  BY <1>3, PipelineShape DEF StatusInOrder
<1>5. r.status # "preparing_context" /\ \A gate \in Gate : r.status # Awaiting[gate]
  BY <1>1, Statuses DEF Given
<1>6. from.gate["plan"] = "approve"
  BY <1>3 DEF GatesInOrder
<1> HIDE DEF r
<1>7. ASSUME NEW h \in GraphRecord, h.node = LastNode, h.state # "ready", h.status # "none"
      PROVE  GatesInOrder(r, h) /\ StatusInOrder(r, h, publication)
  <2>1. \A gate \in Gate : r.gate[gate] # "none" =>
          \E n \in 1..h.node : Graph[n].kind = gate /\ (n < h.node \/ h.state # "ready")
    BY <1>1, <1>3, <1>7 DEF GatesInOrder
  <2>2. GatesInOrder(r, h)
    BY <1>1, <1>2, <1>5, <1>6, <2>1 DEF GatesInOrder
  <2>3. StatusInOrder(r, h, publication)
    BY <1>1, <1>4, <1>5, <1>7 DEF StatusInOrder
  <2>4. QED BY <2>2, <2>3
<1>8. To(r, g) \in S
  BY <1>1, <1>3, <1>7, Commit
<1>9. CASE ~NodeRuns(g)
  <2>1. Close(r, g) = Then(<<To(r, g)>>, Nothing)
    BY <1>9 DEF Close
  <2>2. Nothing.writes \in Seq(S) /\ Nothing.pc = "end"
    BY NoWrites DEF Nothing
  <2> HIDE DEF S
  <2>3. Close(r, g).writes \in Seq(S) /\ Close(r, g).pc = "end"
    BY <1>8, <2>1, <2>2, AfterOne
  <2>4. QED BY <2>3 DEF S, r
<1>10. CASE NodeRuns(g)
  <2> DEFINE h == Succeeded(g)
             next == Advance(r, h, publication)
             last == Then(<<To(r, h)>>, next)
  <2>1. h \in GraphRecord /\ h.node = LastNode /\ h.state = "done" /\ h.status = "completed"
    BY <1>3, GraphMoves
  <2>2. GatesInOrder(r, h) /\ StatusInOrder(r, h, publication)
    BY <1>7, <2>1
  <2>3. To(r, h) \in S
    BY <1>1, <2>1, <2>2, Commit
  <2>4. next.writes \in Seq(S) /\ next.pc = "end"
    <3>1. next.writes \in Seq(S) /\ next.pc \in {"end", "role", "work"} /\ GoesOnWith(next, r, h)
      BY <1>1, <2>1, <2>2, Advancing
    <3>2. QED BY <2>1, <3>1 DEF GoesOnWith
  <2>5. Close(r, g) = Then(<<To(r, g)>>, last)
    BY <1>10 DEF Close
  <2> HIDE DEF S, h, next
  <2>6. last.writes \in Seq(S) /\ last.pc = "end"
    BY <2>3, <2>4, AfterOne
  <2> HIDE DEF last
  <2>7. Close(r, g).writes \in Seq(S) /\ Close(r, g).pc = "end"
    BY <1>8, <2>5, <2>6, AfterOne
  <2>8. QED BY <2>7 DEF S, r
<1>11. QED BY <1>9, <1>10

(* What the invariant says of rows and tasks while the process lives. *)
LEMMA Facts ==
    ASSUME Inv
    PROVE  /\ row \in RowRecord /\ graph \in GraphRecord /\ publication \in Document
           /\ lease \in {"self", "rival", "none"} /\ registry \in Tid \cup {0}
           /\ task \in [Tid -> TaskRecord] /\ up \in BOOLEAN
           /\ lane \in [Lane -> {"idle", "running", "stopping", "done", "failed", "stopped"}]
           /\ GatesInOrder(row, graph) /\ StatusInOrder(row, graph, publication)
           /\ row.status \notin Terminal => lease = "self"
           /\ up => /\ \A t \in Tid : KindsInOrder(t) /\ DriverInOrder(t)
                    /\ OneDrives /\ BootsAlone /\ CancelAsks /\ LanesInOrder
BY DEF Inv, Typed, DeliveryInv, RowInOrder, TasksInOrder

(* The task that drives runs a stretch. *)
LEMMA DriverRuns ==
    ASSUME Inv, up, NEW t \in Tid, NEW stretch, Runs(t, stretch), Driving(t),
           stretch.writes \in Seq(Lawful(row, publication')),
           StatusInOrder(row, graph, publication'), publication' \in Document,
           registry' = registry,
           stretch.pc \in AwaitedAt \cup {"end"},
           task[t].pc = "work" => \A l \in Lane : lane[l] \notin {"running", "stopping"},
           stretch.pc # "end" =>
             /\ ~task[t].asked
             /\ LET last == Ends(stretch, row, graph) IN
                NextInOrder(t, stretch.pc, last.row, last.graph, publication')
    PROVE  Inv'
<1>1. \A s \in Tid \ {t} : ~Driving(s)
  BY Facts DEF OneDrives
<1>2. task[t].pc # "returned"
  BY DEF Driving
<1>3. Booting => t = 1
  <2>1. SUFFICES ASSUME Booting, t # 1 PROVE FALSE
    OBVIOUS
  <2>2. task[t] = NoTask
    BY <2>1, Facts DEF BootsAlone
  <2>3. QED BY <2>2 DEF Driving, NoTask
<1>4. QED BY <1>1, <1>2, <1>3, TaskRuns

-----------------------------------------------------------------------------
(* Every step of a task keeps the order.                                   *)

LEMMA BeginPrepareKeeps == ASSUME Inv, NEW t \in Tid, BeginPrepare(t) PROVE Inv'
<1> DEFINE s == Stretch(<<>>, "prepare")
<1>1. /\ up /\ task[t].pc = "start" /\ task[t].what = "prepare" /\ ~task[t].asked
      /\ Runs(t, s) /\ publication' = publication /\ registry' = registry
  BY DEF BeginPrepare, Starts
<1>2. s.writes \in Seq(Lawful(row, publication')) /\ s.pc = "prepare"
      /\ Ends(s, row, graph).graph = graph
  BY NoWrites DEF To
<1>3. graph.status = "none"
  BY <1>1, Facts DEF DriverInOrder
<1>4. NextInOrder(t, "prepare", Ends(s, row, graph).row, graph, publication')
  BY <1>1, <1>3 DEF NextInOrder
<1> HIDE DEF s
<1>5. QED BY <1>1, <1>2, <1>4, Facts, DriverRuns DEF Driving, AwaitedAt

LEMMA BeginAdvanceKeeps == ASSUME Inv, NEW t \in Tid, BeginAdvance(t) PROVE Inv'
<1> DEFINE s == Advance(row, graph, publication)
<1>1. /\ up /\ task[t].pc = "start" /\ task[t].what = "advance" /\ ~task[t].asked
      /\ Runs(t, s) /\ publication' = publication /\ registry' = registry
  BY DEF BeginAdvance, Starts
<1>2. /\ row \in RowRecord /\ graph \in GraphRecord /\ publication \in Document
      /\ GatesInOrder(row, graph) /\ StatusInOrder(row, graph, publication)
  BY Facts
<1>3. /\ row.status = "queued" /\ graph = NewGraph /\ graph.status = "running"
      /\ graph.state = "ready" /\ graph.node = 1
  BY <1>1, Facts DEF DriverInOrder, NewGraph, NoGraph
<1>4. row.status \notin GivenUp
  BY <1>3 DEF GivenUp, Terminal
<1>5. graph.node <= PlanAt /\ Node(graph) # "work"
  BY <1>2, <1>3, PipelineShape, NodeKinds
<1>6. (\A gate \in Gate : row.gate[gate] = "none") /\ ~row.receipt
  BY <1>2, <1>3, <1>5, EarlyGates, PipelineShape
<1>8. Advances(s, row, graph, publication)
  BY <1>2, <1>3, <1>4, AdvancesNow DEF GivenUp, MayAdvance
<1> HIDE DEF s
<1>9. ASSUME s.pc # "end"
      PROVE  LET last == Ends(s, row, graph) IN
             NextInOrder(t, s.pc, last.row, last.graph, publication')
  <2>1. /\ s.pc = "role" /\ Node(graph) = "role"
        /\ Ends(s, row, graph).row = row /\ Ends(s, row, graph).graph = Started(graph)
    BY <1>5, <1>8, <1>9 DEF To, Advances
  <2>2. Started(graph).state = "running" /\ Started(graph).status = "running"
        /\ Node(Started(graph)) = "role"
    BY <1>2, <1>3, <2>1, GraphMoves DEF Node
  <2>3. QED BY <1>1, <1>4, <1>6, <2>1, <2>2 DEF NextInOrder
<1>10. s.pc \in AwaitedAt \cup {"end"}
  BY <1>8 DEF AwaitedAt, Advances
<1>11. Driving(t) /\ task[t].pc # "work"
  BY <1>1 DEF Driving
<1>12. QED BY <1>1, <1>2, <1>8, <1>9, <1>10, <1>11, DriverRuns DEF Advances

(* The delivery is queued with its new run. *)
LEMMA PrepareReturnsKeeps == ASSUME Inv, NEW t \in Tid, PrepareReturns(t) PROVE Inv'
<1> DEFINE queued == [row EXCEPT !.status = "queued", !.version = @ + 1]
           next == Advance(queued, NewGraph, publication)
           s == Then(<<To(queued, graph), To(queued, NewGraph)>>, next)
<1>1. /\ up /\ task[t].pc = "prepare" /\ ~task[t].asked
      /\ publication' = publication /\ registry' = registry
      /\ \/ row.status # "preparing_context" /\ Runs(t, Nothing)
         \/ row.status = "preparing_context" /\ Runs(t, s)
  BY DEF PrepareReturns, Awaits
<1>2. /\ row \in RowRecord /\ graph \in GraphRecord /\ publication \in Document
      /\ GatesInOrder(row, graph) /\ StatusInOrder(row, graph, publication)
  BY Facts
<1>3. graph.status = "none" /\ graph = NoGraph /\ task[t].what \in {"prepare", "boot"}
  BY <1>1, <1>2, Facts DEF DriverInOrder, KindsInOrder, StatusInOrder
<1>4. Driving(t) /\ task[t].pc # "work"
  BY <1>1 DEF Driving
<1>5. CASE Runs(t, Nothing)
  <2>1. Nothing.writes \in Seq(Lawful(row, publication')) /\ Nothing.pc = "end"
    BY NoWrites DEF Nothing
  <2>2. QED BY <1>1, <1>2, <1>4, <1>5, <2>1, DriverRuns
<1>6. CASE row.status = "preparing_context" /\ Runs(t, s)
  <2>1. /\ NewGraph \in GraphRecord /\ NewGraph.status = "running" /\ NewGraph.node = 1
        /\ NewGraph.state = "ready" /\ graph.node = 1 /\ graph.state = "ready"
    BY <1>2, <1>3, PipelineShape DEF NewGraph, NoGraph, GraphRecord
  <2>2. (\A gate \in Gate : row.gate[gate] = "none") /\ ~row.receipt
    BY <1>2, <2>1, EarlyGates, PipelineShape
  <2>3. /\ queued \in RowRecord /\ queued.status = "queued" /\ queued.gate = row.gate
        /\ queued.receipt = row.receipt
    BY <1>2, Statuses, RowMoves
  <2>4. /\ "queued" \notin Given \cup GivenUp \cup {"preparing_context"}
        /\ \A gate \in Gate : Awaiting[gate] # "queued"
    BY Statuses DEF Given, GivenUp, Terminal
  <2> HIDE DEF queued
  <2>5. "candidate" \in Gate /\ 1 <= PlanAt
    BY Statuses, PipelineShape
  <2>6. GatesInOrder(queued, graph) /\ StatusInOrder(queued, graph, publication)
    BY <1>2, <1>3, <2>1, <2>2, <2>3, <2>4, <2>5, PipelineShape DEF GatesInOrder, StatusInOrder, GivenUp
  <2>7. GatesInOrder(queued, NewGraph) /\ StatusInOrder(queued, NewGraph, publication)
    BY <1>2, <2>1, <2>2, <2>3, <2>4, <2>5, PipelineShape DEF GatesInOrder, StatusInOrder, GivenUp
  <2>8. To(queued, graph) \in Lawful(row, publication)
        /\ To(queued, NewGraph) \in Lawful(row, publication)
    BY <1>2, <1>6, <2>1, <2>3, <2>6, <2>7, Commit DEF Terminal
  <2>9. row.status \notin Terminal /\ queued.status \notin Terminal
    BY <1>6, <2>3 DEF Terminal
  <2>10. Advances(s, queued, NewGraph, publication)
    <3>1. MayAdvance(queued, NewGraph, publication)
      BY <1>2, <2>1, <2>3, <2>7, <2>9 DEF MayAdvance
    <3>2. QED BY <2>8, <3>1, AdvancesAfterTwo
  <2> HIDE DEF s
  <2>11. ASSUME s.pc # "end"
         PROVE  LET last == Ends(s, row, graph) IN
                NextInOrder(t, s.pc, last.row, last.graph, publication')
    <3>1. Node(NewGraph) # "work"
      BY <2>1, NodeKinds, PipelineShape
    <3>2. /\ s.pc = "role" /\ Node(NewGraph) = "role"
          /\ Ends(s, row, graph).row = queued /\ Ends(s, row, graph).graph = Started(NewGraph)
      BY <2>10, <2>11, <3>1 DEF To, Advances
    <3>3. Started(NewGraph).state = "running" /\ Started(NewGraph).status = "running"
          /\ Node(Started(NewGraph)) = "role"
      BY <2>1, <3>2, GraphMoves DEF Node
    <3>4. QED BY <1>3, <2>2, <2>3, <2>4, <3>2, <3>3 DEF NextInOrder
  <2>12. s.pc \in AwaitedAt \cup {"end"}
    BY <2>10 DEF AwaitedAt, Advances
  <2>13. QED BY <1>1, <1>2, <1>4, <1>6, <2>10, <2>11, <2>12, DriverRuns DEF Advances
<1>7. QED BY <1>1, <1>5, <1>6

LEMMA PrepareFailsKeeps == ASSUME Inv, NEW t \in Tid, PrepareFails(t) PROVE Inv'
<1> DEFINE s == Stretch(<<To(SaveFailed(row), graph)>>, "end")
<1>1. /\ up /\ task[t].pc = "prepare" /\ ~task[t].asked /\ Runs(t, s)
      /\ publication' = publication /\ registry' = registry
  BY DEF PrepareFails, Awaits
<1>2. graph.status = "none"
  BY <1>1, Facts DEF DriverInOrder
<1>3. To(SaveFailed(row), graph) \in Lawful(row, publication)
  BY <1>2, Facts, SavingFailed
<1>4. s.writes \in Seq(Lawful(row, publication)) /\ s.pc = "end"
  BY <1>3, OneWrite
<1> HIDE DEF s
<1>5. QED BY <1>1, <1>4, Facts, DriverRuns DEF Driving

(* A role stage that succeeds: the row it projects, with the run before and after
   the stage, and where advance() leads. *)
LEMMA RoleSucceeds ==
    ASSUME Inv, up, NEW t \in Tid, task[t].pc = "role", ~task[t].asked,
           row.status \notin Terminal, graph.status = "running",
           NEW document \in Document,
           task[t].what = "none" => document \in {"pending", "failed", "published"}
    PROVE  LET p == Projected(t)
               g == Succeeded(graph) IN
           /\ To(p, graph) \in Lawful(row, document) /\ To(p, g) \in Lawful(row, document)
           /\ MayAdvance(p, g, document)
           /\ \A s : Advances(s, p, g, document) /\ s.pc # "end" =>
                LET last == Ends(s, row, graph) IN
                NextInOrder(t, s.pc, last.row, last.graph, document)
<1> DEFINE p == Projected(t)
           g == Succeeded(graph)
<1>1. /\ row \in RowRecord /\ graph \in GraphRecord
      /\ KindsInOrder(t) /\ DriverInOrder(t) /\ task[t].copy \in RowRecord
  BY Facts DEF Inv, Typed
<1>2. /\ p \in RowRecord /\ p.status = "planning" /\ p.gate = task[t].copy.gate
      /\ p.receipt = task[t].copy.receipt
  BY <1>1, Statuses DEF Projected, RowRecord
<1>3. /\ Node(graph) = "role" /\ graph.state = "running"
      /\ (\A gate \in Gate : p.gate[gate] = "none") /\ ~p.receipt
  BY <1>1, <1>2 DEF DriverInOrder
<1>4. graph.node \in 1..LastNode /\ graph.node < PlanAt /\ PlanAt \in 1..LastNode /\ PlanAt < LastNode
  BY <1>1, <1>3, NodeKinds, PipelineShape
<1>5. /\ g \in GraphRecord /\ g.status = "running" /\ g.state = "ready"
      /\ g.node = graph.node + 1 /\ g.node <= PlanAt /\ Node(g) # "work"
  <2>1. /\ g \in GraphRecord /\ g.status = "running" /\ g.state = "ready"
        /\ g.node = graph.node + 1
    BY <1>1, <1>4, GraphMoves
  <2>2. g.node <= PlanAt
    BY <1>4, <2>1
  <2>3. QED BY <1>4, <2>1, <2>2, NodeKinds
<1>6. /\ "planning" \notin Given \cup GivenUp \cup {"preparing_context"}
      /\ \A gate \in Gate : Awaiting[gate] # "planning"
  BY Statuses DEF Given, GivenUp, Terminal
<1>7. "candidate" \in Gate
  BY Statuses
<1> HIDE DEF p, g
<1>8. GatesInOrder(p, graph) /\ StatusInOrder(p, graph, document)
  BY <1>2, <1>3, <1>4, <1>6, <1>7 DEF GatesInOrder, StatusInOrder, GivenUp
<1>9. GatesInOrder(p, g) /\ StatusInOrder(p, g, document)
  <2>1. g.node < PlanAt \/ (g.node = PlanAt /\ g.state = "ready")
    BY <1>4, <1>5
  <2>2. ~(g.node > PlanAt)
    BY <1>4, <1>5
  <2>3. QED BY <1>2, <1>3, <1>5, <1>6, <1>7, <2>1, <2>2 DEF GatesInOrder, StatusInOrder, GivenUp
<1>10. To(p, graph) \in Lawful(row, document) /\ To(p, g) \in Lawful(row, document)
  BY <1>1, <1>2, <1>5, <1>8, <1>9, Commit
<1>11. MayAdvance(p, g, document)
  BY <1>2, <1>5, <1>9 DEF MayAdvance
<1>12. ASSUME NEW s, Advances(s, p, g, document), s.pc # "end"
       PROVE  LET last == Ends(s, row, graph) IN
              NextInOrder(t, s.pc, last.row, last.graph, document)
  <2>1. /\ s.pc = "role" /\ Node(g) = "role"
        /\ Ends(s, row, graph).row = p /\ Ends(s, row, graph).graph = Started(g)
    BY <1>5, <1>12 DEF Advances, To
  <2>2. Started(g).state = "running" /\ Started(g).status = "running"
        /\ Node(Started(g)) = "role"
    BY <1>5, <2>1, GraphMoves DEF Node
  <2>3. task[t].what \in {"prepare", "advance", "boot", "none"}
    BY <1>1 DEF KindsInOrder
  <2>4. QED BY <1>2, <1>3, <1>6, <2>1, <2>2, <2>3 DEF NextInOrder, GivenUp
<1>13. QED BY <1>10, <1>11, <1>12 DEF p, g

(* An error of the stage, or of the workcells: the gate of the candidate has not
   been opened yet. *)
LEMMA StageFails ==
    ASSUME Inv, up, NEW t \in Tid, task[t].pc \in {"role", "work"},
           Runs(t, Fail(row, graph)), publication' = publication, registry' = registry,
           task[t].pc = "work" => \A l \in Lane : lane[l] \notin {"running", "stopping"}
    PROVE  Inv'
<1>1. /\ row \in RowRecord /\ graph \in GraphRecord /\ publication \in Document
      /\ GatesInOrder(row, graph) /\ StatusInOrder(row, graph, publication)
      /\ DriverInOrder(t)
  BY Facts
<1>2. Node(graph) \in {"role", "work"} /\ graph.state = "running"
  BY <1>1 DEF DriverInOrder
<1>3. row.gate["candidate"] = "none"
  BY <1>1, <1>2, CandidateIsLast
<1>4. Fail(row, graph).writes \in Seq(Lawful(row, publication)) /\ Fail(row, graph).pc = "end"
  BY <1>1, <1>2, <1>3, Failing
<1>5. QED BY <1>1, <1>4, DriverRuns DEF Driving

LEMMA RoleFailsKeeps == ASSUME Inv, NEW t \in Tid, RoleFails(t) PROVE Inv'
BY StageFails DEF RoleFails, Awaits

LEMMA RoleReturnsKeeps == ASSUME Inv, NEW t \in Tid, RoleReturns(t) PROVE Inv'
<1> DEFINE p == Projected(t)
           g == Succeeded(graph)
           s == Then(<<To(p, graph), To(p, g)>>, Advance(p, g, publication))
<1>1. /\ up /\ task[t].pc = "role" /\ ~task[t].asked /\ publication = "none"
      /\ publication' = publication /\ registry' = registry
      /\ Runs(t, IF NodeRuns(graph) THEN s
                 ELSE Then(<<To(p, graph)>>, Fail(p, graph)))
  BY DEF RoleReturns, Awaits
<1>2. /\ row.status \notin GivenUp /\ graph.status = "running" /\ graph.state = "running"
      /\ task[t].what # "none"
  BY <1>1, Facts DEF DriverInOrder
<1>3. Runs(t, s)
  BY <1>1, <1>2 DEF NodeRuns
<1>4. publication \in Document /\ StatusInOrder(row, graph, publication)
      /\ row.status \notin Terminal
  BY <1>2, Facts DEF GivenUp
<1>5. /\ To(p, graph) \in Lawful(row, publication) /\ To(p, g) \in Lawful(row, publication)
      /\ MayAdvance(p, g, publication)
      /\ \A x : Advances(x, p, g, publication) /\ x.pc # "end" =>
           LET last == Ends(x, row, graph) IN
           NextInOrder(t, x.pc, last.row, last.graph, publication)
  BY <1>1, <1>2, <1>4, RoleSucceeds
<1> HIDE DEF p, g
<1>6. Advances(s, p, g, publication)
  BY <1>5, AdvancesAfterTwo
<1> HIDE DEF s
<1>7. s.pc \in AwaitedAt \cup {"end"} /\ s.writes \in Seq(Lawful(row, publication))
  BY <1>6 DEF Advances, AwaitedAt
<1>8. Driving(t) /\ task[t].pc # "work"
  BY <1>1 DEF Driving
<1>9. QED BY <1>1, <1>3, <1>4, <1>5, <1>6, <1>7, <1>8, DriverRuns

(* With a role document, which may be published, or the process dies first. *)
LEMMA RoleReturnsDocumentKeeps == ASSUME Inv, NEW t \in Tid, RoleReturnsDocument(t) PROVE Inv'
<1> DEFINE p == Projected(t)
           g == Succeeded(graph)
           s(outcome) == Then(<<To(p, g)>>, Advance(p, g, outcome))
<1>1. /\ up /\ task[t].pc = "role" /\ ~task[t].asked /\ registry' = registry
  BY DEF RoleReturnsDocument, Awaits
<1>2. \/ ~NodeRuns(graph) /\ Runs(t, Fail(row, graph)) /\ publication' = publication
      \/ /\ NodeRuns(graph)
         /\ \E outcome \in {"published", "failed"} :
              publication' = outcome /\ Runs(t, s(outcome))
      \/ /\ NodeRuns(graph)
         /\ row' = p /\ graph' = g /\ publication' = "pending" /\ up' = FALSE
         /\ UNCHANGED <<lease, task, lane, restarts>>
  BY DEF RoleReturnsDocument
<1>3. /\ row.status \in Terminal => graph.status # "running"
      /\ DriverInOrder(t) /\ StatusInOrder(row, graph, publication) /\ graph \in GraphRecord
  <2>1. DriverInOrder(t) /\ StatusInOrder(row, graph, publication) /\ graph \in GraphRecord
    BY <1>1, Facts
  <2>2. QED BY <1>1, <2>1 DEF DriverInOrder, GivenUp
<1>4. ASSUME NodeRuns(graph), NEW document \in {"pending", "published", "failed"}
      PROVE  /\ To(p, g) \in Lawful(row, document) /\ MayAdvance(p, g, document)
             /\ \A x : Advances(x, p, g, document) /\ x.pc # "end" =>
                  LET last == Ends(x, row, graph) IN
                  NextInOrder(t, x.pc, last.row, last.graph, document)
  BY <1>1, <1>3, <1>4, RoleSucceeds DEF NodeRuns, Document
<1>5. CASE Runs(t, Fail(row, graph)) /\ publication' = publication
  BY <1>1, <1>5, StageFails
<1>6. CASE /\ NodeRuns(graph)
           /\ \E outcome \in {"published", "failed"} :
                publication' = outcome /\ Runs(t, s(outcome))
  <2>1. PICK outcome \in {"published", "failed"} : publication' = outcome /\ Runs(t, s(outcome))
    BY <1>6
  <2> DEFINE x == s(outcome)
  <2>2. /\ To(p, g) \in Lawful(row, outcome) /\ MayAdvance(p, g, outcome)
        /\ \A y : Advances(y, p, g, outcome) /\ y.pc # "end" =>
             LET last == Ends(y, row, graph) IN
             NextInOrder(t, y.pc, last.row, last.graph, outcome)
    BY <1>4, <1>6
  <2> HIDE DEF p, g
  <2>3. Advances(x, p, g, outcome)
    BY <2>2, AdvancesAfterOne
  <2>4. Runs(t, x) /\ outcome \in Document
    BY <2>1 DEF Document
  <2> HIDE DEF x
  <2>5. x.pc \in AwaitedAt \cup {"end"} /\ x.writes \in Seq(Lawful(row, publication'))
    BY <2>1, <2>3 DEF Advances, AwaitedAt
  <2>6. Driving(t) /\ task[t].pc # "work"
    BY <1>1 DEF Driving
  <2>7. StatusInOrder(row, graph, publication')
    <3>1. Node(graph) = "role" /\ graph.state = "running"
      BY <1>1, <1>3 DEF DriverInOrder
    <3>2. graph.node < PlanAt
      BY <1>3, <3>1, NodeKinds
    <3>3. QED BY <1>3, <3>1, <3>2 DEF StatusInOrder
  <2>8. QED BY <1>1, <2>1, <2>2, <2>3, <2>4, <2>5, <2>6, <2>7, DriverRuns
<1>7. CASE /\ NodeRuns(graph)
           /\ row' = p /\ graph' = g /\ publication' = "pending" /\ up' = FALSE
           /\ UNCHANGED <<lease, task, lane, restarts>>
  <2>1. To(p, g) \in Lawful(row, "pending") /\ To(p, g).row = p /\ To(p, g).graph = g
    BY <1>4, <1>7 DEF To
  <2>2. row.status \notin Terminal
    BY <1>3, <1>7 DEF NodeRuns
  <2>3. RowInOrder' /\ row' \in RowRecord /\ graph' \in GraphRecord
    BY <1>7, <2>1, <2>2, Facts DEF RowInOrder, Lawful
  <2>4. Typed'
    BY <1>1, <1>7, <2>3, Facts DEF Typed, Document, Inv
  <2>5. QED BY <1>7, <2>3, <2>4 DEF Inv, DeliveryInv
<1>8. QED BY <1>2, <1>5, <1>6, <1>7

-----------------------------------------------------------------------------
(* Workcells.                                                              *)

(* While one runs, its task waits for it, alone, at a node of workcells. *)
LEMMA WorkIsAlone ==
    ASSUME Inv, up, NEW t \in Tid, task[t].pc = "work"
    PROVE  /\ \A s \in Tid \ {t} : ~Driving(s)
           /\ Node(graph) = "work" /\ graph.state = "running"
           /\ graph.node > PlanAt /\ graph.node < LastNode
           /\ row.gate["candidate"] = "none" /\ row.gate["plan"] = "approve" /\ ~row.receipt
           /\ publication \notin Unpublished
           /\ \A gate \in Gate : row.status # Awaiting[gate]
           /\ graph.status # "none"
           /\ ~task[t].asked => row.status \notin GivenUp
<1>1. /\ DriverInOrder(t) /\ OneDrives /\ graph \in GraphRecord
      /\ GatesInOrder(row, graph) /\ StatusInOrder(row, graph, publication)
  BY Facts
<1>2. Node(graph) = "work" /\ graph.state = "running"
      /\ (~task[t].asked => row.status \notin GivenUp)
  BY <1>1 DEF DriverInOrder
<1>3. graph.node > PlanAt /\ graph.node < LastNode
  BY <1>1, <1>2, NodeKinds
<1>4. row.gate["candidate"] = "none"
  BY <1>1, <1>2, CandidateIsLast
<1>5. row.gate["plan"] = "approve" /\ ~row.receipt
  BY <1>1, <1>3, <1>4 DEF GatesInOrder, StatusInOrder
<1>6. publication \notin Unpublished
  BY <1>1, <1>3, PipelineShape DEF StatusInOrder, GraphRecord
<1>7. \A gate \in Gate : row.status # Awaiting[gate]
  BY <1>1, <1>2 DEF GatesInOrder, Gate
<1>8. graph.status # "none"
  BY <1>1, <1>2 DEF StatusInOrder, NoGraph
<1>9. \A s \in Tid \ {t} : ~Driving(s)
  BY <1>1 DEF OneDrives, Driving
<1>10. QED BY <1>2, <1>3, <1>4, <1>5, <1>6, <1>7, <1>8, <1>9

LEMMA LaneReturnsKeeps == ASSUME Inv, NEW l \in Lane, LaneReturns(l) PROVE Inv'
<1>1. /\ up /\ lane[l] = "running" /\ lane' = [lane EXCEPT ![l] = "done"]
      /\ row' = [row EXCEPT !.status = "verifying", !.projected = @ \cup {l}]
      /\ lease' = LeaseAfter(row')
      /\ UNCHANGED <<graph, publication, task, registry, up, restarts>>
  BY DEF LaneReturns, env
<1>2. /\ row \in RowRecord /\ graph \in GraphRecord
      /\ GatesInOrder(row, graph) /\ StatusInOrder(row, graph, publication)
      /\ row.status \notin Terminal => lease = "self"
      /\ \A t \in Tid : KindsInOrder(t) /\ DriverInOrder(t)
      /\ OneDrives /\ BootsAlone /\ CancelAsks /\ LanesInOrder
  BY <1>1, Facts DEF KindsInOrder
<1>3. PICK t \in Tid : task[t].pc = "work" /\ ~task[t].asked
  BY <1>1, <1>2 DEF LanesInOrder
<1>4. /\ \A s \in Tid \ {t} : ~Driving(s)
      /\ Node(graph) = "work" /\ graph.state = "running"
      /\ row.gate["candidate"] = "none" /\ row.gate["plan"] = "approve" /\ ~row.receipt
      /\ publication \notin Unpublished /\ row.status \notin GivenUp
  BY <1>1, <1>3, WorkIsAlone
<1>5. /\ row' \in RowRecord /\ row'.status = "verifying" /\ row'.gate = row.gate
      /\ row'.receipt = row.receipt
  BY <1>1, <1>2, Statuses DEF RowRecord
<1>6. /\ "verifying" \notin Given \cup GivenUp \cup {"preparing_context"}
      /\ \A gate \in Gate : Awaiting[gate] # "verifying"
  BY Statuses DEF Given, GivenUp, Terminal
<1>7. GatesInOrder(row', graph')
  BY <1>1, <1>2, <1>4, <1>5, <1>6 DEF GatesInOrder
<1>8. StatusInOrder(row', graph', publication')
  BY <1>1, <1>2, <1>4, <1>5, <1>6 DEF StatusInOrder, Given
<1>9. lease' = "self"
  BY <1>1, <1>2, <1>4, <1>5, <1>6 DEF LeaseAfter, GivenUp
<1>10. RowInOrder'
  BY <1>7, <1>8, <1>9 DEF RowInOrder
<1>11. Typed'
  <2>1. lane' \in [Lane -> {"idle", "running", "stopping", "done", "failed", "stopped"}]
    BY <1>1, Facts
  <2>2. QED BY <1>1, <1>5, <1>9, <2>1 DEF Typed, Inv
<1>12. ASSUME NEW s \in Tid PROVE KindsInOrder(s)' /\ DriverInOrder(s)'
  <2>1. KindsInOrder(s)'
    BY <1>1, <1>2 DEF KindsInOrder, Scheduled
  <2>2. CASE s # t
    BY <2>1, <1>1, <1>4, <2>2 DEF DriverInOrder, Driving
  <2>3. CASE s = t
    BY <2>1, <1>1, <1>3, <1>4, <1>5, <1>6, <2>3 DEF DriverInOrder, Node
  <2>4. QED BY <2>1, <2>2, <2>3
<1>13. (OneDrives /\ BootsAlone /\ CancelAsks)'
  BY <1>1, <1>2 DEF OneDrives, Driving, BootsAlone, Booting, CancelAsks
<1>14. LanesInOrder'
  <2>1. \A m \in Lane : lane'[m] \in {lane[m], "done"}
    BY <1>1, Facts
  <2>2. QED BY <1>1, <1>3, <2>1 DEF LanesInOrder
<1>15. QED BY <1>10, <1>11, <1>12, <1>13, <1>14 DEF Inv, DeliveryInv, TasksInOrder

(* Workcells stop and fail without touching row, run or tasks. *)
LEMMA LanesEndKeeps == ASSUME Inv, NEW l \in Lane, LaneFails(l) \/ LaneStops(l) PROVE Inv'
<1>1. /\ up /\ lane[l] \in {"running", "stopping"}
      /\ UNCHANGED <<row, graph, publication, lease, task, registry, up, restarts>>
      /\ lane' \in {[Stopping EXCEPT ![l] = "failed"], [lane EXCEPT ![l] = "stopped"]}
  BY DEF LaneFails, LaneStops, env
<1>2. lane \in [Lane -> {"idle", "running", "stopping", "done", "failed", "stopped"}]
      /\ LanesInOrder
  BY <1>1, Facts
<1>3. /\ lane' \in [Lane -> {"idle", "running", "stopping", "done", "failed", "stopped"}]
      /\ \A m \in Lane : lane'[m] = "running" => lane[m] = "running"
      /\ \A m \in Lane : lane'[m] = "stopping" => lane[m] \in {"running", "stopping"}
  BY <1>1, <1>2 DEF Stopping
<1>4. LanesInOrder'
  BY <1>1, <1>2, <1>3 DEF LanesInOrder
<1>5. RowInOrder' /\ Typed'
  BY <1>1, <1>3 DEF RowInOrder, Typed, Inv, DeliveryInv
<1>6. (/\ \A t \in Tid : KindsInOrder(t) /\ DriverInOrder(t)
       /\ OneDrives /\ BootsAlone /\ CancelAsks)'
  BY <1>1, Facts DEF KindsInOrder, DriverInOrder, Scheduled, OneDrives, Driving, BootsAlone,
                     Booting, CancelAsks
<1>7. QED BY <1>4, <1>5, <1>6 DEF Inv, DeliveryInv, TasksInOrder

LEMMA WorkEndsKeeps == ASSUME Inv, NEW t \in Tid, WorkEnds(t) PROVE Inv'
<1> DEFINE g == Succeeded(graph)
           s == Then(<<To(row, g)>>, Advance(row, g, publication))
<1>1. /\ up /\ task[t].pc = "work" /\ publication' = publication /\ registry' = registry
      /\ \A l \in Lane : lane[l] \notin {"running", "stopping"}
      /\ \/ Runs(t, Fail(row, graph))
         \/ Runs(t, Nothing)
         \/ NodeRuns(graph) /\ ~task[t].asked /\ Runs(t, s)
  BY DEF WorkEnds
<1>2. /\ row \in RowRecord /\ graph \in GraphRecord /\ publication \in Document
      /\ GatesInOrder(row, graph) /\ StatusInOrder(row, graph, publication)
      /\ KindsInOrder(t)
  BY <1>1, Facts
<1>3. CASE Runs(t, Fail(row, graph))
  BY <1>1, <1>3, StageFails
<1>4. CASE Runs(t, Nothing)
  <2>1. Nothing.writes \in Seq(Lawful(row, publication')) /\ Nothing.pc = "end"
    BY NoWrites DEF Nothing
  <2>2. QED BY <1>1, <1>2, <1>4, <2>1, DriverRuns DEF Driving
<1>5. CASE NodeRuns(graph) /\ ~task[t].asked /\ Runs(t, s)
  <2>1. /\ Node(graph) = "work" /\ graph.state = "running" /\ graph.status = "running"
        /\ graph.node > PlanAt /\ graph.node < LastNode
        /\ row.gate["candidate"] = "none" /\ row.gate["plan"] = "approve" /\ ~row.receipt
        /\ publication \notin Unpublished
        /\ \A gate \in Gate : row.status # Awaiting[gate]
        /\ row.status \notin GivenUp
    BY <1>1, <1>5, WorkIsAlone DEF NodeRuns
  <2>2. /\ g \in GraphRecord /\ g.status = "running" /\ g.state = "ready"
        /\ g.node = graph.node + 1
    <3>1. graph.node # LastNode
      BY <1>2, <2>1, PipelineShape DEF GraphRecord
    <3>2. QED BY <1>2, <2>1, <3>1, GraphMoves
  <2>3. graph.node \in Nat /\ PlanAt \in Nat
    BY <1>2, PipelineShape DEF GraphRecord
  <2>4. g.node > PlanAt /\ Node(g) # "role"
    BY <2>1, <2>2, <2>3, NodeKinds
  <2> HIDE DEF g
  <2>5. GatesInOrder(row, g)
    BY <1>2, <2>1, <2>2, <2>3 DEF GatesInOrder
  <2>6. StatusInOrder(row, g, publication)
    BY <1>2, <2>1, <2>2 DEF StatusInOrder, NoGraph
  <2>7. row.status \notin Terminal
    BY <2>1 DEF GivenUp
  <2>8. To(row, g) \in Lawful(row, publication) /\ MayAdvance(row, g, publication)
    BY <1>2, <2>2, <2>5, <2>6, <2>7, Commit DEF MayAdvance
  <2>9. Advances(s, row, g, publication)
    BY <2>8, AdvancesAfterOne
  <2> HIDE DEF s
  <2>10. s.pc \in AwaitedAt \cup {"end"} /\ s.writes \in Seq(Lawful(row, publication))
    BY <2>9 DEF Advances, AwaitedAt
  <2>11. ASSUME s.pc # "end"
         PROVE  LET last == Ends(s, row, graph) IN
                NextInOrder(t, s.pc, last.row, last.graph, publication')
    <3>1. /\ s.pc = "work" /\ Node(g) = "work"
          /\ Ends(s, row, graph).row = row /\ Ends(s, row, graph).graph = Started(g)
      BY <2>4, <2>9, <2>11 DEF Advances, To
    <3>2. Started(g).state = "running" /\ Node(Started(g)) = "work"
      BY <2>2, <3>1, GraphMoves DEF Node
    <3>3. task[t].what \in {"plan", "design", "boot"}
      BY <1>1, <1>2 DEF KindsInOrder
    <3>4. QED BY <2>1, <3>1, <3>2, <3>3 DEF NextInOrder
  <2>12. Driving(t)
    BY <1>1 DEF Driving
  <2>13. QED BY <1>1, <1>2, <1>5, <2>10, <2>11, <2>12, DriverRuns
<1>6. QED BY <1>1, <1>3, <1>4, <1>5

-----------------------------------------------------------------------------
(* Tasks that stop, and gates.                                             *)

LEMMA StopsKeeps == ASSUME Inv, NEW t \in Tid, Stops(t) PROVE Inv'
<1>1. /\ up /\ task[t].asked /\ task[t].pc \in {"start", "prepare", "role"}
      /\ Runs(t, Nothing) /\ publication' = publication /\ registry' = registry
  BY DEF Stops
<1>2. /\ Nothing.writes \in Seq(Lawful(row, publication')) /\ Nothing.pc = "end"
      /\ Ends(Nothing, row, graph).row = row /\ Ends(Nothing, row, graph).graph = graph
  BY WritesNothing
<1>3. ASSUME NEW s \in Tid \ {t}, Completes(t, Nothing) PROVE DriverInOrder(s)'
  <2>1. row' = row /\ graph' = graph /\ task'[s] = task[s]
    BY <1>2, <1>3, Facts DEF Completes
  <2>2. DriverInOrder(s)
    BY <1>1, Facts
  <2>3. QED BY <1>1, <2>1, <2>2 DEF DriverInOrder
<1>4. Booting => t = 1
  <2>1. SUFFICES ASSUME Booting, t # 1 PROVE FALSE
    OBVIOUS
  <2>2. task[t] = NoTask
    BY <1>1, <2>1, Facts DEF BootsAlone
  <2>3. QED BY <1>1, <2>2 DEF NoTask
<1>5. task[t].pc # "returned" /\ task[t].pc # "work"
  BY <1>1
<1>6. StatusInOrder(row, graph, publication') /\ publication' \in Document
  BY <1>1, Facts
<1>7. QED BY <1>1, <1>2, <1>3, <1>4, <1>5, <1>6, TaskRuns

LEMMA DoneCallbackKeeps == ASSUME Inv, NEW t \in Tid, DoneCallback(t) PROVE Inv'
<1>1. /\ up /\ task[t].pc = "returned" /\ task' = [task EXCEPT ![t] = NoTask] /\ registry' = 0
      /\ UNCHANGED <<row, graph, publication, lease, lane, up, restarts>>
  BY DEF DoneCallback, env
<1>2. /\ \A s \in Tid : KindsInOrder(s) /\ DriverInOrder(s)
      /\ OneDrives /\ BootsAlone /\ CancelAsks /\ LanesInOrder /\ task \in [Tid -> TaskRecord]
  BY <1>1, Facts
<1>3. NoTask.pc = "free" /\ NoTask.what = "none" /\ ~NoTask.asked /\ NoTask \in TaskRecord
  BY DEF NoTask, TaskRecord
<1>4. task'[t] = NoTask /\ \A s \in Tid \ {t} : task'[s] = task[s]
  BY <1>1, <1>2
<1>5. Scheduled(t) /\ registry = t /\ 0 \notin Tid
  BY <1>1, <1>2 DEF KindsInOrder, Tid
<1>6. RowInOrder' /\ Typed'
  <2>1. task' \in [Tid -> TaskRecord]
    BY <1>1, <1>2, <1>3
  <2>2. \A s \in Tid : task'[s].pc \in {"role", "apply"} => task'[s].copy \in RowRecord
    BY <1>3, <1>4 DEF Inv, Typed
  <2>3. QED BY <1>1, <2>1, <2>2 DEF RowInOrder, Typed, Inv, DeliveryInv
<1>7. ASSUME NEW s \in Tid PROVE KindsInOrder(s)' /\ DriverInOrder(s)'
  <2>1. CASE s = t
    <3>1. ~Scheduled(t)'
      BY <1>3, <1>4 DEF Scheduled, Gate
    <3>2. KindsInOrder(t)'
      BY <1>1, <1>3, <1>4, <1>5, <3>1 DEF KindsInOrder, Gate
    <3>3. DriverInOrder(t)'
      BY <1>3, <1>4 DEF DriverInOrder
    <3>4. QED BY <2>1, <3>2, <3>3
  <2>2. CASE s # t
    <3>1. ~Scheduled(s) /\ task'[s] = task[s]
      BY <1>2, <1>4, <1>5, <2>2 DEF KindsInOrder
    <3>2. ~Scheduled(s)'
      BY <3>1 DEF Scheduled
    <3>3. KindsInOrder(s)'
      BY <1>1, <1>2, <1>5, <3>1, <3>2 DEF KindsInOrder
    <3>4. DriverInOrder(s)'
      BY <1>1, <1>2, <3>1 DEF DriverInOrder
    <3>5. QED BY <3>3, <3>4
  <2>3. QED BY <2>1, <2>2
<1>8. OneDrives'
  <2>1. ~Driving(t)'
    BY <1>3, <1>4 DEF Driving
  <2>2. \A s \in Tid \ {t} : Driving(s)' => Driving(s)
    BY <1>4 DEF Driving
  <2>3. QED BY <1>2, <2>1, <2>2 DEF OneDrives
<1>9. BootsAlone' /\ CancelAsks'
  <2>1. Booting' => Booting
    BY <1>3, <1>4 DEF Booting
  <2>2. BootsAlone'
    BY <1>2, <1>4, <2>1 DEF BootsAlone
  <2>3. CancelAsks'
    BY <1>2, <1>3, <1>4 DEF CancelAsks
  <2>4. QED BY <2>2, <2>3
<1>10. LanesInOrder'
  BY <1>1, <1>2, <1>4 DEF LanesInOrder
<1>11. QED BY <1>6, <1>7, <1>8, <1>9, <1>10 DEF Inv, DeliveryInv, TasksInOrder

(* A request that may come in finds its task free and no recovery under way. *)
LEMMA Arriving ==
    ASSUME Inv, NEW t \in Tid, Arrives(t)
    PROVE  up /\ ~Booting /\ task[t] = NoTask
           /\ ~Driving(t) /\ ~Scheduled(t) /\ t # registry
<1>1. up /\ ~Booting /\ task[t].pc = "free"
  BY DEF Arrives, Free
<1>2. KindsInOrder(t)
  BY <1>1, Facts
<1>3. task[t] = NoTask /\ NoTask.what = "none" /\ NoTask.pc = "free"
  BY <1>1, <1>2 DEF KindsInOrder, NoTask
<1>4. ~Scheduled(t) /\ ~Driving(t)
  BY <1>3 DEF Scheduled, Driving, Gate
<1>5. QED BY <1>1, <1>2, <1>3, <1>4 DEF KindsInOrder

(* Nobody decides while a task is registered, so nobody drives. *)
LEMMA RequestDecisionKeeps ==
    ASSUME Inv, PatientClients, NEW t \in Tid, NEW g \in Gate,
           NEW decision \in {"approve", "reject"}, RequestDecision(t, g, decision)
    PROVE  Inv'
<1> DEFINE new == [NoTask EXCEPT !.pc = "start", !.what = g,
                                 !.decision = decision, !.version = row.version]
<1>1. /\ Arrives(t) /\ row.status = Awaiting[g] /\ registry = 0
      /\ task' = [task EXCEPT ![t] = new] /\ registry' = t
      /\ UNCHANGED <<row, graph, publication, lease, lane, up, restarts>>
  BY DEF RequestDecision, env
<1>2. up /\ ~Booting /\ task[t] = NoTask /\ 0 \notin Tid
  BY <1>1, Arriving DEF Tid
<1>3. /\ \A s \in Tid : KindsInOrder(s) /\ DriverInOrder(s)
      /\ CancelAsks /\ LanesInOrder /\ task \in [Tid -> TaskRecord]
      /\ row \in RowRecord /\ graph \in GraphRecord /\ GatesInOrder(row, graph)
  BY <1>2, Facts
<1>4. /\ new \in TaskRecord /\ new.pc = "start" /\ new.what = g /\ new.decision = decision
      /\ new.asked = FALSE
  <2>1. row.version \in Nat
    BY <1>3 DEF RowRecord
  <2>2. QED BY <2>1 DEF NoTask, TaskRecord
<1> HIDE DEF new
<1>5. task'[t] = new /\ \A s \in Tid \ {t} : task'[s] = task[s]
  BY <1>1, <1>3
<1>6. Node(graph) = g /\ graph.state = "running" /\ row.gate["candidate"] # "approve"
  <2>1. row.status \notin Given
    BY <1>1, Statuses
  <2>2. QED BY <1>1, <1>3, <2>1 DEF GatesInOrder
<1>7. graph.node >= PlanAt
  BY <1>3, <1>6, NodeKinds, PipelineShape DEF Gate
<1>8. \A s \in Tid \ {t} : ~Scheduled(s) /\ ~Driving(s)
  <2>1. SUFFICES ASSUME NEW s \in Tid \ {t} PROVE ~Scheduled(s) /\ ~Driving(s)
    OBVIOUS
  <2>2. ~Scheduled(s) /\ task[s].what # "boot"
    BY <1>1, <1>2, <1>3 DEF KindsInOrder, Booting
  <2>3. task[s].what \in {"none", "cancel"}
    BY <1>3, <2>2 DEF TaskRecord, Scheduled
  <2>4. task[s].pc # "role"
    BY <1>3, <1>6 DEF DriverInOrder, Gate
  <2>5. task[s].pc \in {"free", "waiting"}
    BY <1>3, <2>3, <2>4 DEF KindsInOrder
  <2>6. QED BY <2>2, <2>5 DEF Driving
<1>9. RowInOrder' /\ Typed'
  <2>1. task' \in [Tid -> TaskRecord]
    BY <1>1, <1>3, <1>4
  <2>2. \A s \in Tid : task'[s].pc \in {"role", "apply"} => task'[s].copy \in RowRecord
    BY <1>4, <1>5 DEF Inv, Typed
  <2>3. QED BY <1>1, <2>1, <2>2 DEF RowInOrder, Typed, Inv, DeliveryInv
<1>10. ASSUME NEW s \in Tid PROVE KindsInOrder(s)' /\ DriverInOrder(s)'
  <2>1. CASE s = t
    <3>1. Scheduled(t)' /\ g \notin {"none", "cancel", "boot", "prepare", "advance"}
      BY <1>4, <1>5 DEF Scheduled, Gate
    <3>2. KindsInOrder(t)'
      BY <1>1, <1>4, <1>5, <3>1 DEF KindsInOrder
    <3>3. DriverInOrder(t)'
      BY <1>1, <1>4, <1>5, <1>6, <1>7, <3>1 DEF DriverInOrder
    <3>4. QED BY <2>1, <3>2, <3>3
  <2>2. CASE s # t
    <3>1. ~Scheduled(s) /\ ~Driving(s) /\ task'[s] = task[s]
      BY <1>5, <1>8, <2>2
    <3>2. ~Scheduled(s)' /\ ~Driving(s)'
      BY <3>1 DEF Scheduled, Driving
    <3>3. KindsInOrder(s)'
      BY <1>1, <1>3, <2>2, <3>1, <3>2 DEF KindsInOrder
    <3>4. DriverInOrder(s)'
      BY <3>2 DEF DriverInOrder, Driving
    <3>5. QED BY <3>3, <3>4
  <2>3. QED BY <2>1, <2>2
<1>11. OneDrives'
  <2>1. \A s \in Tid \ {t} : ~Driving(s)'
    BY <1>5, <1>8 DEF Driving
  <2>2. QED BY <2>1 DEF OneDrives
<1>12. BootsAlone' /\ CancelAsks'
  <2>1. ~Booting'
    BY <1>2, <1>4, <1>5 DEF Booting, Gate
  <2>2. CancelAsks'
    BY <1>3, <1>4, <1>5 DEF CancelAsks, Gate
  <2>3. QED BY <2>1, <2>2 DEF BootsAlone
<1>13. LanesInOrder'
  <2>1. task[t].pc # "work"
    BY <1>2 DEF NoTask
  <2>2. QED BY <1>1, <1>3, <1>5, <2>1 DEF LanesInOrder
<1>14. QED BY <1>9, <1>10, <1>11, <1>12, <1>13 DEF Inv, DeliveryInv, TasksInOrder

(* The row a decision of the plan or design gate leaves, with the run as it is or
   cancelled. *)
LEMMA EarlyDecision ==
    ASSUME Inv, NEW gate \in {"plan", "design"}, row.status = Awaiting[gate],
           NEW decision \in {"approve", "reject"}, NEW status \in {"executing", "rejected"},
           NEW h \in {graph, Cancelled(graph)}
    PROVE  LET d == Decided(row, gate, decision, status) IN
           /\ d \in RowRecord /\ d.status = status /\ d.gate[gate] = decision
           /\ d.gate["candidate"] \notin {"approve", "reject"}
           /\ gate = "design" => d.gate["plan"] = "approve"
           /\ \A other \in Gate \ {gate} : d.gate[other] = row.gate[other]
           /\ ~d.receipt
           /\ h \in GraphRecord
           /\ Node(graph) = gate /\ graph.state = "running" /\ publication \notin Unpublished
           /\ graph.node >= PlanAt /\ graph.node < LastNode
           /\ GatesInOrder(d, h) /\ StatusInOrder(d, h, publication)
<1> DEFINE d == Decided(row, gate, decision, status)
<1>1. /\ row \in RowRecord /\ graph \in GraphRecord /\ publication \in Document
      /\ GatesInOrder(row, graph) /\ StatusInOrder(row, graph, publication)
      /\ gate \in Gate
  BY Facts DEF Gate
<1>2. row.version + 1 \in Nat /\ row.gate \in [Gate -> {"none", "open", "approve", "reject"}]
      /\ status \in Status
  BY <1>1, Statuses DEF RowRecord
<1>3. /\ d \in RowRecord /\ d.status = status /\ d.receipt = row.receipt
      /\ d.gate = [row.gate EXCEPT ![gate] = decision]
  BY <1>1, <1>2 DEF Decided, RowRecord
<1> HIDE DEF d
<1>4. /\ d.gate[gate] = decision
      /\ \A other \in Gate \ {gate} : d.gate[other] = row.gate[other]
  BY <1>1, <1>2, <1>3
<1>5. /\ Node(graph) = gate /\ graph.state = "running"
  BY <1>1 DEF GatesInOrder
<1>6. graph.node >= PlanAt /\ graph.node < LastNode /\ (gate = "design" => graph.node > PlanAt)
      /\ (gate = "plan" => graph.node = PlanAt) /\ graph.node \in 1..LastNode
  BY <1>1, <1>5, NodeKinds, PipelineShape
<1>7. publication \notin Unpublished
  BY <1>1, <1>5, <1>6, PipelineShape DEF StatusInOrder
<1>8. row.gate["candidate"] = "none" /\ "candidate" \in Gate \ {gate} /\ ~row.receipt
  <2>1. "candidate" \in Gate \ {gate}
    BY Statuses
  <2>2. row.gate["candidate"] = "none"
    BY <1>1, <1>5, CandidateIsLast
  <2>3. QED BY <1>1, <2>1, <2>2 DEF GatesInOrder, StatusInOrder
<1>9. gate = "design" => row.gate["plan"] = "approve" /\ "plan" \in Gate \ {gate}
  BY <1>1, <1>6, Statuses DEF GatesInOrder
<1>10. h \in GraphRecord /\ h.node = graph.node /\ h.state = graph.state
       /\ (h.status = "none" <=> graph.status = "none")
       /\ (h.status = "completed" <=> graph.status = "completed")
  BY <1>1, GraphMoves
<1>11. /\ status \notin Given \cup {"preparing_context", "completed"}
       /\ \A other \in Gate : status # Awaiting[other]
  BY Statuses DEF Given, GivenUp, Terminal
<1>12. GatesInOrder(d, h)
  <2>1. ASSUME NEW other \in Gate, d.gate[other] # "none"
        PROVE  \E n \in 1..h.node : Graph[n].kind = other /\ (n < h.node \/ h.state # "ready")
    <3>1. CASE other = gate
      BY <1>5, <1>6, <1>10, <3>1 DEF Node
    <3>2. CASE other # gate
      BY <1>1, <1>4, <1>10, <2>1, <3>2 DEF GatesInOrder
    <3>3. QED BY <3>1, <3>2
  <2>2. h.node > PlanAt => d.gate["plan"] = "approve"
    BY <1>4, <1>6, <1>9, <1>10, PipelineShape
  <2>3. d.gate["candidate"] = "none"
    BY <1>4, <1>8
  <2>4. QED BY <1>3, <1>11, <2>1, <2>2, <2>3 DEF GatesInOrder
<1>13. StatusInOrder(d, h, publication)
  <2>1. graph.status # "none" /\ h.status # "none"
    BY <1>1, <1>5, <1>10 DEF StatusInOrder, NoGraph
  <2>2. h.status # "completed"
    BY <1>1, <1>6, <1>10, PipelineShape DEF StatusInOrder
  <2>3. QED BY <1>3, <1>7, <1>8, <1>11, <2>1, <2>2 DEF StatusInOrder
<1>14. QED BY <1>3, <1>4, <1>5, <1>6, <1>7, <1>8, <1>9, <1>10, <1>12, <1>13 DEF d

(* The plan or the design is approved: the run goes on behind the gate. *)
LEMMA EarlyApproval ==
    ASSUME Inv, up, NEW t \in Tid, NEW gate \in {"plan", "design"}, row.status = Awaiting[gate],
           task[t].what = gate, task[t].pc = "start", ~task[t].asked, NodeRuns(graph),
           publication' = publication, registry' = registry,
           LET d == Decided(row, gate, "approve", "executing")
               g == Succeeded(graph) IN
           Runs(t, Then(<<To(d, graph), To(d, g)>>, Advance(d, g, publication)))
    PROVE  Inv'
<1> DEFINE d == Decided(row, gate, "approve", "executing")
           g == Succeeded(graph)
           s == Then(<<To(d, graph), To(d, g)>>, Advance(d, g, publication))
<1>1. /\ graph \in GraphRecord /\ publication \in Document /\ row.status \notin Terminal
      /\ StatusInOrder(row, graph, publication)
  BY Facts, Statuses DEF GivenUp, Gate
<1>2. /\ d \in RowRecord /\ d.status = "executing" /\ d.gate[gate] = "approve"
      /\ d.gate["candidate"] \notin {"approve", "reject"}
      /\ gate = "design" => d.gate["plan"] = "approve"
      /\ ~d.receipt
      /\ Node(graph) = gate /\ graph.state = "running" /\ publication \notin Unpublished
      /\ graph.node >= PlanAt /\ graph.node < LastNode
      /\ GatesInOrder(d, graph) /\ StatusInOrder(d, graph, publication)
  BY EarlyDecision
<1>3. graph.status = "running" /\ graph.node # LastNode /\ graph.node \in Nat /\ PlanAt \in Nat
  BY <1>1, <1>2, PipelineShape DEF NodeRuns, GraphRecord
<1>4. /\ g \in GraphRecord /\ g.status = "running" /\ g.state = "ready"
      /\ g.node = graph.node + 1
  BY <1>1, <1>3, GraphMoves
<1>5. g.node > PlanAt /\ Node(g) # "role"
  BY <1>2, <1>3, <1>4, NodeKinds
<1>6. d.gate["plan"] = "approve"
  BY <1>2
<1>7. /\ "executing" \notin Given \cup GivenUp \cup {"preparing_context"}
      /\ \A other \in Gate : Awaiting[other] # "executing"
  BY Statuses DEF Given, GivenUp, Terminal
<1> HIDE DEF d, g
<1>8. GatesInOrder(d, g)
  BY <1>2, <1>3, <1>4, <1>6, <1>7 DEF GatesInOrder
<1>9. StatusInOrder(d, g, publication)
  BY <1>2, <1>4, <1>7 DEF StatusInOrder
<1>10. To(d, graph) \in Lawful(row, publication) /\ To(d, g) \in Lawful(row, publication)
  BY <1>1, <1>2, <1>4, <1>8, <1>9, Commit
<1>11. MayAdvance(d, g, publication)
  BY <1>1, <1>2, <1>4, <1>8, <1>9 DEF MayAdvance
<1>12. Advances(s, d, g, publication)
  BY <1>10, <1>11, AdvancesAfterTwo
<1>13. Runs(t, s)
  BY DEF d, g
<1> HIDE DEF s
<1>14. s.pc \in AwaitedAt \cup {"end"} /\ s.writes \in Seq(Lawful(row, publication))
  BY <1>12 DEF Advances, AwaitedAt
<1>15. ASSUME s.pc # "end"
       PROVE  LET last == Ends(s, row, graph) IN
              NextInOrder(t, s.pc, last.row, last.graph, publication')
  <2>1. /\ s.pc = "work" /\ Node(g) = "work"
        /\ Ends(s, row, graph).row = d /\ Ends(s, row, graph).graph = Started(g)
    BY <1>5, <1>12, <1>15 DEF Advances, To
  <2>2. Started(g).state = "running" /\ Node(Started(g)) = "work"
    BY <1>4, <2>1, GraphMoves DEF Node
  <2>3. QED BY <1>2, <1>7, <2>1, <2>2 DEF NextInOrder
<1>16. Driving(t) /\ task[t].pc # "work"
  BY DEF Driving
<1>17. QED BY <1>1, <1>13, <1>14, <1>15, <1>16, DriverRuns

LEMMA DecideEarlyGateKeeps ==
    ASSUME Inv, NEW t \in Tid, NEW gate \in Gate, DecideEarlyGate(t, gate) PROVE Inv'
<1> DEFINE decision == task[t].decision
           approved == Decided(row, gate, decision, "executing")
           rejected == Decided(row, gate, decision, "rejected")
<1>1. /\ up /\ gate \in {"plan", "design"}
      /\ task[t].pc = "start" /\ task[t].what = gate /\ ~task[t].asked
      /\ publication' = publication /\ registry' = registry
  BY DEF DecideEarlyGate, Starts, Gate
<1>2. \/ Runs(t, Nothing)
      \/ Runs(t, Stretch(<<To(SaveFailed(row), graph)>>, "end"))
      \/ /\ row.status = Awaiting[gate] /\ decision = "reject"
         /\ Runs(t, Stretch(<<To(row, Cancelled(graph)), To(rejected, Cancelled(graph))>>, "end"))
      \/ /\ row.status = Awaiting[gate] /\ decision # "reject" /\ ~NodeRuns(graph)
         /\ Runs(t, Stretch(<<To(approved, graph), To(SaveFailed(approved), graph)>>, "end"))
      \/ /\ row.status = Awaiting[gate] /\ decision # "reject" /\ NodeRuns(graph)
         /\ Runs(t, Then(<<To(approved, graph), To(approved, Succeeded(graph))>>,
                         Advance(approved, Succeeded(graph), publication)))
  BY DEF DecideEarlyGate
<1>3. /\ row \in RowRecord /\ graph \in GraphRecord /\ publication \in Document
      /\ GatesInOrder(row, graph) /\ StatusInOrder(row, graph, publication)
      /\ KindsInOrder(t) /\ DriverInOrder(t)
  BY <1>1, Facts
<1>4. decision \in {"approve", "reject"} /\ graph.state = "running"
  BY <1>1, <1>3 DEF KindsInOrder, DriverInOrder
<1>5. ASSUME NEW s, Runs(t, s), s.writes \in Seq(Lawful(row, publication)), s.pc = "end"
      PROVE  Inv'
  BY <1>1, <1>3, <1>5, DriverRuns DEF Driving
<1>6. CASE Runs(t, Nothing)
  BY <1>5, <1>6, WritesNothing
<1>7. CASE Runs(t, Stretch(<<To(SaveFailed(row), graph)>>, "end"))
  <2>1. To(SaveFailed(row), graph) \in Lawful(row, publication)
    BY <1>3, <1>4, SavingFailed
  <2> DEFINE s == Stretch(<<To(SaveFailed(row), graph)>>, "end")
  <2>2. s.writes \in Seq(Lawful(row, publication)) /\ s.pc = "end"
    BY <2>1, OneWrite
  <2>3. Runs(t, s)
    BY <1>7
  <2> HIDE DEF s
  <2>4. QED BY <1>5, <2>2, <2>3
<1>8. CASE /\ row.status = Awaiting[gate] /\ decision = "reject"
           /\ Runs(t, Stretch(<<To(row, Cancelled(graph)), To(rejected, Cancelled(graph))>>, "end"))
  <2> DEFINE h == Cancelled(graph)
             s == Stretch(<<To(row, h), To(rejected, h)>>, "end")
  <2>1. /\ rejected \in RowRecord /\ rejected.status = "rejected" /\ h \in GraphRecord
        /\ GatesInOrder(rejected, h) /\ StatusInOrder(rejected, h, publication)
    BY <1>1, <1>4, <1>8, EarlyDecision
  <2>2. GatesInOrder(row, h) /\ StatusInOrder(row, h, publication)
    BY <1>3, GraphStatusChanges
  <2> HIDE DEF h, rejected
  <2>3. To(row, h) \in Lawful(row, publication) /\ To(rejected, h) \in Lawful(row, publication)
    BY <1>3, <2>1, <2>2, Commit DEF Terminal
  <2>4. s.writes \in Seq(Lawful(row, publication)) /\ s.pc = "end"
    BY <2>3, TwoWrites
  <2>5. Runs(t, s)
    BY <1>8 DEF h, rejected
  <2> HIDE DEF s
  <2>6. QED BY <1>5, <2>4, <2>5
<1>9. CASE /\ row.status = Awaiting[gate] /\ decision # "reject" /\ ~NodeRuns(graph)
           /\ Runs(t, Stretch(<<To(approved, graph), To(SaveFailed(approved), graph)>>, "end"))
  <2> DEFINE s == Stretch(<<To(approved, graph), To(SaveFailed(approved), graph)>>, "end")
  <2>1. /\ approved \in RowRecord /\ approved.status = "executing"
        /\ GatesInOrder(approved, graph) /\ StatusInOrder(approved, graph, publication)
    BY <1>1, <1>4, <1>9, EarlyDecision
  <2>2. row.status \notin Terminal
    BY <1>9, Statuses DEF GivenUp
  <2> HIDE DEF approved
  <2>3. To(approved, graph) \in Lawful(row, publication)
        /\ To(SaveFailed(approved), graph) \in Lawful(row, publication)
    BY <1>3, <1>4, <2>1, <2>2, Commit, SavingFailed
  <2>4. s.writes \in Seq(Lawful(row, publication)) /\ s.pc = "end"
    BY <2>3, TwoWrites
  <2>5. Runs(t, s)
    BY <1>9 DEF approved
  <2> HIDE DEF s
  <2>6. QED BY <1>5, <2>4, <2>5
<1>10. CASE /\ row.status = Awaiting[gate] /\ decision # "reject" /\ NodeRuns(graph)
            /\ Runs(t, Then(<<To(approved, graph), To(approved, Succeeded(graph))>>,
                            Advance(approved, Succeeded(graph), publication)))
  BY <1>1, <1>4, <1>10, EarlyApproval
<1>11. QED BY <1>2, <1>6, <1>7, <1>8, <1>9, <1>10

(* The row a decision of the candidate gate leaves. *)
LEMMA CandidateDecision ==
    ASSUME Inv, row.status = Awaiting["candidate"],
           NEW decision \in {"approve", "reject"},
           NEW status \in {"applying", "cancelling"},
           decision = "approve" <=> status = "applying"
    PROVE  LET d == Decided(row, "candidate", decision, status) IN
           /\ d \in RowRecord /\ d.status = status
           /\ GatesInOrder(d, graph) /\ StatusInOrder(d, graph, publication)
           /\ row.status \notin Terminal
<1> DEFINE d == Decided(row, "candidate", decision, status)
<1>1. /\ row \in RowRecord /\ graph \in GraphRecord
      /\ GatesInOrder(row, graph) /\ StatusInOrder(row, graph, publication)
      /\ "candidate" \in Gate
  BY Facts, Statuses
<1>2. row.version + 1 \in Nat /\ row.gate \in [Gate -> {"none", "open", "approve", "reject"}]
      /\ status \in Status
  BY <1>1, Statuses DEF RowRecord
<1>3. /\ d \in RowRecord /\ d.status = status /\ d.receipt = row.receipt
      /\ d.gate = [row.gate EXCEPT !["candidate"] = decision]
  BY <1>1, <1>2 DEF Decided, RowRecord
<1> HIDE DEF d
<1>4. /\ d.gate["candidate"] = decision
      /\ \A other \in Gate \ {"candidate"} : d.gate[other] = row.gate[other]
      /\ "plan" \in Gate \ {"candidate"}
  BY <1>1, <1>2, <1>3, Statuses
<1>5. /\ Node(graph) = "candidate" /\ graph.state = "running" /\ graph.node = LastNode
  BY <1>1, NodeKinds DEF GatesInOrder
<1>6. row.status \notin Given /\ row.status \notin Terminal
  BY Statuses DEF GivenUp, Gate
<1>7. ~row.receipt /\ graph.status # "none" /\ publication \notin Unpublished
  BY <1>1, <1>5, <1>6, PipelineShape DEF StatusInOrder, NoGraph
<1>8. /\ status \notin {"preparing_context", "completed"} /\ status \notin Terminal
      /\ \A other \in Gate : status # Awaiting[other]
      /\ status \in Given <=> decision = "approve"
  BY Statuses DEF Given, GivenUp, Terminal
<1>9. GatesInOrder(d, graph)
  <2>1. ASSUME NEW other \in Gate, d.gate[other] # "none"
        PROVE  \E n \in 1..graph.node :
                 Graph[n].kind = other /\ (n < graph.node \/ graph.state # "ready")
    <3>1. CASE other = "candidate"
      BY <1>5, <3>1, PipelineShape DEF Node
    <3>2. CASE other # "candidate"
      BY <1>1, <1>4, <2>1, <3>2 DEF GatesInOrder
    <3>3. QED BY <3>1, <3>2
  <2>2. graph.node > PlanAt => d.gate["plan"] = "approve"
    BY <1>1, <1>4 DEF GatesInOrder
  <2>3. QED BY <1>3, <1>4, <1>8, <2>1, <2>2 DEF GatesInOrder
<1>10. StatusInOrder(d, graph, publication)
  BY <1>1, <1>3, <1>7, <1>8 DEF StatusInOrder
<1>11. QED BY <1>3, <1>6, <1>9, <1>10 DEF d

LEMMA DecideCandidateKeeps == ASSUME Inv, NEW t \in Tid, DecideCandidate(t) PROVE Inv'
<1> DEFINE decision == task[t].decision
           applying == Decided(row, "candidate", "approve", "applying")
           cancelling == Decided(row, "candidate", "reject", "cancelling")
<1>1. /\ up /\ task[t].pc = "start" /\ task[t].what = "candidate" /\ ~task[t].asked
      /\ publication' = publication /\ registry' = registry
  BY DEF DecideCandidate, Starts
<1>2. \/ Runs(t, Finish(row, graph))
      \/ Runs(t, Nothing)
      \/ Runs(t, Stretch(<<To(SaveFailed(row), graph)>>, "end"))
      \/ row.status = Awaiting["candidate"] /\ Runs(t, Stretch(<<To(applying, graph)>>, "apply"))
      \/ /\ row.status = Awaiting["candidate"]
         /\ Runs(t, Then(<<To(cancelling, graph)>>, Finish(cancelling, graph)))
      \/ /\ row.status = Awaiting["candidate"]
         /\ Runs(t, Stretch(<<To(cancelling, graph)>>, "end"))
  BY DEF DecideCandidate
<1>3. /\ row \in RowRecord /\ graph \in GraphRecord /\ publication \in Document
      /\ GatesInOrder(row, graph) /\ StatusInOrder(row, graph, publication)
      /\ KindsInOrder(t) /\ DriverInOrder(t)
  BY <1>1, Facts
<1>4. graph.state = "running"
  BY <1>1, <1>3, Statuses DEF DriverInOrder
<1>5. ASSUME NEW s, Runs(t, s), s.writes \in Seq(Lawful(row, publication)), s.pc = "end"
      PROVE  Inv'
  BY <1>1, <1>3, <1>5, DriverRuns DEF Driving
<1>6. CASE Runs(t, Finish(row, graph))
  BY <1>3, <1>5, <1>6, Finishing
<1>7. CASE Runs(t, Nothing)
  BY <1>5, <1>7, WritesNothing
<1>8. CASE Runs(t, Stretch(<<To(SaveFailed(row), graph)>>, "end"))
  <2> DEFINE s == Stretch(<<To(SaveFailed(row), graph)>>, "end")
  <2>1. To(SaveFailed(row), graph) \in Lawful(row, publication)
    BY <1>3, <1>4, SavingFailed
  <2>2. s.writes \in Seq(Lawful(row, publication)) /\ s.pc = "end"
    BY <2>1, OneWrite
  <2>3. Runs(t, s)
    BY <1>8
  <2> HIDE DEF s
  <2>4. QED BY <1>5, <2>2, <2>3
<1>9. CASE row.status = Awaiting["candidate"] /\ Runs(t, Stretch(<<To(applying, graph)>>, "apply"))
  <2> DEFINE s == Stretch(<<To(applying, graph)>>, "apply")
  <2>1. /\ applying \in RowRecord /\ applying.status = "applying"
        /\ GatesInOrder(applying, graph) /\ StatusInOrder(applying, graph, publication)
        /\ row.status \notin Terminal
    BY <1>9, CandidateDecision
  <2> HIDE DEF applying
  <2>2. To(applying, graph) \in Lawful(row, publication)
        /\ To(applying, graph).row = applying /\ To(applying, graph).graph = graph
    BY <1>3, <2>1, Commit DEF To
  <2>3. /\ s.writes \in Seq(Lawful(row, publication)) /\ s.pc = "apply"
        /\ Ends(s, row, graph) = To(applying, graph)
    BY <2>2, OneWrite
  <2>4. Runs(t, s)
    BY <1>9 DEF applying
  <2> HIDE DEF s
  <2>5. NextInOrder(t, "apply", Ends(s, row, graph).row, Ends(s, row, graph).graph, publication')
    BY <1>1, <2>1, <2>2, <2>3 DEF NextInOrder
  <2>6. Driving(t) /\ task[t].pc # "work" /\ "apply" \in AwaitedAt
    BY <1>1 DEF Driving, AwaitedAt
  <2>7. QED BY <1>1, <1>3, <2>3, <2>4, <2>5, <2>6, DriverRuns
<1>10. CASE /\ row.status = Awaiting["candidate"]
            /\ \/ Runs(t, Then(<<To(cancelling, graph)>>, Finish(cancelling, graph)))
               \/ Runs(t, Stretch(<<To(cancelling, graph)>>, "end"))
  <2> DEFINE next == Finish(cancelling, graph)
             s == Then(<<To(cancelling, graph)>>, next)
             u == Stretch(<<To(cancelling, graph)>>, "end")
  <2>1. /\ cancelling \in RowRecord /\ cancelling.status = "cancelling"
        /\ GatesInOrder(cancelling, graph) /\ StatusInOrder(cancelling, graph, publication)
        /\ row.status \notin Terminal
    BY <1>10, CandidateDecision
  <2>2. Runs(t, s) \/ Runs(t, u)
    BY <1>10
  <2> HIDE DEF cancelling
  <2>3. To(cancelling, graph) \in Lawful(row, publication)
    BY <1>3, <2>1, Commit
  <2>4. next.writes \in Seq(Lawful(row, publication)) /\ next.pc = "end"
    BY <1>3, <2>1, Finishing
  <2> HIDE DEF next
  <2>5. s.writes \in Seq(Lawful(row, publication)) /\ s.pc = "end"
    BY <2>3, <2>4, AfterOne
  <2>6. u.writes \in Seq(Lawful(row, publication)) /\ u.pc = "end"
    BY <2>3, OneWrite
  <2> HIDE DEF s, u
  <2>7. QED BY <1>5, <2>2, <2>5, <2>6
<1>11. QED BY <1>2, <1>6, <1>7, <1>8, <1>9, <1>10

-----------------------------------------------------------------------------
(* Apply.                                                                  *)

LEMMA ApplyKeeps ==
    ASSUME Inv, NEW t \in Tid, ApplyReturns(t) \/ ApplyFails(t) \/ ApplyNeedsAttention(t)
    PROVE  Inv'
<1> DEFINE failed == Stretch(<<To(SaveFailed(row), graph)>>, "end")
           halted == [row EXCEPT !.status = "needs_attention"]
           halts == Stretch(<<To(halted, graph)>>, "end")
<1>1. /\ up /\ task[t].pc = "apply" /\ ~task[t].asked
      /\ publication' = publication /\ registry' = registry
      /\ \/ Runs(t, Close(Released(task[t].copy), graph))
         \/ Runs(t, failed)
         \/ Runs(t, halts)
  BY DEF ApplyReturns, ApplyFails, ApplyNeedsAttention, Awaits
<1>2. /\ row \in RowRecord /\ graph \in GraphRecord /\ publication \in Document
      /\ GatesInOrder(row, graph) /\ StatusInOrder(row, graph, publication)
      /\ DriverInOrder(t)
  BY <1>1, Facts
<1>3. task[t].copy = row /\ row.status = "applying"
  BY <1>1, <1>2 DEF DriverInOrder
<1>4. row.gate["candidate"] = "approve" /\ row.status \notin Terminal
  BY <1>2, <1>3 DEF GatesInOrder, Given, Terminal
<1>5. graph.state # "ready"
  BY <1>2, <1>4, CandidateIsLast
<1>6. ASSUME NEW s, Runs(t, s), s.writes \in Seq(Lawful(row, publication)), s.pc = "end"
      PROVE  Inv'
  BY <1>1, <1>2, <1>6, DriverRuns DEF Driving
<1>7. CASE Runs(t, Close(Released(task[t].copy), graph))
  BY <1>2, <1>3, <1>4, <1>6, <1>7, Closing
<1>8. CASE Runs(t, failed)
  <2>1. To(SaveFailed(row), graph) \in Lawful(row, publication)
    BY <1>2, <1>5, SavingFailed
  <2>2. failed.writes \in Seq(Lawful(row, publication)) /\ failed.pc = "end"
    BY <2>1, OneWrite
  <2> HIDE DEF failed
  <2>3. QED BY <1>6, <1>8, <2>2
<1>9. CASE Runs(t, halts)
  <2>1. /\ halted \in RowRecord /\ halted.status = "needs_attention" /\ halted.gate = row.gate
        /\ halted.receipt = row.receipt
    BY <1>2, Statuses DEF RowRecord
  <2>2. /\ "needs_attention" \in Given
        /\ "needs_attention" \notin Terminal \cup {"preparing_context", "completed"}
        /\ \A gate \in Gate : Awaiting[gate] # "needs_attention"
    BY Statuses DEF Given, Terminal
  <2> HIDE DEF halted
  <2>3. GatesInOrder(halted, graph) /\ StatusInOrder(halted, graph, publication)
    BY <1>2, <1>4, <2>1, <2>2 DEF GatesInOrder, StatusInOrder
  <2>4. To(halted, graph) \in Lawful(row, publication)
    BY <1>2, <1>4, <2>1, <2>3, Commit
  <2>5. halts.writes \in Seq(Lawful(row, publication)) /\ halts.pc = "end"
    BY <2>4, OneWrite
  <2> HIDE DEF halts
  <2>6. QED BY <1>6, <1>9, <2>5
<1>10. QED BY <1>1, <1>7, <1>8, <1>9

(* A request, or what has no task of its own, while nobody drives or what it
   writes is not what a driver counts on. *)
LEMMA RequestRuns ==
    ASSUME Inv, up, NEW t \in Tid, NEW stretch, Runs(t, stretch), task[t] = NoTask, ~Booting,
           stretch.writes \in Seq(Lawful(row, publication')),
           StatusInOrder(row, graph, publication'), publication' \in Document,
           registry' = registry,
           stretch.pc \in AwaitedAt \cup {"end"},
           \A s \in Tid \ {t} : Driving(s) =>
             /\ stretch.pc = "end"
             /\ Completes(t, stretch) => DriverInOrder(s)',
           stretch.pc # "end" =>
             LET last == Ends(stretch, row, graph) IN
             NextInOrder(t, stretch.pc, last.row, last.graph, publication')
    PROVE  Inv'
<1>1. task[t].pc = "free" /\ ~task[t].asked
  BY DEF NoTask
<1>2. QED BY <1>1, TaskRuns

(* Where the candidate was given nobody drives but the one that applies it. *)
LEMMA GivenIsAlone ==
    ASSUME Inv, up, ~Booting, row.gate["candidate"] = "approve", row.status # "applying",
           NEW s \in Tid
    PROVE  ~Driving(s)
<1>1. /\ KindsInOrder(s) /\ DriverInOrder(s) /\ task[s] \in TaskRecord
      /\ graph \in GraphRecord /\ GatesInOrder(row, graph) /\ StatusInOrder(row, graph, publication)
  BY Facts
<1>2. graph.state # "ready" /\ Node(graph) = "candidate"
  BY <1>1, CandidateIsLast
<1>3. graph.status # "none" /\ graph # NewGraph
  BY <1>1, <1>2 DEF StatusInOrder, NoGraph, NewGraph
<1>4. task[s].what # "boot"
  BY DEF Booting
<1>5. task[s].pc \notin {"role", "work", "apply", "recover"}
  BY <1>1, <1>2, <1>4 DEF DriverInOrder, KindsInOrder
<1>6. ~(task[s].pc = "prepare" /\ ~task[s].asked)
  BY <1>1, <1>3 DEF DriverInOrder
<1>7. ~(task[s].pc = "start" /\ ~task[s].asked)
  BY <1>1, <1>3 DEF DriverInOrder, KindsInOrder, Scheduled
<1>8. QED BY <1>5, <1>6, <1>7 DEF Driving

LEMMA ResumeForwardKeeps == ASSUME Inv, NEW t \in Tid, ResumeForward(t) PROVE Inv'
<1> DEFINE s == Close(Released(row), graph)
<1>1. /\ Arrives(t) /\ row.status = "needs_attention" /\ Runs(t, s)
      /\ publication' = publication /\ registry' = registry
  BY DEF ResumeForward
<1>2. up /\ ~Booting /\ task[t] = NoTask
  BY <1>1, Arriving
<1>3. /\ row \in RowRecord /\ graph \in GraphRecord /\ publication \in Document
      /\ GatesInOrder(row, graph) /\ StatusInOrder(row, graph, publication)
  BY <1>2, Facts
<1>4. row.gate["candidate"] = "approve" /\ row.status \notin Terminal
  BY <1>1, <1>3 DEF GatesInOrder, Given, Terminal
<1>5. \A u \in Tid : ~Driving(u)
  BY <1>1, <1>2, <1>4, GivenIsAlone
<1>6. s.writes \in Seq(Lawful(row, publication)) /\ s.pc = "end"
  BY <1>1, <1>3, <1>4, Closing
<1> HIDE DEF s
<1>7. QED BY <1>1, <1>2, <1>3, <1>5, <1>6, RequestRuns

-----------------------------------------------------------------------------
(* Requests, the recovery, and the process.                                *)

LEMMA RequestCancelKeeps == ASSUME Inv, NEW t \in Tid, RequestCancel(t) PROVE Inv'
<1> DEFINE moved == [row EXCEPT !.status = "cancelling", !.version = @ + 1]
           new == [NoTask EXCEPT !.pc = "waiting", !.what = "cancel", !.on = registry]
           told(s) == [task[s] EXCEPT !.asked = TRUE]
<1>1. /\ Arrives(t) /\ row.status \notin Terminal \cup {"applying", "needs_attention"}
      /\ row' = IF row.status = "cancelling" THEN row ELSE moved
      /\ task' = [s \in Tid |-> IF s = t THEN new ELSE IF s = registry THEN told(s) ELSE task[s]]
      /\ lane' = IF registry # 0 /\ task[registry].pc = "work" THEN Stopping ELSE lane
      /\ UNCHANGED <<graph, publication, lease, registry, up, restarts>>
  BY DEF RequestCancel, env
<1>2. up /\ ~Booting /\ task[t] = NoTask /\ ~Driving(t) /\ ~Scheduled(t) /\ t # registry
  BY <1>1, Arriving
<1>3. /\ row \in RowRecord /\ graph \in GraphRecord /\ registry \in Tid \cup {0}
      /\ task \in [Tid -> TaskRecord]
      /\ lane \in [Lane -> {"idle", "running", "stopping", "done", "failed", "stopped"}]
      /\ GatesInOrder(row, graph) /\ StatusInOrder(row, graph, publication)
      /\ row.status \notin Terminal => lease = "self"
      /\ \A s \in Tid : KindsInOrder(s) /\ DriverInOrder(s)
      /\ OneDrives /\ BootsAlone /\ CancelAsks /\ LanesInOrder
  BY <1>2, Facts
<1>4. /\ moved \in RowRecord /\ moved.status = "cancelling" /\ moved.gate = row.gate
      /\ moved.receipt = row.receipt
  <2>1. "cancelling" \in Status
    BY Statuses
  <2>2. QED BY <1>3, <2>1, RowMoves
<1> HIDE DEF moved
<1>5. /\ row' \in RowRecord /\ row'.status = "cancelling" /\ row'.gate = row.gate
      /\ row'.receipt = row.receipt
  BY <1>1, <1>3, <1>4
<1>6. /\ "cancelling" \notin Given \cup Terminal \cup {"preparing_context"}
      /\ \A gate \in Gate : Awaiting[gate] # "cancelling"
  BY Statuses DEF Given, GivenUp, Terminal
<1>7. row.gate["candidate"] # "approve" /\ ~row.receipt
  BY <1>1, <1>3 DEF GatesInOrder, StatusInOrder, Given, Terminal
<1>8. RowInOrder'
  <2>1. GatesInOrder(row', graph')
    BY <1>1, <1>3, <1>5, <1>6, <1>7 DEF GatesInOrder
  <2>2. StatusInOrder(row', graph', publication')
    BY <1>1, <1>3, <1>5, <1>6, <1>7 DEF StatusInOrder, Given
  <2>3. lease' = "self"
    BY <1>1, <1>3
  <2>4. QED BY <2>1, <2>2, <2>3 DEF RowInOrder
<1>9. /\ new \in TaskRecord /\ new.pc = "waiting" /\ new.what = "cancel" /\ new.asked = FALSE
  BY <1>3 DEF NoTask, TaskRecord
<1>10. \A s \in Tid : /\ told(s) \in TaskRecord /\ told(s).asked = TRUE
                      /\ told(s).pc = task[s].pc /\ told(s).what = task[s].what
                      /\ told(s).decision = task[s].decision /\ told(s).copy = task[s].copy
  BY <1>3 DEF TaskRecord
<1> HIDE DEF new
<1>11. /\ task'[t] = new /\ task' \in [Tid -> TaskRecord]
       /\ \A s \in Tid \ {t} : task'[s] = IF s = registry THEN told(s) ELSE task[s]
  BY <1>1, <1>2, <1>3, <1>9, <1>10
<1>12. \A s \in Tid \ {t} :
         /\ task'[s].pc = task[s].pc /\ task'[s].what = task[s].what
         /\ task'[s].decision = task[s].decision /\ task'[s].copy = task[s].copy
         /\ (task[s].asked => task'[s].asked)
         /\ (s = registry => task'[s].asked) /\ (s # registry => task'[s] = task[s])
         /\ (Scheduled(s)' <=> Scheduled(s)) /\ (Driving(s)' => Driving(s))
  BY <1>10, <1>11 DEF Scheduled, Driving
<1> HIDE DEF told
<1>13. lane' \in {lane, Stopping}
       /\ lane' \in [Lane -> {"idle", "running", "stopping", "done", "failed", "stopped"}]
  BY <1>1, <1>3 DEF Stopping
<1>14. Typed'
  <2>1. \A s \in Tid : task'[s].pc \in {"role", "apply"} => task'[s].copy \in RowRecord
    BY <1>9, <1>11, <1>12 DEF Inv, Typed
  <2>2. QED BY <1>1, <1>5, <1>11, <1>13, <2>1 DEF Typed, Inv
<1>15. ASSUME NEW s \in Tid PROVE KindsInOrder(s)' /\ DriverInOrder(s)'
  <2>1. CASE s = t
    <3>1. ~Scheduled(t)'
      BY <1>9, <1>11 DEF Scheduled, Gate
    <3>2. KindsInOrder(t)'
      BY <1>1, <1>2, <1>9, <1>11, <3>1 DEF KindsInOrder, Gate
    <3>3. DriverInOrder(t)'
      BY <1>9, <1>11 DEF DriverInOrder
    <3>4. QED BY <2>1, <3>2, <3>3
  <2>2. CASE s # t
    <3>1. KindsInOrder(s)
      BY <1>3
    <3>2. task[s].pc = "free" => ~Scheduled(s) /\ s # registry
      BY <3>1 DEF KindsInOrder, NoTask, Scheduled, Gate
    <3>3. KindsInOrder(s)'
      BY <1>1, <1>12, <2>2, <3>1, <3>2 DEF KindsInOrder
    <3>4. DriverInOrder(s)'
      <4>1. CASE s = registry
        <5>1. Scheduled(s) /\ task[s].what # "none" /\ task'[s].asked
          BY <1>12, <2>2, <3>1, <4>1 DEF KindsInOrder, Scheduled, Gate
        <5>2. task[s].pc # "apply"
          BY <1>1, <1>3 DEF DriverInOrder
        <5>3. QED BY <1>1, <1>3, <1>12, <2>2, <5>1, <5>2 DEF DriverInOrder
      <4>2. CASE s # registry
        <5>1. ~Scheduled(s) /\ task'[s] = task[s] /\ task[s].what # "boot"
          BY <1>2, <1>12, <2>2, <3>1, <4>2 DEF KindsInOrder, Booting
        <5>2. task[s].what \in {"none", "cancel"}
          BY <1>3, <5>1 DEF TaskRecord, Scheduled
        <5>3. task[s].pc \in {"free", "role", "waiting"}
          BY <3>1, <5>2 DEF KindsInOrder
        <5>4. task[s].pc = "role" => task[s].what = "none"
          BY <3>1, <5>2 DEF KindsInOrder
        <5>5. QED BY <1>1, <1>3, <1>5, <1>6, <5>1, <5>3, <5>4 DEF DriverInOrder
      <4>3. QED BY <4>1, <4>2
    <3>5. QED BY <3>3, <3>4
  <2>3. QED BY <2>1, <2>2
<1>16. OneDrives'
  <2>1. ~Driving(t)'
    BY <1>9, <1>11 DEF Driving
  <2>2. QED BY <1>3, <1>12, <2>1 DEF OneDrives
<1>17. BootsAlone'
  <2>1. ~Booting'
    BY <1>2, <1>9, <1>11, <1>12 DEF Booting
  <2>2. QED BY <2>1 DEF BootsAlone
<1>18. CancelAsks'
  <2>1. ASSUME NEW s \in Tid, task'[s].what \in {"prepare", "advance"} PROVE task'[s].asked
    <3>1. s # t
      BY <1>9, <1>11, <2>1
    <3>2. Scheduled(s)
      BY <1>12, <2>1, <3>1 DEF Scheduled
    <3>3. s = registry
      BY <1>3, <3>2 DEF KindsInOrder
    <3>4. QED BY <1>12, <3>1, <3>3
  <2>2. QED BY <2>1 DEF CancelAsks
<1>19. LanesInOrder'
  <2>1. ASSUME NEW l \in Lane, lane[l] = "running"
        PROVE  lane' = Stopping /\ \E s \in Tid : task'[s].pc = "work"
    <3>1. PICK s \in Tid : task[s].pc = "work" /\ ~task[s].asked
      BY <1>3, <2>1 DEF LanesInOrder
    <3>2. s # t /\ task[s].what \in {"plan", "design"}
      <4>1. NoTask.pc # "work"
        BY DEF NoTask
      <4>2. QED BY <1>2, <1>3, <3>1, <4>1 DEF KindsInOrder, Booting
    <3>3. s = registry
      BY <1>3, <3>2 DEF KindsInOrder, Scheduled, Gate
    <3>4. registry # 0
      BY <3>3 DEF Tid
    <3>5. QED BY <1>1, <1>12, <3>1, <3>2, <3>3, <3>4
  <2>2. ASSUME NEW l \in Lane, lane[l] = "stopping" PROVE \E s \in Tid : task'[s].pc = "work"
    <3>1. PICK s \in Tid : task[s].pc = "work"
      BY <1>3, <2>2 DEF LanesInOrder
    <3>2. s # t
      BY <1>2, <3>1 DEF NoTask
    <3>3. QED BY <1>12, <3>1, <3>2
  <2>3. ASSUME NEW l \in Lane
        PROVE  /\ lane'[l] # "running"
               /\ lane'[l] = "stopping" => lane[l] \in {"running", "stopping"}
    <3>1. CASE lane[l] = "running"
      BY <2>1, <3>1 DEF Stopping
    <3>2. CASE lane[l] # "running"
      BY <1>13, <3>2 DEF Stopping
    <3>3. QED BY <3>1, <3>2
  <2>4. QED BY <2>1, <2>2, <2>3 DEF LanesInOrder
<1>20. QED BY <1>8, <1>14, <1>15, <1>16, <1>17, <1>18, <1>19 DEF Inv, DeliveryInv, TasksInOrder

LEMMA FinishCancelKeeps == ASSUME Inv, NEW t \in Tid, FinishCancel(t) PROVE Inv'
<1> DEFINE f == Finish(row, graph)
<1>1. /\ up /\ task[t].what = "cancel" /\ publication' = publication /\ registry' = registry
      /\ Runs(t, f) \/ Runs(t, Nothing)
  BY DEF FinishCancel
<1>2. /\ row \in RowRecord /\ graph \in GraphRecord /\ publication \in Document
      /\ GatesInOrder(row, graph) /\ StatusInOrder(row, graph, publication)
      /\ \A s \in Tid : KindsInOrder(s) /\ DriverInOrder(s)
      /\ CancelAsks /\ BootsAlone
  BY <1>1, Facts
<1>3. ~Booting
  <2>1. SUFFICES ASSUME Booting PROVE FALSE
    OBVIOUS
  <2>2. task[t] = NoTask \/ t = 1
    BY <1>2, <2>1 DEF BootsAlone
  <2>3. PICK u \in Tid : task[u].what = "boot"
    BY <2>1 DEF Booting
  <2>4. u = 1
    BY <1>2, <2>3 DEF KindsInOrder
  <2>5. QED BY <1>1, <2>2, <2>3, <2>4 DEF NoTask
<1>4. /\ task[t].pc = "waiting"
  BY <1>1, <1>2 DEF KindsInOrder
<1>5. /\ f.writes \in Seq(Lawful(row, publication)) /\ f.pc = "end"
      /\ Ends(f, row, graph).graph = Cancelled(graph)
      /\ row.status # "cancelling" => Ends(f, row, graph).row = row
      /\ Ends(f, row, graph).row.gate = row.gate
  BY <1>2, Finishing
<1>6. /\ Nothing.writes \in Seq(Lawful(row, publication)) /\ Nothing.pc = "end"
      /\ Ends(Nothing, row, graph).row = row /\ Ends(Nothing, row, graph).graph = graph
  BY WritesNothing
<1>7. /\ Cancelled(graph).node = graph.node /\ Cancelled(graph).state = graph.state
      /\ Cancelled(graph).status # "running"
      /\ Node(Cancelled(graph)) = Node(graph)
  BY <1>2, GraphMoves DEF Node
<1>8. ASSUME NEW x \in {f, Nothing}, NEW s \in Tid \ {t}, Driving(s), Completes(t, x)
      PROVE  DriverInOrder(s)'
  <2>1. task'[s] = task[s]
    BY <1>8, Facts DEF Completes
  <2>2. /\ graph' \in {graph, Cancelled(graph)} /\ row'.gate = row.gate
        /\ row.status # "cancelling" => row' = row
    BY <1>5, <1>6, <1>8 DEF Completes
  <2>3. task[s].what # "boot"
    BY <1>3 DEF Booting
  <2>4. task[s].what \in {"prepare", "advance"} => task[s].asked \/ task[s].pc = "returned"
    BY <1>1, <1>2 DEF CancelAsks
  <2>5. DriverInOrder(s) /\ KindsInOrder(s)
    BY <1>2
  <2>6. CASE task[s].pc = "start" /\ ~task[s].asked
    BY <1>7, <2>1, <2>2, <2>4, <2>5, <2>6 DEF DriverInOrder, Gate
  <2>7. CASE task[s].pc = "role"
    <3>1. task[s].what = "none" \/ task[s].asked
      BY <2>3, <2>4, <2>5, <2>7 DEF KindsInOrder
    <3>2. task[s].what = "none" /\ row'.status \in Terminal => graph'.status # "running"
      <4>1. CASE row.status = "cancelling" /\ graph' = graph
        <5>1. row' = row \/ graph' = Cancelled(graph)
          BY <1>5, <1>6, <1>8 DEF Completes
        <5>2. QED BY <1>1, <1>7, <2>5, <2>7, <5>1, <4>1 DEF DriverInOrder
      <4>2. CASE row.status # "cancelling"
        BY <1>7, <2>2, <2>5, <2>7, <4>2 DEF DriverInOrder
      <4>3. QED BY <1>7, <2>2, <4>1, <4>2
    <3>3. QED BY <1>1, <1>7, <2>1, <2>2, <2>5, <2>7, <3>1, <3>2 DEF DriverInOrder
  <2>8. CASE task[s].pc = "work"
    BY <1>7, <2>1, <2>2, <2>5, <2>8 DEF DriverInOrder, GivenUp
  <2>9. CASE task[s].pc = "apply"
    BY <2>1, <2>2, <2>5, <2>9 DEF DriverInOrder
  <2>10. QED BY <2>3, <2>4, <2>5, <2>6, <2>7, <2>8, <2>9, <1>8 DEF Driving, KindsInOrder
<1> HIDE DEF f
<1>9. StatusInOrder(row, graph, publication')
  BY <1>1, <1>2
<1>10. QED BY <1>1, <1>2, <1>3, <1>4, <1>5, <1>6, <1>8, <1>9, TaskRuns

(* The role documents are published again, and the run goes on from where the
   last role stage left it. *)
LEMMA RepublishKeeps ==
    ASSUME Inv, up, NEW t \in Tid, publication' = "published", registry' = registry,
           Runs(t, Advance(row, graph, "published")),
           graph.status = "completed" => row.receipt,
           graph.status \in {"failed", "cancelled"} /\ row.status \notin Terminal =>
             row.gate["candidate"] \notin {"approve", "reject"},
           graph.status = "running" /\ graph.state = "ready" => row.status \notin Terminal,
           Booting => t = 1, task[t].pc # "returned", task[t].pc # "work", ~task[t].asked,
           \A s \in Tid \ {t} : Driving(s) =>
             /\ Advance(row, graph, "published").pc = "end"
             /\ Completes(t, Advance(row, graph, "published")) => DriverInOrder(s)',
           graph.state = "ready" /\ graph.status = "running" =>
             IF graph.node < PlanAt
             THEN /\ task[t].what \in {"none", "boot"}
                  /\ task[t].what = "boot" => row.status \notin GivenUp
             ELSE \/ task[t].what = "boot" /\ row.status \notin GivenUp
                  \/ Node(graph) # "work"
    PROVE  Inv'
<1> DEFINE s == Advance(row, graph, "published")
<1>1. /\ row \in RowRecord /\ graph \in GraphRecord /\ publication \in Document
      /\ GatesInOrder(row, graph) /\ StatusInOrder(row, graph, publication)
  BY Facts
<1>2. StatusInOrder(row, graph, "published") /\ "published" \in Document
      /\ "published" \notin Unpublished
  BY <1>1 DEF StatusInOrder, Unpublished, Document
<1>3. MayAdvance(row, graph, "published")
  BY <1>1, <1>2 DEF MayAdvance
<1>4. Advances(s, row, graph, "published")
  BY <1>3, AdvancesNow
<1> HIDE DEF s
<1>5. s.pc \in AwaitedAt \cup {"end"} /\ s.writes \in Seq(Lawful(row, "published"))
  BY <1>4 DEF Advances, AwaitedAt
<1>6. ASSUME s.pc # "end"
      PROVE  LET last == Ends(s, row, graph) IN
             NextInOrder(t, s.pc, last.row, last.graph, "published")
  <2>1. /\ s.pc = Node(graph) /\ s.pc \in {"role", "work"}
        /\ graph.status = "running" /\ graph.state = "ready"
        /\ Ends(s, row, graph).row = row /\ Ends(s, row, graph).graph = Started(graph)
    BY <1>4, <1>6 DEF Advances, To
  <2>2. /\ Started(graph).state = "running" /\ Started(graph).status = "running"
        /\ Node(Started(graph)) = Node(graph)
    BY <1>1, <2>1, GraphMoves DEF Node
  <2>3. row.status \notin Terminal
    BY <2>1
  <2>4. CASE s.pc = "role"
    <3>1. graph.node < PlanAt
      BY <1>1, <2>1, <2>4, NodeKinds
    <3>2. (\A gate \in Gate : row.gate[gate] = "none") /\ ~row.receipt
      BY <1>1, <3>1, EarlyGates
    <3>3. QED BY <2>1, <2>2, <2>3, <2>4, <3>1, <3>2 DEF NextInOrder
  <2>5. CASE s.pc = "work"
    <3>1. ~(graph.node < PlanAt)
      BY <1>1, <2>1, <2>5, NodeKinds
    <3>2. QED BY <2>1, <2>2, <2>5, <3>1 DEF NextInOrder
  <2>6. QED BY <2>1, <2>4, <2>5
<1>7. Runs(t, s) /\ \A u \in Tid \ {t} : Driving(u) =>
        s.pc = "end" /\ (Completes(t, s) => DriverInOrder(u)')
  BY DEF s
<1>8. QED BY <1>1, <1>2, <1>5, <1>6, <1>7, TaskRuns

LEMMA ResumePublicationsKeeps == ASSUME Inv, NEW t \in Tid, ResumePublications(t) PROVE Inv'
<1> DEFINE s == Advance(row, graph, "published")
<1>1. /\ Arrives(t) /\ publication \in Unpublished /\ registry' = registry
      /\ \/ publication' = "failed" /\ Runs(t, Nothing)
         \/ publication' = "published" /\ Runs(t, s)
  BY DEF ResumePublications, Unpublished
<1>2. up /\ ~Booting /\ task[t] = NoTask
  BY <1>1, Arriving
<1>3. /\ row \in RowRecord /\ graph \in GraphRecord
      /\ GatesInOrder(row, graph) /\ StatusInOrder(row, graph, publication)
      /\ \A u \in Tid : KindsInOrder(u) /\ DriverInOrder(u)
  BY <1>2, Facts
<1>4. /\ graph.node < PlanAt \/ (graph.node = PlanAt /\ graph.state = "ready")
      /\ ~(row.status \in Terminal /\ graph.status = "running" /\ graph.state = "ready")
  BY <1>1, <1>3 DEF StatusInOrder
<1>5. row.gate["candidate"] = "none" /\ row.gate["candidate"] # "approve"
  BY <1>3, <1>4, EarlyGates, Statuses
<1>6. graph.status # "completed"
  BY <1>3, <1>4, PipelineShape DEF StatusInOrder
(* Whoever drives is at a role stage, or prepares, or has no stage to go on with. *)
<1>7. ASSUME NEW u \in Tid, Driving(u)
      PROVE  /\ ~(graph.status = "running" /\ graph.state = "ready")
             /\ task[u].pc = "prepare" => graph.status = "none"
             /\ task[u].pc \in {"prepare", "role"}
             /\ task[u].pc = "role" /\ task[u].what # "none" /\ ~task[u].asked =>
                  graph.status = "running"
  <2>1. task[u].what # "boot" /\ KindsInOrder(u) /\ DriverInOrder(u)
    BY <1>2, <1>3 DEF Booting
  <2>2. graph.node \in 1..LastNode /\ PlanAt \in 1..LastNode /\ PlanAt < LastNode
    BY <1>3, PipelineShape DEF GraphRecord
  <2>3. task[u].pc \notin {"work", "recover", "apply"}
    <3>1. Node(graph) # "work"
      BY <1>3, <1>4, <2>2, NodeKinds
    <3>2. row.status # "applying"
      BY <1>3, <1>5 DEF GatesInOrder, Given
    <3>3. QED BY <2>1, <3>1, <3>2 DEF KindsInOrder, DriverInOrder
  <2>4. ~(task[u].pc = "start" /\ ~task[u].asked)
    <3>1. ~(graph.state = "running" /\ graph.node >= PlanAt)
      BY <1>4, <2>2
    <3>2. QED BY <1>1, <2>1, <3>1 DEF DriverInOrder, KindsInOrder, Scheduled
  <2>5. QED BY <1>7, <2>1, <2>3, <2>4 DEF Driving, DriverInOrder
<1>8. CASE publication' = "failed" /\ Runs(t, Nothing)
  <2>1. /\ Nothing.writes \in Seq(Lawful(row, publication')) /\ Nothing.pc = "end"
        /\ Ends(Nothing, row, graph).row = row /\ Ends(Nothing, row, graph).graph = graph
    BY WritesNothing
  <2>2. StatusInOrder(row, graph, publication') /\ publication' \in Document
    BY <1>3, <1>4, <1>8 DEF StatusInOrder, Document
  <2>3. ASSUME NEW u \in Tid \ {t}, Driving(u), Completes(t, Nothing) PROVE DriverInOrder(u)'
    <3>1. row' = row /\ graph' = graph /\ task'[u] = task[u]
      BY <1>2, <2>1, <2>3, Facts DEF Completes
    <3>2. task[u].pc \in {"prepare", "role"} /\ DriverInOrder(u)
      BY <1>3, <1>7, <2>3
    <3>3. QED BY <1>8, <3>1, <3>2 DEF DriverInOrder
  <2>4. QED BY <1>1, <1>2, <1>8, <2>1, <2>2, <2>3, RequestRuns
<1>9. CASE publication' = "published" /\ Runs(t, s)
  <2>1. ASSUME NEW u \in Tid \ {t}, Driving(u) PROVE s.pc = "end"
    <3>1. ~(graph.status = "running" /\ graph.state = "ready")
      BY <1>7, <2>1
    <3>2. MayAdvance(row, graph, "published")
      BY <1>3, <1>4, <1>5, <1>6 DEF MayAdvance, StatusInOrder, Unpublished, Document
    <3>3. Advances(s, row, graph, "published")
      BY <3>2, AdvancesNow
    <3>4. QED BY <3>1, <3>3 DEF Advances
  <2>2. ASSUME NEW u \in Tid \ {t}, Driving(u), Completes(t, s) PROVE DriverInOrder(u)'
    <3>1. /\ task'[u] = task[u] /\ task[u].pc \in {"prepare", "role"} /\ DriverInOrder(u)
          /\ row' = Ends(s, row, graph).row /\ graph' = Ends(s, row, graph).graph
          /\ ~(graph.status = "running" /\ graph.state = "ready")
      BY <1>2, <1>3, <1>7, <2>2, Facts DEF Completes
    <3>2. /\ graph' = graph
          /\ row' = row \/ graph.status \in {"failed", "cancelled"}
      <4>1. \/ s = Nothing
            \/ /\ graph.status \in {"failed", "cancelled"}
               /\ s = Stretch(<<To([row EXCEPT !.status = graph.status], graph)>>, "end")
        BY <1>6, <3>1 DEF Advance
      <4>2. CASE s = Nothing
        BY <3>1, <4>2, WritesNothing
      <4>3. CASE /\ graph.status \in {"failed", "cancelled"}
                 /\ s = Stretch(<<To([row EXCEPT !.status = graph.status], graph)>>, "end")
        <5> DEFINE c == To([row EXCEPT !.status = graph.status], graph)
        <5>1. c.graph = graph
          BY DEF To
        <5> HIDE DEF c
        <5>2. Ends(Stretch(<<c>>, "end"), row, graph) = c
          BY OneWrite
        <5>3. QED BY <3>1, <4>3, <5>1, <5>2 DEF c
      <4>4. QED BY <4>1, <4>2, <4>3
    <3>3. QED BY <1>7, <1>9, <2>2, <3>1, <3>2 DEF DriverInOrder
  <2>3. task[t].pc = "free" /\ task[t].what = "none" /\ ~task[t].asked
    BY <1>2 DEF NoTask
  <2>4. graph.node >= PlanAt => Node(graph) # "work"
    BY <1>3, <1>4, NodeKinds, PipelineShape DEF GraphRecord
  <2>5. graph.node < PlanAt \/ graph.node >= PlanAt
    BY <1>4, PipelineShape
  <2> HIDE DEF s
  <2>6. Runs(t, Advance(row, graph, "published"))
        /\ \A u \in Tid \ {t} : Driving(u) =>
             /\ Advance(row, graph, "published").pc = "end"
             /\ Completes(t, Advance(row, graph, "published")) => DriverInOrder(u)'
    BY <1>9, <2>1, <2>2 DEF s
  <2>7. QED BY <1>1, <1>2, <1>4, <1>5, <1>6, <1>9, <2>3, <2>4, <2>5, <2>6, RepublishKeeps
<1>10. QED BY <1>1, <1>8, <1>9

-----------------------------------------------------------------------------
(* The process dies and comes back, and others take the project.           *)

(* What the recovery finds. *)
LEMMA Recovering ==
    ASSUME Inv, NEW t \in Tid, Recover(t)
    PROVE  /\ up /\ task[t].pc = "recover" /\ task[t].what = "boot" /\ ~task[t].asked
           /\ Driving(t) /\ t = 1
           /\ \A s \in Tid \ {t} : ~Driving(s)
           /\ Interrupted => /\ row.status \notin GivenUp /\ row.status \notin Given
                             /\ row.gate["candidate"] \notin {"approve", "reject"}
                             /\ ~row.receipt
                             /\ \A gate \in Gate : row.status # Awaiting[gate]
<1>1. up /\ task[t].pc = "recover"
  BY DEF Recover
<1>2. task[t].what = "boot" /\ ~task[t].asked /\ t = 1
  BY <1>1, Facts DEF KindsInOrder, Scheduled, Gate
<1>3. Driving(t)
  BY <1>1 DEF Driving
<1>4. \A s \in Tid \ {t} : ~Driving(s)
  BY <1>1, <1>3, Facts DEF OneDrives
<1>5. ASSUME Interrupted
      PROVE  /\ row.status \notin GivenUp /\ row.status \notin Given
             /\ row.gate["candidate"] \notin {"approve", "reject"} /\ ~row.receipt
             /\ \A gate \in Gate : row.status # Awaiting[gate]
  <2>1. row.status \notin GivenUp /\ row.status \notin Given
    BY <1>5 DEF Interrupted, GivenUp, Given, Terminal
  <2>2. \A gate \in Gate : row.status # Awaiting[gate]
    BY <1>5 DEF Interrupted, Awaiting, Gate
  <2>3. row.gate["candidate"] # "approve" /\ ~row.receipt
    BY <2>1, Facts DEF GatesInOrder, StatusInOrder
  <2>4. row.gate["candidate"] # "reject"
    BY <2>1, Facts DEF GatesInOrder, GivenUp, Terminal
  <2>5. QED BY <2>1, <2>2, <2>3, <2>4
<1>6. QED BY <1>1, <1>2, <1>3, <1>4, <1>5

(* The recovery goes on where the documents were to be published. *)
LEMMA RecoverPublishes ==
    ASSUME Inv, NEW t \in Tid, Recover(t), Interrupted, graph.status = "running",
           publication \in {"pending", "failed", "published"}
    PROVE  Inv'
<1> DEFINE s == Advance(row, graph, "published")
<1>1. /\ up /\ task[t].pc = "recover" /\ task[t].what = "boot" /\ ~task[t].asked
      /\ Driving(t) /\ t = 1
      /\ \A u \in Tid \ {t} : ~Driving(u)
      /\ row.status \notin GivenUp
  BY Recovering
<1>2. /\ registry' = registry
      /\ \/ publication' = "failed" /\ publication \in Unpublished /\ Runs(t, Nothing)
         \/ publication' = "published" /\ Runs(t, s)
  BY DEF Recover, Unpublished
<1>3. CASE publication' = "failed" /\ publication \in Unpublished /\ Runs(t, Nothing)
  <2>1. /\ Nothing.writes \in Seq(Lawful(row, publication')) /\ Nothing.pc = "end"
    BY WritesNothing
  <2>2. StatusInOrder(row, graph, publication)
    BY Facts
  <2>3. StatusInOrder(row, graph, publication') /\ publication' \in Document
    BY <1>3, <2>2 DEF StatusInOrder, Document, Unpublished
  <2>4. QED BY <1>1, <1>2, <1>3, <2>1, <2>3, DriverRuns
<1>4. CASE publication' = "published" /\ Runs(t, s)
  <2>1. row.status \notin Terminal /\ graph.status \notin {"completed", "failed", "cancelled"}
    BY <1>1 DEF GivenUp
  <2>2. Runs(t, Advance(row, graph, "published"))
    BY <1>4
  <2> HIDE DEF s
  <2>3. QED BY <1>1, <1>2, <1>4, <2>1, <2>2, RepublishKeeps
<1>5. QED BY <1>2, <1>3, <1>4

(* The other ways the recovery goes: the cleanup of a cancellation is finished or
   fails again, the context and a local apply are tried again, what was
   interrupted ends as its graph did or fails with it, and the rest stays. *)
LEMMA RecoverEnds ==
    ASSUME Inv, NEW t \in Tid, Recover(t), publication' = publication,
           NEW s, Runs(t, s),
           \/ s = Finish(row, graph)
           \/ s = Nothing
           \/ /\ Interrupted /\ graph.status \in {"failed", "cancelled"}
              /\ s = Stretch(<<To([row EXCEPT !.status = graph.status], graph)>>, "end")
           \/ /\ Interrupted /\ graph.status \in {"running", "completed"}
              /\ graph.status = "running" => publication \notin Unpublished
              /\ s = Fail(row, graph)
    PROVE  Inv'
<1>1. /\ up /\ task[t].pc = "recover" /\ Driving(t) /\ registry' = registry
      /\ Interrupted => row.gate["candidate"] \notin {"approve", "reject"}
  BY Recovering DEF Recover
<1>2. /\ row \in RowRecord /\ graph \in GraphRecord /\ publication \in Document
      /\ GatesInOrder(row, graph) /\ StatusInOrder(row, graph, publication)
  BY Facts
<1>3. s.writes \in Seq(Lawful(row, publication)) /\ s.pc = "end"
  <2>1. CASE s = Finish(row, graph)
    BY <1>2, <2>1, Finishing
  <2>2. CASE s = Nothing
    BY <2>2, WritesNothing
  <2>3. CASE /\ Interrupted /\ graph.status \in {"failed", "cancelled"}
             /\ s = Stretch(<<To([row EXCEPT !.status = graph.status], graph)>>, "end")
    <3> DEFINE ended == [row EXCEPT !.status = graph.status]
    <3>1. /\ ended \in RowRecord /\ ended.status = graph.status
          /\ GatesInOrder(ended, graph) /\ StatusInOrder(ended, graph, publication)
      BY <1>1, <1>2, <2>3, RowFails
    <3>2. ended.status \in Terminal
      BY <2>3, <3>1 DEF Terminal
    <3> HIDE DEF ended
    <3>3. To(ended, graph) \in Lawful(row, publication)
      BY <1>2, <3>1, <3>2, Commit
    <3>4. s = Stretch(<<To(ended, graph)>>, "end")
      BY <2>3 DEF ended
    <3>5. QED BY <3>3, <3>4, OneWrite
  <2>4. CASE /\ Interrupted /\ graph.status \in {"running", "completed"}
             /\ graph.status = "running" => publication \notin Unpublished
             /\ s = Fail(row, graph)
    BY <1>1, <1>2, <2>4, Failing
  <2>5. QED BY <2>1, <2>2, <2>3, <2>4
<1>4. QED BY <1>1, <1>2, <1>3, DriverRuns

LEMMA RecoverKeeps == ASSUME Inv, NEW t \in Tid, Recover(t) PROVE Inv'
<1>1. /\ up /\ task[t].pc = "recover" /\ task[t].what = "boot" /\ ~task[t].asked /\ Driving(t)
      /\ registry' = registry
  BY Recovering DEF Recover
<1>2. CASE Interrupted /\ graph.status = "running" /\ publication \in {"pending", "failed", "published"}
  BY <1>2, RecoverPublishes
<1>3. CASE ~(Interrupted /\ graph.status = "running"
               /\ publication \in {"pending", "failed", "published"})
  <2>1. publication' = publication
    BY <1>3 DEF Recover
  <2>2. graph.status = "running" /\ Interrupted => publication \notin Unpublished
    BY <1>3 DEF Unpublished
  <2>3. /\ publication \in Document /\ StatusInOrder(row, graph, publication)
    BY Facts
  <2>4. CASE row.status = "preparing_context" /\ Runs(t, Stretch(<<>>, "prepare"))
    <3> DEFINE s == Stretch(<<>>, "prepare")
    <3>1. /\ s.writes \in Seq(Lawful(row, publication')) /\ s.pc = "prepare"
          /\ Ends(s, row, graph).graph = graph
      BY NoWrites DEF To
    <3>2. graph.status = "none"
      BY <2>3, <2>4 DEF StatusInOrder
    <3>3. NextInOrder(t, "prepare", Ends(s, row, graph).row, graph, publication')
      BY <1>1, <3>2 DEF NextInOrder
    <3>4. Runs(t, s)
      BY <2>4
    <3> HIDE DEF s
    <3>5. QED BY <1>1, <2>1, <2>3, <3>1, <3>3, <3>4, DriverRuns DEF AwaitedAt
  <2>5. CASE row.status = "applying" /\ Runs(t, Stretch(<<>>, "apply"))
    <3> DEFINE s == Stretch(<<>>, "apply")
    <3>1. /\ s.writes \in Seq(Lawful(row, publication')) /\ s.pc = "apply"
          /\ Ends(s, row, graph) = To(row, graph)
      BY NoWrites
    <3>2. Ends(s, row, graph).row = row
      BY <3>1 DEF To
    <3>3. NextInOrder(t, "apply", row, Ends(s, row, graph).graph, publication')
      BY <1>1, <2>5 DEF NextInOrder
    <3>4. Runs(t, s)
      BY <2>5
    <3> HIDE DEF s
    <3>5. QED BY <1>1, <2>1, <2>3, <3>1, <3>2, <3>3, <3>4, DriverRuns DEF AwaitedAt
  <2>6. CASE \/ Runs(t, Finish(row, graph))
             \/ Runs(t, Nothing)
             \/ /\ Interrupted /\ graph.status \in {"failed", "cancelled"}
                /\ Runs(t, Stretch(<<To([row EXCEPT !.status = graph.status], graph)>>, "end"))
             \/ /\ Interrupted /\ graph.status \in {"running", "completed"}
                /\ Runs(t, Fail(row, graph))
    <3> DEFINE ended == Stretch(<<To([row EXCEPT !.status = graph.status], graph)>>, "end")
    <3>1. CASE Runs(t, Finish(row, graph))
      BY <2>1, <3>1, RecoverEnds
    <3>2. CASE Runs(t, Nothing)
      BY <2>1, <3>2, RecoverEnds
    <3>3. CASE Interrupted /\ graph.status \in {"failed", "cancelled"} /\ Runs(t, ended)
      BY <2>1, <3>3, RecoverEnds
    <3>4. CASE Interrupted /\ graph.status \in {"running", "completed"} /\ Runs(t, Fail(row, graph))
      BY <2>1, <2>2, <3>4, RecoverEnds
    <3>5. QED BY <2>6, <3>1, <3>2, <3>3, <3>4
  <2>7. QED BY <1>3, <2>4, <2>5, <2>6 DEF Recover
<1>4. QED BY <1>2, <1>3

(* Nothing moved but the lease, the process or the count of its restarts. *)
LEMMA TasksStay ==
    ASSUME TasksInOrder, UNCHANGED <<row, graph, publication, task, registry, lane>>
    PROVE  TasksInOrder'
<1>1. \A t \in Tid : (KindsInOrder(t) /\ DriverInOrder(t)) =>
                       (KindsInOrder(t)' /\ DriverInOrder(t)')
  BY DEF KindsInOrder, DriverInOrder, Scheduled, Node
<1>2. OneDrives => OneDrives'
  BY DEF OneDrives, Driving
<1>3. BootsAlone => BootsAlone'
  BY DEF BootsAlone, Booting
<1>4. CancelAsks => CancelAsks'
  BY DEF CancelAsks
<1>5. LanesInOrder => LanesInOrder'
  BY DEF LanesInOrder
<1>6. QED BY <1>1, <1>2, <1>3, <1>4, <1>5 DEF TasksInOrder

LEMMA StutterKeeps == ASSUME Inv, UNCHANGED vars PROVE Inv'
<1>1. UNCHANGED <<row, graph, publication, task, registry, lane>> /\ lease' = lease /\ up' = up
  BY DEF vars
<1>2. Typed'
  BY <1>1 DEF Inv, Typed
<1>3. RowInOrder'
  BY <1>1 DEF Inv, DeliveryInv, RowInOrder, GatesInOrder, StatusInOrder
<1>4. up' => TasksInOrder'
  BY <1>1, TasksStay DEF Inv, DeliveryInv
<1>5. QED BY <1>2, <1>3, <1>4 DEF Inv, DeliveryInv

(* A rival only gets the lease of a delivery that is over. *)
LEMMA RivalKeeps == ASSUME Inv, Rival PROVE Inv'
<1>1. /\ UNCHANGED <<row, graph, publication, task, registry, lane>> /\ up' = up
      /\ lease # "self" /\ lease' \in {"rival", "none"}
  BY DEF Rival, env
<1>2. Typed'
  BY <1>1 DEF Inv, Typed
<1>3. row.status \in Terminal
  BY <1>1, Facts
<1>4. GatesInOrder(row, graph)' /\ StatusInOrder(row, graph, publication)'
  BY <1>1, Facts DEF GatesInOrder, StatusInOrder
<1>5. RowInOrder'
  BY <1>1, <1>3, <1>4 DEF RowInOrder
<1>6. up' => TasksInOrder'
  BY <1>1, TasksStay DEF Inv, DeliveryInv
<1>7. QED BY <1>2, <1>5, <1>6 DEF Inv, DeliveryInv

LEMMA CrashKeeps == ASSUME Inv, Crash PROVE Inv'
<1>1. /\ UNCHANGED <<row, graph, publication, task, registry, lane>> /\ lease' = lease
      /\ up' = FALSE
  BY DEF Crash
<1>2. Typed'
  BY <1>1 DEF Inv, Typed
<1>3. RowInOrder'
  BY <1>1 DEF Inv, DeliveryInv, RowInOrder, GatesInOrder, StatusInOrder
<1>4. QED BY <1>1, <1>2, <1>3 DEF Inv, DeliveryInv

(* The process comes back with one task, the recovery; a delivery that is not
   over has kept its lease. *)
LEMMA RestartKeeps == ASSUME Inv, Restart PROVE Inv'
<1> DEFINE boot == [NoTask EXCEPT !.pc = "recover", !.what = "boot"]
<1>1. /\ up' = TRUE /\ registry' = 0 /\ publication' = publication /\ graph' = graph
      /\ lane' = [l \in Lane |-> "idle"]
      /\ task' = [t \in Tid |-> IF t = 1 THEN boot ELSE NoTask]
      /\ lease' = IF row.status \in Terminal
                    THEN IF lease = "self" THEN "none" ELSE lease
                  ELSE IF lease = "none" THEN "self" ELSE lease
      /\ row' = IF row.status \notin Terminal /\ lease = "rival"
                THEN [row EXCEPT !.status = "failed", !.version = @ + 1] ELSE row
  BY DEF Restart
<1>2. row' = row /\ lease' \in {"self", "rival", "none"}
      /\ (row.status \notin Terminal => lease' = "self")
  BY <1>1, Facts
<1>3. RowInOrder'
  <2>1. GatesInOrder(row, graph)' /\ StatusInOrder(row, graph, publication)'
    BY <1>1, <1>2, Facts DEF GatesInOrder, StatusInOrder
  <2>2. QED BY <1>2, <2>1 DEF RowInOrder
<1>4. /\ boot.pc = "recover" /\ boot.what = "boot" /\ boot.decision = "none" /\ ~boot.asked
      /\ boot.version = 0 /\ boot.on = 0 /\ boot.copy = <<>>
      /\ NoTask.pc = "free" /\ NoTask.what = "none" /\ ~NoTask.asked /\ NoTask.decision = "none"
  BY DEF NoTask
<1>5. boot \in TaskRecord /\ NoTask \in TaskRecord
  BY DEF NoTask, TaskRecord
<1> HIDE DEF boot
<1>6. 1 \in Tid
  BY DeliveryAssumption DEF Tid
<1>7. task'[1] = boot /\ \A t \in Tid \ {1} : task'[t] = NoTask
  BY <1>1, <1>6
<1>8. Typed'
  <2>1. task' \in [Tid -> TaskRecord]
    BY <1>1, <1>5
  <2>2. \A t \in Tid : task'[t].pc \notin {"role", "apply"}
    BY <1>4, <1>7
  <2>3. lane' \in [Lane -> {"idle", "running", "stopping", "done", "failed", "stopped"}]
    BY <1>1
  <2>4. QED BY <1>1, <1>2, <2>1, <2>2, <2>3, Facts DEF Typed
<1>9. TasksInOrder'
  <2>1. \A t \in Tid : KindsInOrder(t)' /\ DriverInOrder(t)'
    <3>1. ASSUME NEW t \in Tid PROVE KindsInOrder(t)' /\ DriverInOrder(t)'
      <4>1. CASE t = 1
        <5>1. task'[t] = boot
          BY <1>7, <4>1
        <5>2. QED BY <1>1, <1>4, <4>1, <5>1 DEF KindsInOrder, DriverInOrder, Scheduled, Gate
      <4>2. CASE t # 1
        <5>1. task'[t] = NoTask /\ 0 \notin Tid
          BY <1>7, <4>2 DEF Tid
        <5>2. QED BY <1>1, <1>4, <4>2, <5>1 DEF KindsInOrder, DriverInOrder, Scheduled, Gate
      <4>3. QED BY <4>1, <4>2
    <3>2. QED BY <3>1
  <2>2. OneDrives'
    <3>1. \A t \in Tid \ {1} : ~Driving(t)'
      BY <1>4, <1>7 DEF Driving
    <3>2. QED BY <3>1 DEF OneDrives
  <2>3. BootsAlone'
    BY <1>7 DEF BootsAlone
  <2>4. CancelAsks'
    <3>1. \A t \in Tid : task'[t].what \in {"boot", "none"}
      BY <1>4, <1>7
    <3>2. QED BY <3>1 DEF CancelAsks
  <2>5. LanesInOrder'
    <3>1. \A l \in Lane : lane'[l] = "idle"
      BY <1>1
    <3>2. QED BY <3>1 DEF LanesInOrder
  <2>6. QED BY <2>1, <2>2, <2>3, <2>4, <2>5 DEF TasksInOrder
<1>10. QED BY <1>3, <1>8, <1>9 DEF Inv, DeliveryInv

-----------------------------------------------------------------------------
(* The delivery is admitted in order.                                      *)

LEMMA InitInOrder == ASSUME Init PROVE Inv
<1>1. PICK preparing \in BOOLEAN, external \in BOOLEAN :
        /\ row = [status |-> IF preparing THEN "preparing_context" ELSE "queued",
                  version |-> 1, gate |-> [g \in Gate |-> "none"], opened |-> [g \in Gate |-> 0],
                  projected |-> {}, receipt |-> FALSE, external |-> external]
        /\ graph = IF preparing THEN NoGraph ELSE NewGraph
        /\ task = [t \in Tid |-> IF t # 1 THEN NoTask ELSE
                     [NoTask EXCEPT !.pc = "start",
                                    !.what = IF preparing THEN "prepare" ELSE "advance"]]
  BY DEF Init
<1>2. /\ publication \in {"none", "required"} /\ lease = "self" /\ registry = 1
      /\ lane = [l \in Lane |-> "idle"] /\ up = TRUE
  BY DEF Init
<1> DEFINE first == [NoTask EXCEPT !.pc = "start",
                                   !.what = IF preparing THEN "prepare" ELSE "advance"]
<1>3. 1 \in Tid /\ 0 \notin Tid /\ 1 \in 1..LastNode /\ PlanAt \in 1..LastNode /\ PlanAt < LastNode /\ LastNode \in Nat
  BY DeliveryAssumption, PipelineShape DEF Tid
<1>4. /\ first.pc = "start" /\ first.what = (IF preparing THEN "prepare" ELSE "advance")
      /\ ~first.asked /\ first.decision = "none"
      /\ NoTask.pc = "free" /\ NoTask.what = "none" /\ ~NoTask.asked /\ NoTask.decision = "none"
      /\ first \in TaskRecord /\ NoTask \in TaskRecord
  BY DEF NoTask, TaskRecord
<1> HIDE DEF first
<1>5. task = [t \in Tid |-> IF t # 1 THEN NoTask ELSE first]
  BY <1>1 DEF first
<1>6. task[1] = first /\ \A t \in Tid \ {1} : task[t] = NoTask
  BY <1>3, <1>5
<1>7. /\ row.status = (IF preparing THEN "preparing_context" ELSE "queued")
      /\ row.gate = [g \in Gate |-> "none"] /\ ~row.receipt
  BY <1>1
<1>8. /\ graph.node = 1 /\ graph.state = "ready"
      /\ graph.status = (IF preparing THEN "none" ELSE "running")
      /\ graph = IF preparing THEN NoGraph ELSE NewGraph
  BY <1>1 DEF NoGraph, NewGraph
<1>9. row \in RowRecord
  <2>1. {"preparing_context", "queued"} \subseteq Status
    BY Statuses
  <2>2. row.status \in Status
    BY <1>7, <2>1
  <2>3. row.gate \in [Gate -> {"none", "open", "approve", "reject"}]
    BY <1>7
  <2>4. row.opened \in [Gate -> Nat]
    BY <1>1
  <2>5. ASSUME NEW status \in Status, NEW gates \in [Gate -> {"none", "open", "approve", "reject"}],
               NEW opened \in [Gate -> Nat]
        PROVE  [status |-> status, version |-> 1, gate |-> gates, opened |-> opened,
                projected |-> {}, receipt |-> FALSE, external |-> external] \in RowRecord
    BY DEF RowRecord
  <2>6. row = [status |-> row.status, version |-> 1, gate |-> row.gate, opened |-> row.opened,
               projected |-> {}, receipt |-> FALSE, external |-> external]
    BY <1>1
  <2>7. QED BY <2>2, <2>3, <2>4, <2>5, <2>6
<1>10. graph \in GraphRecord
  BY <1>1, <1>3 DEF NoGraph, NewGraph, GraphRecord
<1>11. Typed
  <2>1. task \in [Tid -> TaskRecord]
    BY <1>4, <1>5
  <2>2. \A t \in Tid : task[t].pc \notin {"role", "apply"}
    BY <1>4, <1>6
  <2>3. lane \in [Lane -> {"idle", "running", "stopping", "done", "failed", "stopped"}]
    BY <1>2
  <2>4. publication \in Document
    BY <1>2 DEF Document
  <2>5. QED BY <1>2, <1>3, <1>9, <1>10, <2>1, <2>2, <2>3, <2>4 DEF Typed
<1>12. row.status \notin Given /\ row.status \notin GivenUp
       /\ \A gate \in Gate : row.status # Awaiting[gate]
  BY <1>7 DEF Given, GivenUp, Terminal, Awaiting, Gate
<1>13. RowInOrder
  <2>1. \A gate \in Gate : row.gate[gate] = "none"
    BY <1>7
  <2>2. GatesInOrder(row, graph)
    <3>1. ~(graph.node > PlanAt)
      BY <1>3, <1>8
    <3>2. row.gate["candidate"] = "none"
      BY <2>1, Statuses
    <3>3. QED BY <1>12, <2>1, <3>1, <3>2 DEF GatesInOrder
  <2>3. StatusInOrder(row, graph, publication)
    BY <1>2, <1>7, <1>8 DEF StatusInOrder, Unpublished
  <2>4. QED BY <1>2, <2>2, <2>3 DEF RowInOrder
<1>14. TasksInOrder
  <2>1. \A t \in Tid : KindsInOrder(t) /\ DriverInOrder(t)
    <3>1. ASSUME NEW t \in Tid PROVE KindsInOrder(t) /\ DriverInOrder(t)
      <4>1. CASE t = 1
        <5>1. task[t] = first
          BY <1>6, <4>1
        <5>2. task[t].what \in {"prepare", "advance"}
          BY <1>4, <5>1
        <5>3. KindsInOrder(t)
          BY <1>2, <1>4, <4>1, <5>1, <5>2 DEF KindsInOrder, Scheduled, Gate
        <5>4. DriverInOrder(t)
          BY <1>2, <1>4, <1>7, <1>8, <5>1, <5>2 DEF DriverInOrder, Unpublished, Gate
        <5>5. QED BY <5>3, <5>4
      <4>2. CASE t # 1
        <5>1. task[t] = NoTask
          BY <1>6, <4>2
        <5>2. QED BY <1>2, <1>4, <4>2, <5>1 DEF KindsInOrder, DriverInOrder, Scheduled, Gate
      <4>3. QED BY <4>1, <4>2
    <3>2. QED BY <3>1
  <2>2. OneDrives
    <3>1. \A t \in Tid \ {1} : ~Driving(t)
      BY <1>4, <1>6 DEF Driving
    <3>2. QED BY <3>1 DEF OneDrives
  <2>3. BootsAlone
    BY <1>6 DEF BootsAlone
  <2>4. CancelAsks
    <3>1. \A t \in Tid : task[t].what # "cancel"
      BY <1>4, <1>6
    <3>2. QED BY <3>1 DEF CancelAsks
  <2>5. LanesInOrder
    <3>1. \A l \in Lane : lane[l] = "idle"
      BY <1>2
    <3>2. QED BY <3>1 DEF LanesInOrder
  <2>6. QED BY <2>1, <2>2, <2>3, <2>4, <2>5 DEF TasksInOrder
<1>15. QED BY <1>11, <1>13, <1>14 DEF Inv, DeliveryInv

-----------------------------------------------------------------------------
(* What holds of every delivery whose gates are decided with patience.     *)

LEMMA StepKeeps == ASSUME PatientClients, Inv, [Next]_vars PROVE Inv'
<1>1. ASSUME NEW t \in Tid, Work(t) PROVE Inv'
  <2>1. CASE BeginPrepare(t) \/ BeginAdvance(t) \/ PrepareReturns(t) \/ PrepareFails(t)
    BY <2>1, BeginPrepareKeeps, BeginAdvanceKeeps, PrepareReturnsKeeps, PrepareFailsKeeps
  <2>2. CASE RoleReturns(t) \/ RoleReturnsDocument(t) \/ RoleFails(t) \/ WorkEnds(t)
    BY <2>2, RoleReturnsKeeps, RoleReturnsDocumentKeeps, RoleFailsKeeps, WorkEndsKeeps
  <2>3. CASE Stops(t) \/ DoneCallback(t)
    BY <2>3, StopsKeeps, DoneCallbackKeeps
  <2>4. CASE \E g \in Gate : DecideEarlyGate(t, g)
    BY <2>4, DecideEarlyGateKeeps
  <2>5. CASE DecideCandidate(t)
    BY <2>5, DecideCandidateKeeps
  <2>6. CASE ApplyReturns(t) \/ ApplyFails(t) \/ ApplyNeedsAttention(t)
    BY <2>6, ApplyKeeps
  <2>7. CASE FinishCancel(t) \/ Recover(t)
    BY <2>7, FinishCancelKeeps, RecoverKeeps
  <2>8. QED BY <1>1, <2>1, <2>2, <2>3, <2>4, <2>5, <2>6, <2>7 DEF Work
<1>2. ASSUME NEW t \in Tid, Request(t) PROVE Inv'
  <2>1. CASE \E g \in Gate, decision \in {"approve", "reject"} : RequestDecision(t, g, decision)
    BY <2>1, RequestDecisionKeeps
  <2>2. CASE RequestCancel(t) \/ ResumeForward(t) \/ ResumePublications(t)
    BY <2>2, RequestCancelKeeps, ResumeForwardKeeps, ResumePublicationsKeeps
  <2>3. QED BY <1>2, <2>1, <2>2 DEF Request
<1>3. ASSUME NEW l \in Lane, LaneReturns(l) \/ LaneFails(l) \/ LaneStops(l) PROVE Inv'
  BY <1>3, LaneReturnsKeeps, LanesEndKeeps
<1>4. CASE Rival \/ Crash \/ Restart
  BY <1>4, RivalKeeps, CrashKeeps, RestartKeeps
<1>5. CASE UNCHANGED vars
  BY <1>5, StutterKeeps
<1>6. QED BY <1>1, <1>2, <1>3, <1>4, <1>5 DEF Next

LEMMA AlwaysInOrder == ASSUME PatientClients PROVE Spec => []Inv
<1>1. Init => Inv
  BY InitInOrder
<1>2. Inv /\ [Next]_vars => Inv'
  BY StepKeeps
<1>3. QED BY <1>1, <1>2, PTL DEF Spec

(* Row, graph, tasks and registry hold values the code can write. *)
THEOREM DeliveryTypeCorrect == ASSUME PatientClients PROVE Spec => []DeliveryTypeOK
<1>1. Inv => DeliveryTypeOK
  BY DEF Inv, Typed, RowRecord, GraphRecord, Document, LastNode, DeliveryTypeOK
<1>2. QED BY <1>1, AlwaysInOrder, PTL

(* DeliveryCoordinator applies nothing, and completes nothing, that the plan gate
   and the candidate gate did not both approve, through every late save, crash and
   recovery: the candidate is approved exactly in the statuses of a release, and
   the run is past the plan gate only with its approval.  Who awaits a decision
   stands at its gate with every candidate of the stages before: also where the
   process died inside _open_gate or inside a decision. *)
THEOREM GatesMeanWhatTheySay == ASSUME PatientClients PROVE Spec => []GatesHold
<1>1. ASSUME Inv PROVE AppliedAsApproved
  <2>1. /\ row \in RowRecord /\ graph \in GraphRecord
        /\ GatesInOrder(row, graph) /\ StatusInOrder(row, graph, publication)
    BY <1>1, Facts
  <2>2. row.status = "completed" => row.receipt
    BY <2>1 DEF StatusInOrder
  <2>3. ASSUME row.receipt \/ row.status \in {"applying", "needs_attention", "completed"}
        PROVE  row.gate["plan"] = "approve" /\ row.gate["candidate"] = "approve"
    <3>1. row.gate["candidate"] = "approve"
      BY <2>1, <2>3 DEF GatesInOrder, StatusInOrder, Given
    <3>2. graph.node = LastNode
      BY <2>1, <3>1, CandidateIsLast
    <3>3. graph.node > PlanAt
      BY <3>2, PipelineShape
    <3>4. QED BY <2>1, <3>1, <3>3 DEF GatesInOrder
  <2>4. QED BY <2>2, <2>3 DEF AppliedAsApproved
<1>2. Inv => GateAtItsNode
  BY Facts DEF GatesInOrder, GateAtItsNode
<1>3. QED BY <1>1, <1>2, AlwaysInOrder, PTL DEF GatesHold

(* While the delivery is not over nobody else is admitted to its project: no late
   save, no done callback and no restart gives its lease away or revives a
   delivery that has lost it. *)
THEOREM ActiveDeliveriesHoldLease == ASSUME PatientClients PROVE Spec => []ActiveHoldsLease
<1>1. Inv => ActiveHoldsLease
  BY Facts DEF ActiveHoldsLease
<1>2. QED BY <1>1, AlwaysInOrder, PTL

(* ADR-0015: what a person has decided stands.  A rejected candidate ends as
   rejected, whichever request or restart finishes the cleanup, and what is being
   cancelled is applied by nobody. *)
THEOREM DecisionsStand == ASSUME PatientClients PROVE Spec => []DecisionsHold
<1>1. Inv => RejectStaysReject
  BY Facts DEF GatesInOrder, RejectStaysReject
<1>2. ASSUME Inv PROVE row.status \in {"cancelling", "cancelled", "rejected"} => ~row.receipt
  BY <1>2, Facts DEF StatusInOrder, Given
<1>3. ASSUME Inv, up, NEW t \in Tid, task[t].pc = "apply"
      PROVE  row.status \notin {"cancelling", "cancelled", "rejected"}
  BY <1>3, Facts DEF DriverInOrder
<1>4. Inv => DecisionsHold
  BY <1>1, <1>2, <1>3 DEF CancelExcludesApply, DecisionsHold
<1>5. QED BY <1>4, AlwaysInOrder, PTL

-----------------------------------------------------------------------------
(* The loops of a pipeline: the last stage of a bundled loop decides. *)
Recorder == Stage \ Planner
StageEnded(s) == turn[s] = "done" \/ node[s] = "succeeded"
IsLast(s) == \A t \in Stage \ {s} : <<t, s>> \in Edges

(* Coroutines are those of the running nodes, and a node runs after its sources. *)
NodesInOrder ==
    loop.status = "running" => \A s \in Stage :
      /\ node[s] = "running" <=> turn[s] # "idle"
      /\ node[s] # "pending" => \A t \in StageSources(s) : node[t] = "succeeded"

(* When the loop is over nothing runs in it; a delivery ends with its loop. *)
LoopQuiet ==
    /\ loop.status # "running" \/ loop.iteration = 0 => \A s \in Stage : turn[s] = "idle"
    /\ delivery.status \in {"failed", "cancelled"} => loop.status # "running"

(* One AgentRun a stage and iteration; a lane that waits has the newest. *)
TurnRuns ==
    \A s \in Stage :
      /\ Len(ledger[s]) <= loop.iteration
      /\ (loop.status = "running" /\ (node[s] = "pending" \/ turn[s] = "start"))
           => Len(ledger[s]) < loop.iteration
      /\ \A k \in 1..Len(ledger[s]) : ledger[s][k] = "running" =>
           k = Len(ledger[s]) /\ (loop.status = "running" => turn[s] \in {"waiting", "stopped"})
      /\ turn[s] = "waiting" => Newest(s) = "running"
      /\ (loop.status = "running" /\ loop.iteration > 0 /\ StageEnded(s)) => Newest(s) = "succeeded"

TurnDispatches ==
    ~Guarded => \A s \in Stage : dispatch[s] # "none" => turn[s] = "waiting"

(* What the exit condition looks at. *)
Conditions ==
    /\ \A r \in definition.before : recorded[r] = "passed"
    /\ ~Bundled => bundle = NoBundle
    /\ loop.status = "running" =>
         /\ loop.iteration > 0 => \A s \in Recorder : StageEnded(s) => recorded[s] # "none"
         /\ "tests-passed" \in emitted /\ ~Bundled =>
              \E s \in Recorder : StageEnded(s) /\ recorded[s] = "passed"
         /\ "task-ready" \in emitted => Planner # {}
         /\ "release-bundle-verified" \in emitted => bundle # NoBundle

(* A bundle is made by the last stage, when all others have ended; a loop whose
   last stage passed makes it or fails. *)
BundleLast ==
    Bundled /\ loop.status = "running" =>
      /\ bundle # NoBundle =>
           /\ bundle = recorded
           /\ \A r \in Role : recorded[r] = "passed"
           /\ \A s \in Stage : StageEnded(s)
           /\ loop.iteration # 0
      /\ \A s \in Stage : IsLast(s) /\ recorded[s] = "passed" =>
           bundle # NoBundle \/ turn[s] = "verification"

TurnsInv ==
    /\ TurnsTypeOK /\ LoopKeepsPromise
    /\ NodesInOrder /\ LoopQuiet /\ TurnRuns /\ TurnDispatches /\ Conditions /\ BundleLast

-----------------------------------------------------------------------------
LEMMA DefinitionTyped ==
    ASSUME definition \in Definitions
    PROVE  /\ MaxPatches \in Nat
           /\ MaxIterations \in Nat /\ MaxIterations > 0
           /\ Bundled \in BOOLEAN /\ Guarded \in BOOLEAN
           /\ Planner \subseteq Stage /\ definition.before \cap Stage = {}
           /\ Bundled => Planner = {} /\ \E s \in Stage : IsLast(s)
           /\ ~Bundled => Planner = Stage \/ (Planner = {} /\ Stage = {"backend"})
  BY TurnsAssumption DEF Stage, Edges, Planner, Bundled, Guarded, MaxIterations, IsLast

LEMMA DefinitionRigid ==
    ASSUME definition' = definition
    PROVE  /\ Stage' = Stage /\ Edges' = Edges /\ Planner' = Planner /\ Role' = Role
           /\ Bundled' = Bundled /\ Guarded' = Guarded /\ MaxIterations' = MaxIterations
           /\ Recorder' = Recorder
           /\ \A s : StageSources(s)' = StageSources(s)
           /\ \A s : IsLast(s)' <=> IsLast(s)
  BY DEF Stage, Edges, Planner, Role, Bundled, Guarded, MaxIterations, Recorder, StageSources, IsLast

LEMMA TurnsInitHolds == TurnsInit => TurnsInv
<1> SUFFICES ASSUME TurnsInit PROVE TurnsInv
  OBVIOUS
<1>1. definition \in Definitions
  BY DEF TurnsInit
<1>2. TurnsTypeOK
  <2>1. ledger \in [Stage -> Seq(TurnStatus)]
    BY DEF TurnsInit
  <2>2. /\ loop \in [status : {"running", "succeeded", "failed"}, iteration : 0..MaxIterations]
        /\ instance \in [version : 1..MaxPatches + 1, ready : BOOLEAN]
    BY <1>1, DefinitionTyped DEF TurnsInit
  <2>3. /\ node \in [Stage -> {"pending", "running", "succeeded"}]
        /\ turn \in [Stage -> LaneState]
        /\ dispatch \in [Stage -> {"none", "answered", "raised"} \cup AtWork]
        /\ recorded \in [Role -> {"none", "passed", "failed"}]
    BY DEF TurnsInit, LaneState
  <2> QED
    BY <1>1, <2>1, <2>2, <2>3 DEF TurnsInit, TurnsTypeOK
<1>3. LoopKeepsPromise /\ NodesInOrder /\ LoopQuiet /\ TurnDispatches
  BY DEF TurnsInit, LoopKeepsPromise, NodesInOrder, LoopQuiet, TurnDispatches, StageSources
<1>4. TurnRuns
  BY DEF TurnsInit, TurnRuns
<1>5. Conditions
  BY DEF TurnsInit, Conditions, Role
<1>6. BundleLast
  BY <1>1, DefinitionTyped DEF TurnsInit, BundleLast, Role
<1> QED
  BY <1>2, <1>3, <1>4, <1>5, <1>6 DEF TurnsInv

LEMMA AroundKeeps ==
    ASSUME TurnsInv, UNCHANGED <<definition, loop, node, emitted, turn, recorded, bundle, ledger>>
    PROVE  LoopKeepsPromise' /\ NodesInOrder' /\ TurnRuns' /\ Conditions' /\ BundleLast'
<1>1. /\ Stage' = Stage /\ Planner' = Planner /\ Role' = Role /\ Bundled' = Bundled
      /\ Recorder' = Recorder /\ \A s : StageSources(s)' = StageSources(s)
      /\ \A s : IsLast(s)' <=> IsLast(s)
  BY DefinitionRigid
<1>2. /\ \A s : Newest(s)' = Newest(s)
      /\ \A s : StageEnded(s)' <=> StageEnded(s)
  BY DEF Newest, StageEnded
<1>3. LoopKeepsPromise'
  BY <1>1, <1>2 DEF TurnsInv, LoopKeepsPromise
<1>4. NodesInOrder'
  BY <1>1 DEF TurnsInv, NodesInOrder
<1>5. TurnRuns'
  BY <1>1, <1>2 DEF TurnsInv, TurnRuns
<1>6. Conditions'
  BY <1>1, <1>2 DEF TurnsInv, Conditions, NoBundle
<1>7. BundleLast'
  BY <1>1, <1>2 DEF TurnsInv, BundleLast, NoBundle
<1> QED
  BY <1>3, <1>4, <1>5, <1>6, <1>7

(* A lane that is not idle is one of a running loop; its node runs and the
   sources of the node have succeeded. *)
LEMMA LaneRuns ==
    ASSUME TurnsInv, NEW s \in Stage, turn[s] # "idle"
    PROVE  /\ loop.status = "running" /\ loop.iteration # 0 /\ node[s] = "running"
           /\ \A t \in StageSources(s) : node[t] = "succeeded"
           /\ delivery.status \notin {"failed", "cancelled"}
<1>1. loop.status = "running" /\ loop.iteration # 0 /\ delivery.status \notin {"failed", "cancelled"}
  BY DEF TurnsInv, LoopQuiet
<1>2. node[s] = "running" /\ \A t \in StageSources(s) : node[t] = "succeeded"
  BY <1>1 DEF TurnsInv, NodesInOrder
<1> QED
  BY <1>1, <1>2

LEMMA WaitingRuns ==
    ASSUME TurnsInv, NEW s \in Stage, turn[s] = "waiting"
    PROVE  ledger[s] \in Seq(TurnStatus) /\ ledger[s] # <<>> /\ loop.iteration > 0
<1>1. ledger[s] \in Seq(TurnStatus) /\ loop.iteration \in Int
  BY DefinitionTyped DEF TurnsInv, TurnsTypeOK
<1>2. Newest(s) = "running" /\ Len(ledger[s]) <= loop.iteration
  BY DEF TurnsInv, TurnRuns
<1>3. ledger[s] # <<>>
  BY <1>2 DEF Newest
<1> QED
  BY <1>1, <1>2, <1>3

LEMMA NewestEntry ==
    ASSUME NEW l \in Seq(TurnStatus), l # <<>>, NEW x \in TurnStatus
    PROVE  /\ ReplaceAt(l, Len(l), x) \in Seq(TurnStatus)
           /\ Len(ReplaceAt(l, Len(l), x)) = Len(l)
           /\ ReplaceAt(l, Len(l), x) # <<>>
           /\ Last(ReplaceAt(l, Len(l), x)) = x
           /\ \A k \in 1..Len(l) :
                ReplaceAt(l, Len(l), x)[k] = IF k = Len(l) THEN x ELSE l[k]
  BY DEF ReplaceAt, Last

LEMMA TurnFinishes ==
    ASSUME TurnsInv, NEW s \in Stage, turn[s] = "waiting",
           NEW status \in {"succeeded", "failed"}, Finished(s, status),
           NEW pc \in {"done", "agent", "verification"}, turn' = [turn EXCEPT ![s] = pc],
           pc = "done" => status = "succeeded", UNCHANGED <<definition, loop, node>>
    PROVE  TurnRuns' /\ ledger' \in [Stage -> Seq(TurnStatus)]
<1>1. Stage' = Stage /\ turn \in [Stage -> LaneState] /\ ledger \in [Stage -> Seq(TurnStatus)]
  BY DefinitionRigid DEF TurnsInv, TurnsTypeOK
<1> DEFINE l == ReplaceAt(ledger[s], Len(ledger[s]), status)
<1>2. /\ l \in Seq(TurnStatus) /\ Len(l) = Len(ledger[s]) /\ l # <<>> /\ Last(l) = status
      /\ \A k \in 1..Len(l) : l[k] = IF k = Len(l) THEN status ELSE ledger[s][k]
  <2>1. ledger[s] \in Seq(TurnStatus) /\ ledger[s] # <<>> /\ status \in TurnStatus
    BY WaitingRuns DEF TurnStatus
  <2> QED
    BY <2>1, NewestEntry
<1>3. ledger' = [ledger EXCEPT ![s] = l]
  BY DEF Finished
<1> HIDE DEF l
<1>4. ledger' \in [Stage -> Seq(TurnStatus)]
  BY <1>1, <1>2, <1>3
<1>5. SUFFICES ASSUME NEW t \in Stage
               PROVE  /\ Len(ledger'[t]) <= loop.iteration
                      /\ (loop.status = "running" /\ (node[t] = "pending" \/ turn'[t] = "start"))
                           => Len(ledger'[t]) < loop.iteration
                      /\ \A k \in 1..Len(ledger'[t]) : ledger'[t][k] = "running" =>
                           /\ k = Len(ledger'[t])
                           /\ loop.status = "running" => turn'[t] \in {"waiting", "stopped"}
                      /\ turn'[t] = "waiting" => Newest(t)' = "running"
                      /\ (loop.status = "running" /\ loop.iteration > 0 /\ StageEnded(t)')
                           => Newest(t)' = "succeeded"
  BY <1>1, <1>4 DEF TurnRuns
<1>6. CASE t # s
  <2>1. ledger'[t] = ledger[t] /\ turn'[t] = turn[t]
    BY <1>1, <1>3, <1>6
  <2>2. Newest(t)' = Newest(t) /\ (StageEnded(t)' <=> StageEnded(t))
    BY <2>1 DEF Newest, StageEnded
  <2> QED
    BY <2>1, <2>2 DEF TurnsInv, TurnRuns
<1>7. CASE t = s
  <2>1. ledger'[t] = l /\ turn'[t] = pc /\ node[t] = "running"
    BY <1>1, <1>3, <1>7, LaneRuns
  <2>2. Newest(t)' = status /\ (StageEnded(t)' => pc = "done")
    BY <1>2, <2>1 DEF Newest, StageEnded
  <2>3. /\ Len(l) <= loop.iteration
        /\ \A k \in 1..Len(l) : ledger[s][k] = "running" => k = Len(l)
    BY <1>2 DEF TurnsInv, TurnRuns
  <2> QED
    BY <1>2, <2>1, <2>2, <2>3
<1> QED
  BY <1>6, <1>7

(* What a lane does that neither ends its node nor records a candidate. *)
LEMMA LaneMoves ==
    ASSUME TurnsInv, NEW s \in Stage, turn[s] \in {"start", "waiting"},
           NEW pc \in {"waiting", "agent", "stopped"}, turn' = [turn EXCEPT ![s] = pc],
           UNCHANGED <<definition, loop, node, emitted, recorded, bundle, delivery>>
    PROVE  /\ turn' \in [Stage -> LaneState]
           /\ LoopKeepsPromise' /\ NodesInOrder' /\ LoopQuiet' /\ Conditions' /\ BundleLast'
<1>1. /\ Stage' = Stage /\ Planner' = Planner /\ Role' = Role /\ Bundled' = Bundled
      /\ Recorder' = Recorder /\ \A t : StageSources(t)' = StageSources(t)
      /\ \A t : IsLast(t)' <=> IsLast(t)
  BY DefinitionRigid
<1>2. turn \in [Stage -> LaneState] /\ turn' \in [Stage -> LaneState]
  BY DEF TurnsInv, TurnsTypeOK, LaneState
<1>3. loop.status = "running" /\ loop.iteration # 0 /\ node[s] = "running"
  BY LaneRuns
<1>4. \A t \in Stage : turn'[t] = IF t = s THEN pc ELSE turn[t]
  BY <1>2
<1>5. /\ \A t \in Stage : StageEnded(t)' <=> StageEnded(t)
      /\ ~StageEnded(s)
  BY <1>3, <1>4 DEF StageEnded
<1>6. LoopKeepsPromise' /\ LoopQuiet'
  BY <1>3 DEF TurnsInv, LoopKeepsPromise, LoopQuiet
<1>7. NodesInOrder'
  BY <1>1, <1>3, <1>4 DEF TurnsInv, NodesInOrder
<1>8. Conditions'
  BY <1>1, <1>5 DEF TurnsInv, Conditions, NoBundle, Recorder
<1>9. BundleLast'
  <2>1. Bundled => bundle = NoBundle
    BY <1>3, <1>5 DEF TurnsInv, BundleLast
  <2>2. bundle' = NoBundle' <=> bundle = NoBundle
    BY DEF NoBundle
  <2> QED
    BY <1>1, <1>3, <1>4, <2>1, <2>2 DEF TurnsInv, BundleLast
<1> QED
  BY <1>2, <1>6, <1>7, <1>8, <1>9

LEMMA BeginKeeps == ASSUME TurnsInv, NEW s \in Stage, Begin(s), definition' = definition PROVE TurnsInv'
<1>1. /\ turn[s] = "start"
      /\ UNCHANGED <<definition, loop, node, emitted, recorded, bundle, instance, revoked, delivery, asked>>
  BY DEF Begin
<1>2. PICK pc \in {"agent", "waiting"} :
        /\ turn' = [turn EXCEPT ![s] = pc]
        /\ pc = "agent" => UNCHANGED <<dispatch, ledger>>
        /\ pc = "waiting" => /\ dispatch' = [dispatch EXCEPT ![s] = "created"]
                             /\ ledger' = [ledger EXCEPT ![s] = Append(@, "running")]
  BY DEF Begin
<1>3. /\ turn' \in [Stage -> LaneState]
      /\ LoopKeepsPromise' /\ NodesInOrder' /\ LoopQuiet' /\ Conditions' /\ BundleLast'
  BY <1>1, <1>2, LaneMoves
<1>4. /\ turn \in [Stage -> LaneState] /\ ledger \in [Stage -> Seq(TurnStatus)]
      /\ dispatch \in [Stage -> {"none", "answered", "raised"} \cup AtWork]
      /\ Stage' = Stage /\ Guarded' = Guarded /\ Role' = Role /\ MaxIterations' = MaxIterations
      /\ loop.iteration \in Int
  BY DefinitionRigid, DefinitionTyped, <1>1 DEF TurnsInv, TurnsTypeOK
<1>5. loop.status = "running" /\ node[s] = "running"
  BY <1>1, LaneRuns
<1>6. \A t \in Stage : t # s => turn'[t] = turn[t] /\ ledger'[t] = ledger[t] /\ dispatch'[t] = dispatch[t]
  BY <1>2, <1>4
<1>7. turn'[s] = pc /\ ledger'[s] = IF pc = "agent" THEN ledger[s] ELSE Append(ledger[s], "running")
  BY <1>2, <1>4
<1>8. ledger' \in [Stage -> Seq(TurnStatus)]
  <2>1. Append(ledger[s], "running") \in Seq(TurnStatus)
    BY <1>4 DEF TurnStatus
  <2> QED
    BY <1>2, <1>4, <2>1
<1>9. TurnRuns'
  <2> SUFFICES ASSUME NEW t \in Stage
               PROVE  /\ Len(ledger'[t]) <= loop.iteration
                      /\ (loop.status = "running" /\ (node[t] = "pending" \/ turn'[t] = "start"))
                           => Len(ledger'[t]) < loop.iteration
                      /\ \A k \in 1..Len(ledger'[t]) : ledger'[t][k] = "running" =>
                           /\ k = Len(ledger'[t])
                           /\ loop.status = "running" => turn'[t] \in {"waiting", "stopped"}
                      /\ turn'[t] = "waiting" => Newest(t)' = "running"
                      /\ (loop.status = "running" /\ loop.iteration > 0 /\ StageEnded(t)')
                           => Newest(t)' = "succeeded"
    BY <1>1, <1>4 DEF TurnRuns
  <2>1. CASE t # s
    <3>1. Newest(t)' = Newest(t) /\ (StageEnded(t)' <=> StageEnded(t))
      BY <1>1, <1>6, <2>1 DEF Newest, StageEnded
    <3> QED
      BY <1>6, <2>1, <3>1 DEF TurnsInv, TurnRuns
  <2>2. CASE t = s
    <3>1. /\ Len(ledger[s]) < loop.iteration /\ ledger[s] \in Seq(TurnStatus)
          /\ \A k \in 1..Len(ledger[s]) : ledger[s][k] # "running"
      BY <1>1, <1>4, <1>5 DEF TurnsInv, TurnRuns
    <3>2. ~StageEnded(s)'
      BY <1>1, <1>2, <1>5, <1>7 DEF StageEnded
    <3>3. CASE pc = "agent"
      BY <1>1, <1>4, <1>5, <1>7, <2>2, <3>1, <3>2, <3>3
    <3>4. CASE pc = "waiting"
      <4> DEFINE l == Append(ledger[s], "running")
      <4>1. /\ Len(l) = Len(ledger[s]) + 1 /\ l # <<>> /\ l[Len(l)] = "running"
            /\ \A k \in 1..Len(l) : k # Len(l) => l[k] = ledger[s][k] /\ k \in 1..Len(ledger[s])
        BY <3>1
      <4>2. ledger'[s] = l
        BY <1>7, <3>4
      <4>3. Newest(s)' = "running" /\ Len(l) \in Int /\ Len(ledger[s]) \in Int
        BY <3>1, <4>1, <4>2 DEF Newest, Last
      <4>4. Len(l) <= loop.iteration
        BY <1>4, <3>1, <4>1, <4>3
      <4>5. \A k \in 1..Len(l) : l[k] = "running" => k = Len(l)
        BY <3>1, <4>1
      <4>6. node[t] # "pending" /\ turn'[t] = "waiting"
        BY <1>5, <1>7, <2>2, <3>4
      <4> HIDE DEF l
      <4> QED
        BY <2>2, <3>2, <4>2, <4>3, <4>4, <4>5, <4>6
    <3> QED
      BY <3>3, <3>4
  <2> QED
    BY <2>1, <2>2
<1>10. TurnDispatches'
  <2>1. \A t \in Stage : ~Guarded /\ dispatch'[t] # "none" => turn'[t] = "waiting"
    <3>1. ~Guarded => pc = "waiting"
      BY <1>2, <1>4 DEF Begin
    <3> QED
      BY <1>6, <1>7, <3>1 DEF TurnsInv, TurnDispatches
  <2> QED
    BY <1>4, <2>1 DEF TurnDispatches
<1>11. TurnsTypeOK'
  <2>1. dispatch' \in [Stage -> {"none", "answered", "raised"} \cup AtWork]
    BY <1>2, <1>4 DEF AtWork
  <2> QED
    BY <1>1, <1>3, <1>4, <1>8, <2>1 DEF TurnsInv, TurnsTypeOK, NoBundle
<1> QED
  BY <1>3, <1>9, <1>10, <1>11 DEF TurnsInv

(* The dispatches of a lane that ends. *)
LEMMA DispatchEnds ==
    ASSUME TurnsInv, NEW s \in Stage, definition' = definition,
           NEW pc \in LaneState, turn' = [turn EXCEPT ![s] = pc],
           dispatch' = [dispatch EXCEPT ![s] = "none"]
    PROVE  /\ dispatch' \in [Stage -> {"none", "answered", "raised"} \cup AtWork]
           /\ turn' \in [Stage -> LaneState] /\ TurnDispatches'
<1>1. /\ dispatch \in [Stage -> {"none", "answered", "raised"} \cup AtWork]
      /\ turn \in [Stage -> LaneState] /\ Stage' = Stage /\ Guarded' = Guarded
  BY DefinitionRigid DEF TurnsInv, TurnsTypeOK
<1>2. \A t \in Stage : dispatch'[t] # "none" => dispatch[t] # "none" /\ turn'[t] = turn[t]
  BY <1>1
<1> QED
  BY <1>1, <1>2 DEF TurnsInv, TurnDispatches

LEMMA TurnFails ==
    ASSUME TurnsInv, NEW s \in Stage, turn[s] = "waiting", turn' = [turn EXCEPT ![s] = "agent"],
           dispatch' = [dispatch EXCEPT ![s] = "none"], Finished(s, "failed"),
           UNCHANGED <<definition, loop, node, emitted, recorded, bundle, instance, revoked, delivery,
                       asked>>
    PROVE  TurnsInv'
<1>1. /\ turn' \in [Stage -> LaneState]
      /\ LoopKeepsPromise' /\ NodesInOrder' /\ LoopQuiet' /\ Conditions' /\ BundleLast'
  BY LaneMoves
<1>2. TurnRuns' /\ ledger' \in [Stage -> Seq(TurnStatus)]
  BY TurnFinishes
<1>3. /\ dispatch' \in [Stage -> {"none", "answered", "raised"} \cup AtWork] /\ TurnDispatches'
  BY DispatchEnds DEF LaneState
<1>4. TurnsTypeOK'
  <2>1. Stage' = Stage /\ Role' = Role /\ MaxIterations' = MaxIterations
    BY DefinitionRigid
  <2> QED
    BY <1>1, <1>2, <1>3, <2>1 DEF TurnsInv, TurnsTypeOK, NoBundle
<1> QED
  BY <1>1, <1>2, <1>3, <1>4 DEF TurnsInv

LEMMA PollsKeeps == ASSUME TurnsInv, NEW s \in Stage, Polls(s), definition' = definition PROVE TurnsInv'
  BY TurnFails DEF Polls

LEMMA RaisesKeeps == ASSUME TurnsInv, NEW s \in Stage, Raises(s), definition' = definition PROVE TurnsInv'
  BY TurnFails DEF Raises

LEMMA StopsLaneKeeps ==
    ASSUME TurnsInv, NEW s \in Stage, StopsLane(s), definition' = definition PROVE TurnsInv'
<1>1. /\ turn[s] \in {"start", "waiting"} /\ turn' = [turn EXCEPT ![s] = "stopped"]
      /\ dispatch' = [dispatch EXCEPT ![s] = StoppedDispatch(s)]
      /\ UNCHANGED <<definition, loop, node, emitted, recorded, bundle, ledger, instance, revoked,
                     delivery, asked>>
  BY DEF StopsLane
<1>2. /\ turn' \in [Stage -> LaneState]
      /\ LoopKeepsPromise' /\ NodesInOrder' /\ LoopQuiet' /\ Conditions' /\ BundleLast'
  BY <1>1, LaneMoves
<1>3. /\ turn \in [Stage -> LaneState]
      /\ dispatch \in [Stage -> {"none", "answered", "raised"} \cup AtWork]
      /\ Stage' = Stage /\ Guarded' = Guarded /\ Role' = Role /\ MaxIterations' = MaxIterations
  BY DefinitionRigid, <1>1 DEF TurnsInv, TurnsTypeOK
<1>4. /\ \A t \in Stage : t # s => turn'[t] = turn[t]
      /\ turn'[s] = "stopped"
  BY <1>1, <1>3
<1>5. dispatch' \in [Stage -> {"none", "answered", "raised"} \cup AtWork] /\ TurnDispatches'
  <2>1. CASE Guarded
    BY <1>1, <1>3, <2>1 DEF StoppedDispatch, TurnDispatches
  <2>2. CASE ~Guarded
    BY <1>1, <1>3, <2>2, DispatchEnds DEF StoppedDispatch, LaneState
  <2> QED
    BY <2>1, <2>2
<1>6. TurnRuns'
  <2>1. \A t \in Stage : Newest(t)' = Newest(t) /\ (StageEnded(t)' => StageEnded(t))
    BY <1>1, <1>4 DEF Newest, StageEnded
  <2>2. \A t \in Stage : turn'[t] = "start" \/ turn'[t] = "waiting" => turn'[t] = turn[t]
    BY <1>4
  <2>3. \A t \in Stage : turn[t] \in {"waiting", "stopped"} => turn'[t] \in {"waiting", "stopped"}
    BY <1>4
  <2> QED
    BY <1>1, <1>3, <2>1, <2>2, <2>3 DEF TurnsInv, TurnRuns
<1>7. TurnsTypeOK'
  BY <1>1, <1>2, <1>3, <1>5 DEF TurnsInv, TurnsTypeOK, NoBundle
<1> QED
  BY <1>2, <1>5, <1>6, <1>7 DEF TurnsInv

LEMMA RecordPlanKeeps ==
    ASSUME TurnsInv, NEW s \in Stage, RecordPlan(s), definition' = definition PROVE TurnsInv'
<1>1. /\ turn[s] = "waiting" /\ s \in Planner
      /\ turn' = [turn EXCEPT ![s] = "done"] /\ dispatch' = [dispatch EXCEPT ![s] = "none"]
      /\ delivery' = [delivery EXCEPT !.status = "planning"] /\ Finished(s, "succeeded")
      /\ UNCHANGED <<definition, loop, node, recorded, bundle, instance, revoked, asked>>
      /\ emitted \subseteq emitted' /\ emitted' \subseteq emitted \cup {"task-ready"}
  BY DEF RecordPlan
<1>2. /\ Stage' = Stage /\ Planner' = Planner /\ Role' = Role /\ Bundled' = Bundled
      /\ Recorder' = Recorder /\ MaxIterations' = MaxIterations
      /\ \A t : StageSources(t)' = StageSources(t)
  BY DefinitionRigid
<1>3. ~Bundled /\ s \notin Recorder
  BY <1>1, DefinitionTyped DEF TurnsInv, TurnsTypeOK, Recorder
<1>4. loop.status = "running" /\ loop.iteration # 0 /\ node[s] = "running"
  BY <1>1, LaneRuns
<1>5. TurnRuns' /\ ledger' \in [Stage -> Seq(TurnStatus)]
  BY <1>1, TurnFinishes
<1>6. /\ dispatch' \in [Stage -> {"none", "answered", "raised"} \cup AtWork]
      /\ turn' \in [Stage -> LaneState] /\ TurnDispatches'
  BY <1>1, DispatchEnds DEF LaneState
<1>7. \A t \in Stage : turn'[t] = IF t = s THEN "done" ELSE turn[t]
  BY <1>1 DEF TurnsInv, TurnsTypeOK
<1>8. delivery'.status = "planning"
  BY <1>1 DEF TurnsInv, TurnsTypeOK
<1>9. LoopKeepsPromise' /\ LoopQuiet' /\ BundleLast'
  BY <1>1, <1>2, <1>3, <1>4, <1>8 DEF LoopKeepsPromise, LoopQuiet, BundleLast
<1>10. NodesInOrder'
  BY <1>1, <1>2, <1>4, <1>7 DEF TurnsInv, NodesInOrder
<1>11. Conditions'
  <2>1. \A t \in Recorder : StageEnded(t)' <=> StageEnded(t)
    BY <1>1, <1>3, <1>7 DEF StageEnded, Recorder
  <2> QED
    BY <1>1, <1>2, <2>1 DEF TurnsInv, Conditions, NoBundle
<1>12. TurnsTypeOK'
  <2>1. delivery' \in [status : {"executing", "planning", "verifying", "cancelling", "failed",
                                 "cancelled"},
                       error : {"none", "agent", "verification", "exhausted"}]
    BY <1>1 DEF TurnsInv, TurnsTypeOK
  <2> QED
    BY <1>1, <1>2, <1>5, <1>6, <2>1 DEF TurnsInv, TurnsTypeOK, NoBundle
<1> QED
  BY <1>5, <1>6, <1>9, <1>10, <1>11, <1>12 DEF TurnsInv

(* The candidates of a loop whose last stage has not passed yet: as long as a
   lane waits there is no bundle, and a lane that is not the last one waits for
   nothing the last stage has passed. *)
LEMMA NoBundleWhileWaiting ==
    ASSUME TurnsInv, NEW s \in Stage, turn[s] = "waiting"
    PROVE  /\ bundle = NoBundle
           /\ Bundled => \A last \in Stage : IsLast(last) /\ last # s => recorded[last] # "passed"
<1>1. loop.status = "running" /\ node[s] = "running" /\ ~StageEnded(s)
  BY LaneRuns DEF StageEnded
<1>2. bundle = NoBundle
  BY <1>1 DEF TurnsInv, Conditions, BundleLast
<1>3. SUFFICES ASSUME Bundled, NEW last \in Stage, IsLast(last), last # s, recorded[last] = "passed"
               PROVE  FALSE
  BY <1>2
<1>4. turn[last] = "verification"
  BY <1>1, <1>2, <1>3 DEF TurnsInv, BundleLast
<1>5. s \in StageSources(last)
  BY <1>3 DEF IsLast, StageSources
<1>6. node[s] = "succeeded"
  BY <1>4, <1>5, LaneRuns
<1> QED
  BY <1>1, <1>6

LEMMA RecordCandidateKeeps ==
    ASSUME TurnsInv, NEW s \in Stage, RecordCandidate(s), definition' = definition PROVE TurnsInv'
<1>1. /\ turn[s] = "waiting" /\ s \in Recorder
      /\ dispatch' = [dispatch EXCEPT ![s] = "none"]
      /\ delivery' = [delivery EXCEPT !.status = "verifying"]
      /\ UNCHANGED <<definition, loop, node, instance, revoked, asked>>
  BY DEF RecordCandidate, Recorder
<1>2. PICK verification \in {"passed", "failed"} : Records(s, verification)
  BY DEF RecordCandidate
<1> DEFINE candidates == [recorded EXCEPT ![s] = verification]
           verified == Bundled /\ verification = "passed" /\ Complete(candidates)
           pc == IF verified /\ ~Verifies(candidates) THEN "verification" ELSE "done"
<1>3. /\ Stage' = Stage /\ Planner' = Planner /\ Role' = Role /\ Bundled' = Bundled
      /\ Recorder' = Recorder /\ MaxIterations' = MaxIterations
      /\ \A t : StageSources(t)' = StageSources(t)
      /\ \A t : IsLast(t)' <=> IsLast(t)
  BY <1>1, DefinitionRigid
<1>4. loop.status = "running" /\ node[s] = "running" /\ ~StageEnded(s)
      /\ loop.iteration > 0 /\ loop.iteration # 0
      /\ \A t \in StageSources(s) : node[t] = "succeeded"
  BY <1>1, LaneRuns, WaitingRuns DEF StageEnded
<1>5. /\ recorded' = candidates
      /\ turn' = [turn EXCEPT ![s] = pc]
      /\ Finished(s, IF pc = "done" THEN "succeeded" ELSE "failed")
      /\ pc = "verification" => UNCHANGED <<bundle, emitted>>
      /\ pc = "done" => /\ bundle' = IF verified THEN candidates ELSE bundle
                        /\ emitted' = emitted
                             \cup (IF verification = "passed" THEN {"tests-passed"} ELSE {"tests-failed"})
                             \cup (IF verified THEN {"release-bundle-verified"} ELSE {})
  BY <1>2 DEF Records
<1>6. pc \in {"done", "verification"} /\ pc \in LaneState
  BY DEF LaneState
<1>7. /\ s \in Role /\ recorded \in [Role -> {"none", "passed", "failed"}]
      /\ candidates \in [Role -> {"none", "passed", "failed"}]
      /\ candidates[s] = verification /\ \A r \in Role : r # s => candidates[r] = recorded[r]
  BY <1>1 DEF TurnsInv, TurnsTypeOK, Role, Recorder
<1>8. verified /\ pc = "done" => \A r \in Role : candidates[r] = "passed"
  BY DEF Verifies
<1>9. verified /\ pc = "done" => candidates \in [Role -> {"passed"}] /\ candidates # NoBundle
  BY <1>7, <1>8 DEF NoBundle
<1>10. verification = "passed" /\ Bundled => Complete(candidates) \/ ~IsLast(s)
  <2> SUFFICES ASSUME Bundled, verification = "passed", IsLast(s), NEW r \in Role
               PROVE  candidates[r] # "none"
    BY DEF Complete
  <2>1. CASE r = s
    BY <1>7, <2>1
  <2>2. CASE r \in definition.before
    BY <1>7, <2>2 DEF TurnsInv, Conditions
  <2>3. CASE r \in Recorder /\ r # s
    <3>1. r \in StageSources(s)
      BY <2>3 DEF IsLast, StageSources, Recorder
    <3>2. StageEnded(r)
      BY <1>4, <3>1 DEF StageEnded
    <3>3. recorded[r] # "none"
      BY <1>4, <2>3, <3>2 DEF TurnsInv, Conditions
    <3> QED
      BY <1>7, <2>3, <3>3
  <2> QED
    BY <2>1, <2>2, <2>3 DEF Role, Recorder
<1>11. bundle = NoBundle
       /\ (Bundled => \A last \in Stage : IsLast(last) /\ last # s => recorded[last] # "passed")
  BY <1>1, NoBundleWhileWaiting
<1>12. verified /\ pc = "done" => IsLast(s)
  <2> SUFFICES ASSUME verified, pc = "done", ~IsLast(s) PROVE FALSE
    OBVIOUS
  <2>1. PICK last \in Stage : IsLast(last)
    BY DefinitionTyped DEF TurnsInv, TurnsTypeOK
  <2>2. last \in Role /\ last # s
    BY <2>1, DefinitionTyped DEF TurnsInv, TurnsTypeOK, Role
  <2> QED
    BY <1>7, <1>8, <1>11, <2>1, <2>2
<1> HIDE DEF candidates, verified, pc
<1>13. \A t \in Stage : turn'[t] = IF t = s THEN pc ELSE turn[t]
  BY <1>5 DEF TurnsInv, TurnsTypeOK
<1>14. TurnRuns' /\ ledger' \in [Stage -> Seq(TurnStatus)]
  BY <1>1, <1>5, <1>6, TurnFinishes
<1>15. /\ dispatch' \in [Stage -> {"none", "answered", "raised"} \cup AtWork]
       /\ turn' \in [Stage -> LaneState] /\ TurnDispatches'
  BY <1>1, <1>5, <1>6, DispatchEnds
<1>16. LoopKeepsPromise' /\ LoopQuiet'
  <2>1. delivery'.status = "verifying"
    BY <1>1 DEF TurnsInv, TurnsTypeOK
  <2> QED
    BY <1>1, <1>4, <2>1 DEF LoopKeepsPromise, LoopQuiet
<1>17. NodesInOrder'
  BY <1>1, <1>3, <1>4, <1>6, <1>13 DEF TurnsInv, NodesInOrder
<1>18. \A t \in Stage : /\ StageEnded(t) => StageEnded(t)' /\ t # s
                        /\ StageEnded(t)' => StageEnded(t) \/ (t = s /\ pc = "done")
  BY <1>1, <1>4, <1>13 DEF StageEnded
<1>19. Conditions'
  <2>1. \A r \in definition.before : recorded'[r] = "passed"
    <3>1. s \notin definition.before
      BY DefinitionTyped DEF TurnsInv, TurnsTypeOK
    <3> QED
      BY <1>5, <1>7, <3>1 DEF TurnsInv, Conditions, Role
  <2>2. ~Bundled => bundle' = NoBundle /\ pc = "done"
    BY <1>5, <1>11 DEF verified, pc
  <2>3. \A t \in Recorder : StageEnded(t)' => recorded'[t] # "none"
    <3> TAKE t \in Recorder
    <3>1. t \in Role /\ t \in Stage
      BY DEF Role, Recorder
    <3>2. CASE t = s
      BY <1>5, <1>7, <3>2
    <3>3. CASE t # s
      BY <1>4, <1>5, <1>7, <1>18, <3>1, <3>3 DEF TurnsInv, Conditions
    <3> QED
      BY <3>2, <3>3
  <2>4. "tests-passed" \in emitted' /\ ~Bundled =>
          \E t \in Recorder : StageEnded(t)' /\ recorded'[t] = "passed"
    <3> SUFFICES ASSUME "tests-passed" \in emitted', ~Bundled
                 PROVE  \E t \in Recorder : StageEnded(t)' /\ recorded'[t] = "passed"
      OBVIOUS
    <3>1. CASE verification = "passed"
      <4>1. StageEnded(s)'
        BY <1>13, <2>2 DEF StageEnded
      <4> QED
        BY <1>1, <1>5, <1>7, <3>1, <4>1
    <3>2. CASE verification # "passed"
      <4>1. "tests-passed" \in emitted
        BY <1>2, <1>5, <2>2, <3>2 DEF verified
      <4>2. PICK t \in Recorder : StageEnded(t) /\ recorded[t] = "passed"
        BY <1>4, <4>1 DEF TurnsInv, Conditions
      <4>3. t \in Stage /\ t \in Role
        BY DEF Role, Recorder
      <4> QED
        BY <1>5, <1>7, <1>18, <4>2, <4>3
    <3> QED
      BY <3>1, <3>2
  <2>5. "task-ready" \in emitted' => Planner # {}
    BY <1>4, <1>5, <1>6 DEF TurnsInv, Conditions
  <2>6. "release-bundle-verified" \in emitted' => bundle' # NoBundle
    BY <1>2, <1>4, <1>5, <1>6, <1>9, <1>11 DEF TurnsInv, Conditions
  <2>7. NoBundle' = NoBundle
    BY DEF NoBundle
  <2> QED
    BY <1>1, <1>3, <2>1, <2>2, <2>3, <2>4, <2>5, <2>6, <2>7 DEF Conditions
<1>20. BundleLast'
  <2>1. bundle' # NoBundle => verified /\ pc = "done" /\ bundle' = candidates
    BY <1>5, <1>6, <1>11
  <2>2. bundle' # NoBundle => \A t \in Stage : StageEnded(t)'
    <3> SUFFICES ASSUME bundle' # NoBundle, NEW t \in Stage PROVE StageEnded(t)'
      OBVIOUS
    <3>1. CASE t = s
      BY <1>13, <2>1, <3>1 DEF StageEnded
    <3>2. CASE t # s
      <4>1. t \in StageSources(s)
        BY <1>12, <2>1, <3>2 DEF IsLast, StageSources
      <4> QED
        BY <1>1, <1>4, <4>1 DEF StageEnded
    <3> QED
      BY <3>1, <3>2
  <2>3. ASSUME Bundled, NEW last \in Stage, IsLast(last), recorded'[last] = "passed"
        PROVE  bundle' # NoBundle \/ turn'[last] = "verification"
    <3>1. last \in Role
      BY <2>3, DefinitionTyped DEF TurnsInv, TurnsTypeOK, Role
    <3>2. last = s /\ verification = "passed"
      BY <1>5, <1>7, <1>11, <2>3, <3>1
    <3>3. verified
      BY <1>10, <2>3, <3>2 DEF verified
    <3> QED
      BY <1>5, <1>6, <1>9, <1>13, <3>2, <3>3
  <2>4. bundle' # NoBundle => bundle' = recorded' /\ \A r \in Role : recorded'[r] = "passed"
    BY <1>5, <1>8, <2>1
  <2>5. NoBundle' = NoBundle
    BY DEF NoBundle
  <2> QED
    BY <1>1, <1>3, <1>4, <2>2, <2>3, <2>4, <2>5 DEF BundleLast
<1>21. TurnsTypeOK'
  <2>1. delivery' \in [status : {"executing", "planning", "verifying", "cancelling", "failed",
                                 "cancelled"},
                       error : {"none", "agent", "verification", "exhausted"}]
    BY <1>1 DEF TurnsInv, TurnsTypeOK
  <2>2. emitted' \subseteq {"tests-passed", "tests-failed", "task-ready", "release-bundle-verified"}
    BY <1>5, <1>6 DEF TurnsInv, TurnsTypeOK
  <2>3. bundle' \in {NoBundle} \cup [Role -> {"passed"}]
    BY <1>5, <1>6, <1>9, <1>11
  <2>4. NoBundle' = NoBundle
    BY DEF NoBundle
  <2> QED
    BY <1>1, <1>3, <1>5, <1>7, <1>14, <1>15, <2>1, <2>2, <2>3, <2>4 DEF TurnsInv, TurnsTypeOK
<1> QED
  BY <1>14, <1>15, <1>16, <1>17, <1>19, <1>20, <1>21 DEF TurnsInv

-----------------------------------------------------------------------------
(* Around the loop, and what a dispatch does on its own. *)
LEMMA CancelKeeps == ASSUME TurnsInv, Cancel, definition' = definition PROVE TurnsInv'
<1>1. /\ Running /\ asked' = TRUE /\ delivery' = [delivery EXCEPT !.status = "cancelling"]
      /\ UNCHANGED <<definition, loop, node, emitted, turn, dispatch, recorded, bundle, ledger, instance,
                     revoked>>
  BY DEF Cancel
<1>2. /\ Stage' = Stage /\ Role' = Role /\ MaxIterations' = MaxIterations /\ Guarded' = Guarded
  BY DefinitionRigid
<1>3. LoopKeepsPromise' /\ NodesInOrder' /\ TurnRuns' /\ Conditions' /\ BundleLast'
  BY <1>1, AroundKeeps
<1>4. LoopQuiet' /\ TurnDispatches'
  BY <1>1, <1>2 DEF TurnsInv, LoopQuiet, TurnDispatches, Running
<1>5. TurnsTypeOK'
  <2>1. delivery' \in [status : {"executing", "planning", "verifying", "cancelling", "failed",
                                 "cancelled"},
                       error : {"none", "agent", "verification", "exhausted"}]
    BY <1>1 DEF TurnsInv, TurnsTypeOK
  <2> QED
    BY <1>1, <1>2, <2>1 DEF TurnsInv, TurnsTypeOK, NoBundle
<1> QED
  BY <1>3, <1>4, <1>5 DEF TurnsInv

LEMMA PatchInstanceKeeps == ASSUME TurnsInv, PatchInstance, definition' = definition PROVE TurnsInv'
<1>1. /\ instance.version <= MaxPatches
      /\ instance' \in {[instance EXCEPT !.version = @ + 1], [instance EXCEPT !.ready = FALSE]}
      /\ UNCHANGED <<definition, loop, node, emitted, turn, dispatch, recorded, bundle, ledger, revoked,
                     delivery, asked>>
  BY DEF PatchInstance
<1>2. /\ Stage' = Stage /\ Role' = Role /\ MaxIterations' = MaxIterations /\ Guarded' = Guarded
  BY DefinitionRigid
<1>3. LoopKeepsPromise' /\ NodesInOrder' /\ TurnRuns' /\ Conditions' /\ BundleLast'
  BY <1>1, AroundKeeps
<1>4. LoopQuiet' /\ TurnDispatches'
  BY <1>1, <1>2 DEF TurnsInv, LoopQuiet, TurnDispatches
<1>5. instance' \in [version : 1..MaxPatches + 1, ready : BOOLEAN]
  <2>1. /\ instance \in [version : 1..MaxPatches + 1, ready : BOOLEAN] /\ MaxPatches \in Nat
    BY TurnsAssumption DEF TurnsInv, TurnsTypeOK
  <2>2. CASE instance' = [instance EXCEPT !.version = @ + 1]
    <3>1. instance.version + 1 \in 1..MaxPatches + 1
      BY <1>1, <2>1
    <3> QED
      BY <2>1, <2>2, <3>1
  <2>3. CASE instance' = [instance EXCEPT !.ready = FALSE]
    BY <2>1, <2>3
  <2> QED
    BY <1>1, <2>2, <2>3
<1>6. TurnsTypeOK'
  BY <1>1, <1>2, <1>5 DEF TurnsInv, TurnsTypeOK, NoBundle
<1> QED
  BY <1>3, <1>4, <1>6 DEF TurnsInv

LEMMA RevokeKeeps == ASSUME TurnsInv, Revoke, definition' = definition PROVE TurnsInv'
<1>1. /\ revoked' = TRUE
      /\ UNCHANGED <<definition, loop, node, emitted, turn, dispatch, recorded, bundle, ledger, instance,
                     delivery, asked>>
  BY DEF Revoke
<1>2. /\ Stage' = Stage /\ Role' = Role /\ MaxIterations' = MaxIterations /\ Guarded' = Guarded
  BY DefinitionRigid
<1>3. LoopKeepsPromise' /\ NodesInOrder' /\ TurnRuns' /\ Conditions' /\ BundleLast'
  BY <1>1, AroundKeeps
<1>4. LoopQuiet' /\ TurnDispatches'
  BY <1>1, <1>2 DEF TurnsInv, LoopQuiet, TurnDispatches
<1>5. TurnsTypeOK'
  BY <1>1, <1>2 DEF TurnsInv, TurnsTypeOK, NoBundle
<1> QED
  BY <1>3, <1>4, <1>5 DEF TurnsInv

LEMMA DispatchesKeep ==
    ASSUME TurnsInv, NEW s \in Stage, NEW pc \in {"turn", "repair", "answered", "raised"},
           dispatch[s] # "none", Dispatches(s, pc), definition' = definition
    PROVE  TurnsInv'
<1>1. /\ dispatch' = [dispatch EXCEPT ![s] = pc]
      /\ UNCHANGED <<definition, loop, node, emitted, turn, recorded, bundle, ledger, instance, revoked,
                     delivery, asked>>
  BY DEF Dispatches
<1>2. /\ Stage' = Stage /\ Role' = Role /\ MaxIterations' = MaxIterations /\ Guarded' = Guarded
  BY DefinitionRigid
<1>3. LoopKeepsPromise' /\ NodesInOrder' /\ TurnRuns' /\ Conditions' /\ BundleLast'
  BY <1>1, AroundKeeps
<1>4. dispatch' \in [Stage -> {"none", "answered", "raised"} \cup AtWork]
  BY <1>1 DEF TurnsInv, TurnsTypeOK, AtWork
<1>5. LoopQuiet' /\ TurnDispatches'
  <2>1. \A t \in Stage : dispatch'[t] # "none" => dispatch[t] # "none"
    BY <1>1 DEF TurnsInv, TurnsTypeOK
  <2> QED
    BY <1>1, <1>2, <2>1 DEF TurnsInv, LoopQuiet, TurnDispatches
<1>6. TurnsTypeOK'
  BY <1>1, <1>2, <1>4 DEF TurnsInv, TurnsTypeOK, NoBundle
<1> QED
  BY <1>3, <1>5, <1>6 DEF TurnsInv

LEMMA ResolveKeeps == ASSUME TurnsInv, NEW s \in Stage, Resolve(s), definition' = definition PROVE TurnsInv'
  BY DispatchesKeep DEF Resolve

LEMMA AnswersKeeps == ASSUME TurnsInv, NEW s \in Stage, Answers(s), definition' = definition PROVE TurnsInv'
  BY DispatchesKeep DEF Answers

-----------------------------------------------------------------------------
(* The loop. *)
LEMMA LoopEnds ==
    ASSUME TurnsInv, \A s \in Stage : turn[s] # "waiting",
           NEW status \in {"succeeded", "failed"}, loop' = [loop EXCEPT !.status = status],
           turn' = [s \in Stage |-> "idle"],
           UNCHANGED <<definition, dispatch, recorded, bundle, ledger>>
    PROVE  /\ loop' \in [status : {"running", "succeeded", "failed"}, iteration : 0..MaxIterations]
           /\ loop'.status = status /\ turn' \in [Stage -> LaneState]
           /\ NodesInOrder' /\ LoopQuiet' /\ TurnRuns' /\ TurnDispatches' /\ Conditions' /\ BundleLast'
<1>1. /\ Stage' = Stage /\ Bundled' = Bundled /\ Guarded' = Guarded
  BY DefinitionRigid
<1>2. /\ loop' \in [status : {"running", "succeeded", "failed"}, iteration : 0..MaxIterations]
      /\ loop'.status = status /\ loop'.iteration = loop.iteration
  BY DEF TurnsInv, TurnsTypeOK
<1>3. turn' \in [Stage -> LaneState]
  BY DEF LaneState
<1>4. NodesInOrder' /\ LoopQuiet' /\ BundleLast'
  BY <1>1, <1>2 DEF NodesInOrder, LoopQuiet, BundleLast
<1>5. TurnDispatches'
  BY <1>1 DEF TurnsInv, TurnDispatches
<1>6. Conditions'
  BY <1>1, <1>2 DEF TurnsInv, Conditions, NoBundle
<1>7. TurnRuns'
  BY <1>1, <1>2 DEF TurnsInv, TurnRuns
<1> QED
  BY <1>2, <1>3, <1>4, <1>5, <1>6, <1>7

LEMMA GroupFailsKeeps == ASSUME TurnsInv, GroupFails, definition' = definition PROVE TurnsInv'
<1>1. /\ Live = {} /\ turn' = [s \in Stage |-> "idle"]
      /\ loop' = [loop EXCEPT !.status = "failed"]
      /\ UNCHANGED <<definition, node, emitted, dispatch, recorded, bundle, ledger, instance, revoked,
                     asked>>
      /\ delivery' \in [status : {"failed", "cancelled"}, error : {"none", "agent", "verification"}]
  BY DEF GroupFails
<1>2. \A s \in Stage : turn[s] # "waiting"
  BY <1>1 DEF Live
<1>3. /\ loop' \in [status : {"running", "succeeded", "failed"}, iteration : 0..MaxIterations]
      /\ loop'.status = "failed" /\ turn' \in [Stage -> LaneState]
      /\ NodesInOrder' /\ LoopQuiet' /\ TurnRuns' /\ TurnDispatches' /\ Conditions' /\ BundleLast'
  BY <1>1, <1>2, LoopEnds
<1>4. LoopKeepsPromise'
  BY <1>3 DEF LoopKeepsPromise
<1>5. TurnsTypeOK'
  <2>1. Stage' = Stage /\ Role' = Role /\ MaxIterations' = MaxIterations
    BY <1>1, DefinitionRigid
  <2>2. delivery' \in [status : {"executing", "planning", "verifying", "cancelling", "failed",
                                 "cancelled"},
                       error : {"none", "agent", "verification", "exhausted"}]
    BY <1>1
  <2> QED
    BY <1>1, <1>3, <2>1, <2>2 DEF TurnsInv, TurnsTypeOK, NoBundle
<1> QED
  BY <1>3, <1>4, <1>5 DEF TurnsInv

(* A batch starts: the lanes of the ready nodes. *)
LEMMA LaunchInOrder ==
    ASSUME definition' = definition,
           NEW nodes \in [Stage -> {"pending", "succeeded"}], Launches(nodes),
           \A s \in Stage : nodes[s] = "succeeded" => \A t \in StageSources(s) : nodes[t] = "succeeded"
    PROVE  /\ node' \in [Stage -> {"pending", "running", "succeeded"}] /\ turn' \in [Stage -> LaneState]
           /\ NodesInOrder'
           /\ \A s \in Stage : /\ StageEnded(s)' <=> nodes[s] = "succeeded"
                               /\ turn'[s] \in {"idle", "start"}
                               /\ nodes[s] = "pending" <=> node'[s] = "pending" \/ turn'[s] = "start"
<1>1. Stage' = Stage /\ \A s : StageSources(s)' = StageSources(s)
  BY DefinitionRigid
<1>2. /\ node' = [s \in Stage |-> IF s \in Ready(nodes) THEN "running" ELSE nodes[s]]
      /\ turn' = [s \in Stage |-> IF s \in Ready(nodes) THEN "start" ELSE "idle"]
  BY DEF Launches
<1>3. \A s \in Stage : s \in Ready(nodes) <=>
        nodes[s] = "pending" /\ \A t \in StageSources(s) : nodes[t] = "succeeded"
  BY DEF Ready
<1>4. \A s \in Stage : StageSources(s) \subseteq Stage
  BY DEF StageSources
<1>5. \A s \in Stage : nodes[s] = "succeeded" => node'[s] = "succeeded"
  BY <1>2, <1>3
<1>6. NodesInOrder'
  BY <1>1, <1>2, <1>3, <1>4, <1>5 DEF NodesInOrder
<1> QED
  BY <1>2, <1>3, <1>6 DEF StageEnded, LaneState

(* An iteration starts. *)
LEMMA IterationInOrder ==
    ASSUME TurnsInv, loop.status = "running", \A s \in Stage : turn[s] \in {"idle", "done"},
           bundle = NoBundle,
           Bundled => \A s \in Stage : IsLast(s) => recorded[s] # "passed",
           loop.iteration < MaxIterations, loop' = [loop EXCEPT !.iteration = loop.iteration + 1],
           emitted' = {}, Launches([s \in Stage |-> "pending"]),
           UNCHANGED <<definition, dispatch, recorded, bundle, ledger, instance, revoked, delivery, asked>>
    PROVE  TurnsInv'
<1>1. /\ Stage' = Stage /\ Role' = Role /\ Bundled' = Bundled /\ Guarded' = Guarded
      /\ MaxIterations' = MaxIterations /\ Recorder' = Recorder /\ Planner' = Planner
      /\ \A t : IsLast(t)' <=> IsLast(t)
  BY DefinitionRigid
<1>2. /\ loop' \in [status : {"running", "succeeded", "failed"}, iteration : 0..MaxIterations]
      /\ loop'.status = "running" /\ loop'.iteration = loop.iteration + 1 /\ loop.iteration \in Nat
  BY DefinitionTyped DEF TurnsInv, TurnsTypeOK
<1>3. /\ node' \in [Stage -> {"pending", "running", "succeeded"}] /\ turn' \in [Stage -> LaneState]
      /\ NodesInOrder'
      /\ \A s \in Stage : ~StageEnded(s)' /\ turn'[s] \in {"idle", "start"}
  <2> DEFINE nodes == [s \in Stage |-> "pending"]
  <2>1. nodes \in [Stage -> {"pending", "succeeded"}] /\ \A s \in Stage : nodes[s] = "pending"
    OBVIOUS
  <2>2. Launches(nodes)
    OBVIOUS
  <2> HIDE DEF nodes
  <2> QED
    BY <2>1, <2>2, LaunchInOrder
<1>4. LoopKeepsPromise' /\ LoopQuiet'
  BY <1>2 DEF TurnsInv, LoopKeepsPromise, LoopQuiet
<1>5. TurnDispatches'
  BY <1>1 DEF TurnsInv, TurnDispatches
<1>6. TurnRuns'
  <2>1. \A s \in Stage : Len(ledger[s]) \in Nat
    BY DEF TurnsInv, TurnsTypeOK
  <2>2. \A s \in Stage : \A k \in 1..Len(ledger[s]) : ledger[s][k] # "running"
    BY DEF TurnsInv, TurnRuns
  <2>3. \A s \in Stage : Len(ledger[s]) < loop'.iteration
    BY <1>2, <2>1 DEF TurnsInv, TurnRuns
  <2> QED
    BY <1>1, <1>2, <1>3, <2>1, <2>2, <2>3 DEF TurnRuns
<1>7. Conditions'
  BY <1>1, <1>3 DEF TurnsInv, Conditions, NoBundle, Recorder
<1>8. BundleLast'
  BY <1>1 DEF BundleLast, NoBundle
<1>9. TurnsTypeOK'
  BY <1>1, <1>2, <1>3 DEF TurnsInv, TurnsTypeOK, NoBundle
<1> QED
  BY <1>3, <1>4, <1>5, <1>6, <1>7, <1>8, <1>9 DEF TurnsInv

LEMMA StartIterationKeeps == ASSUME TurnsInv, StartIteration, definition' = definition PROVE TurnsInv'
<1>1. /\ loop.status = "running" /\ loop.iteration = 0 /\ loop' = [loop EXCEPT !.iteration = 1]
      /\ emitted' = {} /\ Launches([s \in Stage |-> "pending"])
      /\ UNCHANGED <<definition, dispatch, recorded, bundle, ledger, instance, revoked, delivery, asked>>
  BY DEF StartIteration, Running
<1>2. loop' = [loop EXCEPT !.iteration = loop.iteration + 1] /\ loop.iteration < MaxIterations
  BY <1>1, DefinitionTyped DEF TurnsInv, TurnsTypeOK
<1>3. \A s \in Stage : turn[s] = "idle"
  BY <1>1 DEF TurnsInv, LoopQuiet
<1>4. bundle = NoBundle
  BY <1>1 DEF TurnsInv, Conditions, BundleLast
<1>5. Bundled => \A s \in Stage : IsLast(s) => recorded[s] # "passed"
  BY <1>1, <1>3, <1>4 DEF TurnsInv, BundleLast
<1> QED
  BY <1>1, <1>2, <1>3, <1>4, <1>5, IterationInOrder

(* When no node is ready all nodes have succeeded: the body has no cycle. *)
LEMMA NoneReadyAllEnded ==
    ASSUME definition \in Definitions, NEW nodes \in [Stage -> {"pending", "succeeded"}],
           Ready(nodes) = {}
    PROVE  \A s \in Stage : nodes[s] = "succeeded"
<1> DEFINE pending == {s \in Stage : nodes[s] = "pending"}
<1>1. pending # {} => \E s \in pending : \A t \in pending : <<t, s>> \notin Edges
  BY TurnsAssumption DEF Stage, Edges
<1>2. ASSUME NEW s \in pending, \A t \in pending : <<t, s>> \notin Edges PROVE FALSE
  <2>1. \A t \in StageSources(s) : nodes[t] = "succeeded"
    BY <1>2 DEF StageSources
  <2> QED
    BY <1>2, <2>1 DEF Ready
<1> QED
  BY <1>1, <1>2

(* What the exit condition promises. *)
LEMMA ExitPromises ==
    ASSUME TurnsInv, loop.status = "running", loop.iteration > 0, ExitMet(emitted)
    PROVE  /\ \A r \in Role : recorded[r] = "passed"
           /\ Bundled => bundle = recorded
<1>1. CASE Bundled
  <2>1. bundle # NoBundle
    BY <1>1 DEF TurnsInv, Conditions, ExitMet
  <2> QED
    BY <1>1, <2>1 DEF TurnsInv, BundleLast
<1>2. CASE ~Bundled /\ Planner = Stage
  BY <1>2 DEF TurnsInv, Conditions, Role
<1>3. CASE ~Bundled /\ Planner = {} /\ Stage = {"backend"}
  <2>1. recorded["backend"] = "passed"
    BY <1>3 DEF TurnsInv, Conditions, ExitMet, Recorder
  <2> QED
    BY <1>3, <2>1 DEF TurnsInv, Conditions, Role
<1> QED
  BY <1>1, <1>2, <1>3, DefinitionTyped DEF TurnsInv, TurnsTypeOK

LEMMA BatchEndsKeeps == ASSUME TurnsInv, BatchEnds, definition' = definition PROVE TurnsInv'
<1> DEFINE nodes == [s \in Stage |-> IF s \in Batch THEN "succeeded" ELSE node[s]]
<1>1. /\ loop.status = "running" /\ \A s \in Stage : turn[s] \in {"idle", "done"}
      /\ loop.iteration > 0
      /\ UNCHANGED <<definition, dispatch, recorded, bundle, ledger, instance, revoked, asked>>
  <2>1. /\ loop.status = "running" /\ Batch # {} /\ \A s \in Batch : turn[s] = "done"
        /\ UNCHANGED <<dispatch, recorded, bundle, ledger, instance, revoked, asked>>
    BY DEF BatchEnds, Running
  <2>2. \A s \in Stage : turn[s] \in {"idle", "done"}
    BY <2>1 DEF Batch
  <2>3. loop.iteration \in Nat /\ loop.iteration # 0
    BY <2>1, DefinitionTyped DEF TurnsInv, TurnsTypeOK, LoopQuiet, Batch
  <2> QED
    BY <2>1, <2>2, <2>3
<1>2. /\ Stage' = Stage /\ Role' = Role /\ Bundled' = Bundled /\ Guarded' = Guarded
      /\ MaxIterations' = MaxIterations /\ Recorder' = Recorder /\ Planner' = Planner
      /\ \A t : IsLast(t)' <=> IsLast(t)
  BY DefinitionRigid
<1>3. /\ nodes \in [Stage -> {"pending", "succeeded"}]
      /\ \A s \in Stage : nodes[s] = "succeeded" <=> StageEnded(s)
      /\ \A s \in Stage : nodes[s] = "pending" => node[s] = "pending"
      /\ \A s \in Stage : nodes[s] = "succeeded" => \A t \in StageSources(s) : nodes[t] = "succeeded"
  <2>1. \A s \in Stage : /\ node[s] \in {"pending", "running", "succeeded"}
                         /\ node[s] = "running" <=> turn[s] # "idle"
                         /\ node[s] # "pending" => \A t \in StageSources(s) : node[t] = "succeeded"
    BY <1>1 DEF TurnsInv, TurnsTypeOK, NodesInOrder
  <2>2. \A s \in Stage : nodes[s] = IF turn[s] = "done" THEN "succeeded" ELSE node[s]
    BY <1>1 DEF Batch
  <2>3. \A s \in Stage : StageSources(s) \subseteq Stage
    BY DEF StageSources
  <2> QED
    BY <1>1, <2>1, <2>2, <2>3 DEF StageEnded
<1>4. \A s \in Stage : turn[s] # "waiting"
  BY <1>1
<1>5. Ready(nodes) = {} => \A s \in Stage : nodes[s] = "succeeded" /\ StageEnded(s)
  <2> HIDE DEF nodes
  <2> QED
    BY <1>3, NoneReadyAllEnded DEF TurnsInv, TurnsTypeOK
<1>6. CASE Ready(nodes) # {} /\ Launches(nodes) /\ UNCHANGED <<loop, emitted, delivery>>
  <2> HIDE DEF nodes
  <2>1. /\ node' \in [Stage -> {"pending", "running", "succeeded"}] /\ turn' \in [Stage -> LaneState]
        /\ NodesInOrder'
        /\ \A s \in Stage : /\ StageEnded(s)' <=> nodes[s] = "succeeded"
                            /\ turn'[s] \in {"idle", "start"}
                            /\ nodes[s] = "pending" <=> node'[s] = "pending" \/ turn'[s] = "start"
    BY <1>1, <1>3, <1>6, LaunchInOrder
  <2>2. \A s \in Stage : StageEnded(s)' <=> StageEnded(s)
    BY <1>3, <2>1
  <2>3. LoopKeepsPromise' /\ LoopQuiet'
    BY <1>1, <1>6 DEF TurnsInv, LoopKeepsPromise, LoopQuiet
  <2>4. TurnDispatches'
    BY <1>1, <1>2 DEF TurnsInv, TurnDispatches
  <2>5. TurnRuns'
    <3>1. \A s \in Stage : Newest(s)' = Newest(s)
      BY <1>1 DEF Newest
    <3>2. \A s \in Stage : node'[s] = "pending" \/ turn'[s] = "start" => node[s] = "pending"
      BY <1>3, <2>1
    <3>3. \A s \in Stage : \A k \in 1..Len(ledger[s]) : ledger[s][k] # "running"
      BY <1>1 DEF TurnsInv, TurnRuns
    <3>4. \A s \in Stage : turn'[s] # "waiting"
      BY <2>1
    <3> QED
      BY <1>1, <1>2, <1>6, <2>2, <3>1, <3>2, <3>3, <3>4 DEF TurnsInv, TurnRuns
  <2>6. Conditions'
    BY <1>1, <1>2, <1>6, <2>2 DEF TurnsInv, Conditions, NoBundle, Recorder
  <2>7. BundleLast'
    <3>1. \E s \in Stage : nodes[s] = "pending"
      BY <1>6 DEF Ready
    <3>2. Bundled => bundle = NoBundle
      BY <1>1, <1>3, <3>1 DEF TurnsInv, BundleLast
    <3>3. Bundled => \A s \in Stage : IsLast(s) => recorded[s] # "passed"
      BY <1>1, <3>2 DEF TurnsInv, BundleLast
    <3> QED
      BY <1>1, <1>2, <3>2, <3>3 DEF BundleLast, NoBundle
  <2>8. TurnsTypeOK'
    BY <1>1, <1>2, <1>6, <2>1 DEF TurnsInv, TurnsTypeOK, NoBundle
  <2> QED
    BY <2>1, <2>3, <2>4, <2>5, <2>6, <2>7, <2>8 DEF TurnsInv
<1>7. CASE /\ Ready(nodes) = {} /\ ExitMet(emitted)
           /\ loop' = [loop EXCEPT !.status = "succeeded"]
           /\ node' = nodes /\ turn' = [s \in Stage |-> "idle"]
           /\ UNCHANGED <<emitted, delivery>>
  <2>1. /\ loop' \in [status : {"running", "succeeded", "failed"}, iteration : 0..MaxIterations]
        /\ loop'.status = "succeeded" /\ turn' \in [Stage -> LaneState]
        /\ NodesInOrder' /\ LoopQuiet' /\ TurnRuns' /\ TurnDispatches' /\ Conditions' /\ BundleLast'
    BY <1>1, <1>4, <1>7, LoopEnds
  <2>2. \A s \in Stage : node'[s] = "succeeded" /\ Newest(s)' = "succeeded"
    <3>1. \A s \in Stage : Newest(s) = "succeeded"
      BY <1>1, <1>5, <1>7 DEF TurnsInv, TurnRuns
    <3> QED
      BY <1>1, <1>5, <1>7, <3>1 DEF Newest
  <2>3. LoopKeepsPromise'
    BY <1>1, <1>2, <1>7, <2>2, ExitPromises DEF LoopKeepsPromise
  <2>4. node' \in [Stage -> {"pending", "running", "succeeded"}]
    BY <1>3, <1>7
  <2>5. TurnsTypeOK'
    BY <1>1, <1>2, <1>7, <2>1, <2>4 DEF TurnsInv, TurnsTypeOK, NoBundle
  <2> QED
    BY <2>1, <2>3, <2>5 DEF TurnsInv
<1>8. CASE /\ Ready(nodes) = {} /\ ~ExitMet(emitted) /\ loop.iteration < MaxIterations
           /\ loop' = [loop EXCEPT !.iteration = @ + 1]
           /\ emitted' = {}
           /\ Launches([s \in Stage |-> "pending"])
           /\ UNCHANGED delivery
  <2>1. bundle = NoBundle
    BY <1>1, <1>8 DEF TurnsInv, Conditions, ExitMet
  <2>2. Bundled => \A s \in Stage : IsLast(s) => recorded[s] # "passed"
    BY <1>1, <2>1 DEF TurnsInv, BundleLast
  <2> QED
    BY <1>1, <1>8, <2>1, <2>2, IterationInOrder
<1>9. CASE /\ Ready(nodes) = {} /\ ~ExitMet(emitted) /\ loop.iteration = MaxIterations
           /\ loop' = [loop EXCEPT !.status = "failed"]
           /\ node' = nodes /\ turn' = [s \in Stage |-> "idle"]
           /\ delivery' = [status |-> "failed", error |-> "exhausted"]
           /\ UNCHANGED emitted
  <2>1. /\ loop' \in [status : {"running", "succeeded", "failed"}, iteration : 0..MaxIterations]
        /\ loop'.status = "failed" /\ turn' \in [Stage -> LaneState]
        /\ NodesInOrder' /\ LoopQuiet' /\ TurnRuns' /\ TurnDispatches' /\ Conditions' /\ BundleLast'
    BY <1>1, <1>4, <1>9, LoopEnds
  <2>2. LoopKeepsPromise'
    BY <2>1 DEF LoopKeepsPromise
  <2>3. node' \in [Stage -> {"pending", "running", "succeeded"}]
    BY <1>3, <1>9
  <2>4. TurnsTypeOK'
    BY <1>1, <1>2, <1>9, <2>1, <2>3 DEF TurnsInv, TurnsTypeOK, NoBundle
  <2> QED
    BY <2>1, <2>2, <2>4 DEF TurnsInv
<1> QED
  BY <1>6, <1>7, <1>8, <1>9 DEF BatchEnds

LEMMA TurnsStep == TurnsInv /\ [TurnsNext]_turnsVars => TurnsInv'
<1> SUFFICES ASSUME TurnsInv, [TurnsNext]_turnsVars PROVE TurnsInv'
  OBVIOUS
<1>1. CASE UNCHANGED turnsVars
  <2>1. /\ UNCHANGED <<definition, loop, node, emitted, turn, recorded, bundle, ledger>>
        /\ UNCHANGED <<dispatch, instance, revoked, delivery, asked>>
    BY <1>1 DEF turnsVars
  <2>2. LoopKeepsPromise' /\ NodesInOrder' /\ TurnRuns' /\ Conditions' /\ BundleLast'
    BY <2>1, AroundKeeps
  <2>3. Stage' = Stage /\ Role' = Role /\ MaxIterations' = MaxIterations /\ Guarded' = Guarded
    BY <2>1, DefinitionRigid
  <2>4. LoopQuiet' /\ TurnDispatches' /\ TurnsTypeOK'
    BY <2>1, <2>3 DEF TurnsInv, LoopQuiet, TurnDispatches, TurnsTypeOK, NoBundle
  <2> QED
    BY <2>2, <2>4 DEF TurnsInv
<1>2. CASE TurnsNext
  <2>1. definition' = definition
    BY <1>2 DEF TurnsNext
  <2>2. CASE LoopStep
    BY <2>1, <2>2, StartIterationKeeps, BatchEndsKeeps, GroupFailsKeeps DEF LoopStep
  <2>3. ASSUME NEW s \in Stage, Turn(s) PROVE TurnsInv'
    <3>1. CASE LaneStep(s)
      BY <2>1, <3>1, BeginKeeps, PollsKeeps, RecordCandidateKeeps, RecordPlanKeeps, RaisesKeeps,
         StopsLaneKeeps DEF LaneStep
    <3>2. CASE Resolve(s) \/ Answers(s)
      BY <2>1, <3>2, ResolveKeeps, AnswersKeeps
    <3> QED
      BY <2>3, <3>1, <3>2 DEF Turn
  <2>4. CASE Cancel \/ PatchInstance \/ Revoke
    BY <2>1, <2>4, CancelKeeps, PatchInstanceKeeps, RevokeKeeps
  <2> QED
    BY <1>2, <2>2, <2>3, <2>4 DEF TurnsNext
<1> QED
  BY <1>1, <1>2

(* Loop, nodes, lanes, dispatches, candidates and AgentRuns hold values the code
   can write; no loop is run more often than max_iterations. *)
THEOREM TurnsTypeCorrect == TurnsSpec => []TurnsTypeOK
<1>1. TurnsInv => TurnsTypeOK
  BY DEF TurnsInv
<1> QED
  BY TurnsInitHolds, TurnsStep, <1>1, PTL DEF TurnsSpec

(* _execute_loop, _record_repository_candidate, _dispatch_with_knowledge_guard:
   a loop that succeeded has what its exit condition promises, only the newest
   AgentRun of a stage runs, and without a guard no turn is left behind when the
   delivery is over, for any acyclic body, number of stages and iterations. *)
THEOREM TurnsStayInOrder == TurnsSpec => []TurnsInOrder
<1>1. TurnsInv => TurnsInOrder
  <2> SUFFICES ASSUME TurnsInv PROVE TurnsInOrder
    OBVIOUS
  <2>1. LoopKeepsPromise
    BY DEF TurnsInv
  <2>2. NewestTurnRuns
    BY DEF TurnsInv, TurnRuns, NewestTurnRuns, Running
  <2>3. NoDetachedTurn
    <3>1. Over => \A s \in Stage : turn[s] = "idle"
      BY DEF TurnsInv, LoopQuiet, Over
    <3> QED
      BY <3>1 DEF TurnsInv, TurnDispatches, NoDetachedTurn, AtWork
  <2> QED
    BY <2>1, <2>2, <2>3 DEF TurnsInOrder
<1> QED
  BY TurnsInitHolds, TurnsStep, <1>1, PTL DEF TurnsSpec

-----------------------------------------------------------------------------
(* From the second iteration on every role has a candidate, so each stage that
   passes asks for the bundle; the last stage has not passed, so none is made and
   the stage fails instead. *)
RepairsInVain ==
    Bundled /\ loop.iteration > 1 =>
      /\ \A s \in Stage : recorded[s] # "none"
      /\ \A last \in Stage : IsLast(last) /\ Stage # {last} =>
           /\ bundle = NoBundle
           /\ loop.status = "running" =>
                \A s \in Stage \ {last} : StageEnded(s) => recorded[s] = "failed"

BundledAtOnce ==
    Bundled /\ loop.status = "succeeded" /\ (\E s, t \in Stage : s # t) => loop.iteration = 1

LEMMA VainFrame ==
    ASSUME RepairsInVain, UNCHANGED <<definition, recorded, bundle>>,
           loop'.iteration = loop.iteration,
           loop'.status = "running" =>
             loop.status = "running" /\ \A s \in Stage : StageEnded(s)' => StageEnded(s)
    PROVE  RepairsInVain'
<1>1. /\ Stage' = Stage /\ Bundled' = Bundled /\ NoBundle' = NoBundle
      /\ \A s : IsLast(s)' <=> IsLast(s)
  BY DefinitionRigid DEF NoBundle
<1> QED
  BY <1>1 DEF RepairsInVain

LEMMA VainRecord ==
    ASSUME TurnsInv, RepairsInVain, NEW s \in Stage, RecordCandidate(s), definition' = definition
    PROVE  RepairsInVain'
<1>1. /\ turn[s] = "waiting" /\ UNCHANGED <<definition, loop, node>>
  BY DEF RecordCandidate
<1>2. PICK verification \in {"passed", "failed"} : Records(s, verification)
  BY DEF RecordCandidate
<1> DEFINE candidates == [recorded EXCEPT ![s] = verification]
<1>3. /\ Stage' = Stage /\ Bundled' = Bundled /\ NoBundle' = NoBundle
      /\ \A t : IsLast(t)' <=> IsLast(t)
  BY <1>1, DefinitionRigid DEF NoBundle
<1> SUFFICES ASSUME Bundled, loop.iteration > 1
             PROVE  /\ \A t \in Stage : recorded'[t] # "none"
                    /\ \A last \in Stage : IsLast(last) /\ Stage # {last} =>
                         /\ bundle' = NoBundle
                         /\ \A t \in Stage \ {last} : StageEnded(t)' => recorded'[t] = "failed"
  BY <1>1, <1>3 DEF RepairsInVain
<1>4. Planner = {} /\ Stage \subseteq Role /\ recorded \in [Role -> {"none", "passed", "failed"}]
  BY DefinitionTyped DEF TurnsInv, TurnsTypeOK, Role
<1>5. loop.status = "running" /\ node[s] = "running" /\ \A t \in StageSources(s) : node[t] = "succeeded"
  BY <1>1, LaneRuns
<1>6. /\ candidates[s] = verification /\ \A r \in Role : r # s => candidates[r] = recorded[r]
      /\ recorded' = candidates
  BY <1>2, <1>4 DEF Records
<1>7. Complete(candidates)
  <2> SUFFICES ASSUME NEW r \in Role PROVE candidates[r] # "none"
    BY DEF Complete
  <2>1. CASE r \in definition.before /\ r # s
    BY <1>6, <2>1 DEF TurnsInv, Conditions
  <2>2. CASE r \in Stage /\ r # s
    BY <1>6, <2>2 DEF RepairsInVain
  <2> QED
    BY <1>6, <2>1, <2>2 DEF Role
<1>8. bundle = NoBundle /\ \A last \in Stage : IsLast(last) /\ last # s => recorded[last] # "passed"
  BY <1>1, NoBundleWhileWaiting
<1>9. ASSUME NEW last \in Stage, IsLast(last), Stage # {last} PROVE ~Verifies(candidates)
  <2>1. CASE last # s
    BY <1>4, <1>6, <1>8, <1>9, <2>1 DEF Verifies
  <2>2. CASE last = s
    <3>1. PICK t \in Stage : t # s
      BY <1>9, <2>2
    <3>2. t \in StageSources(s)
      BY <1>9, <2>2, <3>1 DEF IsLast, StageSources
    <3>3. StageEnded(t)
      BY <1>5, <3>2 DEF StageEnded
    <3>4. recorded[t] = "failed"
      BY <1>5, <1>9, <2>2, <3>1, <3>3 DEF RepairsInVain
    <3> QED
      BY <1>4, <1>6, <3>1, <3>4 DEF Verifies
  <2> QED
    BY <2>1, <2>2
<1> HIDE DEF candidates
<1>10. ASSUME NEW last \in Stage, IsLast(last), Stage # {last}
       PROVE  /\ bundle' = NoBundle
              /\ verification = "passed" => turn' = [turn EXCEPT ![s] = "verification"]
              /\ \E pc : turn' = [turn EXCEPT ![s] = pc]
  BY <1>2, <1>7, <1>8, <1>9, <1>10 DEF Records, candidates
<1>11. ASSUME NEW last \in Stage, IsLast(last), Stage # {last},
              NEW t \in Stage \ {last}, StageEnded(t)'
       PROVE  recorded'[t] = "failed"
  <2>1. turn \in [Stage -> LaneState]
    BY DEF TurnsInv, TurnsTypeOK
  <2>2. CASE t = s
    <3>1. turn'[s] = "done"
      BY <1>1, <1>5, <1>11, <2>2 DEF StageEnded
    <3>2. verification = "failed"
      BY <1>10, <1>11, <2>1, <3>1
    <3> QED
      BY <1>6, <2>2, <3>2
  <2>3. CASE t # s
    <3>1. StageEnded(t)
      BY <1>1, <1>10, <1>11, <2>1, <2>3 DEF StageEnded
    <3> QED
      BY <1>4, <1>5, <1>6, <1>11, <2>3, <3>1 DEF RepairsInVain
  <2> QED
    BY <2>2, <2>3
<1>12. \A t \in Stage : recorded'[t] # "none"
  BY <1>4, <1>6, <1>7 DEF Complete
<1> QED
  BY <1>10, <1>11, <1>12

LEMMA VainBatch ==
    ASSUME TurnsInv, RepairsInVain, BatchEnds, definition' = definition PROVE RepairsInVain'
<1> DEFINE nodes == [s \in Stage |-> IF s \in Batch THEN "succeeded" ELSE node[s]]
<1>1. /\ loop.status = "running" /\ \A s \in Batch : turn[s] = "done"
      /\ UNCHANGED <<definition, recorded, bundle>>
  BY DEF BatchEnds, Running
<1>2. \A s \in Stage : nodes[s] = "succeeded" => StageEnded(s)
  BY <1>1 DEF StageEnded, Batch
<1>3. loop \in [status : {"running", "succeeded", "failed"}, iteration : 0..MaxIterations]
  BY DEF TurnsInv, TurnsTypeOK
<1>4. CASE Launches(nodes) /\ UNCHANGED loop
  <2>1. \A s \in Stage : StageEnded(s)' => nodes[s] = "succeeded"
    BY <1>4 DEF Launches, StageEnded
  <2> QED
    BY <1>1, <1>2, <1>4, <2>1, VainFrame
<1>5. CASE \E status \in {"succeeded", "failed"} : loop' = [loop EXCEPT !.status = status]
  <2>1. loop'.iteration = loop.iteration /\ loop'.status # "running"
    BY <1>3, <1>5
  <2> QED
    BY <1>1, <2>1, VainFrame
<1>6. CASE /\ Ready(nodes) = {} /\ ~ExitMet(emitted)
           /\ loop' = [loop EXCEPT !.iteration = @ + 1]
           /\ Launches([s \in Stage |-> "pending"])
  <2>1. /\ Stage' = Stage /\ Bundled' = Bundled /\ NoBundle' = NoBundle
        /\ \A s : IsLast(s)' <=> IsLast(s)
    BY <1>1, DefinitionRigid DEF NoBundle
  <2>2. \A s \in Stage : ~StageEnded(s)'
    BY <1>6 DEF Launches, StageEnded
  <2>3. nodes \in [Stage -> {"pending", "succeeded"}]
    BY <1>1 DEF TurnsInv, TurnsTypeOK, NodesInOrder, Batch
  <2>4. \A s \in Stage : StageEnded(s)
    <3> HIDE DEF nodes
    <3> QED
      BY <1>2, <1>6, <2>3, NoneReadyAllEnded DEF TurnsInv, TurnsTypeOK
  <2>5. loop.iteration > 0
    <3>1. Batch # {}
      BY DEF BatchEnds
    <3>2. loop.iteration # 0
      BY <3>1 DEF TurnsInv, LoopQuiet, Batch
    <3> QED
      BY <1>3, <3>2, DefinitionTyped DEF TurnsInv, TurnsTypeOK
  <2>6. Bundled => \A s \in Stage : recorded[s] # "none"
    BY <1>1, <2>4, <2>5, DefinitionTyped DEF TurnsInv, TurnsTypeOK, Conditions, Recorder
  <2>7. Bundled => bundle = NoBundle
    BY <1>6 DEF ExitMet
  <2> QED
    BY <1>1, <2>1, <2>2, <2>6, <2>7 DEF RepairsInVain
<1> QED
  BY <1>4, <1>5, <1>6 DEF BatchEnds

LEMMA VainStep == TurnsInv /\ RepairsInVain /\ [TurnsNext]_turnsVars => RepairsInVain'
<1> SUFFICES ASSUME TurnsInv, RepairsInVain, [TurnsNext]_turnsVars PROVE RepairsInVain'
  OBVIOUS
<1>1. definition' = definition
  BY DEF TurnsNext, turnsVars
<1>2. ASSUME UNCHANGED <<definition, loop, node, turn, recorded, bundle>> PROVE RepairsInVain'
  BY <1>2, VainFrame DEF StageEnded
<1>3. ASSUME NEW s \in Stage, NEW pc \in {"waiting", "agent", "stopped"},
             turn' = [turn EXCEPT ![s] = pc], UNCHANGED <<definition, loop, node, recorded, bundle>>
      PROVE  RepairsInVain'
  <2>1. turn \in [Stage -> LaneState]
    BY DEF TurnsInv, TurnsTypeOK
  <2>2. \A t \in Stage : turn'[t] = IF t = s THEN pc ELSE turn[t]
    BY <1>3, <2>1
  <2>3. \A t \in Stage : StageEnded(t)' => StageEnded(t)
    BY <1>3, <2>2 DEF StageEnded
  <2> QED
    BY <1>3, <2>3, VainFrame
<1>4. ASSUME loop' = [loop EXCEPT !.status = "failed"], UNCHANGED <<definition, recorded, bundle>>
      PROVE  RepairsInVain'
  <2>1. loop'.iteration = loop.iteration /\ loop'.status # "running"
    BY <1>4 DEF TurnsInv, TurnsTypeOK
  <2> QED
    BY <1>4, <2>1, VainFrame
<1>5. CASE UNCHANGED turnsVars
  BY <1>2, <1>5 DEF turnsVars
<1>6. CASE LoopStep
  <2>1. CASE StartIteration
    <3>1. loop'.iteration = 1
      BY <2>1 DEF TurnsInv, TurnsTypeOK, StartIteration
    <3> QED
      BY <3>1 DEF RepairsInVain
  <2>2. CASE GroupFails
    BY <1>1, <1>4, <2>2 DEF GroupFails
  <2> QED
    BY <1>1, <1>6, <2>1, <2>2, VainBatch DEF LoopStep
<1>7. ASSUME NEW s \in Stage, Turn(s) PROVE RepairsInVain'
  <2>1. CASE Begin(s)
    BY <1>1, <1>3, <2>1 DEF Begin
  <2>2. CASE Polls(s) \/ Raises(s)
    BY <1>1, <1>3, <2>2 DEF Polls, Raises
  <2>3. CASE StopsLane(s)
    BY <1>1, <1>3, <2>3 DEF StopsLane
  <2>4. CASE RecordPlan(s)
    <3>1. ~Bundled'
      BY <1>1, <2>4, DefinitionTyped, DefinitionRigid DEF TurnsInv, TurnsTypeOK, RecordPlan
    <3> QED
      BY <3>1 DEF RepairsInVain
  <2>5. CASE RecordCandidate(s)
    BY <1>1, <2>5, VainRecord
  <2>6. CASE Resolve(s) \/ Answers(s)
    BY <1>1, <1>2, <2>6 DEF Resolve, Answers, Dispatches
  <2> QED
    BY <1>7, <2>1, <2>2, <2>3, <2>4, <2>5, <2>6 DEF Turn, LaneStep
<1>8. CASE Cancel \/ PatchInstance \/ Revoke
  BY <1>1, <1>2, <1>8 DEF Cancel, PatchInstance, Revoke
<1> QED
  BY <1>5, <1>6, <1>7, <1>8 DEF TurnsNext

(* _record_repository_candidate, FullStackVerifier.verify: a loop of several
   stages that has to deliver a bundle succeeds in its first iteration or never,
   whatever max_iterations says: in a repair the first stage that passes asks for
   the bundle, with what the last stage has failed, and fails the delivery. *)
THEOREM BundlesAreMadeAtOnce == TurnsSpec => []BundledAtOnce
<1>1. TurnsInit => RepairsInVain
  <2>1. TurnsInit => loop.iteration = 0
    BY DEF TurnsInit
  <2> QED
    BY <2>1 DEF RepairsInVain
<1>2. TurnsInv /\ RepairsInVain => BundledAtOnce
  <2> SUFFICES ASSUME TurnsInv, RepairsInVain, Bundled, loop.status = "succeeded",
                      NEW s \in Stage, NEW t \in Stage, s # t
               PROVE  loop.iteration = 1
    BY DEF BundledAtOnce
  <2>1. PICK last \in Stage : IsLast(last)
    BY DefinitionTyped DEF TurnsInv, TurnsTypeOK
  <2>2. s \in Role /\ recorded \in [Role -> {"none", "passed", "failed"}] /\ bundle = recorded
    BY DefinitionTyped DEF TurnsInv, TurnsTypeOK, LoopKeepsPromise, Role
  <2>3. bundle # NoBundle
    BY <2>2 DEF NoBundle
  <2>4. ~(loop.iteration > 1)
    BY <2>1, <2>3 DEF RepairsInVain
  <2>5. loop.iteration \in Nat
    BY DefinitionTyped DEF TurnsInv, TurnsTypeOK
  <2>6. ledger[s] \in Seq(TurnStatus) /\ ledger[s] # <<>> /\ Len(ledger[s]) <= loop.iteration
    BY DEF TurnsInv, TurnsTypeOK, TurnRuns, LoopKeepsPromise, Newest
  <2> QED
    BY <2>4, <2>5, <2>6
<1> QED
  BY TurnsInitHolds, TurnsStep, VainStep, <1>1, <1>2, PTL DEF TurnsSpec

=============================================================================
