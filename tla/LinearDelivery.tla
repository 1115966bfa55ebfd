--------------------------- MODULE LinearDelivery ---------------------------
(***************************************************************************)
(* Deliveries without a pipeline graph: queued -> planning -> a gate ->    *)
(* executing -> verifying -> a gate -> applying -> completed, the Git      *)
(* sandbox of the one workspace they work on, and the process that may die *)
(* between any two commits.                                                *)
(*                                                                         *)
(* As in module Delivery a coroutine runs alone from one await to the next *)
(* and its commits are listed in order.  Only the agents are awaited: Git  *)
(* and the verification run inside the stretch.                            *)
(***************************************************************************)
EXTENDS Integers, Sequences, FiniteSetsExt, SequencesExt

CONSTANTS
    DirectDelivery, \* deliveries of one workspace; on main, the candidate of each
    Pushed,         \* commits somebody else pushes to main
    MaxWorkers,     \* bound: tasks and requests alive at once
    MaxDeaths       \* bound: restarts of the process

(* A candidate, a commit of somebody else and the first commit are three
   different revisions. *)
ASSUME DirectAssumption ==
    /\ MaxWorkers \in Nat
    /\ DirectDelivery \cap ({"seed"} \cup Pushed) = {} /\ "seed" \notin Pushed

VARIABLES
    rows,       \* deliveries: one row per delivery
    main,       \* refs/heads/main of the bare repository: the revisions it had
    worker,     \* background tasks and cancel requests
    registered, \* _background: per delivery the registered task, or 0
    lives,      \* the process lives
    booting,    \* deliveries recover() has yet to look at
    deaths      \* restarts so far

directVars == <<rows, main, worker, registered, lives, booting, deaths>>

Worker == 1..MaxWorkers
MainRevision == DirectDelivery \cup Pushed \cup {"seed"}
Tip == Last(main)

Closed == {"completed", "rejected", "failed", "cancelled"}
Shielded == {"cancelling", "applying"}
DirectStatus == {"absent", "queued", "planning", "awaiting_plan_decision", "executing",
                 "verifying", "awaiting_candidate_decision"} \cup Shielded \cup Closed
AwaitingAt == [plan |-> "awaiting_plan_decision", candidate |-> "awaiting_candidate_decision"]
DirectGate == DOMAIN AwaitingAt

NoDelivery == [status |-> "absent", version |-> 0, plan |-> "none", candidate |-> "none",
               base |-> "none", verified |-> FALSE, receipt |-> FALSE]
NoWorker == [pc |-> "free", what |-> "none", of |-> "none", decision |-> "none",
             version |-> 0, base |-> "none", asked |-> FALSE, on |-> 0]

DirectInit ==
    /\ rows = [d \in DirectDelivery |-> NoDelivery]
    /\ main = <<"seed">>
    /\ worker = [t \in Worker |-> NoWorker]
    /\ registered = [d \in DirectDelivery |-> 0]
    /\ lives = TRUE /\ booting = {} /\ deaths = 0

FreeWorkers == {t \in Worker : worker[t].pc = "free" /\ \A s \in Worker : worker[s].on # t}
ArrivesAs(t) == lives /\ booting = {} /\ t \in FreeWorkers /\ t = Min(FreeWorkers)
Active(d) == rows[d].status \notin Closed \cup {"absent"}

-----------------------------------------------------------------------------
(* A stretch: its commits (a row and the main branch), and what the task does
   next ("end": it returns). *)

Span(writes, pc) == [writes |-> writes, pc |-> pc]
Save(r, m) == [row |-> r, main |-> m]
NoSave == Span(<<>>, "end")

WritesRow(d, commit) == rows' = [rows EXCEPT ![d] = commit.row] /\ main' = commit.main

(* All commits of the stretch, or the process dies after some of them. *)
CommitsAll(d, span) ==
    IF span.writes = <<>> THEN UNCHANGED <<rows, main>> ELSE WritesRow(d, Last(span.writes))

DiesIn(d, span) ==
    /\ deaths < MaxDeaths
    /\ \E k \in 1..(Len(span.writes) - 1) : WritesRow(d, span.writes[k])
    /\ lives' = FALSE
    /\ UNCHANGED <<worker, registered, booting, deaths>>

WorkerEnds(t) ==
    IF worker[t].what = "cancel" THEN NoWorker ELSE [worker[t] EXCEPT !.pc = "returned"]

(* GitCodeExecutor opens its worktree on main before it awaits the agent. *)
BaseIn(pc, base) == IF pc = "work" THEN Tip ELSE base
WorkerAwaits(t, pc) == [worker[t] EXCEPT !.pc = pc, !.base = BaseIn(pc, @)]

Executes(t, span) ==
    \/ /\ CommitsAll(worker[t].of, span)
       /\ worker' = [worker EXCEPT ![t] = IF span.pc = "end" THEN WorkerEnds(t)
                                          ELSE WorkerAwaits(t, span.pc)]
       /\ UNCHANGED <<registered, lives, booting, deaths>>
    \/ DiesIn(worker[t].of, span)

FailedRow(r) == [r EXCEPT !.status = IF @ \in Closed \cup Shielded THEN @ ELSE "failed"]

(* _schedule: the newest task is the registered one. *)
Schedules(t, d, new) ==
    /\ worker' = [worker EXCEPT ![t] = [new EXCEPT !.pc = "start", !.of = d]]
    /\ registered' = [registered EXCEPT ![d] = t]

StartsOn(t, what) == lives /\ worker[t].pc = "start" /\ worker[t].what = what /\ ~worker[t].asked
AwaitsIn(t, pc) == lives /\ worker[t].pc = pc
RowOf(t) == rows[worker[t].of]

-----------------------------------------------------------------------------
(* Mutant: a workspace is free while a release is under way. *)
WorkspaceFreeEarly ==
    \A d \in DirectDelivery : rows[d].status \in Closed \cup Shielded \cup {"absent"}

(* _ensure_workspace_available. *)
WorkspaceFree == \A d \in DirectDelivery : ~Active(d)

(* POST /v1/deliveries without a pipeline: admitted when the workspace is free,
   saved and scheduled without an await in between. *)
Create(t, d) ==
    /\ ArrivesAs(t)
    /\ rows[d].status = "absent" /\ WorkspaceFree
    /\ rows' = [rows EXCEPT ![d] = [rows[d] EXCEPT !.status = "queued", !.version = 1]]
    /\ Schedules(t, d, [NoWorker EXCEPT !.what = "plan queued"])
    /\ UNCHANGED <<main, lives, booting, deaths>>

(* _plan_queued up to the planners, who are awaited. *)
BeginPlan(t) ==
    /\ StartsOn(t, "plan queued")
    /\ Executes(t, Span(<<Save([RowOf(t) EXCEPT !.status = "planning"], main)>>, "plan"))

PlanReturns(t) ==
    /\ AwaitsIn(t, "plan") /\ ~worker[t].asked
    /\ Executes(t, Span(<<Save([RowOf(t) EXCEPT !.status = AwaitingAt["plan"], !.plan = "open"],
                               main)>>, "end"))

(* The planners, or the coding agent, fail; one that is asked to stop may end
   in an error of its own cleanup. *)
AgentFails(t) ==
    /\ \E pc \in {"plan", "work"} : AwaitsIn(t, pc)
    /\ Executes(t, Span(<<Save(FailedRow(RowOf(t)), main)>>, "end"))

(* A task that is asked to stop stops where it awaits, or never starts. *)
StopsWorker(t) ==
    /\ lives /\ worker[t].asked /\ worker[t].pc \in {"start", "plan", "work"}
    /\ Executes(t, NoSave)

WorkerDone(t) ==
    /\ lives /\ worker[t].pc = "returned"
    /\ worker' = [worker EXCEPT ![t] = NoWorker]
    /\ registered' = [registered EXCEPT ![worker[t].of] = 0]
    /\ UNCHANGED <<rows, main, lives, booting, deaths>>

-----------------------------------------------------------------------------
(* Gates.  No decision is sent while a task of the delivery is registered. *)

AskDecision(t, d, gate, decision) ==
    /\ ArrivesAs(t)
    /\ rows[d].status = AwaitingAt[gate] /\ registered[d] = 0
    /\ Schedules(t, d, [NoWorker EXCEPT !.what = gate, !.decision = decision,
                                      !.version = rows[d].version])
    /\ UNCHANGED <<rows, main, lives, booting, deaths>>

DecidedRow(r, status) == [r EXCEPT !.status = status, !.version = @ + 1]
PlanDecided(r, decision, status) == [DecidedRow(r, status) EXCEPT !.plan = decision]
CandidateDecided(r, decision, status) == [DecidedRow(r, status) EXCEPT !.candidate = decision]

(* decide_plan up to the agent, who is awaited. *)
JudgePlan(t) ==
    /\ StartsOn(t, "plan")
    /\ Executes(t,
         IF RowOf(t).plan = worker[t].decision THEN NoSave
         ELSE IF RowOf(t).plan # "open" \/ RowOf(t).version # worker[t].version
                 \/ RowOf(t).status # AwaitingAt["plan"]
           THEN Span(<<Save(FailedRow(RowOf(t)), main)>>, "end")
         ELSE IF worker[t].decision = "reject"
           THEN Span(<<Save(PlanDecided(RowOf(t), "reject", "rejected"), main)>>, "end")
         ELSE Span(<<Save(PlanDecided(RowOf(t), "approve", "executing"), main)>>, "work"))

(* The row after GitCandidateVerifier: a gate, or the end. *)
VerifiedRow(r, passed) ==
    IF passed THEN [r EXCEPT !.status = AwaitingAt["candidate"], !.candidate = "open",
                             !.verified = TRUE]
    ELSE [r EXCEPT !.status = "failed"]

(* The agent returns: the commit of the candidate, verifying, the verification,
   and the row with the candidate.  Evidence that does not match Git is an
   error. *)
WorkReturns(t) ==
    /\ AwaitsIn(t, "work") /\ ~worker[t].asked
    /\ LET verifying == [RowOf(t) EXCEPT !.status = "verifying"] IN
       \/ \E passed \in BOOLEAN :
            Executes(t, Span(<<Save(verifying, main),
                               Save([VerifiedRow(RowOf(t), passed) EXCEPT !.base = worker[t].base],
                                    main)>>, "end"))
       \/ Executes(t, Span(<<Save(verifying, main), Save(FailedRow(verifying), main)>>, "end"))

(* Mutant: main is forced to the candidate. *)
MainStandsAlways(r) == TRUE

(* apply_candidate compares main with the reviewed base and swaps it. *)
MainStands(r) == Tip = r.base

(* main is the candidate already, or takes it, or has changed: then the
   delivery stays in applying. *)
Applied(d, r) ==
    IF Tip = d \/ MainStands(r)
    THEN LET moved == IF Tip = d THEN main ELSE Append(main, d) IN
         Span(<<Save(r, moved), Save([r EXCEPT !.status = "completed", !.receipt = TRUE], moved)>>,
              "end")
    ELSE Span(<<Save(FailedRow(r), main)>>, "end")

After(first, next) == [next EXCEPT !.writes = first \o @]

(* _finish_cancellation after the wait. *)
CancelledRow(r) ==
    IF r.status = "cancelling"
    THEN Span(<<Save([r EXCEPT !.status = IF r.candidate = "reject" THEN "rejected"
                                           ELSE "cancelled"], main)>>, "end")
    ELSE NoSave

(* decide_candidate.  A stale version is ignored. *)
JudgeCandidate(t) ==
    /\ StartsOn(t, "candidate")
    /\ LET decision == worker[t].decision
           applying == CandidateDecided(RowOf(t), "approve", "applying")
           cancelling == CandidateDecided(RowOf(t), "reject", "cancelling") IN
       Executes(t,
         IF RowOf(t).candidate = decision
           THEN IF RowOf(t).status = "cancelling" THEN CancelledRow(RowOf(t)) ELSE NoSave
         ELSE IF RowOf(t).version # worker[t].version THEN NoSave
         ELSE IF RowOf(t).status # AwaitingAt["candidate"]
           THEN Span(<<Save(FailedRow(RowOf(t)), main)>>, "end")
         ELSE IF decision = "reject"
           THEN After(<<Save(cancelling, main)>>, CancelledRow(cancelling))
         ELSE IF ~RowOf(t).verified THEN Span(<<Save(FailedRow(RowOf(t)), main)>>, "end")
         ELSE After(<<Save(applying, main)>>, Applied(worker[t].of, applying)))

-----------------------------------------------------------------------------
(* Mutant: a delivery that is being applied is cancelled too. *)
CancellableAlways(r) == r.status \notin Closed \cup {"absent"}

Cancellable(r) == r.status \notin Closed \cup {"absent", "applying"}

CancellingRow(r) ==
    IF r.status = "cancelling" THEN r ELSE [r EXCEPT !.status = "cancelling", !.version = @ + 1]

(* cancel(): cancelling by compare-and-set; the registered task is asked to
   stop and waited for. *)
AskCancel(t, d) ==
    /\ ArrivesAs(t) /\ Cancellable(rows[d])
    /\ rows' = [rows EXCEPT ![d] = CancellingRow(@)]
    /\ worker' = [s \in Worker |->
           IF s = t THEN [NoWorker EXCEPT !.pc = "waiting", !.what = "cancel", !.of = d,
                                        !.on = registered[d]]
           ELSE IF s = registered[d] THEN [worker[s] EXCEPT !.asked = TRUE]
           ELSE worker[s]]
    /\ UNCHANGED <<main, registered, lives, booting, deaths>>

CancelEnds(t) ==
    /\ lives /\ worker[t].what = "cancel"
    /\ worker[t].on \notin {s \in Worker : worker[s].pc \notin {"free", "returned"}}
    /\ Executes(t, CancelledRow(RowOf(t)))

(* External: somebody pushes to the bare repository. *)
SomebodyPushes ==
    /\ \E commit \in Pushed \ ToSet(main) : main' = Append(main, commit)
    /\ UNCHANGED <<rows, worker, registered, lives, booting, deaths>>

DirectCrash ==
    /\ lives /\ deaths < MaxDeaths
    /\ lives' = FALSE
    /\ UNCHANGED <<rows, main, worker, registered, booting, deaths>>

DirectRestart ==
    /\ ~lives /\ lives' = TRUE /\ deaths' = deaths + 1
    /\ worker' = [t \in Worker |-> NoWorker]
    /\ registered' = [d \in DirectDelivery |-> 0]
    /\ booting' = {d \in DirectDelivery : rows[d].status # "absent"}
    /\ UNCHANGED <<rows, main>>

(* recover(), delivery by delivery: what was at work fails, what was being
   applied is applied again, what was being cancelled is cancelled. *)
Recovery(d) ==
    CASE rows[d].status = "cancelling" -> CancelledRow(rows[d])
      [] rows[d].status \in {"planning", "executing", "verifying"} ->
           Span(<<Save([rows[d] EXCEPT !.status = "failed", !.version = @ + 1], main)>>, "end")
      [] rows[d].status = "applying" -> Applied(d, rows[d])
      [] OTHER -> NoSave

RecoverRow(d) ==
    /\ lives /\ d \in booting
    /\ \/ CommitsAll(d, Recovery(d)) /\ booting' = booting \ {d}
          /\ UNCHANGED <<worker, registered, lives, deaths>>
       \/ DiesIn(d, Recovery(d))

-----------------------------------------------------------------------------
WorkerStep(t) ==
    \/ StopsWorker(t) \/ WorkerDone(t) \/ CancelEnds(t)
    \/ JudgePlan(t) \/ JudgeCandidate(t)

DirectNext ==
    \/ \E t \in Worker, d \in DirectDelivery :
         \/ Create(t, d) \/ AskCancel(t, d)
         \/ \E g \in DirectGate, decision \in {"approve", "reject"} : AskDecision(t, d, g, decision)
    \/ \E t \in Worker :
         \/ BeginPlan(t) \/ PlanReturns(t) \/ AgentFails(t) \/ WorkReturns(t)
         \/ WorkerStep(t)
    \/ \E d \in DirectDelivery : RecoverRow(d)
    \/ SomebodyPushes \/ DirectCrash \/ DirectRestart

DirectSpec == DirectInit /\ [][DirectNext]_directVars

-----------------------------------------------------------------------------
DirectRow == [status : DirectStatus, version : 0..3,
              plan : {"none", "open", "approve", "reject"},
              candidate : {"none", "open", "approve", "reject"},
              base : MainRevision \cup {"none"}, verified : BOOLEAN, receipt : BOOLEAN]
WorkerRow == [pc : {"free", "start", "plan", "work", "returned", "waiting"},
              what : {"none", "plan queued", "plan", "candidate", "cancel"},
              of : DirectDelivery \cup {"none"}, decision : {"none", "approve", "reject"},
              version : 0..3, base : MainRevision \cup {"none"}, asked : BOOLEAN,
              on : Worker \cup {0}]

LinearTypeOK ==
    /\ rows \in [DirectDelivery -> DirectRow]
    /\ main \in Seq(MainRevision) /\ main # <<>>
    /\ worker \in [Worker -> WorkerRow]
    /\ registered \in [DirectDelivery -> Worker \cup {0}]
    /\ lives \in BOOLEAN /\ booting \subseteq DirectDelivery

(* main takes a candidate only from the base it was reviewed on, once, and only
   when both gates approved it and its verification passed; what is completed
   was taken: also when the process dies between Git and the database. *)
AppliedAsReviewed ==
    /\ \A k \in 2..Len(main) : main[k] \in DirectDelivery =>
         LET r == rows[main[k]] IN
         /\ r.plan = "approve" /\ r.candidate = "approve" /\ r.verified
         /\ main[k - 1] = r.base
         /\ \A j \in 1..(k - 1) : main[j] # main[k]
    /\ \A d \in DirectDelivery : rows[d].status = "completed" => rows[d].receipt /\ d \in ToSet(main)

(* A workspace is worked on by one delivery at a time. *)
OneAtATime == Cardinality({d \in DirectDelivery : Active(d)}) <= 1

(* A rejection ends as one, and what was given up reaches main neither before
   nor after. *)
RefusalsHold ==
    \A d \in DirectDelivery :
        /\ "reject" \in {rows[d].plan, rows[d].candidate} =>
             rows[d].status \in {"cancelling", "rejected"}
        /\ rows[d].status \in {"cancelling", "cancelled", "rejected"} => d \notin ToSet(main)

(* Without a pipeline main takes a delivery once, from the reviewed base, and
   without a lease one delivery at a time works on the workspace; a refusal
   stands. *)
DirectInOrder == AppliedAsReviewed /\ OneAtATime /\ RefusalsHold
=============================================================================
