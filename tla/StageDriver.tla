---------------------------- MODULE StageDriver ----------------------------
(***************************************************************************)
(* One execution of a Workcell stage: WorkcellStageDriver.execute over the *)
(* rows of WorkcellStore, with the requests that may cancel it and the     *)
(* process that may die under it.                                          *)
(*                                                                         *)
(* The driver is one coroutine and one lane per running child.  It awaits  *)
(* providers and machine verification (Awaiting); between two awaits it    *)
(* holds the event loop: no other coroutine runs, only the clock moves and *)
(* the process may die.  A kernel call made in such a stretch reads and    *)
(* writes without interruption, hence is one step here.                    *)
(***************************************************************************)
EXTENDS WorkcellStore

VARIABLES
    pc,      \* where execute() is, or how it ended
    lane,    \* per slot: what the coroutine of its agent is doing or returned
    batch    \* children launched together and not yet collected

vars == <<run, agent, attempts, plan, verification, validation, reviews,
          result, clock, pc, lane, batch>>
locals == <<clock, lane, batch>>

Awaiting == {"planning", "producing", "verifying", "reviewing", "synthesizing"}
Synchronous == {"launch", "collect", "launch-reviews", "collect-reviews",
                "record-reviews", "launch-synthesis", "complete"}
Returned == {"succeeded", "repair", "raised", "cancelled"}
Busy == {"working", "retrying"}
Lane == {"idle", "launched", "ok", "blocking", "citation", "invalid", "error"} \cup Busy

Producers == {s \in Children : Purpose[s] # "review"}
Idle(slots) == {s \in slots : lane[s] = "idle"}

Init ==
    /\ Create
    /\ pc = "planning"
    /\ lane = [s \in Slot |-> "idle"]
    /\ batch = {}

-----------------------------------------------------------------------------
(* execute() moves on without touching a row. *)
Goto(next) == pc' = next /\ UNCHANGED rows

(* Mutant: the error leaves execute() and nothing else happens. *)
RaiseOnly == Goto("raised")

(* _terminalize_workcell_failure: an error that leaves execute() fails the run
   unless it is over already. *)
Raise ==
    /\ pc' = "raised"
    /\ IF Finished THEN UNCHANGED rows ELSE Terminate(run, "failed", "WORKCELL_FAILED")

(* A kernel call of the driver: its transaction when the call is allowed, an
   error that leaves execute() when it is not. *)
Kernel(allowed, tx, next) == IF allowed THEN tx /\ pc' = next ELSE Raise

(* Mutant: the error past the deadline is raised before the run is timed out. *)
DeadlineErrorOnly == clock = "expired" /\ Goto("raised")

(* submit_delegation_plan, start_child and start_synthesis past the deadline:
   the run is timed out first, then the error leaves execute(). *)
DeadlineError ==
    /\ clock = "expired"
    /\ pc' = "raised"
    /\ IF Finished THEN UNCHANGED rows
       ELSE Terminate(run, "timed_out", "WORKCELL_WALL_CLOCK_BUDGET_EXCEEDED")

(* A call that has a deadline check in front of it. *)
TimedKernel(allowed, tx, next) ==
    \/ clock # "expired" /\ Kernel(allowed, tx, next)
    \/ DeadlineError

-----------------------------------------------------------------------------
(* Main planning, and the frozen DelegationPlan of all slots. *)

PlanningAnswered ==
    /\ pc = "planning"
    /\ TimedKernel(MayPlan(Slot), PutPlan(run, Slot), "launch") \/ Raise
    /\ UNCHANGED locals

(* A transient provider error of Main: one more Attempt while the policy allows
   it (PlanningAnswered and SynthesisAnswered raise when it does not). *)
TransientMain ==
    /\ \/ pc = "planning" /\ RetryTransient(Main, "planning")
       \/ pc = "synthesizing" /\ RetryTransient(Main, "synthesis")
    /\ UNCHANGED <<locals, pc>>

-----------------------------------------------------------------------------
(* A child is launched, works in its lane, and its result is collected.  The
   code takes the members of a batch in one fixed order; any order is taken
   here. *)

MayLaunch(s) ==
    /\ MayStart(s) /\ agent[s] = "planned"
    /\ Cardinality(RunningChildren) < MaxConcurrency
    /\ Purpose[s] = "review" => verification = "passed"

Launch(s) ==
    /\ TimedKernel(MayLaunch(s), StartChild(s), pc)
    /\ IF pc' = pc
         THEN lane' = [lane EXCEPT ![s] = "launched"] /\ batch' = batch \cup {s}
         ELSE UNCHANGED <<lane, batch>>
    /\ UNCHANGED clock

(* asyncio.gather starts the lanes of the batch. *)
Gather(next) ==
    /\ Goto(next)
    /\ lane' = [s \in Slot |-> IF s \in batch THEN "working" ELSE lane[s]]
    /\ UNCHANGED <<clock, batch>>

LaneReturns(s, outcome) ==
    /\ lane' = [lane EXCEPT ![s] = outcome]
    /\ UNCHANGED <<rows, clock, pc, batch>>

(* An invalid review, or invalid citations of a producer, is tried once more on
   the same AgentRun; the second invalid answer stands.  A refused retry and
   every other error end the lane. *)
LaneStep(s) ==
    /\ pc \in {"producing", "reviewing"}
    /\ \/ lane[s] \in Busy
          /\ \E outcome \in {"ok", "error"} \cup IF pc = "reviewing" THEN {"blocking"} ELSE {} :
                LaneReturns(s, outcome)
       \/ lane[s] = "retrying"
          /\ LaneReturns(s, IF pc = "reviewing" THEN "invalid" ELSE "citation")
       \/ /\ lane[s] = "working" /\ RetryChildAttempt(s)
          /\ lane' = [lane EXCEPT ![s] = "retrying"]
          /\ UNCHANGED <<clock, pc, batch>>
       \/ /\ lane[s] \in Busy /\ RetryTransient(s, "delegate")
          /\ UNCHANGED <<locals, pc>>

(* Mutant: the first lane to return ends the wait, the others carry on. *)
GatheredFirst(next) ==
    /\ \E s \in batch : lane[s] \notin Busy
    /\ Goto(next) /\ UNCHANGED locals

(* Mutant: a lane that failed is waited for. *)
GatheredGood(next) ==
    /\ \A s \in batch : lane[s] \in {"ok", "blocking"}
    /\ Goto(next) /\ UNCHANGED locals

(* It is over once every lane has returned. *)
Gathered(next) ==
    /\ \A s \in batch : lane[s] \notin Busy
    /\ Goto(next) /\ UNCHANGED locals

-----------------------------------------------------------------------------
(* _execute_producers: batches of max_concurrency, every member started before
   any is awaited, results processed once all of them are in. *)

LaunchProducers ==
    /\ pc = "launch"
    /\ IF Idle(Producers) # {} /\ Cardinality(batch) < MaxConcurrency
         THEN \E s \in Idle(Producers) : Launch(s)
         ELSE Gather(IF batch # {} THEN "producing"
                     ELSE IF Writers # {} THEN "verifying" ELSE "launch-synthesis")

ProducersGathered == pc = "producing" /\ Gathered("collect")

(* The first failed result is recorded and raised; the results after it are
   never looked at.  Workspace and citation errors end as a repair outcome. *)
CollectProducer(s) ==
    /\ pc = "collect" /\ s \in batch
    /\ batch' = batch \ {s} /\ UNCHANGED <<clock, lane>>
    /\ IF agent[s] # "running" THEN Raise
       ELSE \/ lane[s] = "ok" /\ FinishChild(s) /\ pc' = "collect"
            \/ lane[s] = "citation" /\ FailChild(s, "CHILD_AGENT_FAILED") /\ pc' = "repair"
            \/ lane[s] = "error" /\ FailChild(s, "CHILD_AGENT_FAILED")
               /\ pc' \in {"repair", "raised"}

BatchCollected == pc = "collect" /\ batch = {} /\ Goto("launch") /\ UNCHANGED locals

-----------------------------------------------------------------------------
(* Machine verification of the Writer's candidate, then _execute_reviews: every
   Reviewer launched, all awaited, each AgentRun finished, the reviews recorded. *)

VerifierAnswered ==
    /\ pc = "verifying"
    /\ \/ \E w \in Writers :
            \/ Kernel(MayVerify(w), PutVerification(run, "passed"), "launch-reviews")
            \/ Kernel(MayVerify(w), PutVerification(run, "failed"), "repair")
       \/ Raise
    /\ UNCHANGED locals

LaunchReviewers ==
    /\ pc = "launch-reviews"
    /\ IF Idle(Reviewers) # {} THEN \E s \in Idle(Reviewers) : Launch(s)
       ELSE IF Reviewers = {} THEN Raise /\ UNCHANGED locals ELSE Gather("reviewing")

ReviewsGathered == pc = "reviewing" /\ Gathered("collect-reviews")

CollectReviewer(s) ==
    /\ pc = "collect-reviews" /\ s \in batch
    /\ batch' = batch \ {s} /\ UNCHANGED <<clock, lane>>
    /\ IF agent[s] # "running" THEN Raise
       ELSE /\ \/ lane[s] \in {"ok", "blocking"} /\ FinishChild(s)
               \/ lane[s] = "invalid" /\ FailChild(s, InvalidReview)
               \/ lane[s] = "error" /\ FailChild(s, "CHILD_AGENT_FAILED")
            /\ UNCHANGED pc

(* A failure other than an invalid review leaves execute(). *)
ReviewersCollected ==
    /\ pc = "collect-reviews" /\ batch = {}
    /\ IF \E s \in Reviewers : lane[s] = "error" THEN Raise ELSE Goto("record-reviews")
    /\ UNCHANGED locals

Unrecorded == {s \in Reviewers : lane[s] \in {"ok", "blocking"} /\ reviews[s] = "none"}
(* Mutant: the answer of the lane is stored as it came. *)
RawVerdict(s) == lane[s]
Verdict(s) == IF lane[s] = "ok" THEN "clean" ELSE "blocking"

(* Mutant: nothing more is recorded once the run has failed. *)
RecordReviewWhileOpen ==
    /\ pc = "record-reviews"
    /\ IF Unrecorded # {} /\ run.status # "failed"
         THEN \E s \in Unrecorded : Kernel(MayReview(s), PutReview(run, s, Verdict(s)), pc)
         ELSE Goto(IF run.status = "failed" THEN "repair" ELSE "launch-synthesis")
    /\ UNCHANGED locals

RecordReview ==
    /\ pc = "record-reviews"
    /\ IF Unrecorded # {}
         THEN \E s \in Unrecorded : Kernel(MayReview(s), PutReview(run, s, Verdict(s)), pc)
         ELSE Goto(IF run.status = "failed" THEN "repair" ELSE "launch-synthesis")
    /\ UNCHANGED locals

-----------------------------------------------------------------------------
(* Main synthesis and the result. *)

LaunchSynthesis ==
    /\ pc = "launch-synthesis"
    /\ TimedKernel(MaySynthesize /\ agent[Main] = "waiting", StartSynthesis(run), "synthesizing")
    /\ UNCHANGED locals

SynthesisAnswered ==
    /\ pc = "synthesizing"
    /\ Goto("complete") \/ (RetrySynthesis /\ UNCHANGED pc) \/ Raise
    /\ UNCHANGED locals

(* record_result_validation when there is no candidate, the citation check,
   complete(), then the candidate is published: an error there finds the run
   succeeded and leaves it so. *)
Complete ==
    /\ pc = "complete"
    /\ IF Writers = {} /\ validation = "none"
         THEN Kernel(MayValidate, PutResultValidation, pc)
         ELSE \/ \E next \in {"succeeded", "raised"} : Kernel(MayComplete, PutResult(run), next)
              \/ Raise
    /\ UNCHANGED locals

-----------------------------------------------------------------------------
(* The requests and the process around the driver. *)

(* The delivery is cancelled: its background task is cancelled where it awaits,
   asyncio.gather cancels the lanes and waits for them, and CancelledError
   passes _terminalize_workcell_failure. *)
CancelTask ==
    /\ pc \in Awaiting
    /\ pc' = "cancelled"
    /\ IF Finished THEN UNCHANGED rows ELSE Terminate(run, "cancelled", "WORKCELL_CANCELLED")
    /\ lane' = [s \in Slot |-> IF lane[s] \in Busy THEN "error" ELSE lane[s]]
    /\ UNCHANGED <<clock, batch>>

(* The driver runs in a request (resume of publications or of a release), not in
   the delivery's background task: a cancellation ends the run, and the driver
   carries on until its next kernel call. *)
CancelRun ==
    /\ pc \in Awaiting /\ ~Finished
    /\ Terminate(run, "cancelled", "WORKCELL_CANCELLED")
    /\ UNCHANGED <<locals, pc>>

(* The process dies; recover_interrupted_attempts runs at the next start, and
   nothing resumes execute(). *)
Restart ==
    /\ pc # "dead" /\ pc' = "dead"
    /\ \/ InterruptRunning
       \/ (\A a \in Agent : Open(attempts[a]) = {}) /\ UNCHANGED rows
    /\ UNCHANGED locals

Deadline == Tick /\ UNCHANGED <<rows, pc, lane, batch>>

DriverStep ==
    \/ PlanningAnswered \/ TransientMain
    \/ LaunchProducers \/ ProducersGathered \/ BatchCollected
    \/ VerifierAnswered \/ LaunchReviewers \/ ReviewsGathered \/ ReviewersCollected
    \/ RecordReview \/ LaunchSynthesis \/ SynthesisAnswered \/ Complete
    \/ \E s \in Slot : CollectProducer(s) \/ CollectReviewer(s)

Next ==
    \/ DriverStep \/ \E s \in Slot : LaneStep(s)
    \/ CancelTask \/ CancelRun \/ Restart \/ Deadline

(* The event loop keeps running ready coroutines, and every provider call and
   verification command has a timeout of its own. *)
Fairness == WF_vars(DriverStep) /\ \A s \in Slot : WF_vars(LaneStep(s))

Spec == Init /\ [][Next]_vars /\ Fairness
-----------------------------------------------------------------------------
(* Properties *)

(* Every variable stays in its domain. *)
DriverTypeOK ==
    /\ RowsTypeOK
    /\ pc \in Awaiting \cup Synchronous \cup Returned \cup {"dead"}
    /\ lane \in [Slot -> Lane]
    /\ batch \subseteq Children

(* However execute() ends, by a result, a repair, an error or a cancellation at
   any await, the run it created is over: ACWM never goes on to the next loop
   iteration beside a run that is still open.  A reported success is a
   succeeded run, a repair outcome a failed run, which is where
   _latest_repair_context looks for its evidence. *)
ReturnMatchesRun ==
    /\ pc \in Returned => Finished
    /\ pc = "succeeded" => run.status = "succeeded"
    /\ pc = "repair" => run.status = "failed"

(* No phantom Attempt: once execute() is over, no Attempt of its run is still
   recorded as running. *)
NoPhantomAttempts ==
    pc \in Returned => \A a \in Agent : Open(attempts[a]) = {}

(* The repair after a review sees the whole batch: every review that came back
   valid is on record when execute() asks for a repair, also those collected
   after another one had already failed the run. *)
RepairSeesWholeBatch ==
    pc = "repair" => Unrecorded = {}

(* No provider call outlives the driver that made it: once execute() is over no
   lane of it can still change the writer's workspace or touch the rows. *)
NoOrphanLane == pc \in Returned => \A s \in Slot : lane[s] \notin Busy

(* What ACWM relies on when execute() comes back: the run is over as reported,
   nothing of it is at work, and a repair has all the evidence there is. *)
DriverInOrder == ReturnMatchesRun /\ NoOrphanLane /\ RepairSeesWholeBatch

(* After a crash and the recovery at startup no run looks active forever. *)
RestartEndsRun == pc = "dead" => Finished

(* execute() returns, or dies with the process: retries are bounded, and no
   lane, batch or kernel refusal leaves it waiting for ever. *)
ExecuteReturns == <>(pc \in Returned \cup {"dead"})

-----------------------------------------------------------------------------
(* One execution implements the promise the pipeline relies on. *)

(* The stage has one verdict, never revised, on the evidence WorkcellContract
   asks for. *)
ImplementsContract == Contract!Spec
=============================================================================
