------------------------- MODULE StageDriverProofs -------------------------
(***************************************************************************)
(* However execute() ends, it ends in order, for every team and policy.    *)
(* RowInv comes from the lemmas of WorkcellStoreProofs, since no call of   *)
(* the driver is interrupted between its check and its transaction.  What  *)
(* has to be added ties the coroutines to the rows: who works is awaited,  *)
(* whose AgentRun is running has been launched and not yet collected, and  *)
(* Reviewers wait until the machine has verified.                          *)
(***************************************************************************)
EXTENDS StageDriver, WorkcellAcceptance, WorkcellStoreProofs, FiniteSetTheorems

-----------------------------------------------------------------------------
(* The inductive invariant. *)

(* A lane at work belongs to the batch that execute() awaits, unless the
   process has died under both. *)
BusyIsAwaited ==
    \A s \in Slot : lane[s] \in Busy => s \in batch /\ pc \in {"producing", "reviewing", "dead"}

(* A running child has been launched and its result not yet been collected. *)
RunningIsLaunched == \A s \in Slot : agent[s] = "running" => s \in batch

Early == {"planning", "launch", "producing", "collect", "verifying"}
ReviewersWait ==
    pc \in Early => \A s \in Slot : Purpose[s] = "review" => lane[s] = "idle" /\ s \notin batch

Inv ==
    /\ RowInv
    /\ pc \in Awaiting \cup Synchronous \cup Returned \cup {"dead"}
    /\ lane \in [Slot -> Lane]
    /\ batch \subseteq Children
    /\ BusyIsAwaited /\ RunningIsLaunched /\ ReviewersWait
    /\ ReturnMatchesRun /\ RepairSeesWholeBatch

LEMMA NoLaneAtWork ==
    ASSUME Inv, pc \notin {"producing", "reviewing", "dead"}
    PROVE  \A s \in Slot : lane[s] \notin Busy
BY DEF Inv, BusyIsAwaited

LEMMA PlannedSlots ==
    ASSUME RowInv
    PROVE  /\ Children \subseteq Slot /\ Writers \subseteq Slot /\ Reviewers \subseteq Slot
           /\ Main \in Agent /\ \A s \in Slot : s \in Agent /\ s # Main
BY KernelAssumption DEF RowInv, RowsTypeOK, Children, Writers, Reviewers, Agent

-----------------------------------------------------------------------------
(* What a step has to show. *)

(* execute() goes on. *)
LEMMA GoingOn ==
    ASSUME RowInv', pc' \in Awaiting \cup Synchronous, lane' \in [Slot -> Lane],
           batch' \subseteq Children', BusyIsAwaited', RunningIsLaunched', ReviewersWait'
    PROVE  Inv'
BY DEF Inv, ReturnMatchesRun, RepairSeesWholeBatch, Awaiting, Synchronous, Returned

(* A run that is stopped: it is over, and with it every AgentRun, unless it was
   over already. *)
Stopped ==
    /\ RowInv' /\ Finished' /\ UNCHANGED <<plan, verification, reviews>>
    /\ \A a \in Agent : agent'[a] = "running" => agent[a] = "running" /\ Finished

LEMMA StopStops ==
    ASSUME RowInv, NEW status \in Terminal \ {"succeeded"}, NEW error \in Error,
           IF Finished THEN UNCHANGED rows ELSE Terminate(run, status, error), UNCHANGED clock
    PROVE  Stopped
<1>1. CASE Finished
  <2>1. RowInv'
    BY <1>1, UnchangedRows DEF RowInv, RowsTypeOK
  <2>2. UNCHANGED <<run, agent, plan, verification, reviews>>
    BY <1>1 DEF rows
  <2>3. QED BY <1>1, <2>1, <2>2 DEF Stopped, Finished
<1>2. CASE ~Finished
  <2>1. RowInv'
    BY <1>2, TerminateKeepsRows
  <2>2. /\ run'.status = status /\ UNCHANGED <<plan, verification, reviews>>
        /\ \A a \in Agent : agent'[a] = IF agent[a] \in Unfinished THEN status ELSE agent[a]
    BY <1>2 DEF Terminate, CompareAndSet
  <2>3. QED BY <1>2, <2>1, <2>2 DEF Stopped, Finished, Unfinished, Terminal
<1>3. QED BY <1>1, <1>2

LEMMA RaiseStops ==
    ASSUME RowInv, Raise \/ DeadlineError, UNCHANGED clock
    PROVE  Stopped /\ pc' = "raised"
<1>1. /\ "failed" \in Terminal \ {"succeeded"} /\ "WORKCELL_FAILED" \in Error
      /\ "timed_out" \in Terminal \ {"succeeded"}
      /\ "WORKCELL_WALL_CLOCK_BUDGET_EXCEEDED" \in Error
  BY DEF Terminal, Error
<1>2. CASE Raise
  BY <1>1, <1>2, StopStops DEF Raise
<1>3. CASE DeadlineError
  BY <1>1, <1>3, StopStops DEF DeadlineError
<1>4. QED BY <1>2, <1>3

(* execute() ends by an error or a cancellation. *)
LEMMA StoppedKeeps ==
    ASSUME Inv, Stopped, pc' \in {"raised", "cancelled"}, lane' \in [Slot -> Lane],
           \A s \in Slot : lane'[s] \notin Busy, batch' \subseteq batch, RunningIsLaunched'
    PROVE  Inv'
<1>1. Children' = Children
  BY DEF Stopped, Children
<1>2. BusyIsAwaited'
  BY DEF BusyIsAwaited
<1>3. QED
  BY <1>1, <1>2 DEF Inv, Stopped, ReviewersWait, Early, ReturnMatchesRun, RepairSeesWholeBatch,
     Returned

(* An error where no lane is at work. *)
LEMMA RaiseKeeps ==
    ASSUME Inv, pc \notin {"producing", "reviewing", "dead"}, Raise \/ DeadlineError,
           UNCHANGED locals
    PROVE  Inv'
<1>1. Stopped /\ pc' = "raised"
  BY RaiseStops DEF Inv, locals
<1>2. RunningIsLaunched'
  BY <1>1, PlannedSlots DEF Inv, Stopped, RunningIsLaunched, locals
<1>3. QED BY <1>1, <1>2, NoLaneAtWork, StoppedKeeps DEF Inv, locals

(* Rows and coroutines stay, execute() goes on to the next await. *)
LEMMA GotoKeeps ==
    ASSUME Inv, NEW next \in Awaiting \cup Synchronous, Goto(next), UNCHANGED locals,
           \A s \in Slot : lane[s] \notin Busy, next \in Early => pc \in Early
    PROVE  Inv'
<1>1. RowInv' /\ Children' = Children /\ agent' = agent /\ UNCHANGED <<lane, batch>>
  BY UnchangedRows DEF Inv, RowInv, RowsTypeOK, Goto, locals, rows, Children
<1>2. BusyIsAwaited' /\ RunningIsLaunched' /\ ReviewersWait'
  BY <1>1 DEF Inv, Goto, BusyIsAwaited, RunningIsLaunched, ReviewersWait
<1>3. QED BY <1>1, <1>2, GoingOn DEF Inv, Goto

(* A transaction, while the coroutines stay. *)
LEMMA TransactionKeeps ==
    ASSUME Inv, RowInv', Children \subseteq Children', UNCHANGED <<lane, batch>>,
           \A s \in Slot : agent'[s] = "running" => agent[s] = "running",
           pc' = pc \/ \A s \in Slot : lane[s] \notin Busy,
           pc' \in Awaiting \cup Synchronous, pc' \in Early => pc \in Early
    PROVE  Inv'
<1>1. BusyIsAwaited' /\ RunningIsLaunched' /\ ReviewersWait'
  BY DEF Inv, BusyIsAwaited, RunningIsLaunched, ReviewersWait
<1>2. QED BY <1>1, GoingOn DEF Inv

-----------------------------------------------------------------------------
(* Main plans. *)

LEMMA PlanningAnsweredKeeps ==
    ASSUME Inv, PlanningAnswered
    PROVE  Inv'
<1>1. pc = "planning" /\ UNCHANGED locals
  BY DEF PlanningAnswered
<1>2. CASE MayPlan(Slot) /\ PutPlan(run, Slot) /\ pc' = "launch"
  <2>1. RowInv'
    BY <1>1, <1>2, PutPlanKeepsRows DEF Inv, locals
  <2>2. Children = {} /\ \A s \in Slot : agent'[s] = "planned"
    BY <1>2 DEF PutPlan, Children, Agent
  <2>3. QED
    BY <1>1, <1>2, <2>1, <2>2, NoLaneAtWork, TransactionKeeps DEF locals, Synchronous, Early
<1>3. CASE Raise \/ DeadlineError
  BY <1>1, <1>3, RaiseKeeps
<1>4. QED BY <1>2, <1>3 DEF PlanningAnswered, TimedKernel, Kernel

(* Any retry: one more Attempt of an AgentRun that has one open. *)
LEMMA RetryRows ==
    ASSUME RowInv, NEW a \in Agent, NEW phase \in Phase, AppendRetry(a, phase),
           Open(attempts[a]) # {},
           a = Main => \E i \in Open(attempts[a]) : attempts[a][i].phase = phase,
           UNCHANGED clock
    PROVE  RowInv' /\ Children' = Children /\ agent' = agent /\ run'.status = run.status
           /\ UNCHANGED <<verification, reviews>>
<1>1. RowInv'
  BY AppendRetryKeepsRows
<1>2. QED BY <1>1 DEF AppendRetry, Bump, Children, RowInv, RowsTypeOK, RunRow

LEMMA TransientRows ==
    ASSUME RowInv, NEW a \in Agent, NEW phase \in Phase, RetryTransient(a, phase),
           UNCHANGED clock
    PROVE  RowInv' /\ Children' = Children /\ agent' = agent /\ run'.status = run.status
           /\ UNCHANGED <<verification, reviews>>
BY RetryRows DEF RetryTransient, RetryAttemptPhase

LEMMA TransientMainKeeps ==
    ASSUME Inv, TransientMain
    PROVE  Inv'
<1>1. PICK phase \in Phase : RetryTransient(Main, phase)
  BY DEF TransientMain, Phase
<1>2. pc \in Awaiting /\ pc' = pc /\ UNCHANGED <<clock, lane, batch>>
  BY DEF TransientMain, Awaiting, locals
<1>3. RowInv' /\ Children' = Children /\ agent' = agent
  BY <1>1, <1>2, TransientRows, PlannedSlots DEF Inv
<1>4. QED BY <1>2, <1>3, TransactionKeeps

-----------------------------------------------------------------------------
(* A batch is launched, works and is collected. *)

LEMMA LaunchKeeps ==
    ASSUME Inv, pc \in {"launch", "launch-reviews"}, NEW s \in Children, lane[s] = "idle",
           pc = "launch" => Purpose[s] # "review", Launch(s)
    PROVE  Inv'
<1>1. s \in Slot
  BY PlannedSlots DEF Inv
<1>2. CASE StartChild(s) /\ pc' = pc
  <2>1. /\ UNCHANGED clock /\ lane' = [lane EXCEPT ![s] = "launched"]
        /\ batch' = batch \cup {s}
    BY <1>2 DEF Launch
  <2>2. RowInv'
    BY <1>2, <2>1, StartChildKeepsRows DEF Inv
  <2>3. Children' = Children /\ agent' = [agent EXCEPT ![s] = "running"]
    BY <1>2 DEF StartChild, Children
  <2>4. lane' \in [Slot -> Lane]
    BY <2>1 DEF Inv, Lane
  <2>5. BusyIsAwaited'
    BY <1>1, <2>1, NoLaneAtWork DEF Inv, BusyIsAwaited, Busy
  <2>6. RunningIsLaunched'
    BY <1>1, <2>1, <2>3, PlannedSlots DEF Inv, RowInv, RowsTypeOK, RunningIsLaunched
  <2>7. ReviewersWait'
    BY <1>1, <1>2, <2>1 DEF Inv, ReviewersWait, Early
  <2>8. QED
    BY <1>2, <2>1, <2>2, <2>3, <2>4, <2>5, <2>6, <2>7, GoingOn DEF Inv, Synchronous
<1>3. CASE Raise \/ DeadlineError
  <2>1. pc' = "raised" /\ UNCHANGED locals
    BY <1>3 DEF Launch, Raise, DeadlineError, locals
  <2>2. QED BY <1>3, RaiseKeeps, <2>1
<1>4. QED BY <1>2, <1>3 DEF Launch, TimedKernel, Kernel

LEMMA GatherKeeps ==
    ASSUME Inv, pc \in {"launch", "launch-reviews"}, NEW next, Gather(next),
           \/ pc = "launch" /\ next = "producing"
           \/ pc = "launch" /\ next \in {"verifying", "launch-synthesis"} /\ batch = {}
           \/ pc = "launch-reviews" /\ next = "reviewing"
    PROVE  Inv'
<1>1. /\ pc' = next /\ UNCHANGED <<clock, batch>>
      /\ lane' = [s \in Slot |-> IF s \in batch THEN "working" ELSE lane[s]]
  BY DEF Gather, Goto
<1>2. RowInv' /\ Children' = Children /\ agent' = agent
  BY UnchangedRows DEF Inv, RowInv, RowsTypeOK, Gather, Goto, rows, Children
<1>3. lane' \in [Slot -> Lane]
  BY <1>1 DEF Inv, Lane, Busy
<1>4. BusyIsAwaited'
  BY <1>1, NoLaneAtWork DEF BusyIsAwaited
<1>5. RunningIsLaunched'
  BY <1>1, <1>2 DEF Inv, RunningIsLaunched
<1>6. ReviewersWait'
  BY <1>1 DEF Inv, ReviewersWait, Early
<1>7. QED
  BY <1>1, <1>2, <1>3, <1>4, <1>5, <1>6, GoingOn DEF Inv, Awaiting, Synchronous

LEMMA LaunchProducersKeeps ==
    ASSUME Inv, LaunchProducers
    PROVE  Inv'
<1>1. CASE \E s \in Idle(Producers) : Launch(s)
  BY <1>1, LaunchKeeps DEF LaunchProducers, Idle, Producers
<1>2. CASE Gather(IF batch # {} THEN "producing"
                  ELSE IF Writers # {} THEN "verifying" ELSE "launch-synthesis")
  BY <1>2, GatherKeeps DEF LaunchProducers
<1>3. QED BY <1>1, <1>2 DEF LaunchProducers

LEMMA LaunchReviewersKeeps ==
    ASSUME Inv, LaunchReviewers
    PROVE  Inv'
<1>1. CASE \E s \in Idle(Reviewers) : Launch(s)
  BY <1>1, LaunchKeeps DEF LaunchReviewers, Idle, Reviewers
<1>2. CASE Raise /\ UNCHANGED locals
  BY <1>2, RaiseKeeps DEF LaunchReviewers
<1>3. CASE Gather("reviewing")
  BY <1>3, GatherKeeps DEF LaunchReviewers
<1>4. QED BY <1>1, <1>2, <1>3 DEF LaunchReviewers

LEMMA LaneStepKeeps ==
    ASSUME Inv, NEW s \in Slot, LaneStep(s)
    PROVE  Inv'
<1>1. /\ pc \in {"producing", "reviewing"} /\ lane[s] \in Busy /\ s \in batch
      /\ UNCHANGED <<clock, pc, batch>> /\ s \in Agent /\ s # Main
  BY PlannedSlots
     DEF LaneStep, LaneReturns, locals, Busy, Inv, BusyIsAwaited
<1>2. PICK value \in Lane : lane' = [lane EXCEPT ![s] = value]
  <2>1. CASE \E outcome \in {"ok", "error", "blocking", "invalid", "citation"} :
                LaneReturns(s, outcome)
    BY <2>1 DEF LaneReturns, Lane
  <2>2. CASE lane' = [lane EXCEPT ![s] = "retrying"]
    BY <2>2 DEF Lane, Busy
  <2>3. CASE UNCHANGED lane
    BY <2>3 DEF Inv
  <2>4. QED BY <2>1, <2>2, <2>3 DEF LaneStep, locals
<1>3. RowInv' /\ Children' = Children /\ agent' = agent
  <2>1. CASE UNCHANGED rows
    BY <1>1, <2>1, UnchangedRows DEF Inv, RowInv, RowsTypeOK, rows, Children
  <2>2. CASE RetryChildAttempt(s)
    BY <1>1, <2>2, RetryRows DEF Inv, RetryChildAttempt, Phase
  <2>3. CASE RetryTransient(s, "delegate")
    BY <1>1, <2>3, TransientRows DEF Inv, Phase
  <2>4. QED BY <2>1, <2>2, <2>3 DEF LaneStep, LaneReturns
<1>4. BusyIsAwaited' /\ RunningIsLaunched'
  BY <1>1, <1>2, <1>3 DEF Inv, BusyIsAwaited, RunningIsLaunched
<1>5. ReviewersWait'
  BY <1>1, <1>2 DEF Inv, ReviewersWait
<1>6. QED BY <1>1, <1>2, <1>3, <1>4, <1>5, GoingOn DEF Inv, Awaiting

LEMMA GatheredKeeps ==
    ASSUME Inv, pc \in {"producing", "reviewing"}, NEW next, Gathered(next),
           next = IF pc = "producing" THEN "collect" ELSE "collect-reviews"
    PROVE  Inv'
<1>1. \A s \in Slot : lane[s] \notin Busy
  BY DEF Inv, Gathered, BusyIsAwaited
<1>2. QED BY <1>1, GotoKeeps DEF Gathered, Synchronous, Early

(* Collecting the result of s: its AgentRun ends. *)
LEMMA CollectedRows ==
    ASSUME RowInv, NEW s \in Children, FinishChild(s) \/ \E e \in Error : FailChild(s, e),
           UNCHANGED clock
    PROVE  /\ RowInv' /\ Children' = Children /\ UNCHANGED <<verification, reviews>>
           /\ run.status \notin {"planning", "synthesizing", "succeeded"}
           /\ run'.status = IF FinishChild(s) THEN run.status ELSE "failed"
           /\ \A a \in Agent : agent'[a] = "running" => agent[a] = "running" /\ a # s
           /\ \A a \in Agent \ {s} : agent[a] = "running" => agent'[a] = "running"
<1>1. s \in Slot /\ s \in Agent
  BY PlannedSlots
<1>2. run.status \notin {"planning", "synthesizing", "succeeded"}
  BY UnfinishedChild DEF FinishChild, FailChild
<1>3. CASE FinishChild(s)
  <2>1. RowInv'
    BY <1>3, FinishChildKeepsRows
  <2>2. QED
    BY <1>1, <1>2, <1>3, <2>1
       DEF FinishChild, Bump, Children, RowInv, RowsTypeOK, RunRow
<1>4. CASE ~FinishChild(s)
  <2>1. PICK e \in Error : FailChild(s, e)
    BY <1>4
  <2>2. RowInv'
    BY <2>1, FailChildKeepsRows
  <2>3. QED BY <1>1, <1>2, <1>4, <2>1, <2>2 DEF FailChild, Children
<1>5. QED BY <1>3, <1>4

LEMMA CollectedKeeps ==
    ASSUME Inv, pc \in {"collect", "collect-reviews"}, NEW s \in batch, pc' = pc,
           FinishChild(s) \/ \E e \in Error : FailChild(s, e),
           batch' = batch \ {s}, UNCHANGED <<clock, lane>>
    PROVE  Inv'
<1>1. RowInv' /\ Children' = Children
      /\ \A a \in Agent : agent'[a] = "running" => agent[a] = "running" /\ a # s
  BY CollectedRows DEF Inv
<1>2. BusyIsAwaited' /\ RunningIsLaunched' /\ ReviewersWait'
  BY <1>1, NoLaneAtWork, PlannedSlots DEF Inv, BusyIsAwaited, RunningIsLaunched, ReviewersWait
<1>3. QED BY <1>1, <1>2, GoingOn DEF Inv, Synchronous

(* The AgentRun was over before its result could be written. *)
LEMMA CollectRaises ==
    ASSUME Inv, pc \in {"collect", "collect-reviews"}, NEW s \in batch, agent[s] # "running",
           Raise, batch' = batch \ {s}, UNCHANGED <<clock, lane>>
    PROVE  Inv'
<1>1. Stopped /\ pc' = "raised"
  BY RaiseStops DEF Inv
<1>2. RunningIsLaunched'
  BY <1>1, PlannedSlots DEF Inv, Stopped, RunningIsLaunched
<1>3. QED BY <1>1, <1>2, NoLaneAtWork, StoppedKeeps DEF Inv

LEMMA CollectProducerKeeps ==
    ASSUME Inv, NEW s \in Slot, CollectProducer(s)
    PROVE  Inv'
<1>1. pc = "collect" /\ s \in batch /\ batch' = batch \ {s} /\ UNCHANGED <<clock, lane>>
  BY DEF CollectProducer
<1>2. CASE agent[s] # "running"
  BY <1>1, <1>2, CollectRaises DEF CollectProducer
<1>3. CASE FinishChild(s) /\ pc' = "collect"
  BY <1>1, <1>3, CollectedKeeps
<1>4. CASE FailChild(s, "CHILD_AGENT_FAILED") /\ pc' \in {"repair", "raised"}
  <2>0. "CHILD_AGENT_FAILED" \in Error
    BY DEF Error
  <2>1. /\ RowInv' /\ Children' = Children /\ run'.status = "failed"
        /\ \A a \in Agent : agent'[a] = "running" => agent[a] = "running" /\ a # s
    BY <1>1, <1>4, <2>0, CollectedRows DEF Inv, FinishChild, FailChild
  <2>2. BusyIsAwaited' /\ RunningIsLaunched' /\ ReviewersWait'
    BY <1>1, <1>4, <2>1, NoLaneAtWork, PlannedSlots
       DEF Inv, BusyIsAwaited, RunningIsLaunched, ReviewersWait, Early
  <2>3. ReturnMatchesRun'
    BY <1>4, <2>1 DEF ReturnMatchesRun, Finished, Terminal
  <2>4. RepairSeesWholeBatch'
    BY <1>1, <2>1, PlannedSlots
       DEF Inv, RepairSeesWholeBatch, Unrecorded, ReviewersWait, Early, Reviewers
  <2>5. QED BY <1>1, <1>4, <2>1, <2>2, <2>3, <2>4 DEF Inv, Returned
<1>5. QED BY <1>1, <1>2, <1>3, <1>4 DEF CollectProducer

LEMMA CollectReviewerKeeps ==
    ASSUME Inv, NEW s \in Slot, CollectReviewer(s)
    PROVE  Inv'
<1>1. pc = "collect-reviews" /\ s \in batch /\ batch' = batch \ {s} /\ UNCHANGED <<clock, lane>>
  BY DEF CollectReviewer
<1>2. CASE agent[s] # "running"
  BY <1>1, <1>2, CollectRaises DEF CollectReviewer
<1>3. CASE agent[s] = "running"
  BY <1>1, <1>3, CollectedKeeps DEF CollectReviewer, Error
<1>4. QED BY <1>2, <1>3

-----------------------------------------------------------------------------
(* Verification and reviews. *)

LEMMA VerifierAnsweredKeeps ==
    ASSUME Inv, VerifierAnswered
    PROVE  Inv'
<1>1. pc = "verifying" /\ UNCHANGED locals
  BY DEF VerifierAnswered
<1>2. CASE \E w \in Writers, verdict \in {"passed", "failed"} :
              /\ MayVerify(w) /\ PutVerification(run, verdict)
              /\ pc' = IF verdict = "passed" THEN "launch-reviews" ELSE "repair"
  <2>1. PICK w \in Writers, verdict \in {"passed", "failed"} :
              /\ MayVerify(w) /\ PutVerification(run, verdict)
              /\ pc' = IF verdict = "passed" THEN "launch-reviews" ELSE "repair"
    BY <1>2
  <2>2. RowInv'
    BY <1>1, <2>1, PutVerificationKeepsRows DEF Inv, locals
  <2>3. /\ Children' = Children /\ agent' = agent /\ UNCHANGED <<clock, lane, batch>>
        /\ verdict = "failed" => run'.status = "failed"
    BY <1>1, <2>1 DEF PutVerification, CompareAndSet, Children, locals
  <2>4. CASE verdict = "passed"
    BY <1>1, <2>1, <2>2, <2>3, <2>4, NoLaneAtWork, TransactionKeeps DEF Synchronous, Early
  <2>5. CASE verdict = "failed"
    <3>1. BusyIsAwaited' /\ RunningIsLaunched' /\ ReviewersWait'
      BY <1>1, <2>1, <2>3, <2>5, NoLaneAtWork
         DEF Inv, BusyIsAwaited, RunningIsLaunched, ReviewersWait, Early
    <3>2. ReturnMatchesRun'
      BY <2>1, <2>3, <2>5 DEF ReturnMatchesRun, Finished, Terminal
    <3>3. RepairSeesWholeBatch'
      BY <1>1, <2>2, <2>3, PlannedSlots
         DEF Inv, RepairSeesWholeBatch, Unrecorded, ReviewersWait, Early, Reviewers
    <3>4. QED BY <2>1, <2>2, <2>3, <2>5, <3>1, <3>2, <3>3 DEF Inv, Returned
  <2>6. QED BY <2>4, <2>5
<1>3. CASE Raise
  BY <1>1, <1>3, RaiseKeeps
<1>4. QED BY <1>2, <1>3 DEF VerifierAnswered, Kernel

LEMMA ReviewersCollectedKeeps ==
    ASSUME Inv, ReviewersCollected
    PROVE  Inv'
<1>1. CASE Raise
  BY <1>1, RaiseKeeps DEF ReviewersCollected
<1>2. CASE Goto("record-reviews")
  BY <1>2, NoLaneAtWork, GotoKeeps DEF ReviewersCollected, Synchronous, Early
<1>3. QED BY <1>1, <1>2 DEF ReviewersCollected

LEMMA RecordReviewKeeps ==
    ASSUME Inv, RecordReview
    PROVE  Inv'
<1>1. pc = "record-reviews" /\ UNCHANGED locals
  BY DEF RecordReview
<1>2. CASE \E s \in Unrecorded : MayReview(s) /\ PutReview(run, s, Verdict(s)) /\ pc' = pc
  <2>1. PICK s \in Reviewers : MayReview(s) /\ PutReview(run, s, Verdict(s)) /\ pc' = pc
    BY <1>2 DEF Unrecorded
  <2>2. Verdict(s) \in {"clean", "blocking"}
    BY DEF Verdict
  <2>3. RowInv'
    BY <1>1, <2>1, <2>2, PutReviewKeepsRows DEF Inv, locals
  <2>4. Children' = Children /\ agent' = agent
    BY <2>1 DEF PutReview, Children
  <2>5. QED BY <1>1, <2>1, <2>3, <2>4, TransactionKeeps DEF Inv, Synchronous, locals
<1>3. CASE Raise
  BY <1>1, <1>3, RaiseKeeps
<1>4. CASE Unrecorded = {} /\ Goto("launch-synthesis")
  BY <1>1, <1>4, NoLaneAtWork, GotoKeeps DEF Synchronous, Early
<1>5. CASE Unrecorded = {} /\ run.status = "failed" /\ Goto("repair")
  <2>1. /\ RowInv' /\ Children' = Children /\ agent' = agent /\ run' = run
        /\ UNCHANGED <<lane, batch, reviews>>
    BY <1>1, <1>5, UnchangedRows DEF Inv, RowInv, RowsTypeOK, Goto, locals, rows, Children
  <2>2. BusyIsAwaited' /\ RunningIsLaunched' /\ ReviewersWait'
    BY <1>1, <1>5, <2>1, NoLaneAtWork
       DEF Inv, Goto, BusyIsAwaited, RunningIsLaunched, ReviewersWait, Early
  <2>3. ReturnMatchesRun' /\ RepairSeesWholeBatch'
    BY <1>5, <2>1
       DEF Goto, ReturnMatchesRun, Finished, Terminal, RepairSeesWholeBatch, Unrecorded, Reviewers
  <2>4. QED BY <1>5, <2>1, <2>2, <2>3 DEF Inv, Goto, Returned
<1>6. QED BY <1>2, <1>3, <1>4, <1>5 DEF RecordReview, Kernel

-----------------------------------------------------------------------------
(* Synthesis and result. *)

LEMMA LaunchSynthesisKeeps ==
    ASSUME Inv, LaunchSynthesis
    PROVE  Inv'
<1>1. pc = "launch-synthesis" /\ UNCHANGED locals
  BY DEF LaunchSynthesis
<1>2. CASE MaySynthesize /\ StartSynthesis(run) /\ pc' = "synthesizing"
  <2>1. RowInv'
    BY <1>1, <1>2, StartSynthesisKeepsRows DEF Inv, locals
  <2>2. Children' = Children /\ agent' = [agent EXCEPT ![Main] = "running"]
    BY <1>2 DEF StartSynthesis, Children
  <2>3. \A s \in Slot : agent'[s] = agent[s]
    BY <2>2, PlannedSlots DEF Inv, RowInv, RowsTypeOK
  <2>4. QED
    BY <1>1, <1>2, <2>1, <2>2, <2>3, NoLaneAtWork, TransactionKeeps DEF Awaiting, Early, locals
<1>3. CASE Raise \/ DeadlineError
  BY <1>1, <1>3, RaiseKeeps
<1>4. QED BY <1>2, <1>3 DEF LaunchSynthesis, TimedKernel, Kernel

LEMMA SynthesisAnsweredKeeps ==
    ASSUME Inv, SynthesisAnswered
    PROVE  Inv'
<1>1. pc = "synthesizing" /\ UNCHANGED locals
  BY DEF SynthesisAnswered
<1>2. CASE Goto("complete")
  BY <1>1, <1>2, NoLaneAtWork, GotoKeeps DEF Synchronous, Early
<1>3. CASE RetrySynthesis /\ UNCHANGED pc
  <2>1. RowInv' /\ Children' = Children /\ agent' = agent
    BY <1>1, <1>3, RetryRows, PlannedSlots
       DEF Inv, RetrySynthesis, RetryAttemptPhase, Phase, locals
  <2>2. QED BY <1>1, <1>3, <2>1, TransactionKeeps DEF Awaiting, locals
<1>4. CASE Raise
  BY <1>1, <1>4, RaiseKeeps
<1>5. QED BY <1>2, <1>3, <1>4 DEF SynthesisAnswered

LEMMA CompleteKeeps ==
    ASSUME Inv, Complete
    PROVE  Inv'
<1>1. pc = "complete" /\ UNCHANGED locals
  BY DEF Complete
<1>2. CASE PutResultValidation /\ pc' = pc
  <2>1. RowInv'
    BY <1>1, <1>2, PutResultValidationKeepsRows DEF Inv, locals
  <2>2. Children' = Children /\ agent' = agent
    BY <1>2 DEF PutResultValidation, Children
  <2>3. QED BY <1>1, <1>2, <2>1, <2>2, TransactionKeeps DEF Synchronous, locals
<1>3. CASE MayComplete /\ PutResult(run) /\ pc' \in {"succeeded", "raised"}
  <2>1. RowInv'
    BY <1>1, <1>3, PutResultKeepsRows DEF Inv, locals
  <2>2. /\ Children' = Children /\ run'.status = "succeeded"
        /\ agent' = [agent EXCEPT ![Main] = IF @ = "running" THEN "succeeded" ELSE @]
    BY <1>3 DEF PutResult, CompareAndSet, Children
  <2>3. \A s \in Slot : agent'[s] = agent[s]
    BY <2>2, PlannedSlots DEF Inv, RowInv, RowsTypeOK
  <2>4. BusyIsAwaited' /\ RunningIsLaunched' /\ ReviewersWait'
    BY <1>1, <1>3, <2>3, NoLaneAtWork
       DEF Inv, BusyIsAwaited, RunningIsLaunched, ReviewersWait, Early, locals
  <2>5. ReturnMatchesRun' /\ RepairSeesWholeBatch'
    BY <1>3, <2>2 DEF ReturnMatchesRun, RepairSeesWholeBatch, Finished, Terminal
  <2>6. QED BY <1>1, <1>3, <2>1, <2>2, <2>4, <2>5 DEF Inv, Returned, locals
<1>4. CASE Raise
  BY <1>1, <1>4, RaiseKeeps
<1>5. QED BY <1>2, <1>3, <1>4 DEF Complete, Kernel

-----------------------------------------------------------------------------
(* The requests and the process around the driver. *)

LEMMA CancelStops ==
    ASSUME RowInv, CancelTask \/ CancelRun
    PROVE  Stopped
<1>1. "cancelled" \in Terminal \ {"succeeded"} /\ "WORKCELL_CANCELLED" \in Error
  BY DEF Terminal, Error
<1>2. QED BY <1>1, StopStops DEF CancelTask, CancelRun, locals

LEMMA CancelTaskKeeps ==
    ASSUME Inv, CancelTask
    PROVE  Inv'
<1>1. /\ pc' = "cancelled" /\ UNCHANGED <<clock, batch>>
      /\ lane' = [s \in Slot |-> IF lane[s] \in Busy THEN "error" ELSE lane[s]]
  BY DEF CancelTask
<1>2. lane' \in [Slot -> Lane] /\ \A s \in Slot : lane'[s] \notin Busy
  BY <1>1 DEF Inv, Lane, Busy
<1>3. RunningIsLaunched'
  BY <1>1, CancelStops, PlannedSlots DEF Inv, Stopped, RunningIsLaunched
<1>4. QED BY <1>1, <1>2, <1>3, CancelStops, StoppedKeeps DEF Inv

LEMMA CancelRunKeeps ==
    ASSUME Inv, CancelRun
    PROVE  Inv'
<1>1. pc \in Awaiting /\ pc' = pc /\ UNCHANGED <<lane, batch>>
  BY DEF CancelRun, locals
<1>2. Stopped
  BY CancelStops DEF Inv
<1>3. \A s \in Slot : agent'[s] = "running" => agent[s] = "running"
  BY <1>2, PlannedSlots DEF Inv, Stopped
<1>4. Children' = Children /\ RowInv'
  BY <1>2 DEF Stopped, Children
<1>5. QED BY <1>1, <1>3, <1>4, TransactionKeeps

LEMMA RestartKeeps ==
    ASSUME Inv, Restart
    PROVE  Inv'
<1>1. pc' = "dead" /\ UNCHANGED <<clock, lane, batch>>
  BY DEF Restart, locals
<1>2. /\ RowInv' /\ Children' = Children
      /\ \A a \in Agent : agent'[a] = "running" => agent[a] = "running"
  <2>1. CASE InterruptRunning
    BY <1>1, <2>1, InterruptRunningKeepsRows DEF Inv, InterruptRunning, Children
  <2>2. CASE UNCHANGED rows
    BY <1>1, <2>2, UnchangedRows DEF Inv, RowInv, RowsTypeOK, rows, Children
  <2>3. QED BY <2>1, <2>2 DEF Restart
<1>3. BusyIsAwaited' /\ RunningIsLaunched' /\ ReviewersWait'
  BY <1>1, <1>2, PlannedSlots DEF Inv, BusyIsAwaited, RunningIsLaunched, ReviewersWait, Early
<1>4. QED
  BY <1>1, <1>2, <1>3 DEF Inv, ReturnMatchesRun, RepairSeesWholeBatch, Returned

LEMMA QuietStepKeeps ==
    ASSUME Inv, UNCHANGED <<rows, pc, lane, batch>>, clock' \in {"ample", "short", "expired"}
    PROVE  Inv'
<1>1. RowInv' /\ Children' = Children /\ UNCHANGED <<run, agent, reviews, pc, lane, batch>>
  BY UnchangedRows DEF Inv, rows, Children
<1>2. BusyIsAwaited' /\ RunningIsLaunched' /\ ReviewersWait'
  BY <1>1 DEF Inv, BusyIsAwaited, RunningIsLaunched, ReviewersWait
<1>3. ReturnMatchesRun' /\ RepairSeesWholeBatch'
  BY <1>1 DEF Inv, ReturnMatchesRun, Finished, RepairSeesWholeBatch, Unrecorded, Reviewers
<1>4. QED BY <1>1, <1>2, <1>3 DEF Inv

LEMMA InvIsInductive ==
    ASSUME Inv, [Next]_vars
    PROVE  Inv'
<1>1. CASE PlanningAnswered BY <1>1, PlanningAnsweredKeeps
<1>2. CASE TransientMain BY <1>2, TransientMainKeeps
<1>3. CASE LaunchProducers BY <1>3, LaunchProducersKeeps
<1>4. CASE ProducersGathered \/ ReviewsGathered
  BY <1>4, GatheredKeeps DEF ProducersGathered, ReviewsGathered
<1>5. CASE BatchCollected
  BY <1>5, NoLaneAtWork, GotoKeeps DEF BatchCollected, Synchronous, Early
<1>6. CASE VerifierAnswered BY <1>6, VerifierAnsweredKeeps
<1>7. CASE LaunchReviewers BY <1>7, LaunchReviewersKeeps
<1>8. CASE ReviewersCollected BY <1>8, ReviewersCollectedKeeps
<1>9. CASE RecordReview BY <1>9, RecordReviewKeeps
<1>10. CASE LaunchSynthesis BY <1>10, LaunchSynthesisKeeps
<1>11. CASE SynthesisAnswered BY <1>11, SynthesisAnsweredKeeps
<1>12. CASE Complete BY <1>12, CompleteKeeps
<1>13. CASE \E s \in Slot : CollectProducer(s) \/ CollectReviewer(s) \/ LaneStep(s)
  BY <1>13, CollectProducerKeeps, CollectReviewerKeeps, LaneStepKeeps
<1>14. CASE CancelTask \/ CancelRun \/ Restart
  BY <1>14, CancelTaskKeeps, CancelRunKeeps, RestartKeeps
<1>15. CASE Deadline
  BY <1>15, QuietStepKeeps DEF Deadline, Tick
<1>16. CASE UNCHANGED vars
  BY <1>16, QuietStepKeeps DEF vars, rows, Inv, RowInv, RowsTypeOK
<1>17. QED
  BY <1>1, <1>2, <1>3, <1>4, <1>5, <1>6, <1>7, <1>8, <1>9, <1>10, <1>11, <1>12, <1>13, <1>14,
     <1>15, <1>16 DEF Next, DriverStep

LEMMA Invariance == Spec => []Inv
<1>1. Init => Inv
  <2>1. SUFFICES ASSUME Init PROVE Inv
    OBVIOUS
  <2>2. RowInv /\ \A s \in Slot : agent[s] = "absent"
    BY <2>1, CreateEstablishesRows, KernelAssumption DEF Init, Create, Agent
  <2>3. QED
    BY <2>1, <2>2
       DEF Init, Inv, Lane, Busy, Awaiting, BusyIsAwaited, RunningIsLaunched, ReviewersWait,
           ReturnMatchesRun, RepairSeesWholeBatch, Returned
<1>2. Inv /\ [Next]_vars => Inv'
  BY InvIsInductive
<1>3. QED BY <1>1, <1>2, PTL DEF Spec

(* Every variable of an execution stays in its domain. *)
THEOREM DriverTypeCorrect == Spec => []DriverTypeOK
<1>1. Inv => DriverTypeOK
  BY DEF Inv, DriverTypeOK, RowInv
<1>2. QED BY <1>1, Invariance, PTL

(* However execute() returns, the run it created is over as reported, no lane of
   it is at work, and a repair finds every valid review of the batch on record. *)
THEOREM DriverEndsInOrder == Spec => []DriverInOrder
<1>1. ASSUME Inv PROVE DriverInOrder
  <2>1. NoOrphanLane
    BY <1>1, NoLaneAtWork DEF NoOrphanLane, Returned
  <2>2. QED BY <1>1, <2>1 DEF Inv, DriverInOrder
<1>2. QED BY <1>1, Invariance, PTL

(* One execution leaves the evidence as the kernel does: a success rests on all
   of it, adverse evidence is fatal, and reviews follow the verification. *)
THEOREM DriverKeepsEvidence ==
    Spec => [](/\ AttemptMatchesAgent /\ SucceededOnEvidence /\ AdverseEvidenceIsFatal
               /\ ReviewAfterVerification /\ StoppedRunIsQuiet)
<1>1. Inv => /\ AttemptMatchesAgent /\ SucceededOnEvidence /\ AdverseEvidenceIsFatal
             /\ ReviewAfterVerification /\ StoppedRunIsQuiet
  BY DEF Inv, RowInv
<1>2. QED BY <1>1, Invariance, PTL

-----------------------------------------------------------------------------
(* No phantom Attempt.  A producer that fails is recorded and raised at once,
   and nobody writes the AgentRuns launched beside it: the run is over and they
   stay "running".  Without a second producer in the batch nothing of the kind
   is left: Reviewers are collected to the last, whatever they answered. *)

OneProducerAtATime ==
    \/ MaxConcurrency = 1
    \/ \A s, t \in Slot : Purpose[s] # "review" /\ Purpose[t] # "review" => s = t

NoChildRuns == \A s \in Slot : agent[s] # "running"

(* Main runs only where a child could not. *)
MainRunsAlone == agent[Main] = "running" => run.status \in {"planning", "synthesizing"}

(* Where no batch is under way there is none. *)
BatchIsOver ==
    pc \in {"planning", "verifying", "record-reviews", "launch-synthesis", "synthesizing", "complete"}
        => batch = {}

(* No await comes between the end of one batch and the launch of the next. *)
LaunchedIsOpen == pc \in {"launch", "launch-reviews"} => ~Finished

ProducersTogether ==
    /\ pc = "producing" => batch # {}
    /\ pc \in {"launch", "producing", "collect"} => \A s, t \in batch : s = t
    /\ pc \in {"producing", "collect"} /\ Finished => batch # {} /\ NoChildRuns

(* A run that is stopped takes every Reviewer with it, and nothing else does. *)
BatchRuns == \A s \in batch : agent[s] = "running"
ReviewersTogether ==
    /\ pc = "launch-reviews" => BatchRuns
    /\ pc = "reviewing" => IF Finished THEN NoChildRuns ELSE BatchRuns
    /\ pc = "collect-reviews" => BatchRuns \/ NoChildRuns

NobodyRunsAtTheEnd == pc \in Returned => \A a \in Agent : agent[a] # "running"

TogetherInv ==
    /\ MainRunsAlone /\ BatchIsOver /\ LaunchedIsOpen /\ ProducersTogether /\ ReviewersTogether
    /\ NobodyRunsAtTheEnd

(* Whoever stops a run stops all of it: by the time execute() raises or is
   cancelled, either the run is stopped now or nobody was running. *)
LEMMA StoppedTogether ==
    ASSUME Inv, TogetherInv, Stopped, pc' \in Returned,
           Finished => NoChildRuns
    PROVE  TogetherInv'
<1>1. Finished => agent[Main] # "running"
  BY DEF TogetherInv, MainRunsAlone, Finished, Terminal
<1>2. \A a \in Agent : agent'[a] # "running"
  BY <1>1 DEF Stopped, NoChildRuns, Agent
<1>3. Main \in Agent
  BY DEF Agent
<1>4. QED
  BY <1>2, <1>3 DEF TogetherInv, MainRunsAlone, BatchIsOver, LaunchedIsOpen, ProducersTogether,
     ReviewersTogether, NobodyRunsAtTheEnd, Returned

LEMMA RaiseTogether ==
    ASSUME Inv, TogetherInv, Raise \/ DeadlineError, UNCHANGED clock, Finished => NoChildRuns
    PROVE  TogetherInv'
<1>1. Stopped /\ pc' = "raised"
  BY RaiseStops DEF Inv
<1>2. QED BY <1>1, StoppedTogether DEF Returned

(* Nobody runs while no batch is under way. *)
LEMMA NobodyBetween ==
    ASSUME Inv, batch = {}
    PROVE  NoChildRuns
BY DEF Inv, RunningIsLaunched, NoChildRuns

LEMMA BetweenTogether ==
    ASSUME Inv', MainRunsAlone', batch' = {},
           pc' \notin Returned \/ agent'[Main] # "running",
           pc' \in {"launch", "launch-reviews"} => ~Finished',
           pc' \notin {"producing", "reviewing"},
           pc' = "collect" => ~Finished'
    PROVE  TogetherInv'
<1>1. NoChildRuns' /\ BatchRuns'
  BY DEF Inv, RunningIsLaunched, NoChildRuns, BatchRuns
<1>2. \A a \in Agent : agent'[a] = "running" => a = Main
  BY <1>1 DEF NoChildRuns, Agent
<1>3. LaunchedIsOpen' /\ ReviewersTogether' /\ BatchIsOver' /\ ProducersTogether'
  BY <1>1 DEF LaunchedIsOpen, ReviewersTogether, BatchIsOver, ProducersTogether
<1>4. NobodyRunsAtTheEnd'
  BY <1>2 DEF NobodyRunsAtTheEnd
<1>5. QED BY <1>3, <1>4 DEF TogetherInv

LEMMA LaunchTogether ==
    ASSUME Inv, Inv', TogetherInv, pc \in {"launch", "launch-reviews"}, NEW s \in Children,
           Launch(s), pc = "launch" => batch \subseteq {s}
    PROVE  TogetherInv'
<1>1. ~Finished
  BY DEF TogetherInv, LaunchedIsOpen
<1>2. CASE StartChild(s) /\ pc' = pc
  <2>1. batch' = batch \cup {s}
    BY <1>2 DEF Launch
  <2>2. /\ agent' = [agent EXCEPT ![s] = "running"] /\ run'.status = run.status
        /\ run.status \notin {"planning", "synthesizing"} /\ s \in Slot /\ s \in Agent /\ s # Main
    BY <1>2, UnfinishedChild
       DEF StartChild, Bump, Inv, RowInv, RowsTypeOK, RunRow
  <2>3. MainRunsAlone' /\ LaunchedIsOpen'
    BY <1>1, <2>2 DEF TogetherInv, MainRunsAlone, LaunchedIsOpen, Finished, Inv, RowInv, RowsTypeOK
  <2>4. BatchIsOver' /\ NobodyRunsAtTheEnd'
    BY <1>2 DEF BatchIsOver, NobodyRunsAtTheEnd, Returned
  <2>5. ProducersTogether'
    BY <1>2, <2>1 DEF ProducersTogether
  <2>6. ReviewersTogether'
    BY <1>2, <2>1, <2>2, PlannedSlots
       DEF TogetherInv, ReviewersTogether, BatchRuns, Inv, RowInv, RowsTypeOK
  <2>7. QED BY <2>3, <2>4, <2>5, <2>6 DEF TogetherInv
<1>3. CASE Raise \/ DeadlineError
  BY <1>1, <1>3, RaiseTogether DEF Launch
<1>4. QED BY <1>2, <1>3 DEF Launch, TimedKernel, Kernel

LEMMA GatherTogether ==
    ASSUME Inv, Inv', TogetherInv, pc \in {"launch", "launch-reviews"}, NEW next, Gather(next),
           \/ pc = "launch" /\ next = "producing" /\ batch # {}
           \/ pc = "launch" /\ next \in {"verifying", "launch-synthesis"} /\ batch = {}
           \/ pc = "launch-reviews" /\ next = "reviewing"
    PROVE  TogetherInv'
<1>1. ~Finished /\ pc' = next /\ UNCHANGED <<run, agent, batch>>
  BY DEF TogetherInv, LaunchedIsOpen, Gather, Goto, rows
<1>2. MainRunsAlone' /\ ~Finished'
  BY <1>1 DEF TogetherInv, MainRunsAlone, Finished
<1>3. BatchIsOver' /\ NobodyRunsAtTheEnd' /\ LaunchedIsOpen'
  BY <1>1 DEF BatchIsOver, NobodyRunsAtTheEnd, LaunchedIsOpen, Returned
<1>4. ProducersTogether'
  BY <1>1, <1>2 DEF TogetherInv, ProducersTogether
<1>5. ReviewersTogether'
  BY <1>1, <1>2 DEF TogetherInv, ReviewersTogether, BatchRuns
<1>6. QED BY <1>2, <1>3, <1>4, <1>5 DEF TogetherInv

LEMMA LaunchProducersTogether ==
    ASSUME Inv, Inv', TogetherInv, OneProducerAtATime, LaunchProducers
    PROVE  TogetherInv'
<1>1. pc = "launch"
  BY DEF LaunchProducers
<1>2. CASE Cardinality(batch) < MaxConcurrency /\ \E s \in Idle(Producers) : Launch(s)
  <2>1. PICK s \in Children : Launch(s) /\ Purpose[s] # "review" /\ lane[s] = "idle"
    BY <1>2 DEF Idle, Producers
  <2>2. CASE batch = {}
    BY <1>1, <2>1, <2>2, LaunchTogether
  <2>3. CASE batch # {}
    <3>1. MaxConcurrency # 1
      <4>1. IsFiniteSet(batch)
        BY KernelAssumption, PlannedSlots, FS_Subset DEF Inv
      <4>2. Cardinality(batch) \in Nat /\ Cardinality(batch) # 0
        BY <2>3, <4>1, FS_CardinalityType, FS_EmptySet
      <4>3. QED BY <1>2, <4>2
    <3>2. \A t \in batch : t = s
      BY <1>1, <2>1, <3>1, PlannedSlots DEF OneProducerAtATime, Inv, ReviewersWait, Early
    <3>3. QED BY <1>1, <2>1, <3>2, LaunchTogether
  <2>4. QED BY <2>2, <2>3
<1>3. CASE Gather(IF batch # {} THEN "producing"
                  ELSE IF Writers # {} THEN "verifying" ELSE "launch-synthesis")
  BY <1>1, <1>3, GatherTogether
<1>4. QED BY <1>2, <1>3 DEF LaunchProducers

LEMMA LaunchReviewersTogether ==
    ASSUME Inv, Inv', TogetherInv, LaunchReviewers
    PROVE  TogetherInv'
<1>1. pc = "launch-reviews"
  BY DEF LaunchReviewers
<1>2. CASE \E s \in Idle(Reviewers) : Launch(s)
  BY <1>1, <1>2, LaunchTogether DEF Idle, Reviewers
<1>3. CASE Raise /\ UNCHANGED locals
  BY <1>1, <1>3, RaiseTogether DEF TogetherInv, LaunchedIsOpen, locals
<1>4. CASE Gather("reviewing")
  BY <1>1, <1>4, GatherTogether
<1>5. QED BY <1>2, <1>3, <1>4 DEF LaunchReviewers

(* Steps under which no AgentRun and not the status of the run moves. *)
LEMMA SameTogether ==
    ASSUME TogetherInv, pc' = pc, UNCHANGED <<agent, batch>>, run'.status = run.status
    PROVE  TogetherInv'
<1>1. Finished' <=> Finished
  BY DEF Finished
<1>2. MainRunsAlone' /\ BatchIsOver' /\ LaunchedIsOpen' /\ NobodyRunsAtTheEnd'
  BY <1>1 DEF TogetherInv, MainRunsAlone, BatchIsOver, LaunchedIsOpen, NobodyRunsAtTheEnd
<1>3. ProducersTogether' /\ ReviewersTogether'
  BY <1>1 DEF TogetherInv, ProducersTogether, ReviewersTogether, NoChildRuns, BatchRuns
<1>4. QED BY <1>2, <1>3 DEF TogetherInv

LEMMA LaneStepTogether ==
    ASSUME Inv, TogetherInv, NEW s \in Slot, LaneStep(s)
    PROVE  TogetherInv'
<1>1. s \in Agent /\ s # Main /\ UNCHANGED <<pc, batch, clock>>
  BY PlannedSlots DEF LaneStep, LaneReturns, locals, Inv
<1>2. agent' = agent /\ run'.status = run.status
  <2>1. CASE UNCHANGED rows
    BY <2>1 DEF rows
  <2>2. CASE RetryChildAttempt(s)
    BY <1>1, <2>2, RetryRows DEF Inv, RetryChildAttempt, Phase
  <2>3. CASE RetryTransient(s, "delegate")
    BY <1>1, <2>3, TransientRows DEF Inv, Phase
  <2>4. QED BY <2>1, <2>2, <2>3 DEF LaneStep, LaneReturns
<1>3. QED BY <1>1, <1>2, SameTogether

LEMMA GatheredTogether ==
    ASSUME TogetherInv, pc \in {"producing", "reviewing"}, NEW next, Gathered(next),
           next = IF pc = "producing" THEN "collect" ELSE "collect-reviews"
    PROVE  TogetherInv'
<1>1. pc' = next /\ UNCHANGED <<run, agent, batch>>
  BY DEF Gathered, Goto, rows, locals
<1>2. MainRunsAlone' /\ BatchIsOver' /\ LaunchedIsOpen' /\ NobodyRunsAtTheEnd'
  BY <1>1 DEF TogetherInv, MainRunsAlone, BatchIsOver, LaunchedIsOpen, NobodyRunsAtTheEnd, Returned
<1>3. ProducersTogether' /\ ReviewersTogether'
  BY <1>1 DEF TogetherInv, ProducersTogether, ReviewersTogether, NoChildRuns, BatchRuns, Finished
<1>4. QED BY <1>2, <1>3 DEF TogetherInv

LEMMA CollectProducerTogether ==
    ASSUME Inv, Inv', TogetherInv, NEW s \in Slot, CollectProducer(s)
    PROVE  TogetherInv'
<1>1. /\ pc = "collect" /\ s \in batch /\ batch' = batch \ {s} /\ UNCHANGED clock
      /\ batch = {s}
  BY DEF CollectProducer, TogetherInv, ProducersTogether
<1>2. CASE agent[s] # "running"
  <2>1. NoChildRuns
    BY <1>1, <1>2 DEF Inv, RunningIsLaunched, NoChildRuns
  <2>2. QED BY <1>2, <2>1, RaiseTogether, <1>1 DEF CollectProducer
<1>3. CASE agent[s] = "running"
  <2>1. ~Finished
    BY <1>1, <1>3 DEF TogetherInv, ProducersTogether, NoChildRuns
  <2>2. FinishChild(s) \/ \E e \in Error : FailChild(s, e)
    BY <1>3 DEF CollectProducer, Error
  <2>3. /\ run.status \notin {"planning", "synthesizing"}
        /\ run'.status = IF FinishChild(s) THEN run.status ELSE "failed"
        /\ \A a \in Agent : agent'[a] = "running" => agent[a] = "running"
    BY <1>1, <2>2, CollectedRows DEF Inv
  <2>4. agent'[Main] # "running"
    BY <2>3, PlannedSlots DEF Inv, TogetherInv, MainRunsAlone
  <2>5. pc' \in {"repair", "raised"} \/ (pc' = "collect" /\ ~Finished')
    BY <1>3, <2>1, <2>3 DEF CollectProducer, Finished
  <2>6. QED BY <1>1, <2>4, <2>5, BetweenTogether DEF MainRunsAlone
<1>4. QED BY <1>2, <1>3

LEMMA CollectReviewerTogether ==
    ASSUME Inv, Inv', TogetherInv, NEW s \in Slot, CollectReviewer(s)
    PROVE  TogetherInv'
<1>1. pc = "collect-reviews" /\ s \in batch /\ batch' = batch \ {s} /\ UNCHANGED clock
  BY DEF CollectReviewer
<1>2. CASE agent[s] # "running"
  <2>1. NoChildRuns
    BY <1>1, <1>2 DEF TogetherInv, ReviewersTogether, BatchRuns
  <2>2. QED BY <1>1, <1>2, <2>1, RaiseTogether DEF CollectReviewer
<1>3. CASE agent[s] = "running"
  <2>1. FinishChild(s) \/ \E e \in Error : FailChild(s, e)
    BY <1>3 DEF CollectReviewer, Error
  <2>2. /\ run.status \notin {"planning", "synthesizing"} /\ s \in Children
        /\ \A a \in Agent \ {s} : agent[a] = "running" => agent'[a] = "running"
        /\ \A a \in Agent : agent'[a] = "running" => agent[a] = "running"
    BY <1>1, <2>1, CollectedRows DEF Inv
  <2>3. agent'[Main] # "running" /\ BatchRuns'
    BY <1>1, <1>3, <2>2, PlannedSlots
       DEF Inv, TogetherInv, MainRunsAlone, ReviewersTogether, BatchRuns, NoChildRuns
  <2>4. pc' = "collect-reviews"
    BY <1>1, <1>3 DEF CollectReviewer
  <2>5. QED
    BY <2>3, <2>4 DEF TogetherInv, MainRunsAlone, BatchIsOver, LaunchedIsOpen, ProducersTogether,
       ReviewersTogether, NobodyRunsAtTheEnd, Returned
<1>4. QED BY <1>2, <1>3

(* Between two batches: planning, verification, reviews, synthesis, result. *)
LEMMA BetweenBatches ==
    ASSUME Inv, TogetherInv,
           pc \in {"planning", "verifying", "record-reviews", "launch-synthesis",
                   "synthesizing", "complete"}
    PROVE  batch = {} /\ NoChildRuns
BY NobodyBetween DEF TogetherInv, BatchIsOver

LEMMA PlanningAnsweredTogether ==
    ASSUME Inv, Inv', TogetherInv, PlanningAnswered
    PROVE  TogetherInv'
<1>1. pc = "planning" /\ UNCHANGED <<clock, batch>> /\ batch = {} /\ NoChildRuns
  BY BetweenBatches DEF PlanningAnswered, locals
<1>2. CASE PutPlan(run, Slot) /\ pc' = "launch"
  <2>1. agent'[Main] # "running" /\ run'.status = "delegating"
    BY <1>2, KernelAssumption DEF PutPlan, CompareAndSet, Agent
  <2>2. QED BY <1>1, <1>2, <2>1, BetweenTogether DEF MainRunsAlone, Finished, Terminal
<1>3. CASE Raise \/ DeadlineError
  BY <1>1, <1>3, RaiseTogether
<1>4. QED BY <1>2, <1>3 DEF PlanningAnswered, TimedKernel, Kernel

LEMMA TransientMainTogether ==
    ASSUME Inv, TogetherInv, TransientMain
    PROVE  TogetherInv'
<1>1. PICK phase \in Phase : RetryTransient(Main, phase)
  BY DEF TransientMain, Phase
<1>2. pc' = pc /\ UNCHANGED <<clock, batch>>
  BY DEF TransientMain, locals
<1>3. agent' = agent /\ run'.status = run.status
  BY <1>1, <1>2, TransientRows, PlannedSlots DEF Inv
<1>4. QED BY <1>2, <1>3, SameTogether

LEMMA BatchCollectedTogether ==
    ASSUME Inv, Inv', TogetherInv, BatchCollected
    PROVE  TogetherInv'
<1>1. ~Finished /\ pc' = "launch" /\ batch' = {} /\ UNCHANGED <<run, agent>>
  BY DEF BatchCollected, TogetherInv, ProducersTogether, Goto, rows, locals
<1>2. QED BY <1>1, BetweenTogether DEF TogetherInv, MainRunsAlone, Finished, Returned

LEMMA VerifierAnsweredTogether ==
    ASSUME Inv, Inv', TogetherInv, VerifierAnswered
    PROVE  TogetherInv'
<1>1. pc = "verifying" /\ UNCHANGED <<clock, batch>> /\ batch = {} /\ NoChildRuns
  BY BetweenBatches DEF VerifierAnswered, locals
<1>2. CASE \E w \in Writers, verdict \in {"passed", "failed"} :
              /\ MayVerify(w) /\ PutVerification(run, verdict)
              /\ pc' = IF verdict = "passed" THEN "launch-reviews" ELSE "repair"
  <2>1. PICK w \in Writers, verdict \in {"passed", "failed"} :
              /\ MayVerify(w) /\ PutVerification(run, verdict)
              /\ pc' = IF verdict = "passed" THEN "launch-reviews" ELSE "repair"
    BY <1>2
  <2>2. agent'[Main] # "running" /\ (verdict = "passed" => run'.status = "reviewing")
    BY <2>1 DEF MayVerify, PutVerification, CompareAndSet, TogetherInv, MainRunsAlone
  <2>3. QED BY <1>1, <2>1, <2>2, BetweenTogether DEF MainRunsAlone, Finished, Terminal
<1>3. CASE Raise
  BY <1>1, <1>3, RaiseTogether
<1>4. QED BY <1>2, <1>3 DEF VerifierAnswered, Kernel

LEMMA ReviewersCollectedTogether ==
    ASSUME Inv, Inv', TogetherInv, ReviewersCollected
    PROVE  TogetherInv'
<1>1. pc = "collect-reviews" /\ UNCHANGED <<clock, batch>> /\ batch = {} /\ NoChildRuns
  BY NobodyBetween DEF ReviewersCollected, locals
<1>2. CASE Raise
  BY <1>1, <1>2, RaiseTogether
<1>3. CASE Goto("record-reviews")
  BY <1>1, <1>3, BetweenTogether DEF Goto, rows, TogetherInv, MainRunsAlone, Returned
<1>4. QED BY <1>2, <1>3 DEF ReviewersCollected

LEMMA RecordReviewTogether ==
    ASSUME Inv, Inv', TogetherInv, RecordReview
    PROVE  TogetherInv'
<1>1. pc = "record-reviews" /\ UNCHANGED <<clock, batch>> /\ batch = {} /\ NoChildRuns
  BY BetweenBatches DEF RecordReview, locals
<1>2. CASE \E s \in Unrecorded : MayReview(s) /\ PutReview(run, s, Verdict(s)) /\ pc' = pc
  <2>1. run.status \in {"reviewing", "failed"} /\ agent' = agent
    BY <1>2 DEF MayReview, CollectingLaunchedBatch, PutReview
  <2>2. agent'[Main] # "running"
    BY <2>1 DEF TogetherInv, MainRunsAlone
  <2>3. QED BY <1>1, <1>2, <2>2, BetweenTogether DEF MainRunsAlone
<1>3. CASE Raise
  BY <1>1, <1>3, RaiseTogether
<1>4. CASE Goto("launch-synthesis")
  BY <1>1, <1>4, BetweenTogether DEF Goto, rows, TogetherInv, MainRunsAlone, Returned
<1>5. CASE run.status = "failed" /\ Goto("repair")
  BY <1>1, <1>5, BetweenTogether DEF Goto, rows, TogetherInv, MainRunsAlone
<1>6. QED BY <1>2, <1>3, <1>4, <1>5 DEF RecordReview, Kernel

LEMMA LaunchSynthesisTogether ==
    ASSUME Inv, Inv', TogetherInv, LaunchSynthesis
    PROVE  TogetherInv'
<1>1. pc = "launch-synthesis" /\ UNCHANGED <<clock, batch>> /\ batch = {} /\ NoChildRuns
  BY BetweenBatches DEF LaunchSynthesis, locals
<1>2. CASE StartSynthesis(run) /\ pc' = "synthesizing"
  <2>1. MainRunsAlone'
    BY <1>2 DEF StartSynthesis, CompareAndSet, MainRunsAlone
  <2>2. QED BY <1>1, <1>2, <2>1, BetweenTogether DEF Returned
<1>3. CASE Raise \/ DeadlineError
  BY <1>1, <1>3, RaiseTogether
<1>4. QED BY <1>2, <1>3 DEF LaunchSynthesis, TimedKernel, Kernel

LEMMA SynthesisAnsweredTogether ==
    ASSUME Inv, Inv', TogetherInv, SynthesisAnswered
    PROVE  TogetherInv'
<1>1. pc = "synthesizing" /\ UNCHANGED <<clock, batch>> /\ batch = {} /\ NoChildRuns
  BY BetweenBatches DEF SynthesisAnswered, locals
<1>2. CASE Goto("complete")
  BY <1>1, <1>2, BetweenTogether DEF Goto, rows, TogetherInv, MainRunsAlone, Returned
<1>3. CASE RetrySynthesis /\ UNCHANGED pc
  <2>1. agent' = agent /\ run'.status = run.status
    BY <1>1, <1>3, RetryRows, PlannedSlots DEF Inv, RetrySynthesis, RetryAttemptPhase, Phase
  <2>2. QED BY <1>1, <1>3, <2>1, SameTogether
<1>4. CASE Raise
  BY <1>1, <1>4, RaiseTogether
<1>5. QED BY <1>2, <1>3, <1>4 DEF SynthesisAnswered

LEMMA CompleteTogether ==
    ASSUME Inv, Inv', TogetherInv, Complete
    PROVE  TogetherInv'
<1>1. pc = "complete" /\ UNCHANGED <<clock, batch>> /\ batch = {} /\ NoChildRuns
  BY BetweenBatches DEF Complete, locals
<1>2. CASE PutResultValidation /\ pc' = pc
  BY <1>1, <1>2, SameTogether DEF PutResultValidation
<1>3. CASE PutResult(run) /\ pc' \in {"succeeded", "raised"}
  <2>1. agent'[Main] # "running"
    BY <1>3, PlannedSlots DEF PutResult, Inv, RowInv, RowsTypeOK
  <2>2. QED BY <1>1, <1>3, <2>1, BetweenTogether DEF MainRunsAlone
<1>4. CASE Raise
  BY <1>1, <1>4, RaiseTogether
<1>5. QED BY <1>2, <1>3, <1>4 DEF Complete, Kernel

(* Cancelled while it awaits, execute() has nobody running in a run that is over. *)
LEMMA AwaitingTogether ==
    ASSUME Inv, TogetherInv, pc \in Awaiting, Finished
    PROVE  NoChildRuns
<1>1. CASE pc \in {"producing", "reviewing"}
  BY <1>1 DEF TogetherInv, ProducersTogether, ReviewersTogether
<1>2. CASE pc \notin {"producing", "reviewing"}
  BY <1>2, BetweenBatches DEF Awaiting
<1>3. QED BY <1>1, <1>2

LEMMA CancelTaskTogether ==
    ASSUME Inv, TogetherInv, CancelTask
    PROVE  TogetherInv'
BY CancelStops, AwaitingTogether, StoppedTogether DEF Inv, CancelTask, Returned

LEMMA CancelRunTogether ==
    ASSUME Inv, TogetherInv, CancelRun
    PROVE  TogetherInv'
<1>1. /\ pc \in Awaiting /\ pc' = pc /\ batch' = batch /\ ~Finished /\ Stopped
  BY CancelStops DEF Inv, CancelRun, locals
<1>2. \A a \in Agent : agent'[a] # "running"
  BY <1>1 DEF Stopped
<1>3. NoChildRuns' /\ agent'[Main] # "running"
  BY <1>2 DEF NoChildRuns, Agent
<1>4. ProducersTogether' /\ ReviewersTogether'
  BY <1>1, <1>3 DEF TogetherInv, ProducersTogether, ReviewersTogether, Stopped, Awaiting
<1>5. QED
  BY <1>1, <1>3, <1>4 DEF TogetherInv, MainRunsAlone, BatchIsOver, LaunchedIsOpen,
     NobodyRunsAtTheEnd, Awaiting, Returned

LEMMA RestartTogether ==
    ASSUME Inv, TogetherInv, Restart
    PROVE  TogetherInv'
<1>1. pc' = "dead"
  BY DEF Restart
<1>2. MainRunsAlone'
  <2>1. CASE InterruptRunning
    BY <2>1 DEF InterruptRunning, MainRunsAlone, Agent
  <2>2. CASE UNCHANGED rows
    BY <2>2 DEF rows, TogetherInv, MainRunsAlone
  <2>3. QED BY <2>1, <2>2 DEF Restart
<1>3. QED
  BY <1>1, <1>2 DEF TogetherInv, BatchIsOver, LaunchedIsOpen, ProducersTogether,
     ReviewersTogether, NobodyRunsAtTheEnd, Returned

LEMMA StepKeepsTogether ==
    ASSUME Inv, Inv', TogetherInv, OneProducerAtATime, [Next]_vars
    PROVE  TogetherInv'
<1>1. CASE PlanningAnswered BY <1>1, PlanningAnsweredTogether
<1>2. CASE TransientMain BY <1>2, TransientMainTogether
<1>3. CASE LaunchProducers BY <1>3, LaunchProducersTogether
<1>4. CASE ProducersGathered \/ ReviewsGathered
  BY <1>4, GatheredTogether DEF ProducersGathered, ReviewsGathered
<1>5. CASE BatchCollected BY <1>5, BatchCollectedTogether
<1>6. CASE VerifierAnswered BY <1>6, VerifierAnsweredTogether
<1>7. CASE LaunchReviewers BY <1>7, LaunchReviewersTogether
<1>8. CASE ReviewersCollected BY <1>8, ReviewersCollectedTogether
<1>9. CASE RecordReview BY <1>9, RecordReviewTogether
<1>10. CASE LaunchSynthesis BY <1>10, LaunchSynthesisTogether
<1>11. CASE SynthesisAnswered BY <1>11, SynthesisAnsweredTogether
<1>12. CASE Complete BY <1>12, CompleteTogether
<1>13. CASE \E s \in Slot : CollectProducer(s) \/ CollectReviewer(s) \/ LaneStep(s)
  BY <1>13, CollectProducerTogether, CollectReviewerTogether, LaneStepTogether
<1>14. CASE CancelTask \/ CancelRun \/ Restart
  BY <1>14, CancelTaskTogether, CancelRunTogether, RestartTogether
<1>15. CASE Deadline \/ UNCHANGED vars
  BY <1>15, SameTogether DEF Deadline, rows, vars
<1>16. QED
  BY <1>1, <1>2, <1>3, <1>4, <1>5, <1>6, <1>7, <1>8, <1>9, <1>10, <1>11, <1>12, <1>13, <1>14,
     <1>15 DEF Next, DriverStep

(* A code workcell has one Writer: whatever its Reviewers answered, and however
   execute() came back, no Attempt of its run is still recorded as running.  Two
   producers in one batch break it, as a run of the model checker shows. *)
THEOREM OneProducerLeavesNoPhantom ==
    ASSUME OneProducerAtATime PROVE Spec => []NoPhantomAttempts
<1>1. Init => TogetherInv
  BY KernelAssumption
     DEF Init, Create, TogetherInv, MainRunsAlone, BatchIsOver, LaunchedIsOpen,
         ProducersTogether, ReviewersTogether, NobodyRunsAtTheEnd, Returned
<1>2. Inv /\ Inv' /\ TogetherInv /\ [Next]_vars => TogetherInv'
  BY StepKeepsTogether
<1>3. Inv /\ TogetherInv => NoPhantomAttempts
  BY DEF Inv, RowInv, AttemptMatchesAgent, TogetherInv, NobodyRunsAtTheEnd, NoPhantomAttempts
<1>4. QED BY <1>1, <1>2, <1>3, Invariance, PTL DEF Spec

-----------------------------------------------------------------------------
(* What an execution does to the rows, without who does it and when. *)

RowStep ==
    \/ MayPlan(Slot) /\ PutPlan(run, Slot)
    \/ \E s \in Children : StartChild(s) \/ FinishChild(s) \/ RetryChildAttempt(s)
    \/ \E s \in Children, error \in Error : FailChild(s, error)
    \/ \E a \in Agent, phase \in Phase : RetryTransient(a, phase)
    \/ RetrySynthesis
    \/ \E w \in Writers, verdict \in {"passed", "failed"} :
          MayVerify(w) /\ PutVerification(run, verdict)
    \/ \E s \in Reviewers, verdict \in {"clean", "blocking"} :
          MayReview(s) /\ PutReview(run, s, verdict)
    \/ MaySynthesize /\ StartSynthesis(run)
    \/ Writers = {} /\ MayValidate /\ PutResultValidation
    \/ MayComplete /\ PutResult(run)
    \/ ~Finished /\ \E status \in Terminal \ {"succeeded"}, error \in Error :
                       Terminate(run, status, error)
    \/ InterruptRunning

LEMMA StepIsRowStep ==
    ASSUME Inv, [Next]_vars
    PROVE  RowStep \/ UNCHANGED rows
<1> USE DEF RowStep
<1>1. CASE Raise \/ DeadlineError
  BY <1>1 DEF Raise, DeadlineError, Terminal, Error
<1>2. CASE PlanningAnswered
  BY <1>1, <1>2 DEF PlanningAnswered, TimedKernel, Kernel
<1>3. CASE TransientMain
  BY <1>3 DEF TransientMain, Agent, Phase
<1>4. ASSUME NEW s \in Children, Launch(s)
      PROVE  RowStep \/ UNCHANGED rows
  BY <1>1, <1>4 DEF Launch, TimedKernel, Kernel
<1>5. CASE LaunchProducers \/ LaunchReviewers
  BY <1>1, <1>4, <1>5
     DEF LaunchProducers, LaunchReviewers, Idle, Producers, Reviewers, Gather, Goto
<1>6. CASE ProducersGathered \/ ReviewsGathered \/ BatchCollected
  BY <1>6 DEF ProducersGathered, ReviewsGathered, BatchCollected, Gathered, Goto
<1>7. CASE VerifierAnswered
  BY <1>1, <1>7 DEF VerifierAnswered, Kernel
<1>8. CASE ReviewersCollected
  BY <1>1, <1>8 DEF ReviewersCollected, Goto
<1>9. CASE RecordReview
  BY <1>1, <1>9 DEF RecordReview, Kernel, Goto, Unrecorded, Verdict
<1>10. CASE LaunchSynthesis
  BY <1>1, <1>10 DEF LaunchSynthesis, TimedKernel, Kernel
<1>11. CASE SynthesisAnswered
  BY <1>1, <1>11 DEF SynthesisAnswered, Goto
<1>12. CASE Complete
  BY <1>1, <1>12 DEF Complete, Kernel
<1>13. ASSUME NEW s \in Slot, CollectProducer(s) \/ CollectReviewer(s)
       PROVE  RowStep \/ UNCHANGED rows
  BY <1>1, <1>13 DEF CollectProducer, CollectReviewer, Inv, Error
<1>14. ASSUME NEW s \in Slot, LaneStep(s)
       PROVE  RowStep \/ UNCHANGED rows
  BY <1>14 DEF LaneStep, LaneReturns, RetryChildAttempt, Agent, Phase
<1>15. CASE CancelTask \/ CancelRun
  BY <1>15 DEF CancelTask, CancelRun, Terminal, Error
<1>16. CASE Restart
  BY <1>16 DEF Restart
<1>17. CASE Deadline \/ UNCHANGED vars
  BY <1>17 DEF Deadline, vars, rows
<1>18. QED
  BY <1>2, <1>3, <1>5, <1>6, <1>7, <1>8, <1>9, <1>10, <1>11, <1>12, <1>13, <1>14, <1>15, <1>16,
     <1>17 DEF Next, DriverStep

-----------------------------------------------------------------------------
(* Refinement: what a step of an execution is to the pipeline. *)

LEMMA StepRefines ==
    ASSUME RowInv, RowStep \/ UNCHANGED rows
    PROVE  [Contract!Next]_(Contract!contract)
<1>1. CASE UNCHANGED rows
  BY <1>1, RefuseOrStutter DEF rows
<1>2. CASE MayPlan(Slot) /\ PutPlan(run, Slot)
  BY <1>2, PutPlanDelegates
<1>3. CASE \E s \in Children : StartChild(s) \/ FinishChild(s)
  BY <1>3, RefuseOrStutter DEF StartChild, FinishChild, Bump, RowInv, RowsTypeOK, RunRow
<1>4. CASE \E s \in Children, error \in Error : FailChild(s, error)
  <2>1. PICK s \in Children, error \in Error : FailChild(s, error)
    BY <1>4
  <2>2. run.status # "succeeded"
    BY <2>1, UnfinishedChild DEF FailChild
  <2>3. QED BY <2>1, <2>2, RefuseOrStutter DEF FailChild, Terminal
<1>5. CASE \/ \E s \in Children : RetryChildAttempt(s)
           \/ \E a \in Agent, phase \in Phase : RetryTransient(a, phase)
           \/ RetrySynthesis
  <2>1. PICK a, phase : AppendRetry(a, phase)
    BY <1>5 DEF RetryChildAttempt, RetryTransient, RetrySynthesis, RetryAttemptPhase
  <2>2. QED BY <2>1, RefuseOrStutter DEF AppendRetry, Bump, RowInv, RowsTypeOK, RunRow
<1>6. CASE \E w \in Writers, verdict \in {"passed", "failed"} :
              MayVerify(w) /\ PutVerification(run, verdict)
  BY <1>6, PutVerificationVerifies
<1>7. CASE \E s \in Reviewers, verdict \in {"clean", "blocking"} :
              MayReview(s) /\ PutReview(run, s, verdict)
  BY <1>7, PutReviewReviews
<1>8. CASE MaySynthesize /\ StartSynthesis(run)
  BY <1>8, RefuseOrStutter DEF MaySynthesize, Finished, StartSynthesis, CompareAndSet, Terminal
<1>9. CASE PutResultValidation
  BY <1>9, RefuseOrStutter DEF PutResultValidation
<1>10. CASE MayComplete /\ PutResult(run)
  BY <1>10, PutResultAccepts
<1>11. CASE ~Finished /\ \E status \in Terminal \ {"succeeded"}, error \in Error :
                            Terminate(run, status, error)
  BY <1>11, RefuseOrStutter DEF Finished, Terminate, CompareAndSet, Terminal
<1>12. CASE InterruptRunning
  <2>1. PICK a \in Agent : agent[a] = "running"
    BY <1>12 DEF InterruptRunning, RowInv, AttemptMatchesAgent
  <2>2. run.status # "succeeded"
    BY <2>1 DEF RowInv, SucceededOnEvidence, UnplannedIsAbsent, Agent
  <2>3. QED BY <1>12, <2>2, RefuseOrStutter DEF InterruptRunning, Terminal
<1>13. QED
  BY <1>1, <1>2, <1>3, <1>4, <1>5, <1>6, <1>7, <1>8, <1>9, <1>10, <1>11, <1>12 DEF RowStep

(* One execution keeps the promise of WorkcellContract. *)
THEOREM DriverImplementsContract == Spec => ImplementsContract
<1>1. Init => Contract!Init
  BY DEF Init, Create, Contract!Init, Finished, Terminal, Children
<1>2. Inv /\ [Next]_vars => [Contract!Next]_(Contract!contract)
  BY StepIsRowStep, StepRefines DEF Inv
<1>3. QED BY <1>1, <1>2, Invariance, PTL DEF Spec, ImplementsContract, Contract!Spec

-----------------------------------------------------------------------------
(* What an execution calls a success the acceptance of the release calls one.
   The acceptance looks at every Attempt of the run: the invariant says, for
   every AgentRun that runs or has succeeded, how its Attempts got there. *)

(* max_transient_attempts is 1 or 2 (DelegationPolicy), and nothing overrides
   the max_attempts = 2 of the other retries. *)
AtMostOneRetry == MaxAttempts <= 2 /\ MaxTransientAttempts <= 2

ChildTale(h, status) ==
    /\ status \in {"absent", "planned"} => h = <<>>
    /\ status \in {"running", "succeeded"} =>
          /\ Len(h) \in 1 .. 2 /\ InPhase(h, "delegate", 1, Len(h))
          /\ Len(h) = 2 => h[1].status = "failed"
          /\ h[Len(h)].status = status

(* p planning Attempts, then q of synthesis, the last of each the one that counts. *)
MainAttempts(h, status, p, q) ==
    /\ Len(h) = p + q
    /\ InPhase(h, "planning", 1, p) /\ InPhase(h, "synthesis", p + 1, p + q)
    /\ p = 2 => h[1].status = "failed"
    /\ q > 0 => h[p].status = "succeeded"
    /\ q = 2 => h[p + 1].status = "failed"
    /\ h[p + q].status = IF status = "running" THEN "running" ELSE "succeeded"
    /\ status = "waiting" => q = 0
    /\ status = "succeeded" => q > 0

MainTale(h, status) ==
    status \in {"running", "waiting", "succeeded"} =>
        \E p \in 1 .. 2, q \in 0 .. 2 : MainAttempts(h, status, p, q)

Histories ==
    /\ \A s \in Slot : ChildTale(attempts[s], agent[s])
    /\ MainTale(attempts[Main], agent[Main])

(* The plan is the whole team, within the policy, before Main may synthesize. *)
PlanIsTeam ==
    /\ plan # {} =>
          /\ plan = {Slot} /\ Cardinality(Slot) <= MaxChildren
          /\ Cardinality({s \in Slot : Purpose[s] = "workspace_write"}) <= MaxWriters
    /\ run.status \in {"synthesizing", "succeeded"} \/ agent[Main] = "waiting" => plan # {}

(* A team with a Writer is verified, one without is validated. *)
EvidenceOfTeam ==
    /\ verification # "none" => \E s \in Slot : Purpose[s] = "workspace_write"
    /\ validation # "none" => \A s \in Slot : Purpose[s] # "workspace_write"

HistoryInv == Histories /\ PlanIsTeam /\ EvidenceOfTeam

(* Closing: an Attempt that is not running keeps its status, none its phase. *)
LEMMA CloseElements ==
    ASSUME NEW s \in Seq(AttemptRow), NEW status
    PROVE  \A i \in 1 .. Len(s) :
              /\ Close(s, status)[i].phase = s[i].phase
              /\ Close(s, status)[i].status =
                    IF s[i].status = "running" THEN status ELSE s[i].status
<1>1. DOMAIN s = 1 .. Len(s) /\ \A i \in 1 .. Len(s) : s[i] \in AttemptRow
  BY LenProperties, ElementOfSeq
<1>2. QED BY <1>1 DEF Close, AttemptRow

LEMMA ClosePhaseElements ==
    ASSUME NEW s \in Seq(AttemptRow), NEW phase, NEW status
    PROVE  \A i \in 1 .. Len(s) :
              /\ ClosePhase(s, phase, status)[i].phase = s[i].phase
              /\ ClosePhase(s, phase, status)[i].status =
                    IF s[i].status = "running" /\ s[i].phase = phase THEN status ELSE s[i].status
<1>1. DOMAIN s = 1 .. Len(s) /\ \A i \in 1 .. Len(s) : s[i] \in AttemptRow
  BY LenProperties, ElementOfSeq
<1>2. QED BY <1>1 DEF ClosePhase, AttemptRow

LEMMA CloseNothing ==
    ASSUME NEW s \in Seq(AttemptRow), NEW status, Open(s) = {}
    PROVE  Close(s, status) = s
<1>1. s = [i \in 1 .. Len(s) |-> s[i]] /\ DOMAIN s = 1 .. Len(s)
  BY LenProperties, SeqDef
<1>2. \A i \in DOMAIN s : s[i].status # "running"
  BY DEF Open
<1>3. QED BY <1>1, <1>2 DEF Close

LEMMA AppendElements ==
    ASSUME NEW s \in Seq(AttemptRow), NEW phase \in Phase
    PROVE  /\ Len(Append(s, Row(phase))) = Len(s) + 1 /\ Len(s) \in Nat
           /\ \A i \in 1 .. Len(s) : Append(s, Row(phase))[i] = s[i]
           /\ Append(s, Row(phase))[Len(s) + 1].phase = phase
           /\ Append(s, Row(phase))[Len(s) + 1].status = "running"
<1>1. Row(phase) \in AttemptRow
  BY DEF Row, AttemptRow
<1>2. QED BY <1>1, AppendProperties, LenProperties DEF Row

LEMMA RetriedElements ==
    ASSUME NEW s \in Seq(AttemptRow), NEW phase \in Phase,
           NEW t, t = Append(Close(s, "failed"), Row(phase))
    PROVE  /\ Len(t) = Len(s) + 1 /\ Len(s) \in Nat
           /\ \A i \in 1 .. Len(s) :
                 /\ t[i].phase = s[i].phase
                 /\ t[i].status = IF s[i].status = "running" THEN "failed" ELSE s[i].status
           /\ t[Len(s) + 1].phase = phase /\ t[Len(s) + 1].status = "running"
<1> DEFINE closed == Close(s, "failed")
<1>1. closed \in Seq(AttemptRow) /\ Len(closed) = Len(s)
  BY CloseAttempts DEF Terminal
<1>2. \A i \in 1 .. Len(s) :
         /\ closed[i].phase = s[i].phase
         /\ closed[i].status = IF s[i].status = "running" THEN "failed" ELSE s[i].status
  BY CloseElements
<1>3. t = Append(closed, Row(phase))
  OBVIOUS
<1> HIDE DEF closed
<1>4. /\ Len(t) = Len(closed) + 1 /\ Len(closed) \in Nat
      /\ \A i \in 1 .. Len(closed) : t[i] = closed[i]
      /\ t[Len(closed) + 1].phase = phase /\ t[Len(closed) + 1].status = "running"
  BY <1>1, <1>3, AppendElements
<1>5. ASSUME NEW i \in 1 .. Len(s)
      PROVE  /\ t[i].phase = s[i].phase
             /\ t[i].status = IF s[i].status = "running" THEN "failed" ELSE s[i].status
  <2>1. t[i] = closed[i]
    BY <1>1, <1>4
  <2>2. QED BY <1>2, <2>1
<1>6. QED BY <1>1, <1>4, <1>5

LEMMA MainPhases ==
    ASSUME NEW h \in Seq(AttemptRow), NEW status, NEW p \in 1 .. 2, NEW q \in 0 .. 2,
           MainAttempts(h, status, p, q)
    PROVE  /\ PhaseAttempts(h, "planning") = 1 .. p
           /\ PhaseAttempts(h, "synthesis") = p + 1 .. p + q
           /\ Cardinality(PhaseAttempts(h, "planning")) = p
           /\ Cardinality(PhaseAttempts(h, "synthesis")) = q
<1>1. DOMAIN h = 1 .. p + q
  BY LenProperties DEF MainAttempts
<1>2. /\ \A i \in 1 .. p : h[i].phase = "planning"
      /\ \A i \in p + 1 .. p + q : h[i].phase = "synthesis"
  BY DEF MainAttempts, InPhase
<1>3. PhaseAttempts(h, "planning") = 1 .. p /\ PhaseAttempts(h, "synthesis") = p + 1 .. p + q
  BY <1>1, <1>2 DEF PhaseAttempts
<1>4. /\ Cardinality(1 .. p) = IF 1 > p THEN 0 ELSE p - 1 + 1
      /\ Cardinality(p + 1 .. p + q) = IF p + 1 > p + q THEN 0 ELSE p + q - (p + 1) + 1
  <2>1. 1 \in Int /\ p \in Int /\ p + 1 \in Int /\ p + q \in Int
    OBVIOUS
  <2>2. QED BY <2>1, FS_Interval
<1>5. QED BY <1>3, <1>4

-----------------------------------------------------------------------------
(* An AgentRun whose Attempts nobody touches, or that is over without success. *)
TaleStays(a) ==
    \/ agent'[a] = agent[a] /\ attempts'[a] = attempts[a]
    \/ agent'[a] \in Terminal \ {"succeeded"}

LEMMA HistoriesKept ==
    ASSUME Histories,
           \A s \in Slot : TaleStays(s) \/ ChildTale(attempts'[s], agent'[s]),
           TaleStays(Main) \/ MainTale(attempts'[Main], agent'[Main])
    PROVE  Histories'
<1>1. \A h, status : status \in Terminal \ {"succeeded"} => ChildTale(h, status) /\ MainTale(h, status)
  BY DEF ChildTale, MainTale, Terminal
<1>2. QED BY <1>1 DEF Histories, TaleStays

(* Every AgentRun ends at once, or was over. *)
LEMMA AllStopHistories ==
    ASSUME RowInv, Histories, NEW status \in Terminal \ {"succeeded"},
           attempts' = [a \in Agent |-> Close(attempts[a], status)],
           \A a \in Agent : agent'[a] = agent[a] \/ agent'[a] \in Terminal \ {"succeeded"},
           \A a \in Agent : agent[a] = "running" => agent'[a] # "running"
    PROVE  Histories'
<1>1. ASSUME NEW a \in Agent PROVE TaleStays(a)
  <2>1. CASE agent'[a] \in Terminal \ {"succeeded"}
    BY <2>1 DEF TaleStays
  <2>2. CASE agent'[a] = agent[a]
    <3>1. attempts[a] \in Seq(AttemptRow) /\ Open(attempts[a]) = {}
      BY <2>2 DEF RowInv, RowsTypeOK, AttemptMatchesAgent
    <3>2. QED BY <2>2, <3>1, CloseNothing DEF TaleStays
  <2>3. QED BY <2>1, <2>2
<1>2. QED BY <1>1, PlannedSlots, HistoriesKept

LEMMA StartHistories ==
    ASSUME RowInv, Histories, NEW s \in Children, StartChild(s)
    PROVE  Histories'
<1>1. s \in Slot /\ s \in Agent /\ s # Main /\ "delegate" \in Phase
  BY PlannedSlots DEF Phase
<1>2. /\ attempts'[s] = Append(attempts[s], Row("delegate")) /\ agent'[s] = "running"
      /\ \A a \in Agent \ {s} : TaleStays(a)
  BY <1>1 DEF StartChild, RowInv, RowsTypeOK, TaleStays
<1>3. attempts[s] = <<>> /\ attempts[s] \in Seq(AttemptRow)
  BY <1>1 DEF StartChild, Histories, ChildTale, RowInv, RowsTypeOK
<1>4. /\ Len(attempts'[s]) = 1 /\ attempts'[s][1].phase = "delegate"
      /\ attempts'[s][1].status = "running"
  <2>1. Len(attempts[s]) = 0
    BY <1>3, EmptySeq
  <2>2. attempts[s] \in Seq(AttemptRow)
    BY <1>3
  <2>3. QED BY <1>1, <1>2, <2>1, <2>2, AppendElements
<1>5. ChildTale(attempts'[s], agent'[s])
  BY <1>2, <1>4 DEF ChildTale, InPhase
<1>6. QED BY <1>1, <1>2, <1>5, PlannedSlots, HistoriesKept

LEMMA EndChildHistories ==
    ASSUME RowInv, Histories, NEW s \in Children, FinishChild(s) \/ \E e : FailChild(s, e)
    PROVE  Histories'
<1>1. s \in Slot /\ s \in Agent /\ s # Main
  BY PlannedSlots
<1>2. \A a \in Agent \ {s} : TaleStays(a)
  BY <1>1 DEF FinishChild, FailChild, RowInv, RowsTypeOK, TaleStays, Terminal
<1>3. CASE \E e : FailChild(s, e)
  <2>1. TaleStays(s)
    BY <1>1, <1>3 DEF FailChild, TaleStays, Terminal
  <2>2. QED BY <1>1, <1>2, <2>1, PlannedSlots, HistoriesKept
<1>4. CASE FinishChild(s)
  <2>1. /\ attempts'[s] = Close(attempts[s], "succeeded") /\ agent'[s] = "succeeded"
        /\ agent[s] = "running" /\ attempts[s] \in Seq(AttemptRow)
    BY <1>1, <1>4 DEF FinishChild, RowInv, RowsTypeOK
  <2>2. ChildTale(attempts[s], "running")
    BY <1>1, <2>1 DEF Histories
  <2>3. Len(attempts'[s]) = Len(attempts[s])
    BY <2>1, CloseAttempts DEF Terminal
  <2>4. \A i \in 1 .. Len(attempts[s]) :
           /\ attempts'[s][i].phase = attempts[s][i].phase
           /\ attempts'[s][i].status = IF attempts[s][i].status = "running" THEN "succeeded"
                                       ELSE attempts[s][i].status
    BY <2>1, CloseElements
  <2>5. ChildTale(attempts'[s], "succeeded")
    BY <2>2, <2>3, <2>4 DEF ChildTale, InPhase
  <2>6. QED BY <1>1, <1>2, <2>1, <2>5, PlannedSlots, HistoriesKept
<1>5. QED BY <1>3, <1>4

LEMMA RetryChildHistories ==
    ASSUME RowInv, Histories, NEW s \in Slot, AppendRetry(s, "delegate"),
           agent[s] = "running", Len(attempts[s]) < 2
    PROVE  Histories'
<1>1. s \in Agent /\ s # Main /\ "delegate" \in Phase
  BY PlannedSlots DEF Phase
<1>2. /\ attempts'[s] = Append(Close(attempts[s], "failed"), Row("delegate"))
      /\ agent'[s] = "running" /\ attempts[s] \in Seq(AttemptRow)
      /\ \A a \in Agent \ {s} : TaleStays(a)
  BY <1>1 DEF AppendRetry, RowInv, RowsTypeOK, TaleStays
<1>3. Len(attempts[s]) = 1 /\ attempts[s][1].phase = "delegate" /\ attempts[s][1].status = "running"
  BY DEF Histories, ChildTale, InPhase
<1>4. /\ Len(attempts'[s]) = 2
      /\ attempts'[s][1].phase = "delegate" /\ attempts'[s][1].status = "failed"
      /\ attempts'[s][2].phase = "delegate" /\ attempts'[s][2].status = "running"
  BY <1>1, <1>2, <1>3, RetriedElements
<1>5. ChildTale(attempts'[s], agent'[s])
  BY <1>2, <1>4 DEF ChildTale, InPhase
<1>6. QED BY <1>1, <1>2, <1>5, PlannedSlots, HistoriesKept

(* The Attempt that Main runs is its newest. *)
LEMMA MainRuns ==
    ASSUME RowInv, Histories, agent[Main] = "running"
    PROVE  /\ attempts[Main] \in Seq(AttemptRow) /\ Len(attempts[Main]) > 0
           /\ Open(attempts[Main]) = {Len(attempts[Main])}
           /\ \E p \in 1 .. 2, q \in 0 .. 2 : MainAttempts(attempts[Main], "running", p, q)
<1>1. Main \in Agent
  BY DEF Agent
<1>2. \E p \in 1 .. 2, q \in 0 .. 2 : MainAttempts(attempts[Main], "running", p, q)
  BY DEF Histories, MainTale
<1>3. Len(attempts[Main]) > 0
  BY <1>2 DEF MainAttempts
<1>4. QED BY <1>1, <1>2, <1>3 DEF RowInv, RowsTypeOK, AttemptMatchesAgent

LEMMA PlanHistories ==
    ASSUME RowInv, Histories, PutPlan(run, Slot)
    PROVE  Histories'
<1>1. /\ agent[Main] = "running" /\ Main \in Agent /\ Main \notin Slot /\ plan = {}
      /\ \A i \in Open(attempts[Main]) : attempts[Main][i].phase = "planning"
  BY KernelAssumption DEF PutPlan, RowInv, MainInPhase, Agent
<1>2. /\ attempts'[Main] = ClosePhase(attempts[Main], "planning", "succeeded")
      /\ agent'[Main] = "waiting"
      /\ \A s \in Slot : attempts'[s] = attempts[s] /\ agent'[s] = "planned"
  BY <1>1 DEF PutPlan, RowInv, RowsTypeOK, Agent
<1>3. \A s \in Slot : ChildTale(attempts'[s], agent'[s])
  BY <1>1, <1>2 DEF RowInv, UnplannedIsAbsent, Children, Histories, ChildTale
<1>4. PICK p \in 1 .. 2, q \in 0 .. 2 : MainAttempts(attempts[Main], "running", p, q)
  BY <1>1, MainRuns
<1>5. /\ attempts[Main] \in Seq(AttemptRow) /\ Len(attempts[Main]) = p + q
      /\ attempts[Main][p + q].phase = "planning" /\ attempts[Main][p + q].status = "running"
  BY <1>1, <1>4, MainRuns DEF MainAttempts
<1>6. q = 0
  BY <1>4, <1>5 DEF MainAttempts, InPhase
<1>7. /\ Len(attempts'[Main]) = p
      /\ \A i \in 1 .. p :
            /\ attempts'[Main][i].phase = attempts[Main][i].phase
            /\ attempts'[Main][i].status =
                  IF attempts[Main][i].status = "running" /\ attempts[Main][i].phase = "planning"
                  THEN "succeeded" ELSE attempts[Main][i].status
  <2>1. Len(attempts'[Main]) = Len(attempts[Main])
    BY <1>2, <1>5, ClosePhaseAttempts DEF Phase, Terminal
  <2>2. QED BY <1>2, <1>5, <1>6, <2>1, ClosePhaseElements
<1>8. MainAttempts(attempts'[Main], "waiting", p, 0)
  BY <1>4, <1>5, <1>6, <1>7 DEF MainAttempts, InPhase
<1>9. MainTale(attempts'[Main], agent'[Main])
  BY <1>2, <1>8 DEF MainTale
<1>10. QED BY <1>3, <1>9 DEF Histories

LEMMA SynthesisHistories ==
    ASSUME RowInv, Histories, StartSynthesis(run)
    PROVE  Histories'
<1>1. agent[Main] = "waiting" /\ Main \in Agent /\ "synthesis" \in Phase
  BY DEF StartSynthesis, Agent, Phase
<1>2. /\ attempts'[Main] = Append(attempts[Main], Row("synthesis")) /\ agent'[Main] = "running"
      /\ attempts[Main] \in Seq(AttemptRow)
      /\ \A s \in Slot : TaleStays(s)
  BY <1>1, PlannedSlots DEF StartSynthesis, RowInv, RowsTypeOK, TaleStays
<1>3. PICK p \in 1 .. 2 : MainAttempts(attempts[Main], "waiting", p, 0)
  BY <1>1 DEF Histories, MainTale, MainAttempts
<1>4. Len(attempts[Main]) = p
  BY <1>3 DEF MainAttempts
<1>5. /\ Len(attempts'[Main]) = p + 1
      /\ \A i \in 1 .. p : attempts'[Main][i] = attempts[Main][i]
      /\ attempts'[Main][p + 1].phase = "synthesis" /\ attempts'[Main][p + 1].status = "running"
  BY <1>1, <1>2, <1>4, AppendElements
<1>6. MainAttempts(attempts'[Main], "running", p, 1)
  BY <1>3, <1>5 DEF MainAttempts, InPhase
<1>7. MainTale(attempts'[Main], agent'[Main])
  BY <1>2, <1>6 DEF MainTale
<1>8. QED BY <1>2, <1>7, HistoriesKept

(* A second Attempt of the phase that runs, while it has had one. *)
LEMMA RetryMainHistories ==
    ASSUME RowInv, Histories, NEW phase \in {"planning", "synthesis"}, AppendRetry(Main, phase),
           \E i \in Open(attempts[Main]) : attempts[Main][i].phase = phase,
           Cardinality(PhaseAttempts(attempts[Main], phase)) < 2
    PROVE  Histories'
<1>1. agent[Main] = "running" /\ Main \in Agent /\ phase \in Phase
  BY DEF RowInv, AttemptMatchesAgent, Agent, Phase
<1>2. /\ attempts'[Main] = Append(Close(attempts[Main], "failed"), Row(phase))
      /\ agent'[Main] = "running" /\ attempts[Main] \in Seq(AttemptRow)
      /\ \A s \in Slot : TaleStays(s)
  BY <1>1, PlannedSlots DEF AppendRetry, RowInv, RowsTypeOK, TaleStays
<1>3. PICK p \in 1 .. 2, q \in 0 .. 2 : MainAttempts(attempts[Main], "running", p, q)
  BY <1>1, MainRuns
<1>4. /\ Len(attempts[Main]) = p + q
      /\ attempts[Main][p + q].phase = phase /\ attempts[Main][p + q].status = "running"
  BY <1>1, <1>3, MainRuns DEF MainAttempts
<1>5. /\ Len(attempts'[Main]) = p + q + 1
      /\ \A i \in 1 .. p + q :
            /\ attempts'[Main][i].phase = attempts[Main][i].phase
            /\ attempts'[Main][i].status = IF attempts[Main][i].status = "running" THEN "failed"
                                           ELSE attempts[Main][i].status
      /\ attempts'[Main][p + q + 1].phase = phase
      /\ attempts'[Main][p + q + 1].status = "running"
  <2> DEFINE h == attempts[Main]
             t == attempts'[Main]
  <2>1. h \in Seq(AttemptRow) /\ t = Append(Close(h, "failed"), Row(phase))
    BY <1>2
  <2> HIDE DEF h, t
  <2>2. /\ Len(t) = Len(h) + 1
        /\ \A i \in 1 .. Len(h) :
              /\ t[i].phase = h[i].phase
              /\ t[i].status = IF h[i].status = "running" THEN "failed" ELSE h[i].status
        /\ t[Len(h) + 1].phase = phase /\ t[Len(h) + 1].status = "running"
    <3>1. phase \in Phase
      BY <1>1
    <3>2. QED BY <3>1, <2>1, RetriedElements
  <2>3. Len(h) = p + q
    BY <1>4 DEF h
  <2>4. /\ Len(t) = p + q + 1
        /\ \A i \in 1 .. p + q :
              /\ t[i].phase = h[i].phase
              /\ t[i].status = IF h[i].status = "running" THEN "failed" ELSE h[i].status
        /\ t[p + q + 1].phase = phase /\ t[p + q + 1].status = "running"
    BY <2>2, <2>3
  <2>5. QED BY <2>4 DEF h, t
<1>6. CASE phase = "planning"
  <2>1. q = 0
    BY <1>3, <1>4, <1>6 DEF MainAttempts, InPhase
  <2>2. p = 1
    BY <1>2, <1>3, <1>6, MainPhases
  <2>3. MainAttempts(attempts'[Main], "running", 2, 0)
    BY <1>3, <1>4, <1>5, <1>6, <2>1, <2>2 DEF MainAttempts, InPhase
  <2>4. QED BY <1>2, <2>3, HistoriesKept DEF MainTale
<1>7. CASE phase = "synthesis"
  <2>1. q # 0
    BY <1>3, <1>4, <1>7 DEF MainAttempts, InPhase
  <2>2. q = 1
    BY <1>2, <1>3, <1>7, <2>1, MainPhases
  <2>3. MainAttempts(attempts'[Main], "running", p, 2)
    BY <1>3, <1>4, <1>5, <1>7, <2>2 DEF MainAttempts, InPhase
  <2>4. QED BY <1>2, <2>3, HistoriesKept DEF MainTale
<1>8. QED BY <1>6, <1>7

LEMMA ResultHistories ==
    ASSUME RowInv, Histories, MayComplete, PutResult(run)
    PROVE  Histories'
<1>1. /\ agent[Main] = "running" /\ Main \in Agent
      /\ \A i \in Open(attempts[Main]) : attempts[Main][i].phase = "synthesis"
  BY DEF MayComplete, RowInv, MainInPhase, Agent
<1>2. /\ attempts'[Main] = ClosePhase(attempts[Main], "synthesis", "succeeded")
      /\ agent'[Main] = "succeeded"
      /\ \A s \in Slot : TaleStays(s)
  BY <1>1, PlannedSlots DEF PutResult, RowInv, RowsTypeOK, TaleStays
<1>3. PICK p \in 1 .. 2, q \in 0 .. 2 : MainAttempts(attempts[Main], "running", p, q)
  BY <1>1, MainRuns
<1>4. /\ attempts[Main] \in Seq(AttemptRow) /\ Len(attempts[Main]) = p + q
      /\ attempts[Main][p + q].phase = "synthesis" /\ attempts[Main][p + q].status = "running"
  BY <1>1, <1>3, MainRuns DEF MainAttempts
<1>5. q # 0
  BY <1>3, <1>4 DEF MainAttempts, InPhase
<1>6. /\ Len(attempts'[Main]) = p + q
      /\ \A i \in 1 .. p + q :
            /\ attempts'[Main][i].phase = attempts[Main][i].phase
            /\ attempts'[Main][i].status =
                  IF attempts[Main][i].status = "running" /\ attempts[Main][i].phase = "synthesis"
                  THEN "succeeded" ELSE attempts[Main][i].status
  <2>1. Len(attempts'[Main]) = Len(attempts[Main])
    BY <1>2, <1>4, ClosePhaseAttempts DEF Phase, Terminal
  <2>2. QED BY <1>2, <1>4, <2>1, ClosePhaseElements
<1>7. MainAttempts(attempts'[Main], "succeeded", p, q)
  BY <1>3, <1>4, <1>5, <1>6 DEF MainAttempts, InPhase
<1>8. MainTale(attempts'[Main], agent'[Main])
  BY <1>2, <1>7 DEF MainTale
<1>9. QED BY <1>2, <1>8, HistoriesKept
LEMMA OneBefore ==
    ASSUME NEW n \in 1 .. 2, NEW i \in 1 .. n, i # n
    PROVE  n = 2 /\ i = 1
OBVIOUS

LEMMA UpTo ==
    ASSUME NEW n \in Nat \ {0}
    PROVE  Cardinality(1 .. n) = n
<1>1. 1 \in Int /\ n \in Int
  OBVIOUS
<1>2. Cardinality(1 .. n) = IF 1 > n THEN 0 ELSE n - 1 + 1
  BY <1>1, FS_Interval
<1>3. QED BY <1>2

LEMMA PhaseCount ==
    ASSUME NEW h \in Seq(AttemptRow), NEW phase
    PROVE  Cardinality(PhaseAttempts(h, phase)) \in Nat
<1>1. Len(h) \in Nat /\ DOMAIN h = 1 .. Len(h)
  BY LenProperties
<1>2. IsFiniteSet(1 .. Len(h))
  <2>1. 1 \in Int /\ Len(h) \in Int
    BY <1>1
  <2>2. QED BY <2>1, FS_Interval
<1>3. PhaseAttempts(h, phase) \subseteq 1 .. Len(h)
  BY <1>1 DEF PhaseAttempts
<1>4. QED BY <1>2, <1>3, FS_Subset, FS_CardinalityType

(* The transient retry of a Reviewer finds it with a single Attempt. *)
LEMMA TransientChild ==
    ASSUME RowInv, Histories, AtMostOneRetry, NEW s \in Slot, NEW phase,
           RetryTransient(s, phase)
    PROVE  AppendRetry(s, "delegate") /\ agent[s] = "running" /\ Len(attempts[s]) < 2
<1>1. s \in Agent /\ s # Main /\ MaxTransientAttempts \in Nat /\ MaxTransientAttempts <= 2
  BY PlannedSlots, KernelAssumption DEF AtMostOneRetry
<1>2. /\ phase = "delegate" /\ AppendRetry(s, "delegate") /\ Open(attempts[s]) # {}
      /\ Cardinality(PhaseAttempts(attempts[s], "delegate")) < MaxTransientAttempts
  BY <1>1 DEF RetryTransient, RetryAttemptPhase
<1>3. agent[s] = "running" /\ attempts[s] \in Seq(AttemptRow)
  BY <1>1, <1>2 DEF RowInv, RowsTypeOK, AttemptMatchesAgent
<1>4. /\ Len(attempts[s]) \in 1 .. 2
      /\ \A i \in 1 .. Len(attempts[s]) : attempts[s][i].phase = "delegate"
  BY <1>3 DEF Histories, ChildTale, InPhase
<1>5. PhaseAttempts(attempts[s], "delegate") = 1 .. Len(attempts[s])
  BY <1>3, <1>4, LenProperties DEF PhaseAttempts
<1>6. Cardinality(1 .. Len(attempts[s])) = Len(attempts[s])
  BY <1>4, UpTo
<1>7. Len(attempts[s]) < 2
  BY <1>1, <1>2, <1>4, <1>5, <1>6
<1>8. QED BY <1>2, <1>3, <1>7

LEMMA RetryHistories ==
    ASSUME RowInv, Histories, AtMostOneRetry,
           \/ \E s \in Children : RetryChildAttempt(s)
           \/ \E a \in Agent, phase \in Phase : RetryTransient(a, phase)
           \/ RetrySynthesis
    PROVE  Histories'
<1>1. /\ MaxAttempts \in Nat /\ MaxAttempts <= 2
      /\ MaxTransientAttempts \in Nat /\ MaxTransientAttempts <= 2
  BY KernelAssumption DEF AtMostOneRetry
<1>2. ASSUME NEW s \in Children, RetryChildAttempt(s)
      PROVE  Histories'
  <2>1. s \in Slot /\ s \in Agent /\ agent[s] = "running" /\ AppendRetry(s, "delegate")
    BY <1>2, PlannedSlots DEF RetryChildAttempt
  <2>2. Len(attempts[s]) \in 1 .. 2 /\ Len(attempts[s]) < MaxAttempts
    BY <1>2, <2>1 DEF RetryChildAttempt, Histories, ChildTale
  <2>3. Len(attempts[s]) < 2
    BY <1>1, <2>2
  <2>4. QED BY <2>1, <2>3, RetryChildHistories
<1>3. ASSUME NEW phase \in {"planning", "synthesis"}, NEW limit \in Nat, limit <= 2,
             RetryAttemptPhase(Main, phase, limit)
      PROVE  Histories'
  <2>1. /\ \E i \in Open(attempts[Main]) : attempts[Main][i].phase = phase
        /\ Cardinality(PhaseAttempts(attempts[Main], phase)) < limit
        /\ AppendRetry(Main, phase)
    BY <1>3 DEF RetryAttemptPhase
  <2>2. Cardinality(PhaseAttempts(attempts[Main], phase)) \in Nat
    BY PlannedSlots, PhaseCount DEF RowInv, RowsTypeOK
  <2>3. Cardinality(PhaseAttempts(attempts[Main], phase)) < 2
    BY <1>3, <2>1, <2>2
  <2>4. QED BY <2>1, <2>3, RetryMainHistories
<1>4. ASSUME NEW a \in Agent, NEW phase \in Phase, RetryTransient(a, phase)
      PROVE  Histories'
  <2>1. CASE a = Main
    BY <1>1, <1>3, <1>4, <2>1 DEF RetryTransient
  <2>2. CASE a \in Slot
    BY <1>4, <2>2, TransientChild, RetryChildHistories
  <2>3. QED BY <2>1, <2>2 DEF Agent
<1>5. CASE RetrySynthesis
  BY <1>1, <1>3, <1>5 DEF RetrySynthesis
<1>6. QED BY <1>2, <1>4, <1>5

LEMMA StepKeepsHistories ==
    ASSUME RowInv, Histories, AtMostOneRetry, RowStep \/ UNCHANGED rows
    PROVE  Histories'
<1>1. CASE MayPlan(Slot) /\ PutPlan(run, Slot)
  BY <1>1, PlanHistories
<1>2. CASE \E s \in Children : StartChild(s)
  BY <1>2, StartHistories
<1>3. CASE \/ \E s \in Children : FinishChild(s)
           \/ \E s \in Children, error \in Error : FailChild(s, error)
  BY <1>3, EndChildHistories
<1>4. CASE \/ \E s \in Children : RetryChildAttempt(s)
           \/ \E a \in Agent, phase \in Phase : RetryTransient(a, phase)
           \/ RetrySynthesis
  BY <1>4, RetryHistories
<1>5. CASE UNCHANGED <<agent, attempts>>
  BY <1>5 DEF Histories
<1>6. CASE StartSynthesis(run)
  BY <1>6, SynthesisHistories
<1>7. CASE MayComplete /\ PutResult(run)
  BY <1>7, ResultHistories
<1>8. CASE \E status \in Terminal \ {"succeeded"}, error \in Error : Terminate(run, status, error)
  <2>1. PICK status \in Terminal \ {"succeeded"}, error \in Error : Terminate(run, status, error)
    BY <1>8
  <2>2. /\ attempts' = [a \in Agent |-> Close(attempts[a], status)]
        /\ \A a \in Agent : agent'[a] = IF agent[a] \in Unfinished THEN status ELSE agent[a]
    BY <2>1 DEF Terminate
  <2>3. QED BY <2>2, AllStopHistories DEF Unfinished, Terminal
<1>9. CASE InterruptRunning
  <2>1. /\ attempts' = [a \in Agent |-> Close(attempts[a], "interrupted")]
        /\ \A a \in Agent :
              agent'[a] = IF agent[a] = "running" THEN "interrupted"
                          ELSE IF agent[a] \in {"planned", "waiting"} THEN "cancelled"
                          ELSE agent[a]
    BY <1>9 DEF InterruptRunning
  <2>2. QED BY <2>1, AllStopHistories DEF Terminal
<1>10. CASE \/ \E w \in Writers, verdict \in {"passed", "failed"} : PutVerification(run, verdict)
            \/ \E s \in Reviewers, verdict \in {"clean", "blocking"} : PutReview(run, s, verdict)
            \/ PutResultValidation \/ UNCHANGED rows
  BY <1>5, <1>10 DEF PutVerification, PutReview, PutResultValidation, rows
<1>11. QED
  BY <1>1, <1>2, <1>3, <1>4, <1>6, <1>7, <1>8, <1>9, <1>10 DEF RowStep
(* Nothing but a plan of the whole team is ever frozen, and nothing but the
   synthesis and its result leads where a plan is needed. *)
LEMMA StepKeepsPlan ==
    ASSUME RowInv, PlanIsTeam, RowStep \/ UNCHANGED rows
    PROVE  PlanIsTeam'
<1>1. CASE MayPlan(Slot) /\ PutPlan(run, Slot)
  BY <1>1 DEF MayPlan, PutPlan, PlanIsTeam
<1>2. ASSUME UNCHANGED plan,
             run'.status \in {"synthesizing", "succeeded"} =>
                run.status \in {"synthesizing", "succeeded"} \/ agent[Main] = "waiting",
             agent'[Main] = "waiting" => agent[Main] = "waiting"
      PROVE  PlanIsTeam'
  BY <1>2 DEF PlanIsTeam
<1>3. /\ Main \in Agent /\ (\A s \in Children : s # Main) /\ run \in RunRow
      /\ agent \in [Agent -> AgentStatus]
  BY PlannedSlots DEF RowInv, RowsTypeOK
<1>4. CASE \E s \in Children : StartChild(s) \/ FinishChild(s)
  BY <1>2, <1>3, <1>4 DEF StartChild, FinishChild, Bump, RunRow
<1>5. CASE \E s \in Children, error \in Error : FailChild(s, error)
  BY <1>2, <1>3, <1>5 DEF FailChild
<1>6. CASE \/ \E s \in Children : RetryChildAttempt(s)
           \/ \E a \in Agent, phase \in Phase : RetryTransient(a, phase)
           \/ RetrySynthesis
  <2>1. PICK a, phase : AppendRetry(a, phase)
    BY <1>6 DEF RetryChildAttempt, RetryTransient, RetrySynthesis, RetryAttemptPhase
  <2>2. QED BY <1>2, <1>3, <2>1 DEF AppendRetry, Bump, RunRow
<1>7. CASE \/ \E w \in Writers, verdict \in {"passed", "failed"} : PutVerification(run, verdict)
           \/ \E s \in Reviewers, verdict \in {"clean", "blocking"} : PutReview(run, s, verdict)
  BY <1>2, <1>7 DEF PutVerification, PutReview, CompareAndSet
<1>8. CASE StartSynthesis(run)
  BY <1>2, <1>3, <1>8 DEF StartSynthesis
<1>9. CASE PutResultValidation \/ UNCHANGED rows
  BY <1>2, <1>9 DEF PutResultValidation, rows
<1>10. CASE MayComplete /\ PutResult(run)
  BY <1>2, <1>3, <1>10 DEF MayComplete, PutResult
<1>11. CASE \/ \E status \in Terminal \ {"succeeded"}, error \in Error : Terminate(run, status, error)
            \/ InterruptRunning
  BY <1>2, <1>3, <1>11 DEF Terminate, CompareAndSet, InterruptRunning, Terminal
<1>12. QED
  BY <1>1, <1>4, <1>5, <1>6, <1>7, <1>8, <1>9, <1>10, <1>11 DEF RowStep

LEMMA StepKeepsEvidence ==
    ASSUME RowInv, PlanIsTeam, EvidenceOfTeam, RowStep \/ UNCHANGED rows
    PROVE  EvidenceOfTeam'
<1>1. CASE UNCHANGED <<verification, validation>>
  BY <1>1 DEF EvidenceOfTeam
<1>2. CASE \E w \in Writers, verdict \in {"passed", "failed"} :
              MayVerify(w) /\ PutVerification(run, verdict)
  <2>1. PICK w \in Slot : Purpose[w] = "workspace_write"
    BY <1>2, PlannedSlots DEF Writers
  <2>2. QED BY <1>2, <2>1 DEF PutVerification, EvidenceOfTeam
<1>3. CASE Writers = {} /\ MayValidate /\ PutResultValidation
  <2>1. Children = Slot
    BY <1>3 DEF MayValidate, PlanIsTeam, Children
  <2>2. \A s \in Slot : Purpose[s] # "workspace_write"
    BY <1>3, <2>1 DEF Writers
  <2>3. QED BY <1>3, <2>2 DEF PutResultValidation, EvidenceOfTeam
<1>4. CASE \/ \E s \in Children : RetryChildAttempt(s)
           \/ \E a \in Agent, phase \in Phase : RetryTransient(a, phase)
           \/ RetrySynthesis
  BY <1>1, <1>4
     DEF RetryChildAttempt, RetryTransient, RetrySynthesis, RetryAttemptPhase, AppendRetry
<1>5. QED
  BY <1>1, <1>2, <1>3, <1>4
     DEF RowStep, PutPlan, StartChild, FinishChild, FailChild, PutReview, StartSynthesis,
         PutResult, Terminate, InterruptRunning, rows

LEMMA CreateHistories ==
    ASSUME Create PROVE HistoryInv
<1>1. /\ Main \in Agent /\ Main \notin Slot
      /\ attempts[Main] = <<Row("planning")>> /\ agent[Main] = "running"
      /\ \A s \in Slot : attempts[s] = <<>> /\ agent[s] = "absent"
  BY KernelAssumption DEF Create, Agent
<1>2. Len(<<Row("planning")>>) = 1 /\ <<Row("planning")>>[1] = Row("planning")
  OBVIOUS
<1>3. MainAttempts(attempts[Main], "running", 1, 0)
  BY <1>1, <1>2 DEF MainAttempts, InPhase, Row
<1>4. Histories
  BY <1>1, <1>3 DEF Histories, ChildTale, MainTale
<1>5. QED BY <1>1, <1>4 DEF HistoryInv, PlanIsTeam, EvidenceOfTeam, Create

(* The Attempts of an AgentRun that succeeded, and of a Main that did. *)
LEMMA ChildAccepted ==
    ASSUME NEW h \in Seq(AttemptRow), ChildTale(h, "succeeded")
    PROVE  AttemptsAccepted(h) /\ Len(h) \in 1 .. 2 /\ InPhase(h, "delegate", 1, Len(h))
<1>1. /\ Len(h) \in 1 .. 2 /\ DOMAIN h = 1 .. Len(h) /\ h[Len(h)].status = "succeeded"
      /\ \A i \in 1 .. Len(h) : h[i].phase = "delegate"
      /\ Len(h) = 2 => h[1].status = "failed"
  BY LenProperties DEF ChildTale, InPhase
<1>2. ASSUME NEW i \in 1 .. Len(h), i # Len(h)
      PROVE  Excused(h, i)
  <2>1. Len(h) = 2 /\ i = 1
    <3>1. Len(h) \in 1 .. 2
      BY <1>1
    <3>2. QED BY <1>2, <3>1, OneBefore
  <2>2. PhaseAttempts(h, "delegate") = 1 .. Len(h)
    BY <1>1 DEF PhaseAttempts
  <2>3. Cardinality(1 .. Len(h)) = Len(h)
    BY <1>1, UpTo
  <2>4. 2 \in i + 1 .. Len(h) /\ h[2].phase = h[i].phase
    BY <1>1, <2>1
  <2>5. QED BY <1>1, <2>1, <2>2, <2>3, <2>4 DEF Excused
<1>3. AttemptsAccepted(h)
  BY <1>1, <1>2 DEF AttemptsAccepted
<1>4. QED BY <1>1, <1>3 DEF ChildTale

LEMMA MainAccepted ==
    ASSUME NEW h \in Seq(AttemptRow), MainTale(h, "succeeded")
    PROVE  AttemptsAccepted(h) /\ MainSequence(h)
<1>1. PICK p \in 1 .. 2, q \in 0 .. 2 : MainAttempts(h, "succeeded", p, q)
  BY DEF MainTale
<1>2. /\ DOMAIN h = 1 .. p + q /\ Len(h) = p + q /\ q \in 1 .. 2
      /\ \A i \in 1 .. p : h[i].phase = "planning"
      /\ \A i \in p + 1 .. p + q : h[i].phase = "synthesis"
  BY <1>1, LenProperties DEF MainAttempts, InPhase
<1>3. /\ p = 2 => h[1].status = "failed"
      /\ h[p].status = "succeeded" /\ h[p + q].status = "succeeded"
      /\ q = 2 => h[p + 1].status = "failed"
  BY <1>1, <1>2 DEF MainAttempts
<1>4. /\ Cardinality(PhaseAttempts(h, "planning")) = p
      /\ Cardinality(PhaseAttempts(h, "synthesis")) = q
  BY <1>1, MainPhases
<1>5. p = 2 => Excused(h, 1)
  <2>1. ASSUME p = 2 PROVE 2 \in 1 + 1 .. Len(h) /\ h[2].phase = "planning" /\ h[1].phase = "planning"
    BY <1>2, <2>1
  <2>2. QED BY <1>3, <1>4, <2>1 DEF Excused
<1>6. q = 2 => Excused(h, p + 1)
  <2>1. ASSUME q = 2
        PROVE  /\ p + 2 \in p + 1 + 1 .. Len(h)
               /\ h[p + 2].phase = "synthesis" /\ h[p + 1].phase = "synthesis"
    BY <1>2, <2>1
  <2>2. QED BY <1>3, <1>4, <2>1 DEF Excused
<1>7. ASSUME NEW i \in 1 .. p + q
      PROVE  h[i].status = "succeeded" \/ Excused(h, i)
  <2>1. \/ i = p \/ i = p + q \/ (p = 2 /\ i = 1) \/ (q = 2 /\ i = p + 1)
    BY <1>2, <1>7
  <2>2. QED BY <1>3, <1>5, <1>6, <2>1
<1>8. AttemptsAccepted(h)
  BY <1>2, <1>7 DEF AttemptsAccepted
<1>9. MainSequence(h)
  BY <1>1, <1>2 DEF MainSequence, MainAttempts
<1>10. QED BY <1>8, <1>9

LEMMA HistoriesAccepted ==
    ASSUME RowInv, HistoryInv, run.status = "succeeded"
    PROVE  Accepted \/ ProducerRetried
<1>1. /\ plan = {Slot} /\ Children = Slot /\ Cardinality(Slot) <= MaxChildren
      /\ Cardinality({s \in Slot : Purpose[s] = "workspace_write"}) <= MaxWriters
  BY DEF HistoryInv, PlanIsTeam, Children
<1>2. Cardinality(plan) = 1
  BY <1>1, FS_Singleton
<1>3. /\ \A s \in Slot : agent[s] = "succeeded"
      /\ agent[Main] = "succeeded" /\ result
      /\ Writers # {} => verification = "passed"
      /\ verification = "none" => validation = "passed"
      /\ \A s \in Reviewers : reviews[s] = "clean"
  BY <1>1 DEF RowInv, SucceededOnEvidence
<1>4. verification # "failed" /\ verification \in {"none", "passed", "failed"}
      /\ validation \in {"none", "passed"}
  BY DEF RowInv, RowsTypeOK, AdverseEvidenceIsFatal
<1>5. /\ attempts[Main] \in Seq(AttemptRow)
      /\ \A s \in Slot : attempts[s] \in Seq(AttemptRow)
  BY PlannedSlots DEF RowInv, RowsTypeOK
<1>6. AttemptsAccepted(attempts[Main]) /\ MainSequence(attempts[Main])
  BY <1>3, <1>5, MainAccepted DEF HistoryInv, Histories
<1>7. ASSUME NEW s \in Slot
      PROVE  /\ AttemptsAccepted(attempts[s]) /\ Len(attempts[s]) \in 1 .. 2
             /\ InPhase(attempts[s], "delegate", 1, Len(attempts[s]))
  BY <1>3, <1>5, ChildAccepted DEF HistoryInv, Histories
<1>8. {s \in Slot : agent[s] # "absent"} = Children
  BY <1>1, <1>3
<1>9. Writers = {s \in Slot : Purpose[s] = "workspace_write"}
  BY <1>1 DEF Writers
<1>10. ProducerRetried \/ \A s \in Children : ChildSequence(s, attempts[s])
  BY <1>1, <1>7 DEF ProducerRetried, ChildSequence
<1>11. (\A s \in Children : ChildSequence(s, attempts[s])) => RuntimeAccepted
  BY <1>1, <1>2, <1>3, <1>6, <1>7, <1>8, <1>9 DEF RuntimeAccepted
<1>12. verification # "none" <=> validation = "none"
  <2>1. verification # "none" => validation = "none"
    BY <1>4 DEF HistoryInv, EvidenceOfTeam
  <2>2. QED BY <1>3, <2>1
<1>13. ResultAccepted /\ CandidateAccepted
  BY <1>3, <1>4, <1>12 DEF ResultAccepted, CandidateAccepted
<1>14. QED BY <1>10, <1>11, <1>13 DEF Accepted

(* What an execution calls a success the acceptance of the release accepts,
   whatever retries of Main and of the Reviewers the run got there with, unless
   a producer needed a second Attempt. *)
THEOREM SuccessOfDriverIsAccepted ==
    ASSUME AtMostOneRetry PROVE Spec => []SuccessIsAccepted
<1>1. Init => HistoryInv
  BY CreateHistories DEF Init
<1>2. Inv /\ HistoryInv /\ [Next]_vars => HistoryInv'
  BY StepIsRowStep, StepKeepsHistories, StepKeepsPlan, StepKeepsEvidence DEF Inv, HistoryInv
<1>3. Inv /\ HistoryInv => SuccessIsAccepted
  BY HistoriesAccepted DEF Inv, SuccessIsAccepted
<1>4. QED BY <1>1, <1>2, <1>3, Invariance, PTL DEF Spec
=============================================================================
