---------------------------- MODULE WorkcellStore ----------------------------
(***************************************************************************)
(* The rows of one WorkcellRun and what may be done to them: the run, its  *)
(* Main AgentRun, one Child AgentRun per planned delegate slot, their      *)
(* Attempts, and the frozen evidence (plan, verification, reviews, result  *)
(* validation, result).  Every transaction of                              *)
(* SQLiteWorkcellExecutionRepository is one operator; May* are the checks  *)
(* WorkcellExecutionModule makes on the tree it has read before it opens   *)
(* the transaction.  WorkcellKernel lets concurrent callers use them,      *)
(* StageDriver uses them in the order of one stage execution.              *)
(***************************************************************************)
EXTENDS Naturals, Sequences, FiniteSets

CONSTANTS
    Slot,                 \* delegate slots frozen in the Workcell snapshot
    Purpose,              \* frozen purpose of each slot
    Main,                 \* the Main AgentRun
    MaxChildren,          \* DelegationPolicy.max_children
    MaxConcurrency,       \* DelegationPolicy.max_concurrency
    MaxWriters,           \* DelegationPolicy.max_writers
    MaxAttempts,          \* max_attempts of the invalid-output retries
    MaxTransientAttempts  \* DelegationPolicy.max_transient_attempts

SlotPurpose == {"workspace_write", "artifact", "review"}

ASSUME KernelAssumption ==
    /\ IsFiniteSet(Slot) /\ Main \notin Slot
    /\ Purpose \in [Slot -> SlotPurpose]
    /\ MaxChildren \in Nat /\ MaxWriters \in Nat
    /\ MaxConcurrency \in Nat \ {0}
    /\ MaxAttempts \in Nat \ {0}
    /\ MaxTransientAttempts \in Nat \ {0}

VARIABLES
    run,           \* the workcell_runs row: status, version, error_code
    agent,         \* status of each AgentRun ("absent" until it is inserted)
    attempts,      \* the agent_attempts rows of each AgentRun, by ordinal
    plan,          \* the DelegationPlan rows of the run, each a set of slots
    verification,  \* the CandidateVerification row
    validation,    \* the WorkcellResultValidation row
    reviews,       \* the ReviewArtifact row of each reviewer
    result,        \* TRUE when the WorkcellResult row exists
    clock          \* wall clock against deadline_at

rows == <<run, agent, attempts, plan, verification, validation, reviews, result>>

-----------------------------------------------------------------------------
(* Domains *)

Agent == Slot \cup {Main}
Terminal == {"succeeded", "failed", "cancelled", "timed_out", "interrupted"}
RunStatus == {"planning", "delegating", "verifying", "reviewing",
              "synthesizing"} \cup Terminal
Unfinished == {"planned", "running", "waiting"}
AgentStatus == {"absent"} \cup Unfinished \cup Terminal
Phase == {"planning", "delegate", "synthesis"}
AttemptRow == [phase : Phase, status : {"running"} \cup Terminal]
InvalidReview == "INVALID_REVIEW"   \* any member of INVALID_REVIEW_CODES
Error == {"none", InvalidReview, "CHILD_AGENT_FAILED", "MACHINE_VERIFICATION_FAILED",
          "WORKCELL_BLOCKING_REVIEW", "WORKCELL_CANCELLED", "WORKCELL_FAILED",
          "WORKCELL_WALL_CLOCK_BUDGET_EXCEEDED", "CODEX_ATTEMPT_INTERRUPTED"}
RunRow == [status : RunStatus, version : Nat, error : Error]
Children == UNION plan
Writers == {s \in Children : Purpose[s] = "workspace_write"}
Reviewers == {s \in Children : Purpose[s] = "review"}
Finished == run.status \in Terminal

(* Mutant: the Attempt takes over the status of its AgentRun. *)
PlannedRow(phase) == [phase |-> phase, status |-> "planned"]
Row(phase) == [phase |-> phase, status |-> "running"]
Open(s) == {i \in DOMAIN s : s[i].status = "running"}
Close(s, status) ==
    [i \in DOMAIN s |-> IF s[i].status = "running"
                          THEN [s[i] EXCEPT !.status = status] ELSE s[i]]
ClosePhase(s, phase, status) ==
    [i \in DOMAIN s |-> IF s[i].status = "running" /\ s[i].phase = phase
                          THEN [s[i] EXCEPT !.status = status] ELSE s[i]]
PhaseAttempts(s, phase) == {i \in DOMAIN s : s[i].phase = phase}

-----------------------------------------------------------------------------
(* create: the run, its Main AgentRun and the first planning Attempt. *)

Create ==
    /\ run = [status |-> "planning", version |-> 1, error |-> "none"]
    /\ agent = [a \in Agent |-> IF a = Main THEN "running" ELSE "absent"]
    /\ attempts = [a \in Agent |-> IF a = Main THEN <<Row("planning")>> ELSE <<>>]
    /\ plan = {}
    /\ verification = "none"
    /\ validation = "none"
    /\ reviews = [s \in Slot |-> "none"]
    /\ result = FALSE
    /\ clock = "ample"

-----------------------------------------------------------------------------
(* The checks a call makes on the tree it has read. *)

MayPlan(assigned) ==
    /\ run.status = "planning"
    /\ Cardinality(assigned) <= MaxChildren
    /\ Cardinality({s \in assigned : Purpose[s] = "workspace_write"}) <= MaxWriters

MayStart(s) == s \in Children /\ ~Finished

MayVerify(w) ==
    /\ run.status \in {"delegating", "verifying"}
    /\ verification = "none"
    /\ w \in Writers /\ agent[w] = "succeeded"

CollectingLaunchedBatch ==
    run.status = "failed" /\ run.error \in {InvalidReview, "WORKCELL_BLOCKING_REVIEW"}

MayReview(s) ==
    /\ run.status = "reviewing" \/ CollectingLaunchedBatch
    /\ verification = "passed"
    /\ s \in Reviewers /\ agent[s] = "succeeded"

(* Mutant: any recorded reviews will do. *)
MaySynthesizeAnyReviews ==
    /\ ~Finished
    /\ \A s \in Children : agent[s] = "succeeded"
    /\ Writers # {} => verification = "passed"
    /\ \A s \in Slot : reviews[s] # "blocking"

MaySynthesize ==
    /\ ~Finished
    /\ \A s \in Children : agent[s] = "succeeded"
    /\ Writers # {} => verification = "passed"
    /\ {s \in Slot : reviews[s] # "none"} = Reviewers
    /\ \A s \in Slot : reviews[s] # "blocking"

MayValidate == run.status = "synthesizing" /\ verification = "none"

MayComplete ==
    /\ run.status = "synthesizing"
    /\ verification = "none" => validation = "passed"

-----------------------------------------------------------------------------
(* The transactions. *)

Bump == run' = [run EXCEPT !.version = @ + 1]
(* Mutant: the version read is not compared. *)
BlindWrite(seen, status, error) ==
    run' = [status |-> status, version |-> seen.version + 1, error |-> error]

(* _update_workcell: write what was read, unless the version has moved on. *)
CompareAndSet(seen, status, error) ==
    /\ run.version = seen.version
    /\ run' = [status |-> status, version |-> seen.version + 1, error |-> error]

PutPlan(seen, assigned) ==
    /\ run.status = "planning" /\ plan = {}
    /\ CompareAndSet(seen, "delegating", seen.error)
    /\ plan' = {assigned}
    /\ agent' = [a \in Agent |-> IF a \in assigned THEN "planned"
                                 ELSE IF a = Main /\ agent[a] = "running" THEN "waiting"
                                 ELSE agent[a]]
    /\ attempts' = [attempts EXCEPT ![Main] = ClosePhase(@, "planning", "succeeded")]
    /\ UNCHANGED <<verification, validation, reviews, result>>

RunningChildren == {s \in Children : agent[s] = "running"}

(* Mutant: the concurrency limit is not read again in the transaction. *)
StartChildUnbounded(s) ==
    /\ agent[s] = "planned"
    /\ Purpose[s] = "review" => verification = "passed"
    /\ agent' = [agent EXCEPT ![s] = "running"]
    /\ attempts' = [attempts EXCEPT ![s] = Append(@, Row("delegate"))]
    /\ Bump
    /\ UNCHANGED <<plan, verification, validation, reviews, result>>

(* Mutant: a Reviewer starts whatever the verification says. *)
StartChildUnverified(s) ==
    /\ agent[s] = "planned"
    /\ Cardinality(RunningChildren) < MaxConcurrency
    /\ agent' = [agent EXCEPT ![s] = "running"]
    /\ attempts' = [attempts EXCEPT ![s] = Append(@, Row("delegate"))]
    /\ Bump
    /\ UNCHANGED <<plan, verification, validation, reviews, result>>

StartChild(s) ==
    /\ agent[s] = "planned"
    /\ Cardinality(RunningChildren) < MaxConcurrency
    /\ Purpose[s] = "review" => verification = "passed"
    /\ agent' = [agent EXCEPT ![s] = "running"]
    /\ attempts' = [attempts EXCEPT ![s] = Append(@, Row("delegate"))]
    /\ Bump
    /\ UNCHANGED <<plan, verification, validation, reviews, result>>

(* finish_child, status = succeeded. *)
FinishChild(s) ==
    /\ agent[s] = "running"
    /\ agent' = [agent EXCEPT ![s] = "succeeded"]
    /\ attempts' = [attempts EXCEPT ![s] = Close(@, "succeeded")]
    /\ Bump
    /\ UNCHANGED <<plan, verification, validation, reviews, result>>

(* finish_child, status = failed: the run row is written whatever it holds,
   children not yet started and a waiting Main are cancelled, running siblings
   are left running. *)
FailChild(s, error) ==
    /\ agent[s] = "running"
    /\ agent' = [a \in Agent |-> IF a = s THEN "failed"
                                 ELSE IF agent[a] \in {"planned", "waiting"} THEN "cancelled"
                                 ELSE agent[a]]
    /\ attempts' = [attempts EXCEPT ![s] = Close(@, "failed")]
    /\ run' = [status |-> "failed", version |-> run.version + 1, error |-> error]
    /\ UNCHANGED <<plan, verification, validation, reviews, result>>

(* Mutant: the retry leaves the Attempt before it running. *)
AppendRetryBeside(a, phase) ==
    /\ attempts' = [attempts EXCEPT ![a] = Append(@, Row(phase))]
    /\ Bump
    /\ UNCHANGED <<agent, plan, verification, validation, reviews, result>>

AppendRetry(a, phase) ==
    /\ attempts' = [attempts EXCEPT ![a] = Append(Close(@, "failed"), Row(phase))]
    /\ Bump
    /\ UNCHANGED <<agent, plan, verification, validation, reviews, result>>

(* retry_child_attempt: an invalid review, or an invalid citation set. *)
RetryChildAttempt(s) ==
    /\ s \in Children /\ agent[s] = "running"
    /\ Open(attempts[s]) # {}
    /\ Len(attempts[s]) < MaxAttempts
    /\ AppendRetry(s, "delegate")

RetryAttemptPhase(a, phase, limit) ==
    /\ ~Finished
    /\ \E i \in Open(attempts[a]) : attempts[a][i].phase = phase
    /\ Cardinality(PhaseAttempts(attempts[a], phase)) < limit
    /\ AppendRetry(a, phase)

(* retry_transient_attempt: read-only phases, with budget left to run again. *)
RetryTransient(a, phase) ==
    /\ IF a = Main THEN phase \in {"planning", "synthesis"}
                   ELSE Purpose[a] = "review" /\ phase = "delegate"
    /\ MaxTransientAttempts # 1
    /\ clock = "ample"
    /\ RetryAttemptPhase(a, phase, MaxTransientAttempts)

RetrySynthesis ==
    /\ run.status = "synthesizing" /\ clock # "expired"
    /\ RetryAttemptPhase(Main, "synthesis", MaxAttempts)

(* Mutant: a failed verification is left for Main to weigh. *)
PutVerificationOpen(seen, verdict) ==
    /\ verification = "none"
    /\ CompareAndSet(seen, "reviewing", "none")
    /\ verification' = verdict
    /\ UNCHANGED <<agent, attempts, plan, validation, reviews, result>>

PutVerification(seen, verdict) ==
    /\ verification = "none"
    /\ IF verdict = "passed" THEN CompareAndSet(seen, "reviewing", "none")
                             ELSE CompareAndSet(seen, "failed", "MACHINE_VERIFICATION_FAILED")
    /\ verification' = verdict
    /\ UNCHANGED <<agent, attempts, plan, validation, reviews, result>>

(* Mutant: a blocking review is recorded and the run goes on. *)
PutReviewNonBlocking(seen, s, verdict) ==
    /\ reviews[s] = "none"
    /\ IF seen.status = "failed" THEN CompareAndSet(seen, "failed", seen.error)
       ELSE CompareAndSet(seen, "reviewing", "none")
    /\ reviews' = [reviews EXCEPT ![s] = verdict]
    /\ UNCHANGED <<agent, attempts, plan, verification, validation, result>>

(* Mutant: a clean review collected after a failure reopens the run. *)
PutReviewReopens(seen, s, verdict) ==
    /\ reviews[s] = "none"
    /\ IF verdict = "blocking" THEN CompareAndSet(seen, "failed", "WORKCELL_BLOCKING_REVIEW")
                               ELSE CompareAndSet(seen, "reviewing", "none")
    /\ reviews' = [reviews EXCEPT ![s] = verdict]
    /\ UNCHANGED <<agent, attempts, plan, verification, validation, result>>

PutReview(seen, s, verdict) ==
    /\ reviews[s] = "none"
    /\ IF seen.status = "failed" THEN CompareAndSet(seen, "failed", seen.error)
       ELSE IF verdict = "blocking"
              THEN CompareAndSet(seen, "failed", "WORKCELL_BLOCKING_REVIEW")
              ELSE CompareAndSet(seen, "reviewing", "none")
    /\ reviews' = [reviews EXCEPT ![s] = verdict]
    /\ UNCHANGED <<agent, attempts, plan, verification, validation, result>>

StartSynthesis(seen) ==
    /\ agent[Main] = "waiting"
    /\ CompareAndSet(seen, "synthesizing", seen.error)
    /\ agent' = [agent EXCEPT ![Main] = "running"]
    /\ attempts' = [attempts EXCEPT ![Main] = Append(@, Row("synthesis"))]
    /\ UNCHANGED <<plan, verification, validation, reviews, result>>

PutResultValidation ==
    /\ validation = "none" /\ validation' = "passed"
    /\ UNCHANGED <<run, agent, attempts, plan, verification, reviews, result>>

PutResult(seen) ==
    /\ ~result
    /\ CompareAndSet(seen, "succeeded", seen.error)
    /\ result' = TRUE
    /\ agent' = [agent EXCEPT ![Main] = IF @ = "running" THEN "succeeded" ELSE @]
    /\ attempts' = [attempts EXCEPT ![Main] = ClosePhase(@, "synthesis", "succeeded")]
    /\ UNCHANGED <<plan, verification, validation, reviews>>

(* Mutant: only running AgentRuns end with their run. *)
TerminateRunning(seen, status, error) ==
    /\ CompareAndSet(seen, status, error)
    /\ agent' = [a \in Agent |-> IF agent[a] = "running" THEN status ELSE agent[a]]
    /\ attempts' = [a \in Agent |-> Close(attempts[a], status)]
    /\ UNCHANGED <<plan, verification, validation, reviews, result>>

(* Mutant: the Attempts of the AgentRuns are forgotten. *)
TerminateAgents(seen, status, error) ==
    /\ CompareAndSet(seen, status, error)
    /\ agent' = [a \in Agent |-> IF agent[a] \in Unfinished THEN status ELSE agent[a]]
    /\ UNCHANGED <<attempts, plan, verification, validation, reviews, result>>

(* _terminate: the run and everything unfinished under it end together. *)
Terminate(seen, status, error) ==
    /\ CompareAndSet(seen, status, error)
    /\ agent' = [a \in Agent |-> IF agent[a] \in Unfinished THEN status ELSE agent[a]]
    /\ attempts' = [a \in Agent |-> Close(attempts[a], status)]
    /\ UNCHANGED <<plan, verification, validation, reviews, result>>

(* interrupt_running_codex_attempts: no version is compared. *)
InterruptRunning ==
    /\ \E a \in Agent : Open(attempts[a]) # {}
    /\ attempts' = [a \in Agent |-> Close(attempts[a], "interrupted")]
    /\ agent' = [a \in Agent |-> IF agent[a] = "running" THEN "interrupted"
                                 ELSE IF agent[a] \in {"planned", "waiting"} THEN "cancelled"
                                 ELSE agent[a]]
    /\ run' = [status |-> "interrupted", version |-> run.version + 1,
               error |-> "CODEX_ATTEMPT_INTERRUPTED"]
    /\ UNCHANGED <<plan, verification, validation, reviews, result>>

-----------------------------------------------------------------------------
(* deadline_at comes closer: "short" is too little budget left for a transient
   retry (minimum_remaining_seconds), "expired" is past it. *)
Tick ==
    \/ clock = "ample" /\ clock' = "short"
    \/ clock = "short" /\ clock' = "expired"

-----------------------------------------------------------------------------
(* Properties of the rows *)

(* Every row stays in its domain. *)
RowsTypeOK ==
    /\ run \in RunRow
    /\ agent \in [Agent -> AgentStatus]
    /\ attempts \in [Agent -> Seq(AttemptRow)]
    /\ plan \in SUBSET SUBSET Slot
    /\ verification \in {"none", "passed", "failed"}
    /\ validation \in {"none", "passed"}
    /\ reviews \in [Slot -> {"none", "clean", "blocking"}]
    /\ result \in BOOLEAN
    /\ clock \in {"ample", "short", "expired"}

(* An AgentRun is running exactly while its newest Attempt is, and no other
   Attempt of it is: no phantom running Attempt under a finished AgentRun, and
   no running AgentRun without an observable Attempt, whatever retries,
   cancellations, timeouts and restarts have interleaved. *)
AttemptMatchesAgent ==
    \A a \in Agent :
        Open(attempts[a]) = IF agent[a] = "running" THEN {Len(attempts[a])} ELSE {}

(* A run succeeded, and its WorkcellResult row exists, only on complete
   evidence: every Child succeeded, a Writer's candidate passed machine
   verification, every Reviewer left a review and none of them blocks, and a
   run without a candidate has a passed validation; Main has succeeded too. *)
SucceededOnEvidence ==
    /\ result <=> run.status = "succeeded"
    /\ result =>
        /\ \A s \in Children : agent[s] = "succeeded"
        /\ agent[Main] = "succeeded"
        /\ Writers # {} => verification = "passed"
        /\ verification = "none" => validation = "passed"
        /\ \A s \in Reviewers : reviews[s] = "clean"

(* Main cannot override evidence against the candidate: once a failed
   verification or a blocking review is recorded the run is over, and not
   succeeded, from then on. *)
AdverseEvidenceIsFatal ==
    verification = "failed" \/ (\E s \in Slot : reviews[s] = "blocking")
        => run.status \in Terminal \ {"succeeded"}

(* A Reviewer has an Attempt, or a review on file, only for a candidate that
   machine verification passed. *)
ReviewAfterVerification ==
    \A s \in Slot :
        Purpose[s] = "review" /\ (attempts[s] # <<>> \/ reviews[s] # "none")
            => verification = "passed"

(* Cancelling, timing out or interrupting a run leaves nothing under it that
   could still start or still runs, whoever was in the middle of a call. *)
StoppedRunIsQuiet ==
    run.status \in {"cancelled", "timed_out", "interrupted"}
        => \A a \in Agent : agent[a] \notin Unfinished

(* Main and its Children together never have more Attempts at the provider
   than max_concurrency: Main runs only while no Child does. *)
ProviderLoadBounded ==
    /\ Cardinality({a \in Agent : agent[a] = "running"}) <= MaxConcurrency
    /\ agent[Main] = "running" => RunningChildren = {}

-----------------------------------------------------------------------------
(* What makes the properties above inductive. *)

(* A slot has no AgentRun until the plan that contains it is frozen. *)
UnplannedIsAbsent ==
    /\ \A s \in Slot \ Children : agent[s] = "absent"
    /\ run.status = "planning" => plan = {}

(* While the run plans or synthesizes Main runs, in that phase. *)
MainInPhase ==
    /\ run.status \in {"planning", "synthesizing"} => agent[Main] = "running"
    /\ \A i \in Open(attempts[Main]) :
          /\ run.status = "planning" => attempts[Main][i].phase = "planning"
          /\ run.status = "synthesizing" => attempts[Main][i].phase = "synthesis"

(* The evidence a result will rest on is complete before Main synthesizes, and
   nothing withdraws it. *)
SynthesisOnEvidence ==
    run.status \in {"synthesizing", "succeeded"} =>
        /\ \A s \in Children : agent[s] = "succeeded"
        /\ Writers # {} => verification = "passed"
        /\ \A s \in Reviewers : reviews[s] = "clean"

(* Only planned Reviewers leave reviews. *)
ReviewsOfReviewers == \A s \in Slot : reviews[s] # "none" => s \in Reviewers

RowInv ==
    /\ RowsTypeOK /\ AttemptMatchesAgent /\ UnplannedIsAbsent /\ MainInPhase
    /\ SynthesisOnEvidence /\ SucceededOnEvidence /\ AdverseEvidenceIsFatal
    /\ ReviewsOfReviewers /\ ReviewAfterVerification /\ StoppedRunIsQuiet

-----------------------------------------------------------------------------
(* What the rows look like to the pipeline. *)

Contract == INSTANCE WorkcellContract WITH
    outcome <- IF run.status = "succeeded" THEN "accepted"
               ELSE IF Finished THEN "refused" ELSE "open",
    team <- Children,
    verified <- verification,
    clean <- {s \in Slot : reviews[s] = "clean"},
    blocking <- {s \in Slot : reviews[s] = "blocking"}
=============================================================================
