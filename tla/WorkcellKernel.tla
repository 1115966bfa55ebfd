--------------------------- MODULE WorkcellKernel ---------------------------
(***************************************************************************)
(* The Workcell execution kernel under concurrent callers.  A kernel call  *)
(* of WorkcellExecutionModule first reads the run tree and checks it, then *)
(* writes in one SQLite transaction.  Nothing in the kernel serialises its *)
(* callers, so the two halves are separate steps here: Begin* reads and    *)
(* checks, Commit* is the transaction.  tree() reads the run row first, so *)
(* a row of another table that is newer than the run row comes with a      *)
(* newer version and the compare-and-set fails: reading everything at once *)
(* loses no committed behaviour.                                           *)
(***************************************************************************)
EXTENDS WorkcellStore

CONSTANT Client   \* concurrent callers of the kernel

VARIABLE call     \* what each caller has read and not yet written

vars == <<run, agent, attempts, plan, verification, validation, reviews,
          result, clock, call>>

Op == {"idle", "plan", "start", "verify", "review", "synthesize", "validate",
       "complete", "cancel", "fail", "timeout"}

Call(op, slots, verdict) ==
    [op |-> op, seen |-> run, slots |-> slots, verdict |-> verdict]
Idle == [op |-> "idle", seen |-> [status |-> "planning", version |-> 0, error |-> "none"],
         slots |-> {}, verdict |-> "none"]

Init == Create /\ call = [c \in Client |-> Idle]

-----------------------------------------------------------------------------
(* Begin* : a caller reads the tree; the check passed, the write is next. *)

Begin(c, k) ==
    /\ call[c].op = "idle"
    /\ call' = [call EXCEPT ![c] = k]
    /\ UNCHANGED <<rows, clock>>

BeginPlan(c, assigned) ==
    clock # "expired" /\ MayPlan(assigned) /\ Begin(c, Call("plan", assigned, "none"))
BeginStart(c, s) ==
    clock # "expired" /\ MayStart(s) /\ Begin(c, Call("start", {s}, "none"))
BeginVerify(c, w, verdict) == MayVerify(w) /\ Begin(c, Call("verify", {w}, verdict))
BeginReview(c, s, verdict) == MayReview(s) /\ Begin(c, Call("review", {s}, verdict))
BeginSynthesize(c) ==
    clock # "expired" /\ MaySynthesize /\ Begin(c, Call("synthesize", {}, "none"))
BeginValidate(c) == MayValidate /\ Begin(c, Call("validate", {}, "none"))
BeginComplete(c) == MayComplete /\ Begin(c, Call("complete", {}, "none"))
(* Mutant: only a second cancellation is refused. *)
BeginCancelTwice(c) == run.status # "cancelled" /\ Begin(c, Call("cancel", {}, "none"))
BeginCancel(c) == ~Finished /\ Begin(c, Call("cancel", {}, "none"))
BeginFail(c) == ~Finished /\ Begin(c, Call("fail", {}, "none"))
(* submit_delegation_plan, start_child and start_synthesis past the deadline. *)
EnsureDeadline(c) ==
    clock = "expired" /\ ~Finished /\ Begin(c, Call("timeout", {}, "none"))

-----------------------------------------------------------------------------
(* Commit* : the transaction of a call that has passed its check. *)

Write(c, op) ==
    call[c].op = op /\ call' = [call EXCEPT ![c] = Idle] /\ UNCHANGED clock

CommitPlan(c) == Write(c, "plan") /\ PutPlan(call[c].seen, call[c].slots)
CommitStart(c) == Write(c, "start") /\ \E s \in call[c].slots : StartChild(s)
CommitVerify(c) == Write(c, "verify") /\ PutVerification(call[c].seen, call[c].verdict)
CommitReview(c) ==
    Write(c, "review") /\ \E s \in call[c].slots : PutReview(call[c].seen, s, call[c].verdict)
CommitSynthesize(c) == Write(c, "synthesize") /\ StartSynthesis(call[c].seen)
CommitValidate(c) == Write(c, "validate") /\ PutResultValidation
CommitComplete(c) == Write(c, "complete") /\ PutResult(call[c].seen)
CommitCancel(c) ==
    Write(c, "cancel") /\ Terminate(call[c].seen, "cancelled", "WORKCELL_CANCELLED")
CommitFail(c) == Write(c, "fail") /\ Terminate(call[c].seen, "failed", "WORKCELL_FAILED")
CommitTimeout(c) ==
    /\ Write(c, "timeout")
    /\ Terminate(call[c].seen, "timed_out", "WORKCELL_WALL_CLOCK_BUDGET_EXCEEDED")
(* The transaction raises (conflict, UNIQUE, database locked) and rolls back. *)
Abort(c) ==
    /\ call[c].op # "idle"
    /\ call' = [call EXCEPT ![c] = Idle]
    /\ UNCHANGED <<rows, clock>>

(* finish and retry of a Child are made by the one coroutine that drives it;
   the row it read cannot change under it except to leave "running", which
   the transaction checks, so read and write are one step. *)
ChildStep(s) ==
    /\ s \in Children
    /\ \/ FinishChild(s)
       \/ FailChild(s, "CHILD_AGENT_FAILED")
       \/ Purpose[s] = "review" /\ FailChild(s, InvalidReview)
       \/ RetryChildAttempt(s)
    /\ UNCHANGED <<clock, call>>

RetryStep ==
    /\ \/ \E a \in Children \cup {Main}, phase \in Phase : RetryTransient(a, phase)
       \/ RetrySynthesis
    /\ UNCHANGED <<clock, call>>

(* The process dies and starts again: pending calls are lost, then
   recover_interrupted_attempts runs before anything else. *)
Restart ==
    /\ call' = [c \in Client |-> Idle]
    /\ \/ InterruptRunning
       \/ (\A a \in Agent : Open(attempts[a]) = {}) /\ UNCHANGED rows
    /\ UNCHANGED clock

Deadline == Tick /\ UNCHANGED <<rows, call>>

BeginStep(c) ==
    \/ \E assigned \in SUBSET Slot : BeginPlan(c, assigned)
    \/ \E s \in Slot : \/ BeginStart(c, s)
                       \/ \E v \in {"passed", "failed"} : BeginVerify(c, s, v)
                       \/ \E v \in {"clean", "blocking"} : BeginReview(c, s, v)
    \/ BeginSynthesize(c) \/ BeginValidate(c) \/ BeginComplete(c)
    \/ BeginCancel(c) \/ BeginFail(c) \/ EnsureDeadline(c)

CommitStep(c) ==
    \/ CommitPlan(c) \/ CommitStart(c) \/ CommitVerify(c) \/ CommitReview(c)
    \/ CommitSynthesize(c) \/ CommitValidate(c) \/ CommitComplete(c)
    \/ CommitCancel(c) \/ CommitFail(c) \/ CommitTimeout(c) \/ Abort(c)

Next ==
    \/ \E c \in Client : BeginStep(c) \/ CommitStep(c)
    \/ \E s \in Slot : ChildStep(s)
    \/ RetryStep \/ Restart \/ Deadline

Spec == Init /\ [][Next]_vars
-----------------------------------------------------------------------------
(* Properties *)

Calls ==
    {k \in [op : Op, seen : RunRow, slots : SUBSET Slot,
            verdict : {"none", "passed", "failed", "clean", "blocking"}] :
        /\ k.op = "verify" => k.slots # {} /\ k.verdict \in {"passed", "failed"}
        /\ k.op = "review" => k.verdict \in {"clean", "blocking"}}

(* Every variable stays in its domain. *)
TypeOK == RowsTypeOK /\ call \in [Client -> Calls]

(* What the check of a call has established. *)
StillAllowed(k) ==
    /\ k.op = "plan" => MayPlan(k.slots)
    /\ k.op = "verify" => \A w \in k.slots : MayVerify(w)
    /\ k.op = "review" => \A s \in k.slots : MayReview(s)
    /\ k.op = "synthesize" => MaySynthesize
    /\ k.op = "complete" => MayComplete
    /\ k.op \in {"cancel", "fail", "timeout"} => ~Finished

(* The compare-and-set on the run version protects the whole tree a caller has
   read, rows of other tables included: while the version it read is current
   everything its call was allowed for still holds, so no call commits on stale
   evidence. *)
CurrentCallIsValid ==
    \A c \in Client : LET k == call[c] IN k.op # "idle" =>
        /\ k.seen.version <= run.version
        /\ k.seen.version = run.version => k.seen = run /\ StillAllowed(k)
        /\ k.op = "start" => k.slots \subseteq Children
        /\ k.op = "review" => k.slots \subseteq Reviewers

(* A succeeded run is final: no late call, retry, failure or restart changes
   its status, its agents, its Attempts or its evidence. *)
SucceededIsFinal ==
    [][run.status = "succeeded" => UNCHANGED <<run, agent, attempts, plan, verification, reviews, result>>]_vars

-----------------------------------------------------------------------------
(* The kernel implements the promise it makes to the pipeline. *)

(* One verdict per WorkcellRun, reached on the evidence WorkcellContract asks
   for: every step of the kernel is a step of the contract or changes nothing
   the contract speaks of. *)
ImplementsContract == Contract!Spec
=============================================================================
